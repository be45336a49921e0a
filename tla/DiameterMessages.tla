-------------------------- MODULE DiameterMessages --------------------------
(***************************************************************************)
(* Diameter messages and their AVPs (diameter_msg.c, diameter_avp.c): how  *)
(* an AVP is made and found, and how a message is turned into a buffer and *)
(* back.                                                                   *)
(*                                                                         *)
(* A buffer is a sequence of words of four bytes, hi the first byte and lo *)
(* the other three: every header is made of whole words and data is padded *)
(* to whole words with zeros.                                              *)
(***************************************************************************)
EXTENDS Naturals, Sequences, SequencesExt

(****************************** Words ************************************)

\* set_4bytes and get_4bytes; 16777216 is 2^24.
Word(n) == [hi |-> n \div 16777216, lo |-> n % 16777216]
Value(word) == word.hi * 16777216 + word.lo

Bytes(word) == <<word.hi, word.lo \div 65536, (word.lo \div 256) % 256, word.lo % 256>>

\* to_32x_len, in words.
Padded(len) == (len + 3) \div 4

\* The data of an AVP: its length in bytes and the words it fills.
Integer32(n) == [len |-> 4, words |-> <<Word(n)>>]

Byte(text, i) == IF i <= Len(text) THEN text[i] ELSE 0

\* A string, given as the sequence of its characters' codes.
Text(text) ==
  [len |-> Len(text),
   words |-> [i \in 1 .. Padded(Len(text)) |->
     [hi |-> Byte(text, 4 * i - 3),
      lo |-> Byte(text, 4 * i - 2) * 65536 + Byte(text, 4 * i - 1) * 256
               + Byte(text, 4 * i)]]]

Beyond == 255

\* What strlen and strcpy read from the words of a buffer: up to the first zero, and
\* beyond the buffer when there is none.
CString(words) ==
  LET bytes == [j \in 1 .. 4 * Len(words) |->
                 Bytes(words[(j + 3) \div 4])[((j - 1) % 4) + 1]]
      ends == {i \in DOMAIN bytes : bytes[i] = 0}
  IN IF ends = {} THEN Append(bytes, Beyond)
     ELSE SubSeq(bytes, 1, (CHOOSE i \in ends : \A j \in ends : i <= j) - 1)

(******************************* AVPs ************************************)

Vendor == 128       \* AAA_AVP_FLAG_VENDOR_SPECIFIC
Mandatory == 64     \* AAA_AVP_FLAG_MANDATORY

User_Name == 1
Auth_Application_Id == 258
Vendor_Specific_Application_Id == 260
Session_Id == 263
Origin_Host == 264
Vendor_Id == 266
Result_Code == 268
Destination_Realm == 283
Destination_Host == 293
Origin_Realm == 296

\* Codes whose flags set_avp_fields replaces.
BaseCodes ==
  {1, 25, 263, 283, 293, 264, 296, 27, 258, 262, 265, 266, 268, 270, 276, 278, 291, 257}

\* set_avp_fields: what is left of the flags of a base AVP is the P bit.
PBit(flags) == IF (flags \div 32) % 2 = 1 THEN 32 ELSE 0
AvpFlags(code, flags) ==
  IF code \in BaseCodes \cup {33, 269, 281}
  THEN (IF code \in BaseCodes \cup {33} THEN Mandatory ELSE 0)
         + (IF code \in BaseCodes \cup {281} THEN PBit(flags) ELSE 0)
  ELSE flags

HasVendor(flags) == flags >= Vendor

CreateAVP(code, flags, vendor, data) ==
  [code |-> code, flags |-> AvpFlags(code, flags), vendor |-> vendor, data |-> data]

\* AAAFindMatchingAVP from the head of a list on.
FindsAVP(avps, code, vendor) ==
  {i \in DOMAIN avps : avps[i].code = code /\ avps[i].vendor = vendor}
Has(avps, code, vendor) == FindsAVP(avps, code, vendor) # {}
FindAVP(avps, code, vendor) ==
  LET found == FindsAVP(avps, code, vendor)
  IN avps[CHOOSE i \in found : \A j \in found : i <= j]

\* AVP_HDR_SIZE, in words.
Header(flags) == IF HasVendor(flags) THEN 3 ELSE 2

Encoded(avp) ==
  <<Word(avp.code), [hi |-> avp.flags, lo |-> 4 * Header(avp.flags) + avp.data.len]>>
    \o (IF HasVendor(avp.flags) THEN <<Word(avp.vendor)>> ELSE <<>>) \o avp.data.words

\* AAAGroupAVPS; AAABuildMsgBuffer does the same after the header of the message.
GroupAVPS(avps) == FlattenSeq([i \in DOMAIN avps |-> Encoded(avps[i])])

\* The length of an AVP's data is only checked against the end of the buffer.
Fits(buf, i) ==
  LET header == Header(buf[i + 1].hi)
  IN /\ buf[i + 1].lo > 4 * header
     /\ buf[i + 1].lo - 4 * header <= 4 * (Len(buf) + 1 - i - header)

\* Where the AVP behind the one at position i begins.
NextAVP(buf, i) ==
  LET header == Header(buf[i + 1].hi)
  IN i + header + Padded(buf[i + 1].lo - 4 * header)

\* The AVP at position i: its data stays in the buffer, and rest is what follows
\* its first byte there.
Decoded(buf, i) ==
  LET flags == buf[i + 1].hi
      start == i + Header(flags)
      len == buf[i + 1].lo - 4 * Header(flags)
  IN [code |-> Value(buf[i]), flags |-> AvpFlags(Value(buf[i]), flags),
      vendor |-> IF HasVendor(flags) THEN Value(buf[i + 2]) ELSE 0,
      data |-> [len |-> len, words |-> SubSeq(buf, start, start + Padded(len) - 1)],
      rest |-> SubSeq(buf, start, Len(buf))]

\* AAAUngroupAVPS: the AVPs that could be read, and whether all of them could.
UngroupAVPS(buf) ==
  LET from[i \in 1 .. Len(buf) + 4] ==
        IF i > Len(buf) THEN [avps |-> <<>>, ok |-> TRUE]
        ELSE IF i + 2 > Len(buf) \/ ~Fits(buf, i) THEN [avps |-> <<>>, ok |-> FALSE]
        ELSE LET others == from[NextAVP(buf, i)]
             IN [avps |-> <<Decoded(buf, i)>> \o others.avps, ok |-> others.ok]
  IN from[1]

(****************************** Messages *********************************)

RequestBit == 128      \* the R bit of the flags
Proxyable == 64     \* Flag_Proxyable

\* AAABuildMsgBuffer.
BuildMsgBuffer(msg) ==
  LET body == GroupAVPS(msg.avps)
  IN <<[hi |-> 1, lo |-> 4 * (5 + Len(body))], [hi |-> msg.flags, lo |-> msg.code],
       Word(msg.app), Word(msg.hopbyhop), Word(msg.endtoend)>> \o body

Error == [code |-> 0, flags |-> 0, app |-> 0, hopbyhop |-> 0, endtoend |-> 0,
          avps |-> <<>>]

\* AAATranslateMessage.
TranslateMessage(buf) ==
  IF Len(buf) < 5 \/ buf[1].hi # 1 \/ buf[1].lo > 4 * Len(buf) THEN Error
  ELSE LET body == UngroupAVPS(SubSeq(buf, 6, buf[1].lo \div 4))
       IN IF ~body.ok THEN Error
          ELSE [code |-> buf[2].lo, flags |-> buf[2].hi, app |-> Value(buf[3]),
                hopbyhop |-> Value(buf[4]), endtoend |-> Value(buf[5]),
                avps |-> body.avps]

\* What AAANewMessage begins every message with: identity is that of this peer.
OwnAVPs(session, identity) ==
  <<CreateAVP(Session_Id, 0, 0, session), CreateAVP(Origin_Host, 0, 0, identity.host),
    CreateAVP(Origin_Realm, 0, 0, identity.realm)>>

\* AAACreateRequest.
CreateRequest(app, code, flags, session, identity, ids) ==
  [code |-> code, app |-> app, flags |-> RequestBit + flags,
   hopbyhop |-> ids[1], endtoend |-> ids[2], avps |-> OwnAVPs(session, identity)]

\* AAACreateResponse, for a request with a session and without Proxy-Info.
CreateResponse(req, identity) ==
  LET of(code) == FindAVP(req.avps, code, 0).data
  IN [code |-> req.code, app |-> req.app,
      flags |-> IF (req.flags \div Proxyable) % 2 = 1 THEN Proxyable ELSE 0,
      hopbyhop |-> req.hopbyhop, endtoend |-> req.endtoend,
      avps |-> OwnAVPs(of(Session_Id), identity)
                 \o <<CreateAVP(Destination_Host, Mandatory, 0, of(Origin_Host)),
                      CreateAVP(Destination_Realm, Mandatory, 0, of(Origin_Realm))>>]

\* Ro_add_avp and Rf_add_avp, for AVPs without a vendor.
AddAVP(msg, code, data) ==
  [msg EXCEPT !.avps = Append(@, CreateAVP(code, Mandatory, 0, data))]

AddAVPs(msg, pairs) ==
  [msg EXCEPT !.avps = @ \o [i \in DOMAIN pairs |->
     CreateAVP(pairs[i][1], Mandatory, 0, pairs[i][2])]]

\* Ro_add_vendor_specific_appid and its copies, without an accounting application.
AddVendorSpecificAppId(msg, vendor, auth) ==
  LET group == GroupAVPS(<<CreateAVP(Vendor_Id, Mandatory, 0, Integer32(vendor)),
                           CreateAVP(Auth_Application_Id, Mandatory, 0, Integer32(auth))>>)
  IN AddAVP(msg, Vendor_Specific_Application_Id,
            [len |-> 4 * Len(group), words |-> group])
=============================================================================
