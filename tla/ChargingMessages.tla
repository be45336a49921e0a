-------------------------- MODULE ChargingMessages --------------------------
(***************************************************************************)
(* A charging request on its way: the message that the charging trigger    *)
(* function (CTF) makes of it (Ro_CCR, Rf_ACR), what the server            *)
(* understands (process_incoming with Ro_CCA in the online charging        *)
(* system, with Rf_ACA in the charging data function), its answer, and     *)
(* what the CTF makes of that (process_incoming).                          *)
(*                                                                         *)
(* Three kinds of request: Ro to the OCS, Rf to the CDF as the CTF of the  *)
(* repository sends it, and Client to the CDF from a program that speaks   *)
(* the interface of the CDF, which is not part of the repository.          *)
(***************************************************************************)
EXTENDS DiameterMessages

CONSTANTS
  Subscribers,  \* names of users, sequences of characters
  CallIds,      \* call ids
  Credits,      \* values of a credit
  Identity,     \* the host and realm of the CTF, the OCS and the CDF
  Session,      \* the Session-Id of the request
  Ids,          \* its two identifiers
  Unsaid

\* A number of 32 bits. Data has at least one byte: an AVP without any is refused.
IsWord(n) == n \in Nat /\ Word(n).hi < 256
BufferWord == {w \in [hi : Nat, lo : Nat] : w.hi < 256 /\ w.lo < 16777216}
IsData(data) ==
  /\ data = [len |-> data.len, words |-> data.words]
  /\ data.len \in Nat \ {0} /\ data.len < 65536
  /\ data.words \in Seq(BufferWord) /\ Len(data.words) = Padded(data.len)

\* Names are not empty and have no zero in them. The bounds of 16 bits keep every length
\* below 2^24, where set_3bytes would cut it.
ASSUME MessagesAssumption ==
  /\ \A user \in Subscribers : user \in Seq(1 .. 255) /\ user # <<>> /\ Len(user) < 65536
  /\ \A n \in CallIds \cup Credits : IsWord(n)
  /\ 0 \in Credits
  /\ IsWord(Ids[1]) /\ IsWord(Ids[2])
  /\ IsData(Session)
  /\ \A p \in {"CTF", "OCS", "CDF"} : IsData(Identity[p].host) /\ IsData(Identity[p].realm)

VARIABLES
  service,   \* the kind of request
  progress,  \* how far it is
  ask,       \* what is requested
  wire,      \* the message under way, the request or its answer
  heard,     \* what the server called msg_handler with
  grant,     \* what msg_handler returned
  told       \* what the CTF called event_handler with

chargeVars == <<service, progress, ask, wire, heard, grant, told>>

IMS_Ro == 16777256
IMS_vendor_id_3GPP == 10415
IMS_CCR == 272
IMS_ACR == 271
SUCCESS == 2001
UNABLE_TO_COMPLY == 5012

\* IMS_Rf in the CTF and in the CDF.
CtfRf == 16777218
CdfRf == 3

Service_context_Id == 402
CC_Request_Type == 416
CC_Request_Number == 417
Call_Record_Id == 420
Credit_onceoff == 421
Credit_persec == 422
Credit_perMbyte == 423
Subscriber == 424
Accounting_Record_Type == 480
Accounting_Record_Number == 485

\* START, INTERIM, STOP and EVENT in the CTF and the OCS, and in the CDF.
CtfTypes == <<"START", "INTERIM", "STOP", "EVENT">>
CdfTypes == <<"EVENT", "START", "INTERIM", "STOP">>
Number(types, type) == CHOOSE n \in DOMAIN types : types[n] = type

\* The strings "10" and "100" of event_handler.
Ten == Text(<<49, 48>>)
Hundred == Text(<<49, 48, 48>>)

NoCredits == <<0, 0, 0>>

CreditAVPs(credits) ==
  <<<<Credit_onceoff, Integer32(credits[1])>>, <<Credit_persec, Integer32(credits[2])>>,
    <<Credit_perMbyte, Integer32(credits[3])>>>>

(**************************** Requests ***********************************)

\* A mutant: the subscriber comes last.
Ro_CCRSubscriberLast(a) ==
  AddAVPs(CreateRequest(IMS_Ro, IMS_CCR, Proxyable, Session, Identity.CTF, Ids),
    <<<<CC_Request_Type, Integer32(Number(CtfTypes, a.type))>>,
      <<Call_Record_Id, Integer32(a.cid)>>>>
    \o CreditAVPs(a.credits)
    \o <<<<Destination_Host, Identity.OCS.host>>, <<Subscriber, Text(a.user)>>>>)

Ro_CCR(a) ==
  AddAVPs(CreateRequest(IMS_Ro, IMS_CCR, Proxyable, Session, Identity.CTF, Ids),
    <<<<Origin_Realm, Identity.CTF.realm>>,
      <<CC_Request_Type, Integer32(Number(CtfTypes, a.type))>>,
      <<CC_Request_Number, Ten>>, <<Auth_Application_Id, Hundred>>,
      <<Service_context_Id, Hundred>>, <<Subscriber, Text(a.user)>>,
      <<Call_Record_Id, Integer32(a.cid)>>>>
    \o CreditAVPs(a.credits)
    \o <<<<Destination_Host, Identity.OCS.host>>, <<Origin_Host, Identity.CTF.host>>>>)

\* Rf_add_destination_realm adds an Origin-Host.
Rf_ACR(a) ==
  AddAVPs(
    AddVendorSpecificAppId(
      CreateRequest(CtfRf, IMS_ACR, Proxyable, Session, Identity.CTF, Ids),
      IMS_vendor_id_3GPP, CtfRf),
    <<<<Origin_Realm, Identity.CTF.realm>>, <<Origin_Host, Identity.CDF.realm>>,
      <<Accounting_Record_Type, Integer32(Number(CtfTypes, a.type))>>,
      <<Accounting_Record_Number, Ten>>, <<Call_Record_Id, Integer32(a.cid)>>,
      <<Subscriber, Text(a.user)>>>>
    \o CreditAVPs(a.credits)
    \o <<<<Destination_Host, Identity.CDF.host>>, <<Origin_Host, Identity.CTF.host>>>>)

\* What Rf_ACA reads, from a client of its own.
ClientACR(a) ==
  AddAVPs(CreateRequest(CdfRf, IMS_ACR, Proxyable, Session, Identity.CTF, Ids),
    <<<<Accounting_Record_Type, Integer32(Number(CdfTypes, a.type))>>,
      <<Accounting_Record_Number, Integer32(a.cid)>>, <<User_Name, Text(a.user)>>,
      <<Destination_Host, Identity.CDF.host>>>>)

RequestOf == [Ro |-> Ro_CCR(ask), Rf |-> Rf_ACR(ask), Client |-> ClientACR(ask)]

MsgInit ==
  /\ service \in {"Ro", "Rf", "Client"}
  /\ progress = "ask"
  /\ ask \in [type : {"START", "INTERIM", "STOP"}, cid : CallIds, user : Subscribers,
              credits : Credits \X Credits \X Credits]
  /\ ask.type = "START" => ask.credits = NoCredits
  /\ wire = Error /\ heard = Unsaid /\ grant = Unsaid /\ told = Unsaid

\* AAASendRecvMessageToPeer; peer_send_msg makes a buffer of the message.
SendRequest ==
  /\ progress = "ask"
  /\ wire' = RequestOf[service]
  /\ progress' = "asked"
  /\ UNCHANGED <<service, ask, heard, grant, told>>

(**************************** The servers ********************************)

\* The message that a receiver makes of the buffer.
Received == TranslateMessage(BuildMsgBuffer(wire))

IntegerOf(msg, code) == Value(FindAVP(msg.avps, code, 0).data.words[1])
StringOf(msg, code) == CString(FindAVP(msg.avps, code, 0).rest)
CreditsOf(msg) ==
  <<IntegerOf(msg, Credit_onceoff), IntegerOf(msg, Credit_persec),
    IntegerOf(msg, Credit_perMbyte)>>

\* Ro_CCA up to its call of msg_handler; a START reports no credits.
HearCCR ==
  /\ progress = "asked" /\ Received.app = IMS_Ro
  /\ Has(Received.avps, CC_Request_Type, 0)
  /\ LET type == CtfTypes[IntegerOf(Received, CC_Request_Type)]
     IN heard' = [type |-> type, cid |-> IntegerOf(Received, Call_Record_Id),
                  user |-> StringOf(Received, Subscriber),
                  credits |-> IF type \in {"START", "EVENT"} THEN NoCredits
                              ELSE CreditsOf(Received)]
  /\ progress' = "heard"
  /\ UNCHANGED <<service, ask, wire, grant, told>>

\* Rf_ACA up to its call of msg_handler: the record number is the call id, and the
\* credits it passes, which are only logged, are left out.
HearACR ==
  /\ progress = "asked" /\ Received.app = CdfRf
  /\ Has(Received.avps, Accounting_Record_Type, 0)
  /\ heard' = [type |-> CdfTypes[IntegerOf(Received, Accounting_Record_Type)],
               cid |-> IntegerOf(Received, Accounting_Record_Number),
               user |-> StringOf(Received, User_Name), credits |-> NoCredits]
  /\ progress' = "heard"
  /\ UNCHANGED <<service, ask, wire, grant, told>>

\* msg_handler returns; in the CDF it leaves the credits as they are.
Handled ==
  /\ progress = "heard"
  /\ grant' \in [result : BOOLEAN, credits : Credits \X Credits \X Credits]
  /\ progress' = "handled"
  /\ UNCHANGED <<service, ask, wire, heard, told>>

\* The rest of Ro_CCA; the type goes to the request instead of the answer.
Ro_CCA(req, g) ==
  AddAVPs(
    AddVendorSpecificAppId(CreateResponse(req, Identity.OCS), IMS_vendor_id_3GPP, IMS_Ro),
    <<<<Result_Code, Integer32(IF g.result THEN SUCCESS ELSE 0)>>,
      <<Call_Record_Id, Integer32(IntegerOf(req, Call_Record_Id))>>,
      <<Subscriber, Text(StringOf(req, Subscriber))>>>>
    \o CreditAVPs(g.credits))

\* The rest of Rf_ACA, which does not look at the result.
Rf_ACA(req, g) ==
  AddAVPs(
    AddVendorSpecificAppId(CreateResponse(req, Identity.CDF), IMS_vendor_id_3GPP, CdfRf),
    <<<<Result_Code, Integer32(SUCCESS)>>,
      <<Call_Record_Id, Integer32(IntegerOf(req, Accounting_Record_Number))>>,
      <<Subscriber, Text(StringOf(req, User_Name))>>>>
    \o CreditAVPs(g.credits))

SendAnswer ==
  /\ progress = "handled"
  /\ wire' = IF service = "Ro" THEN Ro_CCA(Received, grant) ELSE Rf_ACA(Received, grant)
  /\ progress' = "answered"
  /\ UNCHANGED <<service, ask, heard, grant, told>>

\* send_unknown_request_answer of a server that does not serve the application.
SendUnknown ==
  /\ progress = "asked"
  /\ Received.app # IF service = "Ro" THEN IMS_Ro ELSE CdfRf
  /\ wire' = AddAVP(CreateResponse(Received, Identity.CDF), Result_Code,
                    Integer32(UNABLE_TO_COMPLY))
  /\ progress' = "answered"
  /\ UNCHANGED <<service, ask, heard, grant, told>>

(**************************** The answer *********************************)

Succeeded(msg) ==
  Has(msg.avps, Result_Code, 0) /\ IntegerOf(msg, Result_Code) = SUCCESS

\* Each getter that does not find its AVP ends process_incoming.
IsComplete(msg) ==
  \A code \in {Call_Record_Id, Subscriber, Credit_onceoff, Credit_persec, Credit_perMbyte} :
    Has(msg.avps, code, 0)

\* process_incoming of the CTF, up to its call of event_handler.
HearAnswer ==
  /\ progress = "answered"
  /\ told' = IF Succeeded(Received) /\ IsComplete(Received)
             THEN [cid |-> IntegerOf(Received, Call_Record_Id),
                   user |-> StringOf(Received, Subscriber), credits |-> CreditsOf(Received)]
             ELSE Unsaid
  /\ progress' = "done"
  /\ UNCHANGED <<service, ask, wire, heard, grant>>

MsgNext ==
  \/ SendRequest \/ HearCCR \/ HearACR \/ Handled \/ SendAnswer \/ SendUnknown \/ HearAnswer

MsgSpec == MsgInit /\ [][MsgNext]_chargeVars

(***************************** Properties ********************************)

\* The receiver of a message sees the header and the AVPs that the sender gave it, in
\* their order, padded or not (AAABuildMsgBuffer, AAATranslateMessage).
NothingLostOnTheWire ==
  wire # Error =>
    [Received EXCEPT !.avps = [i \in DOMAIN @ |->
       [code |-> @[i].code, flags |-> @[i].flags, vendor |-> @[i].vendor,
        data |-> @[i].data]]] = wire

\* What a server hears is what was asked, name and numbers, wherever the AVPs end up
\* in the buffer (a name is read up to a zero that the next AVP has to provide); the
\* credits that the OCS grants reach the call they were asked for, and a refusal
\* reaches none (Ro_CCR, Rf_ACA, Ro_CCA, process_incoming).
AskedAndTold ==
  /\ heard # Unsaid =>
       heard = [ask EXCEPT !.credits = IF service = "Ro" THEN @ ELSE NoCredits]
  /\ progress = "done" /\ service = "Ro" =>
       told = IF grant.result
              THEN [cid |-> ask.cid, user |-> ask.user, credits |-> grant.credits] ELSE Unsaid

\* What one side says the other side hears, in requests and in answers.
MessagesUnderstood == AskedAndTold /\ NothingLostOnTheWire

\* "Rf interface between CTF and CDF": the CDF hears the requests of the CTF.
AccountingServed == service = "Rf" /\ progress = "answered" => heard # Unsaid
=============================================================================
