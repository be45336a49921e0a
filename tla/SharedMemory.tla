---------------------------- MODULE SharedMemory ----------------------------
(***************************************************************************)
(* The allocator of shared memory (utils/q_malloc.c, qm_malloc and         *)
(* qm_free): fragments that tile the memory, and for each size, or range   *)
(* of large sizes, a list of the free ones, smallest first. A fragment is  *)
(* split when enough is left of it; QM_JOIN_FREE is not defined, so free   *)
(* neighbours are never joined. The callers hold mem_lock.                 *)
(*                                                                         *)
(* An address is that of the bytes a fragment gives away; the headers      *)
(* around them take OVERHEAD bytes between two of them.                    *)
(***************************************************************************)
EXTENDS Integers, FiniteSets, Sequences, SequencesExt, FiniteSetsExt

CONSTANTS
  HeapSize,  \* of the first fragment
  ROUNDTO,   \* sizes are multiples of it
  FACTOR,    \* QM_MALLOC_OPTIMIZE_FACTOR
  BITS,      \* the highest bit of a size
  OVERHEAD,  \* FRAG_OVERHEAD
  Sizes,     \* of the requests
  NoFrag

OPTIMIZE == 2^FACTOR                       \* QM_MALLOC_OPTIMIZE

\* The last line is arithmetic that the provers do not know.
ASSUME HeapAssumption ==
  /\ HeapSize \in Nat /\ Sizes \subseteq Nat /\ NoFrag \notin Nat
  /\ ROUNDTO \in Nat \ {0} /\ OVERHEAD \in Nat \ {0}
  /\ FACTOR \in Nat /\ BITS \in Nat /\ FACTOR <= BITS
  /\ \A n \in FACTOR .. BITS : 2^n \in Nat

VARIABLES
  frags,     \* the size of the fragment at each address
  lists,     \* free_hash: the free fragments of each bucket
  qm_used, qm_real_used,  \* used and real_used of qm_block, without the overhead of qm_block itself
  outcome      \* the last request and the address it got

heapVars == <<frags, lists, qm_used, qm_real_used, outcome>>

RoundUp(s) == ((s + ROUNDTO - 1) \div ROUNDTO) * ROUNDTO

\* big_hash_idx: the highest bit.
BigIndex(s) == Max({n \in FACTOR .. BITS : 2^n <= s})

\* GET_HASH.
Hash(s) ==
  IF s <= OPTIMIZE THEN s \div ROUNDTO
  ELSE OPTIMIZE \div ROUNDTO + BigIndex(s) - FACTOR + 1

NoRequest == [size |-> 0, got |-> NoFrag]

\* The last is QM_HASH_SIZE - 1.
Buckets == 0 .. OPTIMIZE \div ROUNDTO + BITS - FACTOR + 1

FreeFrags == UNION {ToSet(lists[h]) : h \in Buckets}

\* A mutant: a free fragment goes to the end of its list.
InsertedLast(f, free, a) == [free EXCEPT ![Hash(f[a])] = Append(@, a)]

\* Where qm_insert_free stops: at the first fragment that is not smaller, or the end.
Place(f, list, a) ==
  LET i == SelectInSeq(list, LAMBDA b : f[a] <= f[b])
  IN IF i = 0 THEN Len(list) + 1 ELSE i

\* qm_insert_free.
Inserted(f, free, a) ==
  [free EXCEPT ![Hash(f[a])] = InsertAt(@, Place(f, @, a), a)]

\* qm_detach_free.
Detached(free, h, i) == [free EXCEPT ![h] = RemoveAt(@, i)]

\* qm_malloc_init.
HeapInit ==
  /\ frags = [a \in {0} |-> HeapSize]
  /\ lists = [h \in Buckets |-> IF h = Hash(HeapSize) THEN <<0>> ELSE <<>>]
  /\ qm_used = 0 /\ qm_real_used = 0
  /\ outcome = NoRequest

\* The buckets in which qm_find_free finds a fragment.
BucketsFrom(size) ==
  {h \in Buckets : h >= Hash(size) /\ \E i \in DOMAIN lists[h] : frags[lists[h][i]] >= size}

\* qm_find_free: the bucket and the place in its list.
FindBucket(size) == Min(BucketsFrom(size))
FindPlace(size) == SelectInSeq(lists[FindBucket(size)], LAMBDA a : frags[a] >= size)

Fails(size) == size > HeapSize - qm_real_used \/ BucketsFrom(size) = {}

\* qm_malloc that returns 0.
MallocFails(s) ==
  /\ Fails(RoundUp(s))
  /\ outcome' = [size |-> RoundUp(s), got |-> NoFrag]
  /\ UNCHANGED <<frags, lists, qm_used, qm_real_used>>

\* The condition of split_frag on what is left.
IsSplit(rest, size) == rest > OVERHEAD + OPTIMIZE \/ rest >= OVERHEAD + size

\* qm_malloc, with qm_detach_free and split_frag.
Malloc(s) ==
  LET size == RoundUp(s)
      h == FindBucket(size)
      a == lists[h][FindPlace(size)]
      rest == frags[a] - size
      n == a + size + OVERHEAD
      others == Detached(lists, h, FindPlace(size))
  IN /\ ~Fails(size)
     /\ IF IsSplit(rest, size)
        THEN /\ frags' = [x \in DOMAIN frags \cup {n} |->
                            CASE x = a -> size [] x = n -> rest - OVERHEAD [] OTHER -> frags[x]]
             /\ lists' = Inserted(frags', others, n)
             /\ qm_real_used' = qm_real_used + size + OVERHEAD
        ELSE /\ lists' = others
             /\ qm_real_used' = qm_real_used + frags[a]
             /\ UNCHANGED frags
     /\ qm_used' = qm_used + frags'[a]
     /\ outcome' = [size |-> size, got |-> a]

\* qm_free.
QmFree(a) ==
  /\ a \in DOMAIN frags \ FreeFrags
  /\ qm_used' = qm_used - frags[a] /\ qm_real_used' = qm_real_used - frags[a]
  /\ lists' = Inserted(frags, lists, a)
  /\ outcome' = NoRequest
  /\ UNCHANGED frags

HeapNext ==
  \/ \E s \in Sizes : MallocFails(s) \/ Malloc(s)
  \/ \E a \in DOMAIN frags : QmFree(a)

HeapSpec == HeapInit /\ [][HeapNext]_heapVars

(***************************** Properties ********************************)

\* The size of these fragments together.
Total(f, addresses) == MapThenSumSet(LAMBDA a : f[a], addresses)

\* The fragments tile the memory without gap or overlap.
Tiled ==
  /\ Total(frags, DOMAIN frags) + OVERHEAD * (Cardinality(DOMAIN frags) - 1) = HeapSize
  /\ \A a \in DOMAIN frags :
       a + frags[a] = HeapSize \/ a + frags[a] + OVERHEAD \in DOMAIN frags

\* The free ones are on the list of their bucket, once, smallest first.
Sorted(f, list, h) ==
  \A i \in DOMAIN list :
    /\ list[i] \in DOMAIN f /\ Hash(f[list[i]]) = h
    /\ \A j \in 1 .. i - 1 : list[j] # list[i] /\ f[list[j]] <= f[list[i]]

\* What is not counted as used is free.
Counted ==
  /\ qm_used = Total(frags, DOMAIN frags \ FreeFrags)
  /\ HeapSize - qm_real_used = Total(frags, FreeFrags)

HeapSound == Tiled /\ (\A h \in Buckets : Sorted(frags, lists[h], h)) /\ Counted

\* A request fails only when no free fragment is large enough, and gets memory of its
\* size that nobody else has (qm_malloc, qm_find_free).
ServedIfFits ==
  /\ outcome.got = NoFrag /\ outcome # NoRequest => \A a \in FreeFrags : frags[a] < outcome.size
  /\ outcome.got # NoFrag => frags[outcome.got] >= outcome.size /\ outcome.got \notin FreeFrags

\* However memory is taken and given back, the fragments and the lists of free ones fit
\* together (qm_malloc, qm_free, split_frag), and a request is served whenever one
\* fragment is large enough.
MemorySound == HeapSound /\ ServedIfFits

\* A request that could be served once can be served when all is given back: violated,
\* because the fragments are never joined again.
NeverFragmented ==
  qm_used = 0 => \A s \in Sizes : RoundUp(s) <= HeapSize => BucketsFrom(RoundUp(s)) # {}
=============================================================================
