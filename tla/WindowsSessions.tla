-------------------------- MODULE WindowsSessions --------------------------
(***************************************************************************)
(* Session IDs of libusb's Windows backends: htab_hash() of os/windows_nt_ *)
(* common.c gives every device path an index of a hash table with open     *)
(* addressing.  Entries are stored under a mutex and looked up without it, *)
(* by threads that enumerate at the same time.                             *)
(***************************************************************************)
EXTENDS Integers, FiniteSets, FiniteSetsExt

CONSTANTS
  Paths,       \* the strings
  HashOf,      \* the hash value of each, before it is cut to the table
  Requested,   \* HTAB_SIZE
  Threads,
  MaxCalls,    \* bound on calls of htab_hash()
  Taken,       \* which entries earlier calls may have taken ...
  Earlier,     \* ... for a path that is not looked up any more
  None

\* isprime(), for odd numbers: the first divisor is tried in any case.
IsPrime(n) ==
  \A d \in 3..n : d % 2 = 1 /\ (d = 3 \/ (d - 2) * (d - 2) < n) => n % d # 0

\* htab_size: the first prime from HTAB_SIZE on, which is made odd.
Size ==
  LET nel == IF Requested % 2 = 1 THEN Requested ELSE Requested + 1
  IN Min({n \in nel..(2 * nel) : n % 2 = 1 /\ IsPrime(n)})

NonZero(n) == IF n = 0 THEN 1 ELSE n
HVal(s) == NonZero(NonZero(HashOf[s]) % Size)

VARIABLES
  htab,    \* htab_table: used and str; index 0 is never used
  filled,  \* htab_filled
  mutex,   \* holder of htab_write_mutex
  th,      \* the calls under way: place, string and idx
  ids,     \* what was returned, other than errors
  odd,     \* a call met another's store of the same entry, or one that failed
           \* (history)
  calls

vars == <<htab, filled, mutex, th, ids, odd, calls>>

Empty == [used |-> 0, str |-> None]
Idle == [at |-> "idle", s |-> None, idx |-> 0]

TypeOK ==
  /\ htab \in [1..Size -> [used : 0..Size, str : Paths \cup {Earlier, None}]]
  /\ filled \in 0..(Size + MaxCalls) /\ mutex \in Threads \cup {None}
  /\ \A t \in Threads : th[t].s \in Paths \cup {None} /\ th[t].idx \in 0..Size
  /\ odd \in BOOLEAN /\ calls \in 0..MaxCalls

\* htab_create(), and the calls that came before.
Init ==
  /\ \E T \in Taken :
       /\ htab = [i \in 1..Size |-> IF i \in T THEN [used |-> i, str |-> Earlier] ELSE Empty]
       /\ filled = Cardinality(T)
  /\ mutex = None
  /\ th = [t \in Threads |-> Idle] /\ ids = {} /\ odd = FALSE /\ calls = 0

Return(t, id) ==
  /\ th' = [th EXCEPT ![t] = Idle]
  /\ ids' = IF id = 0 THEN ids ELSE ids \cup {[s |-> th[t].s, id |-> id]}

Call(t, s) ==
  /\ th[t] = Idle /\ calls < MaxCalls
  /\ calls' = calls + 1
  /\ th' = [th EXCEPT ![t] = [at |-> "probe", s |-> s, idx |-> HVal(s)]]
  /\ UNCHANGED <<htab, filled, mutex, ids, odd>>

\* The second hash function.  The walk may come back to where it began.
NextIndex(i, h) ==
  LET h2 == 1 + (h % (Size - 2))
  IN IF i <= h2 THEN Size + i - h2 ELSE i - h2

\* A new entry is stored unless the table is full, which is looked at once.
NewEntry(t, i) ==
  IF filled >= Size THEN Return(t, 0)
  ELSE th' = [th EXCEPT ![t].at = "store", ![t].idx = i] /\ UNCHANGED ids

\* One entry is compared: it is the one, or free, or another's.  A string that
\* is being replaced is NULL for a moment.
Probe(t) ==
  LET i == th[t].idx  h == HVal(th[t].s)  e == htab[i] IN
  /\ th[t].at = "probe"
  /\ IF e.used = h /\ e.str = th[t].s THEN Return(t, i)
     ELSE IF e.used = 0 THEN NewEntry(t, i)
     ELSE IF NextIndex(i, h) = h THEN NewEntry(t, h)
     ELSE th' = [th EXCEPT ![t].idx = NextIndex(i, h)] /\ UNCHANGED ids
  /\ odd' = (odd \/ (mutex # None /\ th[mutex].idx = i))
  /\ UNCHANGED <<htab, filled, mutex, calls>>

\* The mutex is taken, the string of the entry freed and its hash value written.
StoreBegin(t) ==
  LET i == th[t].idx IN
  /\ th[t].at = "store" /\ mutex = None
  /\ mutex' = t
  /\ htab' = [htab EXCEPT ![i] = [used |-> HVal(th[t].s), str |-> None]]
  /\ odd' = (odd \/ htab[i].str \notin {None, th[t].s})
  /\ th' = [th EXCEPT ![t].at = "dup"]
  /\ UNCHANGED <<filled, ids, calls>>

\* _strdup()
StoreEnd(t) ==
  /\ th[t].at = "dup"
  /\ htab' = [htab EXCEPT ![th[t].idx].str = th[t].s]
  /\ filled' = filled + 1 /\ mutex' = None
  /\ Return(t, th[t].idx)
  /\ UNCHANGED <<odd, calls>>

\* Out of memory: the entry stays used, by no string.
StoreFails(t) ==
  /\ th[t].at = "dup"
  /\ mutex' = None
  /\ Return(t, 0)
  /\ odd' = \/ odd
            \/ \E r \in ids : r.id = th[t].idx
            \/ \E u \in Threads \ {t} : th[u] # Idle
  /\ UNCHANGED <<htab, filled, calls>>

\* htab_destroy(), with the last context.
Destroy ==
  /\ \A t \in Threads : th[t] = Idle
  /\ ids # {}
  /\ htab' = [i \in 1..Size |-> Empty] /\ filled' = 0
  /\ ids' = {} /\ odd' = FALSE
  /\ UNCHANGED <<mutex, th, calls>>

Next ==
  \/ \E t \in Threads :
       (\E s \in Paths : Call(t, s)) \/ Probe(t) \/ StoreBegin(t) \/ StoreEnd(t) \/ StoreFails(t)
  \/ Destroy

-----------------------------------------------------------------------------
\* A path has one session ID and a session ID one path, by which devices are
\* told apart: where no call read or replaced an entry while another stored it,
\* and none ran beside one that failed to store.
SessionIdsUnique ==
  ~odd => \A p, q \in ids : p.s = q.s <=> p.id = q.id

\* Every entry with a string is counted, so that a full table is noticed.
EntriesCounted == Quantify(1..Size, LAMBDA i : htab[i].str # None) <= filled
=============================================================================
