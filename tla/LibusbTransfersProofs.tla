---------------------- MODULE LibusbTransfersProofs ----------------------
(***************************************************************************)
(* Proofs about LibusbTransfers, for any number of transfers, URBs, users  *)
(* and timeouts: the list of flying transfers stays sorted and the timer   *)
(* covers it (TimeoutsAreCovered), and every accepted submission is        *)
(* answered by one callback (CallbacksAnswerSubmissions, the refinement of *)
(* AsyncTransfer).  Both rest on one inductive invariant, IndInv: which    *)
(* locks a call holds (LockInv), who owns a transfer (FlightInv) and what  *)
(* is on the list (ListInv).                                               *)
(***************************************************************************)
EXTENDS LibusbTransfers, SequenceTheorems, FiniteSetTheorems, WellFoundedInduction, TLAPS

\* A call of libusb_submit_transfer() has the transfer and its lock, ...
Submitting(t) ==
  \/ th[t].pc \in {"urb", "inflight"}
  \/ th[t].pc = "discard" /\ th[t].back = "inflight"

\* ... and a call of handle_timeouts_locked() the lock of the list.
Expiring(t) ==
  \/ th[t].pc \in {"expired", "mark"}
  \/ th[t].pc = "discard" /\ th[t].back = "expired"

\* The transfer of a submission that has not returned.
Owns(t, x) == (Submitting(t) \/ th[t].pc = "remove") /\ th[t].x = x

Ending == th[Handler].pc \in {"cancellation", "completion", "land"}

\* Which locks a call holds, and what is true of its transfer then.
LockOf(t) ==
  /\ th[t].pc \in {"urb", "inflight", "discard", "cancelled", "expired", "reaped"}
       => th[t].x \in Filled /\ xlock[th[t].x] = t
  /\ th[t].pc \in {"remove", "mark", "cancellation", "completion", "land", "callback"}
       => th[t].x \in Filled
  /\ th[t].pc = "timeouts" \/ Expiring(t) => flock = t
  /\ Expiring(t) => th[t].x \in ToSet(flying)
  /\ th[t].pc = "urb" => th[t].i \in Urbs(th[t].x)
  /\ th[t].pc = "discard" =>
       /\ th[t].lo \in 1..th[t].i /\ th[t].i \in Urbs(th[t].x)
       /\ th[t].back \in (IF t = Handler THEN {"reaped", "expired"}
                          ELSE {"inflight", "cancelled", "expired"})

LockInv == \A t \in Threads : LockOf(t)

\* An accepted submission is in flight until its callback; one that has not
\* returned is not, and its URBs are nobody else's.
FlightInv ==
  /\ \A x \in Filled :
       /\ accepts[x] # answers[x] <=> x_[x].flight \/ x \in CallbackDue
       /\ x \in CallbackDue => ~x_[x].flight
       /\ x_[x].urbs => x_[x].flight \/ \E t \in Users : Submitting(t) /\ th[t].x = x
       /\ x_[x].flight \/ x \in CallbackDue => \A t \in Users : ~Owns(t, x)
  /\ Ending => x_[th[Handler].x].flight
  /\ Ending \/ th[Handler].pc = "callback" => ~x_[th[Handler].x].urbs
  /\ \A t \in Users : th[t].pc = "urb" /\ th[t].i = 1 => ~x_[th[t].x].urbs

\* What is on the list: the submissions that have not returned, and what is in
\* flight until its completion takes it off.
ListInv ==
  \A x \in Filled :
    /\ x \in ToSet(flying) <=>
         \/ \E t \in Users : Owns(t, x)
         \/ x_[x].flight /\ ~(th[Handler].pc = "land" /\ th[Handler].x = x)
    /\ \A t, u \in Users : Owns(t, x) /\ Owns(u, x) => t = u

IndInv == TypeOK /\ LockInv /\ FlightInv /\ ListInv /\ FlyingSorted /\ TimerCoversTimeouts
-----------------------------------------------------------------------------
\* Inserting an element moves the later ones up by one.
LEMMA InsertAtFacts ==
    ASSUME NEW S, NEW s \in Seq(S), NEW k \in 1 .. (Len(s) + 1), NEW e \in S
    PROVE  LET q == InsertAt(s, k, e)
           IN  /\ q \in Seq(S) /\ Len(q) = Len(s) + 1
               /\ \A j \in 1 .. (k - 1) : q[j] = s[j]
               /\ q[k] = e
               /\ \A j \in k .. Len(s) : q[j + 1] = s[j]
<1> DEFINE a == SubSeq(s, 1, k - 1)
           b == SubSeq(s, k, Len(s))
           m == a \o <<e>>
<1>1. /\ a \in Seq(S) /\ Len(a) = k - 1 /\ \A j \in 1 .. (k - 1) : a[j] = s[j]
  BY SubSeqProperties
<1>2. /\ b \in Seq(S) /\ Len(b) = Len(s) - k + 1
      /\ \A j \in 1 .. (Len(s) - k + 1) : b[j] = s[k + j - 1]
  <2>1. CASE k = Len(s) + 1
    BY <2>1, SubSeqEmpty
  <2>2. CASE k <= Len(s)
    BY <2>2, SubSeqProperties
  <2> QED
    BY <2>1, <2>2
<1> HIDE DEF a, b
<1>3. /\ m \in Seq(S) /\ Len(m) = k /\ m[k] = e
      /\ \A j \in 1 .. (k - 1) : m[j] = s[j]
  BY <1>1
<1> HIDE DEF m
<1>4. /\ m \o b \in Seq(S) /\ Len(m \o b) = Len(s) + 1
      /\ \A j \in 1 .. k : (m \o b)[j] = m[j]
      /\ \A j \in k .. Len(s) : (m \o b)[j + 1] = b[j + 1 - k]
  BY <1>2, <1>3, ConcatProperties
<1>5. InsertAt(s, k, e) = m \o b
  BY DEF InsertAt, a, b, m
<1> QED
  BY <1>2, <1>3, <1>4, <1>5

\* Removing an element moves the later ones down by one.
LEMMA RemoveAtFacts ==
    ASSUME NEW S, NEW s \in Seq(S), NEW k \in 1 .. Len(s)
    PROVE  LET q == RemoveAt(s, k)
           IN  /\ q \in Seq(S) /\ Len(q) = Len(s) - 1
               /\ \A j \in 1 .. (k - 1) : q[j] = s[j]
               /\ \A j \in k .. (Len(s) - 1) : q[j] = s[j + 1]
<1> DEFINE a == SubSeq(s, 1, k - 1)
           b == SubSeq(s, k + 1, Len(s))
<1>1. /\ a \in Seq(S) /\ Len(a) = k - 1 /\ \A j \in 1 .. (k - 1) : a[j] = s[j]
  BY SubSeqProperties
<1>2. /\ b \in Seq(S) /\ Len(b) = Len(s) - k
      /\ \A j \in 1 .. (Len(s) - k) : b[j] = s[k + j]
  <2>1. CASE k = Len(s)
    BY <2>1, SubSeqEmpty
  <2>2. CASE k < Len(s)
    BY <2>2, SubSeqProperties
  <2> QED
    BY <2>1, <2>2
<1> HIDE DEF a, b
<1>3. /\ a \o b \in Seq(S) /\ Len(a \o b) = Len(s) - 1
      /\ \A j \in 1 .. (k - 1) : (a \o b)[j] = s[j]
  <2>1. a \o b \in Seq(S) /\ Len(a \o b) = Len(a) + Len(b)
    BY <1>1, <1>2, ConcatProperties
  <2>2. \A j \in 1 .. (k - 1) : (a \o b)[j] = a[j]
    BY <1>1, <1>2
  <2> QED
    BY <1>1, <1>2, <2>1, <2>2
<1>4. ASSUME NEW j \in k .. (Len(s) - 1) PROVE (a \o b)[j] = s[j + 1]
  <2>1. (a \o b)[j] = b[j - (k - 1)]
    BY <1>1, <1>2
  <2>2. j - (k - 1) \in 1 .. (Len(s) - k) /\ k + (j - (k - 1)) = j + 1
    OBVIOUS
  <2> QED
    BY <1>2, <2>1, <2>2
<1>5. RemoveAt(s, k) = a \o b
  BY DEF RemoveAt, a, b
<1> QED
  BY <1>3, <1>4, <1>5
\* The user fills a transfer in once.
SameShapes ==
  Filled' = Filled /\ \A x \in Filled : x_'[x].shape = x_[x].shape

\* Every step that keeps the shapes keeps the URBs there are.
LEMMA UrbsSame ==
    ASSUME TypeOK, SameShapes, TransfersOK'
    PROVE  /\ \A x \in Filled : Urbs(x)' = Urbs(x)
           /\ AllUrbs' = AllUrbs
           /\ UNCHANGED kernel => UrbsOK'
<1>1. \A x \in Filled : Urbs(x)' = Urbs(x)
  BY DEF SameShapes, Urbs, NumUrbs
<1>2. AllUrbs' = AllUrbs
  BY <1>1 DEF SameShapes, AllUrbs
<1> QED
  BY <1>1, <1>2 DEF TypeOK, UrbsOK, SameShapes, kernel

\* The type of one transfer, of one call, and of what a step makes of them.
LEMMA TransferType ==
    ASSUME TypeOK, NEW x \in Filled
    PROVE  /\ x \in Transfers /\ x_[x] \in TransferState
           /\ x_[x].shape \in Shape
           /\ NumUrbs(x) \in Nat \ {0} /\ Timeout(x) \in Nat
BY DEF TypeOK, TransfersOK, TransferState, Shape, NumUrbs, Timeout

\* The type of the call a thread is in.
LEMMA CallType ==
    ASSUME TypeOK, NEW t \in Threads
    PROVE  /\ th[t] \in Call
           /\ th[t].pc \in IF t = Handler THEN HandlerPcs ELSE UserPcs
BY DEF TypeOK, CallsOK, Threads

\* There are finitely many URBs, so finitely many that a lost device ends.
LEMMA PendingIsFinite ==
    ASSUME TypeOK
    PROVE  IsFiniteSet(PendingUrbs)
<1>1. IsFiniteSet(Filled)
  BY TransfersAssumption, FS_Subset DEF TypeOK, TransfersOK
<1>2. ASSUME NEW x \in Filled PROVE IsFiniteSet({x} \X Urbs(x))
  <2>1. IsFiniteSet(1 .. NumUrbs(x))
    BY TransferType, FS_Interval
  <2>2. IsFiniteSet({x})
    BY FS_Singleton
  <2> QED
    BY <2>1, <2>2, FS_Product DEF Urbs
<1>3. IsFiniteSet({{x} \X Urbs(x) : x \in Filled})
  <2> DEFINE g == [x \in Filled |-> {x} \X Urbs(x)]
  <2>1. g \in Surjection(Filled, {{x} \X Urbs(x) : x \in Filled})
    BY DEF Surjection
  <2> HIDE DEF g
  <2> QED
    BY <1>1, <2>1, FS_Surjection
<1>4. IsFiniteSet(AllUrbs)
  BY <1>2, <1>3, FS_UNION DEF AllUrbs
<1> QED
  BY <1>4, FS_Subset DEF PendingUrbs

\* Replacing the state of one transfer keeps the types.
LEMMA SetTransfer ==
    ASSUME TypeOK, NEW x \in Filled, NEW n \in TransferState,
           n.shape = x_[x].shape, x_' = [x_ EXCEPT ![x] = n]
    PROVE  TransfersOK' /\ SameShapes
BY DEF TypeOK, TransfersOK, SameShapes, Filled

\* Replacing the call of one thread keeps the types, ...
LEMMA SetCall ==
    ASSUME TypeOK, NEW t \in Threads, NEW f \in Call,
           f.pc \in IF t = Handler THEN HandlerPcs ELSE UserPcs, Frame(t, f)
    PROVE  CallsOK'
BY TransfersAssumption DEF TypeOK, CallsOK, Frame, Threads

\* ... and so does returning from it.
LEMMA SetIdle ==
    ASSUME TypeOK, NEW t \in Threads, Frame(t, Idle)
    PROVE  CallsOK'
<1>1. Idle \in Call /\ Idle.pc \in UserPcs \cap HandlerPcs
  BY DEF Idle, Call, UserPcs, HandlerPcs, Statuses
<1> QED
  BY <1>1, SetCall

\* What is on the list after an insertion or a removal.
LEMMA InsertedList ==
    ASSUME NEW S, NEW s \in Seq(S), NEW k \in 1 .. (Len(s) + 1), NEW e \in S
    PROVE  /\ ToSet(InsertAt(s, k, e)) = ToSet(s) \cup {e}
           /\ IsInjective(s) /\ e \notin ToSet(s) => IsInjective(InsertAt(s, k, e))
<1> DEFINE q == InsertAt(s, k, e)
<1>1. /\ q \in Seq(S) /\ Len(q) = Len(s) + 1
      /\ \A j \in 1 .. (k - 1) : q[j] = s[j]
      /\ q[k] = e
      /\ \A j \in k .. Len(s) : q[j + 1] = s[j]
  BY InsertAtFacts
<1> HIDE DEF q
<1>2. ToSet(q) = ToSet(s) \cup {e}
  <2>1. ASSUME NEW j \in 1 .. Len(q) PROVE q[j] \in ToSet(s) \cup {e}
    <3>1. CASE j < k
      BY <1>1, <3>1 DEF ToSet
    <3>2. CASE j = k
      BY <1>1, <3>2
    <3>3. CASE j > k
      <4>1. j - 1 \in k .. Len(s) /\ (j - 1) + 1 = j
        BY <1>1, <3>3
      <4>2. q[j] = s[j - 1]
        BY <1>1, <4>1
      <4> QED
        BY <4>1, <4>2 DEF ToSet
    <3> QED
      BY <3>1, <3>2, <3>3
  <2>2. ASSUME NEW j \in 1 .. Len(s) PROVE s[j] \in ToSet(q)
    <3>1. CASE j < k
      BY <1>1, <3>1 DEF ToSet
    <3>2. CASE j >= k
      <4>1. q[j + 1] = s[j] /\ j + 1 \in DOMAIN q
        BY <1>1, <3>2
      <4> QED
        BY <4>1 DEF ToSet
    <3> QED
      BY <3>1, <3>2
  <2>3. e \in ToSet(q)
    BY <1>1 DEF ToSet
  <2> QED
    BY <1>1, <2>1, <2>2, <2>3 DEF ToSet
<1>3. ASSUME IsInjective(s), e \notin ToSet(s) PROVE IsInjective(q)
  <2> SUFFICES ASSUME NEW i \in 1 .. Len(q), NEW j \in 1 .. Len(q), i < j
               PROVE  q[i] # q[j]
    BY <1>1 DEF IsInjective
  <2>1. CASE j < k
    BY <1>1, <1>3, <2>1 DEF IsInjective
  <2>2. CASE j = k
    BY <1>1, <1>3, <2>2 DEF ToSet
  <2>3. CASE j > k
    <3>1. j - 1 \in k .. Len(s) /\ q[j] = s[j - 1]
      <4>1. j - 1 \in k .. Len(s) /\ (j - 1) + 1 = j
        BY <1>1, <2>3
      <4> QED
        BY <1>1, <4>1
    <3>2. CASE i < k
      BY <1>1, <1>3, <3>1, <3>2 DEF IsInjective
    <3>3. CASE i = k
      BY <1>1, <1>3, <3>1, <3>3 DEF ToSet
    <3>4. CASE i > k
      <4>1. i - 1 \in k .. Len(s) /\ (i - 1) + 1 = i
        BY <1>1, <3>4
      <4>2. q[i] = s[i - 1]
        BY <1>1, <4>1
      <4> QED
        BY <1>3, <3>1, <4>1, <4>2 DEF IsInjective
    <3> QED
      BY <3>2, <3>3, <3>4
  <2> QED
    BY <2>1, <2>2, <2>3
<1> QED
  BY <1>2, <1>3 DEF q

\* What is on the list after a removal.
LEMMA RemovedList ==
    ASSUME NEW S, NEW s \in Seq(S), NEW k \in 1 .. Len(s), IsInjective(s)
    PROVE  /\ ToSet(RemoveAt(s, k)) = ToSet(s) \ {s[k]}
           /\ IsInjective(RemoveAt(s, k))
<1> DEFINE q == RemoveAt(s, k)
<1>1. /\ q \in Seq(S) /\ Len(q) = Len(s) - 1
      /\ \A j \in 1 .. (k - 1) : q[j] = s[j]
      /\ \A j \in k .. (Len(s) - 1) : q[j] = s[j + 1]
  BY RemoveAtFacts
<1> HIDE DEF q
<1>2. ASSUME NEW j \in 1 .. Len(q) PROVE q[j] \in ToSet(s) \ {s[k]}
  <2>1. CASE j < k
    BY <1>1, <2>1 DEF ToSet, IsInjective
  <2>2. CASE j >= k
    <3>1. q[j] = s[j + 1] /\ j + 1 \in 1 .. Len(s) /\ j + 1 # k
      BY <1>1, <2>2
    <3> QED
      BY <3>1 DEF ToSet, IsInjective
  <2> QED
    BY <2>1, <2>2
<1>3. ASSUME NEW j \in 1 .. Len(s), j # k PROVE s[j] \in ToSet(q)
  <2>1. CASE j < k
    BY <1>1, <2>1 DEF ToSet
  <2>2. CASE j > k
    <3>1. j - 1 \in k .. (Len(s) - 1) /\ (j - 1) + 1 = j
      BY <2>2
    <3>2. q[j - 1] = s[j]
      BY <1>1, <3>1
    <3> QED
      BY <1>1, <3>1, <3>2 DEF ToSet
  <2> QED
    BY <1>3, <2>1, <2>2
<1>4. IsInjective(q)
  <2> SUFFICES ASSUME NEW i \in 1 .. Len(q), NEW j \in 1 .. Len(q), i < j
               PROVE  q[i] # q[j]
    BY <1>1 DEF IsInjective
  <2>1. CASE j < k
    BY <1>1, <2>1 DEF IsInjective
  <2>2. CASE i < k /\ j >= k
    <3>1. q[i] = s[i] /\ q[j] = s[j + 1] /\ j + 1 \in DOMAIN s /\ i \in DOMAIN s
      BY <1>1, <2>2
    <3> QED
      BY <2>2, <3>1 DEF IsInjective
  <2>3. CASE i >= k
    <3>1. /\ q[i] = s[i + 1] /\ q[j] = s[j + 1]
          /\ i + 1 \in DOMAIN s /\ j + 1 \in DOMAIN s
      BY <1>1, <2>3
    <3> QED
      BY <3>1 DEF IsInjective
  <2> QED
    BY <2>1, <2>2, <2>3
<1> QED
  BY <1>1, <1>2, <1>3, <1>4 DEF ToSet, q

\* The timer is set to a time.
LEMMA NextTimeoutType ==
    ASSUME TypeOK, NEW list \in Seq(Filled)
    PROVE  NextTimeout(list, x_) \in Nat
<1> SUFFICES ASSUME \E k \in FirstUnhandled(list, x_) : x_[list[k]].deadline # 0
             PROVE  x_[list[CHOOSE k \in FirstUnhandled(list, x_) : TRUE]].deadline \in Nat
  BY DEF NextTimeout
<1>1. (CHOOSE k \in FirstUnhandled(list, x_) : TRUE) \in 1 .. Len(list)
  BY DEF FirstUnhandled
<1> QED
  BY <1>1, TransferType, TransfersAssumption DEF TransferState

\* remove_from_flying_list() takes one transfer off the list.
LEMMA RemoveFlyingType ==
    ASSUME TypeOK, UNCHANGED x_, NEW x \in Filled, RemoveFlying(x)
    PROVE  ListOK' /\ ToSet(flying') = ToSet(flying) \ {x}
<1>1. PICK k \in 1 .. Len(flying) :
        /\ flying[k] = x /\ flying' = RemoveAt(flying, k)
        /\ timer' = IF k = 1 /\ x_[x].deadline # 0
                      THEN NextTimeout(flying', x_) ELSE timer
        /\ UNCHANGED now
  BY DEF RemoveFlying
<1>2. flying \in Seq(Filled) /\ IsInjective(flying) /\ timer \in Nat
  BY DEF TypeOK, ListOK
<1>3. flying' \in Seq(Filled) /\ IsInjective(flying')
  BY <1>1, <1>2, RemoveAtFacts, RemovedList
<1>4. timer' \in Nat
  BY <1>1, <1>2, <1>3, NextTimeoutType
<1> QED
  BY <1>1, <1>2, <1>3, <1>4, RemovedList DEF TypeOK, ListOK, Filled

\* What reaping a URB makes of the transfer and of the event thread.
Keeps(n, o) ==
  /\ n.shape = o.shape /\ n.flight = o.flight /\ n.cancelling = o.cancelling
  /\ n.handled = o.handled /\ n.timedout = o.timedout /\ n.deadline = o.deadline

ReapResult(x, n, f) ==
  /\ x_' = [x_ EXCEPT ![x] = n] /\ Frame(Handler, f) /\ Keeps(n, x_[x])
  /\ \/ f = Idle /\ n.urbs = x_[x].urbs
     \/ /\ f.pc = "discard" /\ f.x = x /\ f.lo \in 1 .. f.i
        /\ f.i \in Urbs(x) /\ f.back = "reaped" /\ n.urbs = x_[x].urbs
     \/ /\ f.pc \in {"cancellation", "completion"} /\ f.x = x
        /\ f.back = "idle" /\ ~n.urbs

\* REAPURBNDELAY: a URB that is reaped leaves its transfer as ReapResult says.
LEMMA ReapEffect ==
    ASSUME TypeOK, Reap
    PROVE  \E x \in Filled, n \in TransferState, f \in Call :
             /\ x = Head(done)[1] /\ x_[x].urbs /\ xlock[x] = None
             /\ ReapResult(x, n, f)
             /\ xlock' = IF f.pc = "discard"
                           THEN [xlock EXCEPT ![x] = Handler] ELSE xlock
<1> DEFINE x == Head(done)[1]
           i == Head(done)[2]
           u == urb[x][i]
<1>1. x \in Filled /\ i \in Urbs(x) /\ u \in UrbStates
  <2>1. done \in Seq(AllUrbs) /\ done # << >>
    BY DEF Reap, TypeOK, UrbsOK
  <2>2. Head(done) \in AllUrbs
    BY <2>1
  <2>3. x \in Filled /\ i \in Urbs(x)
    BY <2>2 DEF AllUrbs
  <2> QED
    BY <2>3 DEF TypeOK, UrbsOK
<1>2. /\ x_[x].urbs /\ xlock[x] = None
      /\ Reaped(x, i, u)
      /\ xlock' = IF th'[Handler].pc = "discard"
                    THEN [xlock EXCEPT ![x] = Handler] ELSE xlock
  BY DEF Reap
<1> HIDE DEF x, i, u
<1>3. /\ x_[x] \in TransferState /\ NumUrbs(x) \in Nat \ {0} /\ i \in Nat
      /\ x \in Transfers
  BY <1>1, TransferType DEF Urbs
<1>4. Handler \in Threads /\ th \in [Threads -> Call]
  BY DEF Threads, TypeOK, CallsOK
<1>5. ASSUME NEW s \in Statuses, Ends(x, s)
      PROVE  \E f \in Call : /\ Frame(Handler, f)
                             /\ f.pc \in {"cancellation", "completion"}
                             /\ f.x = x /\ f.back = "idle"
  <2> DEFINE f == [Idle EXCEPT !.x = x, !.r = s,
                     !.pc = IF x_[x].action = "cancelled" THEN "cancellation"
                                                          ELSE "completion"]
  <2>1. f \in Call
    BY <1>3 DEF Idle, Call, UserPcs, HandlerPcs, Statuses
  <2>2. Frame(Handler, f)
    BY <1>5 DEF Ends
  <2>3. f.pc \in {"cancellation", "completion"} /\ f.x = x /\ f.back = "idle"
    BY DEF Idle
  <2> QED
    BY <2>1, <2>2, <2>3
<1>6. Idle \in Call
  BY DEF Idle, Call, UserPcs, HandlerPcs, Statuses
<1>7. \E n \in TransferState, f \in Call :
             ReapResult(x, n, f)
  <2>1. CASE Type(x) \in {"bulk", "interrupt"}
    <3> DEFINE n == BulkRetired(x, i, u)
    <3>1. /\ n \in TransferState
          /\ Keeps(n, x_[x])
          /\ n.urbs = x_[x].urbs
      <4> DEFINE g == [x_[x] EXCEPT !.retired = @ + 1, !.full = @ /\ u = "ok"]
      <4>1. PICK b \in BOOLEAN : g = [x_[x] EXCEPT !.retired = @ + 1, !.full = b]
        OBVIOUS
      <4> HIDE DEF g
      <4>2. g \in TransferState /\ Keeps(g, x_[x]) /\ g.urbs = x_[x].urbs
            /\ g.reap = x_[x].reap /\ g.action = x_[x].action
        <5>1. PICK m \in Nat : m = x_[x].retired + 1
          BY <1>3 DEF TransferState
        <5>2. g = [x_[x] EXCEPT !.retired = m, !.full = b]
          BY <4>1, <5>1
        <5> QED
          BY <1>3, <5>2 DEF TransferState, Keeps
      <4>3. CASE x_[x].action # "normal"
        <5>1. \E r \in Statuses \ {"timed_out", "cancelled"} : n = [g EXCEPT !.reap = r]
          BY <4>2, <4>3 DEF BulkRetired, TransferState, Statuses, g
        <5> QED
          BY <4>2, <5>1 DEF TransferState, Keeps
      <4>4. CASE x_[x].action = "normal"
        <5>1. \E r \in Statuses \ {"timed_out", "cancelled"},
                 a \in {"normal", "error", "completed_early"} :
                n = [g EXCEPT !.reap = r, !.action = a]
          <6>1. PICK r \in Statuses \ {"timed_out", "cancelled"} : r = ReapStatus(u, g.reap)
            BY <4>2 DEF ReapStatus, TransferState, Statuses
          <6>2. PICK a \in {"normal", "error", "completed_early"} :
                  a = CASE u = "err" -> "error"
                        [] u \in {"short", "gone"} /\ i < NumUrbs(x) -> "completed_early"
                        [] OTHER -> g.action
            BY <4>2, <4>4
          <6>3. n = [g EXCEPT !.reap = r, !.action = a]
            BY <4>4, <6>1, <6>2 DEF BulkRetired, g
          <6> QED
            BY <6>3
        <5> QED
          BY <4>2, <5>1 DEF TransferState, Keeps
      <4> QED
        BY <4>3, <4>4
    <3>2. CASE BulkOver(x, i, u)
      <4> DEFINE m == [n EXCEPT !.urbs = FALSE]
      <4>1. x_' = [x_ EXCEPT ![x] = m] /\ Ends(x, n.reap)
        BY <1>2, <2>1, <3>2 DEF Reaped
      <4> HIDE DEF n
      <4>2. m \in TransferState /\ n.reap \in Statuses \ {"timed_out", "cancelled"}
        BY <3>1 DEF TransferState
      <4>3. PICK f \in Call : /\ Frame(Handler, f)
                              /\ f.pc \in {"cancellation", "completion"}
                              /\ f.x = x /\ f.back = "idle"
        BY <1>5, <4>1, <4>2
      <4>4. /\ Keeps(m, x_[x])
            /\ ~m.urbs
        BY <3>1 DEF TransferState, Keeps
      <4> HIDE DEF m
      <4> QED
        BY <4>1, <4>2, <4>3, <4>4 DEF ReapResult
    <3>3. CASE ~BulkOver(x, i, u) /\ BulkDiscards(x, i, u)
      <4> DEFINE f == [Idle EXCEPT !.pc = "discard", !.x = x, !.lo = i + 1,
                         !.i = NumUrbs(x), !.top = NumUrbs(x), !.back = "reaped"]
      <4>1. x_' = [x_ EXCEPT ![x] = n] /\ Frame(Handler, f)
        BY <1>2, <2>1, <3>3 DEF Reaped
      <4>2. f \in Call
        <5>1. i + 1 \in Nat /\ NumUrbs(x) \in Nat /\ x \in Transfers \cup {None}
          BY <1>3
        <5> QED
          BY <5>1 DEF Idle, Call, UserPcs, HandlerPcs, Statuses
      <4>3. /\ f.pc = "discard" /\ f.x = x /\ f.lo \in 1 .. f.i
            /\ f.i \in Urbs(x) /\ f.back = "reaped"
        BY <1>1, <1>3, <3>3 DEF Idle, BulkDiscards, Urbs
      <4> HIDE DEF n, f
      <4> QED
        BY <3>1, <4>1, <4>2, <4>3 DEF ReapResult
    <3>4. CASE ~BulkOver(x, i, u) /\ ~BulkDiscards(x, i, u)
      <4>1. x_' = [x_ EXCEPT ![x] = n] /\ Frame(Handler, Idle)
        BY <1>2, <2>1, <3>4 DEF Reaped
      <4> HIDE DEF n
      <4> QED
        BY <1>6, <3>1, <4>1 DEF ReapResult
    <3> QED
      BY <3>2, <3>3, <3>4
  <2>2. CASE Type(x) = "iso"
    <3> DEFINE n == [x_[x] EXCEPT !.retired = @ + 1, !.full = @ /\ u = "ok"]
    <3>1. /\ n \in TransferState
          /\ Keeps(n, x_[x])
          /\ n.urbs = x_[x].urbs
      <4>1. PICK b \in BOOLEAN : n = [x_[x] EXCEPT !.retired = @ + 1, !.full = b]
        OBVIOUS
      <4> HIDE DEF n
      <4> QED
        <5>1. PICK m \in Nat : m = x_[x].retired + 1
          BY <1>3 DEF TransferState
        <5>2. n = [x_[x] EXCEPT !.retired = m, !.full = b]
          BY <4>1, <5>1
        <5> QED
          BY <1>3, <5>2 DEF TransferState, Keeps
    <3>2. CASE IsoOver(x, i)
      <4> DEFINE m == [n EXCEPT !.urbs = FALSE]
      <4>1. x_' = [x_ EXCEPT ![x] = m] /\ Ends(x, IsoStatus(x, u))
        BY <1>2, <2>2, <3>2 DEF Reaped
      <4> HIDE DEF n
      <4>2. m \in TransferState /\ IsoStatus(x, u) \in Statuses \ {"timed_out", "cancelled"}
        BY <3>1 DEF TransferState, IsoStatus, Statuses
      <4>3. PICK f \in Call : /\ Frame(Handler, f)
                              /\ f.pc \in {"cancellation", "completion"}
                              /\ f.x = x /\ f.back = "idle"
        BY <1>5, <4>1, <4>2
      <4>4. /\ Keeps(m, x_[x])
            /\ ~m.urbs
        BY <3>1 DEF TransferState, Keeps
      <4> HIDE DEF m
      <4> QED
        BY <4>1, <4>2, <4>3, <4>4 DEF ReapResult
    <3>3. CASE ~IsoOver(x, i)
      <4>1. x_' = [x_ EXCEPT ![x] = n] /\ Frame(Handler, Idle)
        BY <1>2, <2>2, <3>3 DEF Reaped
      <4> HIDE DEF n
      <4> QED
        BY <1>6, <3>1, <4>1 DEF ReapResult
    <3> QED
      BY <3>2, <3>3
  <2>3. CASE Type(x) \notin {"bulk", "interrupt", "iso"}
    <3> DEFINE n == [x_[x] EXCEPT !.urbs = FALSE, !.full = u = "ok"]
    <3>1. x_' = [x_ EXCEPT ![x] = n] /\ Ends(x, ControlStatus(u))
      BY <1>1, <1>2, <2>3 DEF Reaped, Filled
    <3>2. n \in TransferState
      BY <1>3 DEF TransferState
    <3>3. ControlStatus(u) \in Statuses
      BY <1>1 DEF ControlStatus, Statuses, UrbStates
    <3>4. PICK f \in Call : /\ Frame(Handler, f)
                            /\ f.pc \in {"cancellation", "completion"}
                            /\ f.x = x /\ f.back = "idle"
      BY <1>5, <3>1, <3>3
    <3>5. /\ Keeps(n, x_[x])
          /\ ~n.urbs
      BY <1>3 DEF TransferState, Keeps
    <3> HIDE DEF n
    <3> QED
      BY <3>1, <3>2, <3>4, <3>5 DEF ReapResult
  <2> QED
    BY <2>1, <2>2, <2>3
<1>8. PICK n \in TransferState, f \in Call :
             ReapResult(x, n, f)
  BY <1>7
<1>9. th'[Handler] = f
  BY <1>4, <1>8 DEF Frame, ReapResult
<1>10. xlock' = IF f.pc = "discard" THEN [xlock EXCEPT ![x] = Handler] ELSE xlock
  BY <1>2, <1>9
<1>11. x = Head(done)[1]
  BY DEF x
<1> QED
  BY <1>1, <1>2, <1>8, <1>10, <1>11
\* The transfer and the place of a thread that has one.
LEMMA HasTransfer ==
    ASSUME TypeOK, LockInv, NEW t \in Threads
    PROVE  /\ th[t].pc \in {"urb", "inflight", "discard", "cancelled", "expired",
                            "reaped"}
                => th[t].x \in Filled /\ xlock[th[t].x] = t
           /\ th[t].pc \in {"remove", "mark", "cancellation", "completion",
                            "land", "callback"} => th[t].x \in Filled
           /\ th[t].pc \in {"urb", "inflight", "remove", "cancelled"} => t \in Users
           /\ th[t].pc \in {"reaped", "cancellation", "completion", "land",
                            "callback", "disconnect"} => t = Handler
<1>1. /\ th[t].pc \in {"urb", "inflight", "remove", "cancelled"} => t \in Users
      /\ th[t].pc \in {"reaped", "cancellation", "completion", "land",
                       "callback", "disconnect"} => t = Handler
  BY CallType DEF Threads, UserPcs, HandlerPcs
<1> QED
  BY <1>1 DEF LockInv, LockOf

\* Where a handled transfer is on the list.
LEMMA TimeoutPlace ==
    ASSUME TypeOK, LockInv, NEW t \in Threads, th[t].pc = "timeouts",
           ~TimeoutsOver(t, th[t].lo + 1)
    PROVE  /\ th[t].lo + 1 \in 1 .. Len(flying) /\ flying[th[t].lo + 1] \in Filled
           /\ flying[th[t].lo + 1] \in ToSet(flying) /\ flock = t
<1>1. th[t].lo \in Nat /\ flying \in Seq(Filled)
  BY CallType DEF Call, TypeOK, ListOK
<1>2. th[t].lo + 1 \in 1 .. Len(flying)
  BY <1>1 DEF TimeoutsOver
<1> QED
  BY <1>1, <1>2 DEF ToSet, LockInv, LockOf

\* Every step preserves the types.
LEMMA TypeStep == ASSUME IndInv, [Next]_vars PROVE TypeOK' /\ SameShapes
<1> USE DEF kernel, ghost, lists, locks
<1>0. TypeOK /\ LockInv /\ ListInv /\ FlightInv
  BY DEF IndInv
<1>a. ASSUME UNCHANGED x_ PROVE TransfersOK' /\ SameShapes
  BY <1>0, <1>a DEF TypeOK, TransfersOK, SameShapes, Filled
<1>b. ASSUME SameShapes, UNCHANGED lists PROVE ListOK'
  BY <1>0, <1>b DEF TypeOK, ListOK, SameShapes
<1>c. ASSUME UNCHANGED locks PROVE LocksOK'
  BY <1>0, <1>c DEF TypeOK, LocksOK
<1>d. ASSUME NEW y \in Filled, NEW v \in Threads \cup {None},
             xlock' = [xlock EXCEPT ![y] = v], flock' \in {flock, None}
      PROVE  LocksOK'
  BY <1>0, <1>d DEF TypeOK, LocksOK
<1>e. ASSUME UNCHANGED ghost PROVE HistoryOK'
  BY <1>0, <1>e DEF TypeOK, HistoryOK
<1>f. ASSUME SameShapes, TransfersOK', UNCHANGED kernel PROVE UrbsOK'
  BY <1>0, <1>f, UrbsSame
<1>g. ASSUME NEW t \in Threads, th[t].x \in Filled, NEW X \in [Filled -> TransferState],
             \A x \in Filled : X[x].shape = x_[x].shape, InFlight(t, X)
      PROVE  /\ TransfersOK' /\ SameShapes /\ CallsOK'
             /\ (UNCHANGED flock => LocksOK')
             /\ (UNCHANGED <<answers, asked, submits>> => HistoryOK')
  <2>1. TransfersOK' /\ SameShapes
    <3> DEFINE n == [X[th[t].x] EXCEPT !.flight = TRUE]
    <3>1. n \in TransferState /\ n.shape = x_[th[t].x].shape
      BY <1>g DEF TransferState
    <3>2. x_' = [X EXCEPT ![th[t].x] = n]
      BY <1>g DEF InFlight
    <3> HIDE DEF n
    <3> QED
      BY <1>0, <1>g, <3>1, <3>2 DEF TypeOK, TransfersOK, SameShapes, Filled
  <2>2. CallsOK'
    BY <1>0, <1>g, SetIdle DEF InFlight
  <2>3. UNCHANGED flock => LocksOK'
    BY <1>0, <1>d, <1>g DEF InFlight
  <2>4. UNCHANGED <<answers, asked, submits>> => HistoryOK'
    BY <1>0, <1>g DEF InFlight, TypeOK, HistoryOK, TransfersOK
  <2> QED
    BY <2>1, <2>2, <2>3, <2>4
<1>1. ASSUME NEW t \in Threads, SubmitUrb(t) PROVE TypeOK' /\ SameShapes
  <2> DEFINE x == th[t].x
             i == th[t].i
  <2>0. /\ x \in Filled /\ i \in Urbs(x) /\ t \in Users
    BY <1>0, <1>1, HasTransfer DEF SubmitUrb, LockInv, LockOf
  <2>00. /\ x_ \in [Filled -> TransferState] /\ NumUrbs(x) \in Nat /\ i \in 1 .. NumUrbs(x)
         /\ th[t] \in Call
    BY <1>0, <2>0, TransferType, CallType DEF TypeOK, TransfersOK, Urbs
  <2>1. /\ SameShapes /\ TransfersOK' /\ CallsOK' /\ LocksOK' /\ HistoryOK'
        /\ DOMAIN urb' = Filled /\ \A y \in Filled : urb'[y] \in [Urbs(y) -> UrbStates]
    <3>1. CASE SubmitUrbOk(t, x, i)
      <4>1. DOMAIN urb' = Filled /\ \A y \in Filled : urb'[y] \in [Urbs(y) -> UrbStates]
        BY <1>0, <2>0, <3>1 DEF SubmitUrbOk, TypeOK, UrbsOK, UrbStates
      <4>2. CASE i = NumUrbs(x)
        <5> DEFINE X == [x_ EXCEPT ![x].urbs = TRUE]
        <5>1. X \in [Filled -> TransferState] /\ \A y \in Filled : X[y].shape = x_[y].shape
          <6> DEFINE n == [x_[x] EXCEPT !.urbs = TRUE]
          <6>0. x_[x] \in TransferState
            BY <2>0, <2>00
          <6>1. n \in TransferState /\ n.shape = x_[x].shape
            BY <6>0 DEF TransferState
          <6>2. X = [x_ EXCEPT ![x] = n]
            OBVIOUS
          <6> HIDE DEF n, X
          <6> QED
            BY <2>0, <2>00, <6>1, <6>2
        <5>2. InFlight(t, X)
          BY <3>1, <4>2 DEF SubmitUrbOk
        <5> HIDE DEF X
        <5> QED
          BY <1>1, <1>g, <2>0, <4>1, <5>1, <5>2 DEF SubmitUrb
      <4>3. CASE i # NumUrbs(x)
        <5> DEFINE n == [x_[x] EXCEPT !.urbs = TRUE]
                   f == [th[t] EXCEPT !.i = i + 1]
        <5>1. n \in TransferState /\ n.shape = x_[x].shape /\ x_' = [x_ EXCEPT ![x] = n]
          BY <2>0, <2>00, <3>1, <4>3 DEF TransferState, SubmitUrbOk
        <5>2. f \in Call /\ f.pc \in UserPcs /\ Frame(t, f) /\ UNCHANGED <<xlock, accepts>>
          BY <2>0, <2>00, <3>1, <4>3, <1>0, CallType, TransfersAssumption DEF Call, SubmitUrbOk
        <5> HIDE DEF n, f
        <5> QED
          BY <1>0, <1>1, <1>c, <1>e, <2>0, <4>1, <5>1, <5>2, SetTransfer, SetCall, TransfersAssumption
             DEF SubmitUrb
      <4> QED
        BY <4>2, <4>3
    <3>2. CASE SubmitUrbFirstFails(t, x)
      <4> DEFINE f == [Idle EXCEPT !.pc = "remove", !.x = x]
      <4>1. f \in Call /\ f.pc \in UserPcs
        BY <1>0, <2>0, TransferType DEF Idle, Call, UserPcs, Statuses
      <4>2. Frame(t, f) /\ xlock' = [xlock EXCEPT ![x] = None] /\ UNCHANGED <<x_, urb, accepts>>
        BY <3>2 DEF SubmitUrbFirstFails
      <4> HIDE DEF f
      <4>3. CallsOK'
        BY <1>0, <2>0, <4>1, <4>2, SetCall, TransfersAssumption
      <4> QED
        BY <1>0, <1>1, <1>a, <1>d, <1>e, <2>0, <4>2, <4>3 DEF SubmitUrb, TypeOK, UrbsOK
    <3>3. CASE i > 1 /\ SubmitUrbLaterFails(t, x, i)
      <4> DEFINE failed(a) == [x_ EXCEPT ![x].action = a,
                                         ![x].retired = @ + NumUrbs(x) - i + 1]
      <4>1. ASSUME NEW a \in {"submit_failed", "completed_early"}
            PROVE  /\ failed(a) \in [Filled -> TransferState]
                   /\ \A y \in Filled : failed(a)[y].shape = x_[y].shape
        <5>1. x_[x].retired \in Nat
          BY <2>0, <2>00 DEF TransferState
        <5>2. x_[x].retired + NumUrbs(x) - i + 1 \in Nat
          BY <5>1, <2>00
        <5> QED
          BY <2>0, <2>00, <5>2 DEF TransferState
      <4>2. UNCHANGED urb
        BY <3>3 DEF SubmitUrbLaterFails
      <4>3. CASE InFlight(t, failed("completed_early"))
        <5> HIDE DEF failed
        <5> QED
          BY <1>0, <1>1, <1>g, <2>0, <4>1, <4>2, <4>3 DEF SubmitUrb, TypeOK, UrbsOK
      <4>4. CASE /\ x_' = failed("submit_failed")
                 /\ Frame(t, [Idle EXCEPT !.pc = "discard", !.x = x, !.lo = 1,
                                !.i = i - 1, !.top = i - 1, !.back = "inflight"])
                 /\ UNCHANGED <<xlock, accepts>>
        <5>1. TransfersOK' /\ SameShapes
          BY <1>0, <4>1, <4>4 DEF TypeOK, TransfersOK, SameShapes, Filled
        <5> DEFINE f == [Idle EXCEPT !.pc = "discard", !.x = x, !.lo = 1,
                           !.i = i - 1, !.top = i - 1, !.back = "inflight"]
        <5>2. f \in Call /\ f.pc \in UserPcs
          <6>1. i - 1 \in Nat /\ x \in Transfers
            BY <1>0, <2>0, <2>00, <3>3, TransferType
          <6> QED
            BY <6>1 DEF Idle, Call, UserPcs, Statuses
        <5> HIDE DEF f
        <5>3. CallsOK'
          BY <1>0, <2>0, <4>4, <5>2, SetCall, TransfersAssumption DEF f
        <5> QED
          BY <1>0, <1>1, <1>c, <1>e, <4>2, <4>4, <5>1, <5>3 DEF SubmitUrb, TypeOK, UrbsOK
      <4> QED
        BY <3>3, <4>3, <4>4 DEF SubmitUrbLaterFails
    <3> QED
      BY <1>1, <3>1, <3>2, <3>3 DEF SubmitUrb
  <2>2. UrbsOK'
    BY <1>0, <1>1, <2>1, UrbsSame DEF SubmitUrb, TypeOK, UrbsOK, SameShapes
  <2> QED
    BY <1>1, <1>b, <2>1, <2>2 DEF TypeOK, SubmitUrb
<1>2. ASSUME NEW t \in Threads, SubmitDone(t) PROVE TypeOK' /\ SameShapes
  <2>1. th[t].x \in Filled /\ x_ \in [Filled -> TransferState]
    BY <1>0, <1>2, HasTransfer DEF SubmitDone, TypeOK, TransfersOK
  <2> QED
    BY <1>2, <1>b, <1>f, <1>g, <2>1 DEF TypeOK, SubmitDone
<1>3. ASSUME NEW t \in Threads, SubmitRemove(t) PROVE TypeOK' /\ SameShapes
  <2>1. th[t].x \in Filled
    BY <1>0, <1>3, HasTransfer DEF SubmitRemove
  <2>2. ListOK' /\ CallsOK'
    BY <1>0, <1>3, <2>1, RemoveFlyingType, SetIdle DEF SubmitRemove
  <2> QED
    BY <1>3, <1>a, <1>c, <1>e, <1>f, <2>2 DEF TypeOK, SubmitRemove
<1>4. ASSUME NEW t \in Threads, CancelDone(t) PROVE TypeOK' /\ SameShapes
  <2> DEFINE x == th[t].x
  <2>1. x \in Filled /\ x_[x] \in TransferState /\ th[t] \in Call
    BY <1>0, <1>4, HasTransfer, TransferType, CallType DEF CancelDone
  <2>2. TransfersOK' /\ SameShapes
    <3>1. PICK d \in BOOLEAN, a \in {x_[x].action, "cancelled"} :
            x_' = [x_ EXCEPT ![x] = [x_[x] EXCEPT !.cancelling = TRUE,
                     !.disappeared = d, !.action = a]]
      BY <1>4, <2>1 DEF CancelDone, AfterCancel
    <3> DEFINE n == [x_[x] EXCEPT !.cancelling = TRUE, !.disappeared = d, !.action = a]
    <3>2. n \in TransferState /\ n.shape = x_[x].shape
      BY <2>1 DEF TransferState
    <3> HIDE DEF n
    <3> QED
      BY <1>0, <2>1, <3>1, <3>2, SetTransfer DEF n
  <2>3. CallsOK'
    <3>1. CASE th[t].pc = "cancelled"
      BY <1>0, <1>4, <3>1, SetIdle DEF CancelDone
    <3>2. CASE th[t].pc = "expired"
      <4> DEFINE f == [th[t] EXCEPT !.pc = "mark"]
      <4>1. f \in Call /\ f.pc \in UserPcs \cap HandlerPcs
        BY <2>1 DEF Call, UserPcs, HandlerPcs
      <4>2. Frame(t, f)
        BY <1>4, <3>2 DEF CancelDone
      <4> HIDE DEF f
      <4> QED
        BY <1>0, <4>1, <4>2, SetCall
    <3> QED
      BY <1>4, <3>1, <3>2 DEF CancelDone
  <2> QED
    BY <1>4, <1>b, <1>d, <1>e, <1>f, <2>1, <2>2, <2>3 DEF TypeOK, CancelDone
<1>5. ASSUME NEW t \in Threads, Discard(t) PROVE TypeOK' /\ SameShapes
  <2> DEFINE x == th[t].x
             i == th[t].i
             next == [th[t] EXCEPT !.i = i - 1,
                        !.pc = IF i = th[t].lo THEN th[t].back ELSE "discard"]
  <2>1. /\ x \in Filled /\ i \in Urbs(x) /\ th[t] \in Call /\ i \in Nat \ {0}
        /\ th[t].back \in IF t = Handler THEN {"reaped", "expired"}
                          ELSE {"inflight", "cancelled", "expired"}
    BY <1>0, <1>5, HasTransfer, CallType, TransferType DEF Discard, LockInv, LockOf, Urbs
  <2>2. /\ next \in Call /\ next.pc \in IF t = Handler THEN HandlerPcs ELSE UserPcs
        /\ \A r \in {"no_device", "not_found", th[t].r} :
             /\ [next EXCEPT !.r = r] \in Call
             /\ [next EXCEPT !.r = r].pc = next.pc
    <3>1. i - 1 \in Nat
      BY <2>1
    <3>2. PICK p \in {th[t].back, "discard"} : next = [th[t] EXCEPT !.i = i - 1, !.pc = p]
      OBVIOUS
    <3>3. p \in IF t = Handler THEN HandlerPcs ELSE UserPcs
      BY <2>1 DEF UserPcs, HandlerPcs
    <3>4. next \in Call /\ next.pc = p
      BY <2>1, <3>1, <3>2, <3>3 DEF Call
    <3> HIDE DEF next
    <3>5. ASSUME NEW r \in {"no_device", "not_found", th[t].r}
          PROVE  [next EXCEPT !.r = r] \in Call /\ [next EXCEPT !.r = r].pc = next.pc
      BY <2>1, <3>4 DEF Call, Statuses
    <3> QED
      BY <3>3, <3>4, <3>5
  <2>3. CASE urb[x][i] = "pending"
    <3>1. /\ urb' = [urb EXCEPT ![x][i] = "gone"] /\ done' = Append(done, <<x, i>>)
          /\ Frame(t, next)
      BY <1>5, <2>3 DEF Discard
    <3> HIDE DEF next
    <3>2. CallsOK'
      BY <1>0, <2>2, <3>1, SetCall
    <3>3. <<x, i>> \in AllUrbs
      BY <2>1 DEF AllUrbs
    <3>4. done' \in Seq(AllUrbs)
      BY <1>0, <3>1, <3>3 DEF TypeOK, UrbsOK
    <3>5. DOMAIN urb' = Filled /\ \A y \in Filled : urb'[y] \in [Urbs(y) -> UrbStates]
      BY <1>0, <2>1, <3>1 DEF TypeOK, UrbsOK, UrbStates
    <3>6. UrbsOK'
      BY <1>0, <1>5, <1>a, <3>4, <3>5, UrbsSame DEF Discard, TypeOK, UrbsOK, SameShapes
    <3> QED
      BY <1>5, <1>a, <1>b, <1>c, <1>e, <3>2, <3>6 DEF TypeOK, Discard
  <2>4. CASE urb[x][i] # "pending"
    <3>1. PICK r \in {"no_device", "not_found", th[t].r} : Frame(t, [next EXCEPT !.r = r])
      <4>1. Frame(t, [next EXCEPT !.r = CASE plugged # "yes" -> "no_device"
                                          [] i = th[t].top -> "not_found"
                                          [] OTHER -> @])
        BY <1>5, <2>4 DEF Discard
      <4>2. next.r = th[t].r
        BY <2>1 DEF Call
      <4> QED
        BY <4>1, <4>2
    <3> HIDE DEF next
    <3>2. CallsOK'
      BY <1>0, <2>2, <3>1, SetCall
    <3>3. UNCHANGED kernel
      BY <1>5, <2>4 DEF Discard
    <3> QED
      BY <1>5, <1>a, <1>b, <1>c, <1>e, <1>f, <3>2, <3>3 DEF TypeOK, Discard
  <2> QED
    BY <2>3, <2>4
<1>6. ASSUME NEW t \in Threads, TimeoutsEnd(t) PROVE TypeOK' /\ SameShapes
  <2>1. flying \in Seq(Filled) /\ timer \in Nat
    BY <1>0 DEF TypeOK, ListOK
  <2>2. timer' \in Nat
    BY <1>0, <1>6, <2>1, NextTimeoutType DEF TimeoutsEnd
  <2>3. ListOK'
    BY <1>0, <1>6, <1>a, <2>2 DEF TimeoutsEnd, TypeOK, ListOK, SameShapes
  <2>4. LocksOK' /\ CallsOK'
    BY <1>0, <1>6, SetIdle DEF TimeoutsEnd, TypeOK, LocksOK
  <2> QED
    BY <1>6, <1>a, <1>e, <1>f, <2>3, <2>4 DEF TypeOK, TimeoutsEnd
<1>h. ASSUME NEW x \in Filled, NEW f \in Call, NEW after \in {"expired", "cancelled"}
      PROVE  /\ CancelFrame(f, x, after) \in Call
             /\ CancelFrame(f, x, after).pc \in {"discard", after}
  <2>1. x \in Transfers /\ NumUrbs(x) \in Nat
    BY <1>0, TransferType
  <2> QED
    BY <2>1 DEF CancelFrame, Call, UserPcs, HandlerPcs, Statuses
<1>7. ASSUME NEW t \in Threads, HandleTimeout(t) PROVE TypeOK' /\ SameShapes
  <2> DEFINE k == th[t].lo + 1
             x == flying[k]
             next == [th[t] EXCEPT !.lo = k]
  <2>1. x \in Filled /\ x_[x] \in TransferState /\ th[t] \in Call /\ k \in Nat
    BY <1>0, <1>7, TimeoutPlace, TransferType, CallType DEF HandleTimeout
  <2>2. next \in Call /\ next.pc = "timeouts"
    BY <1>7, <2>1 DEF HandleTimeout, Call
  <2>3. /\ x_' \in {x_, [x_ EXCEPT ![x].handled = TRUE]}
        /\ \/ Frame(t, next) /\ UNCHANGED xlock
           \/ xlock' = [xlock EXCEPT ![x] = t] /\ Frame(t, CancelFrame(next, x, "expired"))
    BY <1>7 DEF HandleTimeout
  <2> HIDE DEF next, x
  <2>4. TransfersOK' /\ SameShapes
    <3> DEFINE n == [x_[x] EXCEPT !.handled = TRUE]
    <3>1. n \in TransferState /\ n.shape = x_[x].shape
      BY <2>1 DEF TransferState
    <3>2. x_' = x_ \/ x_' = [x_ EXCEPT ![x] = n]
      BY <2>3
    <3> HIDE DEF n
    <3> QED
      BY <1>0, <1>a, <2>1, <3>1, <3>2, SetTransfer
  <2>5. CallsOK'
    <3>1. /\ CancelFrame(next, x, "expired") \in Call
          /\ CancelFrame(next, x, "expired").pc \in UserPcs \cap HandlerPcs
          /\ next.pc \in UserPcs \cap HandlerPcs
      BY <1>h, <2>1, <2>2 DEF UserPcs, HandlerPcs
    <3> QED
      BY <1>0, <2>2, <2>3, <3>1, SetCall
  <2>6. LocksOK'
    BY <1>7, <1>c, <1>d, <2>1, <2>3 DEF HandleTimeout
  <2> QED
    BY <1>7, <1>b, <1>e, <1>f, <2>4, <2>5, <2>6 DEF TypeOK, HandleTimeout
<1>8. ASSUME NEW t \in Threads, MarkTimedOut(t) PROVE TypeOK' /\ SameShapes
  <2> DEFINE x == th[t].x
             k == CHOOSE j \in 1 .. Len(flying) : flying[j] = x
  <2>1. x \in Filled /\ x_[x] \in TransferState /\ th[t] \in Call /\ x \in ToSet(flying)
    BY <1>0, <1>8, HasTransfer, TransferType, CallType DEF MarkTimedOut, LockInv, LockOf, Expiring
  <2>2. TransfersOK' /\ SameShapes
    <3>1. PICK b \in BOOLEAN : x_' = [x_ EXCEPT ![x] = [x_[x] EXCEPT !.timedout = b]]
      BY <1>8, <2>1 DEF MarkTimedOut
    <3> DEFINE n == [x_[x] EXCEPT !.timedout = b]
    <3>2. n \in TransferState /\ n.shape = x_[x].shape
      BY <2>1 DEF TransferState
    <3> HIDE DEF n
    <3> QED
      BY <1>0, <2>1, <3>1, <3>2, SetTransfer DEF n
  <2>3. k \in 1 .. Len(flying)
    <3>1. \E j \in 1 .. Len(flying) : flying[j] = x
      BY <1>0, <2>1 DEF ToSet, TypeOK, ListOK
    <3> QED
      BY <3>1
  <2>4. CallsOK'
    <3> DEFINE f == [Idle EXCEPT !.pc = "timeouts", !.clock = th[t].clock, !.lo = k]
    <3>1. Frame(t, f)
      BY <1>8 DEF MarkTimedOut
    <3>2. k \in Nat /\ th[t].clock \in Nat
      BY <1>0, <2>1, <2>3 DEF Call, TypeOK, ListOK
    <3> HIDE DEF k
    <3>3. f \in Call /\ f.pc \in UserPcs \cap HandlerPcs
      BY <3>2 DEF Idle, Call, UserPcs, HandlerPcs, Statuses
    <3> HIDE DEF f
    <3> QED
      BY <1>0, <3>1, <3>3, SetCall
  <2> QED
    BY <1>8, <1>b, <1>c, <1>e, <1>f, <2>2, <2>4 DEF TypeOK, MarkTimedOut
<1>9. ASSUME NEW t \in Threads, Trigger(t) PROVE TypeOK' /\ SameShapes
  <2> DEFINE f == [Idle EXCEPT !.pc = "timeouts", !.clock = now]
  <2>1. now \in Nat
    BY <1>0 DEF TypeOK, ListOK
  <2>2. f \in Call /\ f.pc \in UserPcs \cap HandlerPcs
    BY <2>1 DEF Idle, Call, UserPcs, HandlerPcs, Statuses
  <2>3. Frame(t, f)
    BY <1>9 DEF Trigger
  <2> HIDE DEF f
  <2>4. CallsOK'
    BY <1>0, <2>2, <2>3, SetCall
  <2>5. LocksOK'
    BY <1>0, <1>9 DEF Trigger, TypeOK, LocksOK
  <2> QED
    BY <1>9, <1>a, <1>b, <1>e, <1>f, <2>4, <2>5 DEF TypeOK, Trigger
<1>10. ASSUME NEW t \in Users, NEW x \in Filled, Submit(t, x) PROVE TypeOK' /\ SameShapes
  <2> DEFINE d == IF Timeout(x) = 0 THEN 0 ELSE now + Timeout(x)
             n == [NewTransfer(x_[x].shape) EXCEPT !.deadline = d]
  <2>1. /\ d \in 0 .. MaxTime /\ x_[x].shape \in Shape /\ x \in Transfers
        /\ t \in Threads /\ t # Handler
    BY <1>0, <1>10, TransferType, TransfersAssumption DEF Submit, TypeOK, ListOK, Threads
  <2>2. x_' = [x_ EXCEPT ![x] = n]
    BY <1>10 DEF Submit
  <2>3. TransfersOK' /\ SameShapes
    <3> HIDE DEF d
    <3>1. n \in TransferState /\ n.shape = x_[x].shape
      BY <2>1, TransfersAssumption DEF TransferState, NewTransfer, Statuses
    <3> HIDE DEF n
    <3> QED
      BY <1>0, <2>2, <3>1, SetTransfer
  <2>4. HistoryOK'
    BY <1>0, <1>10, TransfersAssumption DEF Submit, TypeOK, HistoryOK
  <2>5. CASE Timeout(x) # 0 /\ UNCHANGED <<flying, timer, xlock, th>>
    <3>1. CallsOK'
      BY <1>0, <2>5 DEF TypeOK, CallsOK
    <3> QED
      BY <1>10, <1>b, <1>c, <1>f, <2>3, <2>4, <2>5, <3>1 DEF TypeOK, Submit
  <2>6. CASE /\ \E k \in Position(d) : /\ flying' = InsertAt(flying, k, x)
                                       /\ timer' = TimerAfterAdd(d, k)
             /\ xlock' = [xlock EXCEPT ![x] = t]
             /\ Frame(t, [Idle EXCEPT !.pc = "urb", !.x = x, !.i = 1])
    <3>1. PICK k \in 1 .. (Len(flying) + 1) : flying' = InsertAt(flying, k, x)
                                              /\ timer' = TimerAfterAdd(d, k)
      BY <2>6 DEF Position
    <3>2. x \notin ToSet(flying)
      <4>1. ~x_[x].flight /\ xlock[x] = None
        BY <1>10 DEF Submit, NotBusy
      <4>2. ASSUME NEW v \in Users, Submitting(v) PROVE th[v].x # x
        BY <1>0, <4>1, <4>2, HasTransfer, TransfersAssumption DEF Submitting, Threads
      <4>3. ASSUME NEW v \in Users, th[v].pc = "remove" PROVE th[v].x # x
        BY <1>10, <4>3 DEF Submit
      <4> QED
        BY <1>0, <4>1, <4>2, <4>3 DEF ListInv, Owns
    <3>3. flying' \in Seq(Filled) /\ IsInjective(flying')
      BY <1>0, <3>1, <3>2, InsertAtFacts, InsertedList DEF TypeOK, ListOK
    <3>4. timer' \in Nat
      BY <1>0, <2>1, <3>1, TransfersAssumption DEF TimerAfterAdd, TypeOK, ListOK
    <3>5. ListOK'
      BY <1>0, <1>10, <2>3, <3>3, <3>4 DEF Submit, TypeOK, ListOK, SameShapes
    <3> DEFINE f == [Idle EXCEPT !.pc = "urb", !.x = x, !.i = 1]
    <3>6. f \in Call /\ f.pc \in UserPcs
      BY <2>1 DEF Idle, Call, UserPcs, Statuses
    <3> HIDE DEF f
    <3>7. CallsOK'
      BY <1>0, <2>1, <2>6, <3>6, SetCall DEF f
    <3>8. LocksOK'
      BY <1>10, <1>d, <2>1, <2>6 DEF Submit
    <3> QED
      BY <1>10, <1>f, <2>3, <2>4, <3>5, <3>7, <3>8 DEF TypeOK, Submit
  <2> QED
    BY <1>10, <2>5, <2>6 DEF Submit
<1>11. ASSUME NEW t \in Users, NEW x \in Filled, Cancel(t, x) PROVE TypeOK' /\ SameShapes
  <2>1. t \in Threads /\ t # Handler /\ x \in Transfers
    BY <1>0, TransfersAssumption, TransferType DEF Threads
  <2>2. Idle \in Call
    BY DEF Idle, Call, UserPcs, HandlerPcs, Statuses
  <2>3. /\ CancelFrame(Idle, x, "cancelled") \in Call
        /\ CancelFrame(Idle, x, "cancelled").pc \in UserPcs
    BY <1>h, <2>2 DEF UserPcs
  <2>4. CallsOK'
    BY <1>0, <1>11, <2>1, <2>3, SetCall DEF Cancel
  <2>5. LocksOK'
    BY <1>11, <1>d, <2>1 DEF Cancel
  <2>6. HistoryOK'
    BY <1>0, <1>11, <2>1 DEF Cancel, TypeOK, HistoryOK
  <2> QED
    BY <1>11, <1>a, <1>b, <1>f, <2>4, <2>5, <2>6 DEF TypeOK, Cancel
<1>12. ASSUME Reap PROVE TypeOK' /\ SameShapes
  <2>1. PICK x \in Filled, n \in TransferState, f \in Call :
          /\ x = Head(done)[1] /\ x_[x].urbs /\ xlock[x] = None
          /\ ReapResult(x, n, f)
          /\ xlock' = IF f.pc = "discard"
                        THEN [xlock EXCEPT ![x] = Handler] ELSE xlock
    BY <1>0, <1>12, ReapEffect
  <2>2. TransfersOK' /\ SameShapes
    BY <1>0, <2>1, SetTransfer DEF ReapResult, Keeps
  <2>3. CallsOK'
    <3>1. f.pc \in HandlerPcs
      <4>1. f = Idle \/ f.pc \in {"discard", "cancellation", "completion"}
        BY <2>1 DEF ReapResult
      <4>2. Idle.pc \in HandlerPcs
        BY DEF Idle, HandlerPcs
      <4> QED
        BY <4>1, <4>2 DEF HandlerPcs
    <3> QED
      BY <1>0, <2>1, <3>1, SetCall DEF ReapResult, Threads
  <2>4. LocksOK'
    BY <1>12, <1>c, <1>d, <2>1 DEF Reap, Threads
  <2>5. done \in Seq(AllUrbs) /\ done # << >>
    BY <1>0, <1>12 DEF Reap, TypeOK, UrbsOK
  <2>6. Head(done) \in AllUrbs /\ Tail(done) \in Seq(AllUrbs)
    BY <2>5
  <2>7. x \in Filled /\ Head(done)[2] \in Urbs(x)
    BY <2>1, <2>6 DEF AllUrbs
  <2>8. /\ done' = Tail(done) /\ urb' = [urb EXCEPT ![x][Head(done)[2]] = "none"]
        /\ UNCHANGED <<plugged, reapcap>>
    BY <1>12, <2>1 DEF Reap
  <2>9. DOMAIN urb' = Filled /\ \A y \in Filled : urb'[y] \in [Urbs(y) -> UrbStates]
    BY <1>0, <2>7, <2>8 DEF TypeOK, UrbsOK, UrbStates
  <2>10. UrbsOK'
    BY <1>0, <2>2, <2>6, <2>8, <2>9, UrbsSame DEF TypeOK, UrbsOK, SameShapes
  <2> QED
    BY <1>12, <1>b, <1>e, <2>2, <2>3, <2>4, <2>10 DEF TypeOK, Reap
<1>13. ASSUME ReapedUnlock PROVE TypeOK' /\ SameShapes
  <2>1. Handler \in Threads /\ th[Handler].x \in Filled
    BY <1>0, <1>13, HasTransfer DEF ReapedUnlock, Threads
  <2>2. CallsOK' /\ LocksOK'
    BY <1>0, <1>13, <1>d, <2>1, SetIdle DEF ReapedUnlock
  <2> QED
    BY <1>13, <1>a, <1>b, <1>e, <1>f, <2>2 DEF TypeOK, ReapedUnlock
<1>i. ASSUME NEW p \in HandlerPcs, NEW r \in Statuses \cup {"ok", "not_found"},
             Frame(Handler, [th[Handler] EXCEPT !.pc = p, !.r = r])
      PROVE  CallsOK'
  <2> DEFINE f == [th[Handler] EXCEPT !.pc = p, !.r = r]
  <2>1. Handler \in Threads
    BY DEF Threads
  <2>2. f \in Call /\ f.pc \in HandlerPcs
    BY <1>0, <2>1, CallType DEF Call
  <2> HIDE DEF f
  <2> QED
    BY <1>0, <1>i, <2>1, <2>2, SetCall DEF f
<1>j. Handler \in Threads /\ th[Handler] \in Call
  BY <1>0, CallType DEF Threads
<1>14. ASSUME HandleCancellation PROVE TypeOK' /\ SameShapes
  <2>1. PICK r \in {"timed_out", "cancelled"} :
          Frame(Handler, [th[Handler] EXCEPT !.pc = "completion", !.r = r])
    BY <1>14 DEF HandleCancellation
  <2>2. "completion" \in HandlerPcs /\ r \in Statuses
    BY DEF HandlerPcs, Statuses
  <2>3. CallsOK'
    BY <1>i, <2>1, <2>2
  <2> QED
    BY <1>14, <1>a, <1>b, <1>c, <1>e, <1>f, <2>3 DEF TypeOK, HandleCancellation
<1>15. ASSUME HandleCompletion PROVE TypeOK' /\ SameShapes
  <2>1. th[Handler].x \in Filled
    BY <1>0, <1>15, <1>j, HasTransfer DEF HandleCompletion
  <2>2. ListOK'
    BY <1>0, <1>15, <2>1, RemoveFlyingType DEF HandleCompletion
  <2>3. CallsOK'
    <3> DEFINE f == [th[Handler] EXCEPT !.pc = "land"]
    <3>1. f \in Call /\ f.pc \in HandlerPcs
      BY <1>j DEF Call, HandlerPcs
    <3>2. Frame(Handler, f)
      BY <1>15 DEF HandleCompletion
    <3> HIDE DEF f
    <3> QED
      BY <1>0, <1>j, <3>1, <3>2, SetCall
  <2> QED
    BY <1>15, <1>a, <1>c, <1>e, <1>f, <2>2, <2>3 DEF TypeOK, HandleCompletion
<1>16. ASSUME Land PROVE TypeOK' /\ SameShapes
  <2> DEFINE x == th[Handler].x
             n == [x_[x] EXCEPT !.flight = FALSE]
  <2>1. x \in Filled /\ x_[x] \in TransferState
    BY <1>0, <1>16, <1>j, HasTransfer, TransferType DEF Land
  <2>2. TransfersOK' /\ SameShapes
    <3>1. n \in TransferState /\ n.shape = x_[x].shape
      BY <2>1 DEF TransferState
    <3>2. x_' = [x_ EXCEPT ![x] = n]
      BY <1>16 DEF Land
    <3> HIDE DEF n
    <3> QED
      BY <1>0, <2>1, <3>1, <3>2, SetTransfer
  <2>3. PICK r \in {"error", th[Handler].r} :
          Frame(Handler, [th[Handler] EXCEPT !.pc = "callback", !.r = r])
    BY <1>16, <1>j DEF Land, Call
  <2>4. "callback" \in HandlerPcs /\ r \in Statuses \cup {"ok", "not_found"}
    BY <1>j DEF HandlerPcs, Statuses, Call
  <2>5. CallsOK'
    BY <1>i, <2>3, <2>4
  <2> QED
    BY <1>16, <1>b, <1>c, <1>e, <1>f, <2>2, <2>5 DEF TypeOK, Land
<1>17. ASSUME Callback PROVE TypeOK' /\ SameShapes
  <2> DEFINE x == th[Handler].x
             n == [NewTransfer(x_[x].shape) EXCEPT !.disappeared = x_[x].disappeared,
                                                  !.reap = x_[x].reap]
  <2>1. x \in Filled /\ x_[x] \in TransferState /\ x \in Transfers /\ x_[x].shape \in Shape
    BY <1>0, <1>17, <1>j, HasTransfer, TransferType DEF Callback
  <2>2. TransfersOK' /\ SameShapes
    <3>1. n \in TransferState /\ n.shape = x_[x].shape
      <4>1. x_[x].disappeared \in BOOLEAN /\ x_[x].reap \in Statuses \ {"timed_out", "cancelled"}
        BY <2>1 DEF TransferState
      <4>2. NewTransfer(x_[x].shape) \in TransferState
        BY <2>1, TransfersAssumption DEF TransferState, NewTransfer, Statuses
      <4>3. NewTransfer(x_[x].shape).shape = x_[x].shape
        BY DEF NewTransfer
      <4> QED
        BY <4>1, <4>2, <4>3 DEF TransferState
    <3>2. x_' = [x_ EXCEPT ![x] = n]
      BY <1>17 DEF Callback
    <3> HIDE DEF n
    <3> QED
      BY <1>0, <2>1, <3>1, <3>2, SetTransfer
  <2>3. CallsOK'
    <3> DEFINE f == [Idle EXCEPT !.pc = "disconnect"]
    <3>1. f \in Call /\ f.pc \in HandlerPcs
      BY DEF Idle, Call, HandlerPcs, UserPcs, Statuses
    <3>2. Frame(Handler, f) \/ Frame(Handler, Idle)
      BY <1>17 DEF Callback
    <3> HIDE DEF f
    <3> QED
      BY <1>0, <1>j, <3>1, <3>2, SetCall, SetIdle
  <2>4. HistoryOK'
    BY <1>0, <1>17, <2>1 DEF Callback, TypeOK, HistoryOK
  <2> QED
    BY <1>17, <1>b, <1>c, <1>f, <2>2, <2>3, <2>4 DEF TypeOK, Callback
<1>18. ASSUME Disconnected PROVE TypeOK' /\ SameShapes
  <2> DEFINE f == [Idle EXCEPT !.pc = "disconnect"]
  <2>1. f \in Call /\ f.pc \in HandlerPcs
    BY DEF Idle, Call, HandlerPcs, UserPcs, Statuses
  <2>2. Frame(Handler, f)
    BY <1>18 DEF Disconnected
  <2> HIDE DEF f
  <2>3. CallsOK'
    BY <1>0, <1>j, <2>1, <2>2, SetCall
  <2>4. UrbsOK'
    BY <1>0, <1>18, <1>a, UrbsSame DEF Disconnected, TypeOK, UrbsOK, SameShapes
  <2> QED
    BY <1>18, <1>a, <1>b, <1>c, <1>e, <2>3, <2>4 DEF TypeOK, Disconnected
<1>19. ASSUME Disconnect PROVE TypeOK' /\ SameShapes
  <2>1. CASE Frame(Handler, Idle) /\ UNCHANGED x_
    <3>1. CallsOK'
      BY <1>0, <1>j, <2>1, SetIdle
    <3> QED
      BY <1>19, <1>a, <1>b, <1>c, <1>e, <1>f, <2>1, <3>1 DEF TypeOK, Disconnect
  <2>2. CASE \E k \in 1 .. Len(flying) :
               /\ x_' = [x_ EXCEPT ![flying[k]].urbs = FALSE]
               /\ Frame(Handler, [Idle EXCEPT !.pc = "completion", !.x = flying[k],
                                   !.r = "no_device", !.back = "disconnect"])
    <3>1. PICK x \in Filled :
            /\ x_' = [x_ EXCEPT ![x].urbs = FALSE]
            /\ Frame(Handler, [Idle EXCEPT !.pc = "completion", !.x = x,
                                 !.r = "no_device", !.back = "disconnect"])
      <4>1. PICK k \in 1 .. Len(flying) :
               /\ x_' = [x_ EXCEPT ![flying[k]].urbs = FALSE]
               /\ Frame(Handler, [Idle EXCEPT !.pc = "completion", !.x = flying[k],
                                   !.r = "no_device", !.back = "disconnect"])
        BY <2>2
      <4>2. flying[k] \in Filled
        BY <1>0 DEF TypeOK, ListOK
      <4> QED
        BY <4>1, <4>2
    <3>2. x_[x] \in TransferState /\ x \in Transfers
      BY <1>0, TransferType
    <3>3. TransfersOK' /\ SameShapes
      <4> DEFINE n == [x_[x] EXCEPT !.urbs = FALSE]
      <4>1. n \in TransferState /\ n.shape = x_[x].shape
        BY <3>2 DEF TransferState
      <4>2. x_' = [x_ EXCEPT ![x] = n]
        BY <3>1
      <4> HIDE DEF n
      <4> QED
        BY <1>0, <4>1, <4>2, SetTransfer
    <3>4. CallsOK'
      <4> DEFINE f == [Idle EXCEPT !.pc = "completion", !.x = x,
                         !.r = "no_device", !.back = "disconnect"]
      <4>1. f \in Call /\ f.pc \in HandlerPcs
        BY <3>2 DEF Idle, Call, HandlerPcs, UserPcs, Statuses
      <4> HIDE DEF f
      <4> QED
        BY <1>0, <1>j, <3>1, <4>1, SetCall DEF f
    <3> QED
      BY <1>19, <1>b, <1>c, <1>e, <1>f, <3>3, <3>4 DEF TypeOK, Disconnect
  <2> QED
    BY <1>19, <2>1, <2>2 DEF Disconnect
<1>20. ASSUME NEW x \in Filled, NEW i \in Urbs(x), KernelEnds(x, i) PROVE TypeOK' /\ SameShapes
  <2>1. PICK u \in {"ok", "short", "stall", "err", "overflow"}, m \in i .. NumUrbs(x) :
          /\ urb' = [urb EXCEPT ![x] = [j \in Urbs(x) |->
                        IF j = i THEN u ELSE IF j \in i .. m THEN "gone" ELSE @[j]]]
          /\ done' = done \o [k \in 1 .. (m - i + 1) |-> <<x, i + k - 1>>]
    BY <1>20 DEF KernelEnds
  <2>2. NumUrbs(x) \in Nat /\ i \in 1 .. NumUrbs(x)
    BY <1>0, TransferType DEF Urbs
  <2>3. done' \in Seq(AllUrbs)
    <3> DEFINE s == [k \in 1 .. (m - i + 1) |-> <<x, i + k - 1>>]
    <3>1. \A j \in Urbs(x) : <<x, j>> \in AllUrbs
      BY DEF AllUrbs
    <3>2. s \in Seq(AllUrbs)
      BY <2>2, <3>1 DEF Urbs
    <3> HIDE DEF s
    <3> QED
      BY <1>0, <2>1, <3>2, ConcatProperties DEF TypeOK, UrbsOK, s
  <2>4. DOMAIN urb' = Filled /\ \A y \in Filled : urb'[y] \in [Urbs(y) -> UrbStates]
    BY <1>0, <2>1 DEF TypeOK, UrbsOK, UrbStates
  <2>5. UrbsOK'
    BY <1>0, <1>20, <1>a, <2>3, <2>4, UrbsSame DEF KernelEnds, TypeOK, UrbsOK, SameShapes
  <2>6. CallsOK'
    BY <1>0, <1>20 DEF KernelEnds, TypeOK, CallsOK
  <2> QED
    BY <1>20, <1>a, <1>b, <1>c, <1>e, <2>5, <2>6 DEF TypeOK, KernelEnds
<1>21. ASSUME Unplug PROVE TypeOK' /\ SameShapes
  <2>1. PICK s \in [1 .. Cardinality(PendingUrbs) -> PendingUrbs] : done' = done \o s
    BY <1>21 DEF Unplug
  <2>2. done' \in Seq(AllUrbs)
    <3>1. s \in Seq(AllUrbs)
      <4>1. Cardinality(PendingUrbs) \in Nat
        BY <1>0, PendingIsFinite, FS_CardinalityType
      <4>2. PendingUrbs \subseteq AllUrbs
        BY DEF PendingUrbs
      <4> HIDE DEF PendingUrbs
      <4> QED
        BY <4>1, <4>2
    <3> QED
      BY <1>0, <2>1, <3>1, ConcatProperties DEF TypeOK, UrbsOK
  <2>3. DOMAIN urb' = Filled /\ \A y \in Filled : urb'[y] \in [Urbs(y) -> UrbStates]
    BY <1>0, <1>21 DEF Unplug, TypeOK, UrbsOK, UrbStates
  <2>4. UrbsOK'
    BY <1>0, <1>21, <1>a, <2>2, <2>3, UrbsSame DEF Unplug, TypeOK, UrbsOK, SameShapes
  <2>5. CallsOK'
    BY <1>0, <1>21 DEF Unplug, TypeOK, CallsOK
  <2> QED
    BY <1>21, <1>a, <1>b, <1>c, <1>e, <2>4, <2>5 DEF TypeOK, Unplug
<1>22. ASSUME Tick PROVE TypeOK' /\ SameShapes
  <2>1. PICK x \in ToSet(flying) : x_[x].deadline > now
    BY <1>22 DEF Tick
  <2>2. x \in Filled
    BY <1>0, <2>1 DEF ToSet, TypeOK, ListOK
  <2>3. x_[x].deadline \in 0 .. MaxTime
    BY <1>0, <2>2, TransferType DEF TransferState
  <2>4. ListOK'
    BY <1>0, <1>22, <1>a, <2>1, <2>3, TransfersAssumption DEF Tick, TypeOK, ListOK, SameShapes
  <2>5. CallsOK'
    BY <1>0, <1>22 DEF Tick, TypeOK, CallsOK
  <2> QED
    BY <1>22, <1>a, <1>c, <1>e, <1>f, <2>4, <2>5 DEF TypeOK, Tick
<1>23. CASE UNCHANGED vars
  <2>1. CallsOK'
    BY <1>0, <1>23 DEF vars, TypeOK, CallsOK
  <2> QED
    BY <1>23, <1>a, <1>b, <1>c, <1>e, <1>f, <2>1 DEF TypeOK, vars
<1> QED
  BY <1>1, <1>2, <1>3, <1>4, <1>5, <1>6, <1>7, <1>8, <1>9, <1>10, <1>11, <1>12,
     <1>13, <1>14, <1>15, <1>16, <1>17, <1>18, <1>19, <1>20, <1>21, <1>22, <1>23
     DEF Next, ThreadStep, HandlerStep, Threads

\* A step of one thread leaves what the others hold.
LEMMA OthersLock ==
    ASSUME TypeOK, LockInv, SameShapes, NEW t, NEW u \in Threads, u # t,
           th'[u] = th[u],
           \A x \in Filled : xlock[x] \notin {t, None} => xlock'[x] = xlock[x],
           flock \notin {t, None} => flock' = flock /\ flying' = flying
    PROVE  LockOf(u)'
<1>1. LockOf(u) /\ u # None
  BY TransfersAssumption DEF LockInv, Threads
<1>2. \A x \in Filled : Urbs(x)' = Urbs(x)
  BY DEF SameShapes, Urbs, NumUrbs
<1>3. Filled' = Filled
  BY DEF SameShapes
<1>4. th[u].pc \in {"urb", "inflight", "discard", "cancelled", "expired", "reaped"}
        => th[u].x \in Filled /\ xlock'[th[u].x] = u
  BY <1>1 DEF LockOf
<1>5. /\ th[u].pc = "timeouts" \/ Expiring(u) => flock' = u
      /\ Expiring(u) => th[u].x \in ToSet(flying')
  BY <1>1 DEF LockOf
<1>6. Expiring(u)' = Expiring(u)
  BY DEF Expiring
<1> QED
  BY <1>1, <1>2, <1>3, <1>4, <1>5, <1>6 DEF LockOf

\* Only the calls, the flags and the list that a step changes matter to the
\* invariants: a step that changes neither keeps them.
LEMMA LockSame ==
    ASSUME TypeOK, LockInv, SameShapes, UNCHANGED <<th, flying, locks>>
    PROVE  LockInv'
<1> SUFFICES ASSUME NEW u \in Threads PROVE LockOf(u)'
  BY DEF LockInv
<1>1. u # None
  BY TransfersAssumption DEF Threads
<1> QED
  BY <1>1, OthersLock DEF locks

\* The same for what is in flight, ...
LEMMA FlightSame ==
    ASSUME TypeOK, LockInv, FlightInv, SameShapes, UNCHANGED <<th, accepts, answers>>,
           \A x \in Filled : x_'[x].flight = x_[x].flight /\ x_'[x].urbs = x_[x].urbs
    PROVE  FlightInv'
<1>1. /\ \A t : Submitting(t)' = Submitting(t) /\ \A x : Owns(t, x)' = Owns(t, x)
      /\ Ending' = Ending
  BY DEF Submitting, Owns, Ending
<1>2. Filled' = Filled /\ CallbackDue' = CallbackDue
  BY DEF SameShapes, CallbackDue
<1>3. /\ Ending \/ th[Handler].pc = "callback" => th[Handler].x \in Filled
      /\ \A t \in Users : th[t].pc = "urb" => th[t].x \in Filled
  BY HasTransfer DEF Ending, Threads
<1> QED
  BY <1>1, <1>2, <1>3 DEF FlightInv

\* ... and for what is on the list.
LEMMA ListSame ==
    ASSUME ListInv, SameShapes, UNCHANGED <<th, flying>>,
           \A x \in Filled : x_'[x].flight = x_[x].flight
    PROVE  ListInv'
<1>1. \A t, x : Owns(t, x)' = Owns(t, x)
  BY DEF Submitting, Owns
<1> QED
  BY <1>1 DEF ListInv, SameShapes

\* The call that a step ends or changes.
LEMMA CallAfter ==
    ASSUME TypeOK, NEW t \in Threads, NEW f, Frame(t, f)
    PROVE  th'[t] = f /\ \A u \in Threads \ {t} : th'[u] = th[u]
BY DEF Frame, TypeOK, CallsOK

\* A step of a call that submits nothing, and neither ends a transfer nor goes
\* on with ending one, keeps what is in flight and what is on the list.
LEMMA Neutral ==
    ASSUME TypeOK, LockInv, FlightInv, ListInv, SameShapes,
           NEW t \in Threads, NEW f, Frame(t, f),
           ~Submitting(t), th[t].pc # "remove",
           f.pc \notin {"urb", "inflight", "remove"},
           ~(f.pc = "discard" /\ f.back = "inflight"),
           \/ /\ th[t].pc \notin {"cancellation", "completion", "land", "callback"}
              /\ f.pc \notin {"cancellation", "completion", "land", "callback"}
           \/ /\ t = Handler /\ th[t].pc = "cancellation"
              /\ f.pc = "completion" /\ f.x = th[t].x,
           UNCHANGED <<accepts, answers, flying>>,
           \A x \in Filled : x_'[x].flight = x_[x].flight /\ x_'[x].urbs = x_[x].urbs
    PROVE  FlightInv' /\ ListInv'
<1>1. th'[t] = f /\ \A u \in Threads \ {t} : th'[u] = th[u]
  BY CallAfter
<1>2. Handler \in Threads /\ Handler \notin Users /\ Users \subseteq Threads
  BY TransfersAssumption DEF Threads
<1>3. \A u \in Users : /\ Submitting(u)' = Submitting(u) /\ (Submitting(u) => th'[u] = th[u])
                       /\ \A x : Owns(u, x)' = Owns(u, x)
                       /\ th'[u].pc = "urb" => th'[u] = th[u]
  <2> SUFFICES ASSUME NEW u \in Users
               PROVE  /\ Submitting(u)' = Submitting(u) /\ (Submitting(u) => th'[u] = th[u])
                      /\ \A x : Owns(u, x)' = Owns(u, x)
                      /\ th'[u].pc = "urb" => th'[u] = th[u]
    OBVIOUS
  <2>1. CASE u = t
    BY <1>1, <2>1 DEF Submitting, Owns
  <2>2. CASE u # t
    BY <1>1, <1>2, <2>2 DEF Submitting, Owns
  <2> QED
    BY <2>1, <2>2
<1>4. /\ CallbackDue' = CallbackDue /\ Ending' = Ending /\ Filled' = Filled
      /\ (th'[Handler].pc = "callback") = (th[Handler].pc = "callback")
      /\ (th'[Handler].pc = "land") = (th[Handler].pc = "land")
      /\ Ending \/ th[Handler].pc = "callback" => th'[Handler].x = th[Handler].x
  <2>1. CASE t = Handler
    BY <1>1, <2>1 DEF CallbackDue, Ending, SameShapes
  <2>2. CASE t # Handler
    BY <1>1, <1>2, <2>2 DEF CallbackDue, Ending, SameShapes
  <2> QED
    BY <2>1, <2>2
<1>5. /\ Ending \/ th[Handler].pc = "callback" => th[Handler].x \in Filled
      /\ \A u \in Users : th[u].pc = "urb" => th[u].x \in Filled
  BY <1>2, HasTransfer DEF Ending
<1>6. FlightInv'
  BY <1>3, <1>4, <1>5 DEF FlightInv
<1>7. ListInv'
  <2>1. \A x : (th'[Handler].pc = "land" /\ th'[Handler].x = x)
                = (th[Handler].pc = "land" /\ th[Handler].x = x)
    BY <1>4 DEF Ending
  <2> QED
    BY <1>3, <1>4, <2>1 DEF ListInv
<1> QED
  BY <1>6, <1>7

\* Every step preserves the locks, what is in flight and what is on the list.
LEMMA CoreStep ==
    ASSUME IndInv, [Next]_vars
    PROVE  LockInv' /\ FlightInv' /\ ListInv'
<1> USE DEF kernel, ghost, lists, locks
<1>0. TypeOK /\ LockInv /\ FlightInv /\ ListInv /\ TypeOK' /\ SameShapes
  BY TypeStep DEF IndInv
<1>a. Handler \in Threads /\ Handler \notin Users /\ Users \subseteq Threads
  BY TransfersAssumption DEF Threads
<1>b. /\ Idle.pc = "idle" /\ Idle.back = "idle"
  BY DEF Idle
<1>c. ASSUME NEW t \in Threads, Frame(t, Idle),
             \A x \in Filled : xlock[x] \notin {t, None} => xlock'[x] = xlock[x],
             flock \notin {t, None} => flock' = flock /\ flying' = flying
      PROVE  LockInv'
  <2>1. th'[t] = Idle /\ \A u \in Threads \ {t} : th'[u] = th[u]
    BY <1>0, <1>c, CallAfter
  <2>2. LockOf(t)'
    BY <1>b, <2>1 DEF LockOf, Expiring
  <2>3. ASSUME NEW u \in Threads, u # t PROVE LockOf(u)'
    BY <1>0, <1>c, <2>1, <2>3, OthersLock
  <2> QED
    BY <2>2, <2>3 DEF LockInv
\* The submission of a transfer succeeds.
<1>d. ASSUME NEW t \in Users, Submitting(t), NEW x \in Filled, x = th[t].x, Frame(t, Idle),
             xlock' = [xlock EXCEPT ![x] = None], UNCHANGED <<flock, flying, answers>>,
             accepts' = [accepts EXCEPT ![x] = 1 - @], x_'[x].flight,
             \A y \in Filled \ {x} : x_'[y] = x_[y]
      PROVE  LockInv' /\ FlightInv' /\ ListInv'
  <2>1. th'[t] = Idle /\ \A u \in Threads \ {t} : th'[u] = th[u]
    BY <1>0, <1>a, <1>d, CallAfter
  <2>2. t # Handler /\ xlock[x] = t /\ x \in Transfers
    BY <1>0, <1>a, <1>d, HasTransfer, TransferType DEF Submitting
  <2>3. LockInv'
    BY <1>0, <1>a, <1>c, <1>d, <2>2 DEF TypeOK, LocksOK
  <2>4. /\ ~Submitting(t)' /\ ~(th[t].pc = "remove")' /\ Filled' = Filled
        /\ \A y : ~Owns(t, y)'
        /\ \A u \in Users \ {t} : /\ Submitting(u)' = Submitting(u) /\ th'[u] = th[u]
                                  /\ \A y : Owns(u, y)' = Owns(u, y)
        /\ th'[Handler] = th[Handler] /\ CallbackDue' = CallbackDue /\ Ending' = Ending
    BY <1>0, <1>a, <1>b, <2>1, <2>2 DEF Submitting, Owns, CallbackDue, Ending, SameShapes
  <2>5. Owns(t, x) /\ x \notin CallbackDue /\ ~x_[x].flight
    BY <1>0, <1>d DEF Owns, FlightInv
  <2>6. \A u \in Users : u # t => ~Owns(u, x)
    BY <1>0, <2>5, <1>d DEF ListInv
  <2>7. accepts'[x] # answers'[x] /\ \A y \in Filled \ {x} : accepts'[y] = accepts[y]
    <3>1. accepts[x] = answers[x] /\ accepts[x] \in {0, 1} /\ accepts \in [Transfers -> {0, 1}]
      BY <1>0, <2>2, <2>5 DEF FlightInv, TypeOK, HistoryOK
    <3> QED
      BY <1>d, <2>2, <3>1
  <2>8. FlightInv'
    <3>1. Ending \/ th[Handler].pc = "callback" => th[Handler].x \in Filled /\ th[Handler].x # x
      BY <1>0, <1>a, <2>5, HasTransfer DEF Ending, FlightInv, CallbackDue
    <3>2. \A u \in Users \ {t} : th[u].pc = "urb" => th[u].x \in Filled \ {x}
      BY <1>0, <1>a, <2>6, HasTransfer DEF Owns, Submitting
    <3>3. ASSUME NEW y \in Filled, y # x
          PROVE  /\ accepts'[y] # answers'[y] <=> x_'[y].flight \/ y \in CallbackDue'
                 /\ y \in CallbackDue' => ~x_'[y].flight
                 /\ x_'[y].urbs => x_'[y].flight \/ \E u \in Users : Submitting(u)' /\ th'[u].x = y
                 /\ x_'[y].flight \/ y \in CallbackDue' => \A u \in Users : ~Owns(u, y)'
      BY <1>0, <1>d, <2>4, <2>7, <3>3 DEF FlightInv
    <3> QED
      BY <1>0, <1>d, <2>1, <2>4, <2>5, <2>6, <2>7, <3>1, <3>2, <3>3, <1>b DEF FlightInv
  <2>9. ListInv'
    <3>1. x \in ToSet(flying) /\ ~(th[Handler].pc = "land" /\ th[Handler].x = x)
      BY <1>0, <1>d, <2>5 DEF ListInv, Ending, FlightInv
    <3>2. \A y : y # x => ~Owns(t, y)
      BY <1>d DEF Owns
    <3>3. ASSUME NEW y \in Filled, y # x
          PROVE  y \in ToSet(flying') <=>
                   \/ \E u \in Users : Owns(u, y)'
                   \/ x_'[y].flight /\ ~(th'[Handler].pc = "land" /\ th'[Handler].x = y)
      BY <1>0, <1>d, <2>4, <3>2, <3>3 DEF ListInv
    <3>4. \A y \in Filled : \A u, v \in Users : Owns(u, y)' /\ Owns(v, y)' => u = v
      BY <1>0, <2>4 DEF ListInv
    <3> QED
      BY <1>d, <2>4, <3>1, <3>3, <3>4 DEF ListInv
  <2> QED
    BY <2>3, <2>8, <2>9
<1>2. ASSUME NEW t \in Threads, SubmitDone(t) PROVE LockInv' /\ FlightInv' /\ ListInv'
  <2> DEFINE x == th[t].x
  <2>1. x \in Filled /\ t \in Users /\ Submitting(t) /\ x_ \in [Filled -> TransferState]
    BY <1>0, <1>2, HasTransfer DEF SubmitDone, Submitting, TypeOK, TransfersOK
  <2>2. x_'[x].flight /\ \A y \in Filled \ {x} : x_'[y] = x_[y]
    BY <1>2, <2>1 DEF SubmitDone, InFlight, TransferState
  <2> QED
    BY <1>2, <1>d, <2>1, <2>2 DEF SubmitDone, InFlight
\* A submission goes on: the transfer stays its own.
<1>e. ASSUME NEW t \in Users, NEW x \in Filled, NEW f, Submitting(t), th[t].x = x,
             Frame(t, f), f.x = x,
             \/ f.pc = "urb" /\ f.i \in Urbs(x) \ {1}
             \/ f.pc = "inflight"
             \/ /\ f.pc = "discard" /\ f.back = "inflight"
                /\ f.lo \in 1 .. f.i /\ f.i \in Urbs(x),
             UNCHANGED <<accepts, answers, flying, locks>>,
             x_'[x].flight = x_[x].flight,
             \A y \in Filled \ {x} : x_'[y] = x_[y]
      PROVE  LockInv' /\ FlightInv' /\ ListInv'
  <2>1. th'[t] = f /\ \A u \in Threads \ {t} : th'[u] = th[u]
    BY <1>0, <1>a, <1>e, CallAfter
  <2>2. t # Handler /\ xlock[x] = t /\ t \in Threads /\ Filled' = Filled /\ Urbs(x)' = Urbs(x)
    BY <1>0, <1>a, <1>e, HasTransfer, UrbsSame DEF Submitting, SameShapes, TypeOK
  <2>3. LockInv'
    <3>1. LockOf(t)'
      BY <1>e, <2>1, <2>2 DEF LockOf, Expiring
    <3>2. ASSUME NEW u \in Threads, u # t PROVE LockOf(u)'
      BY <1>0, <1>e, <2>1, <3>2, OthersLock
    <3> QED
      BY <3>1, <3>2 DEF LockInv
  <2>4. /\ Submitting(t)' /\ th'[t].x = x
        /\ \A u \in Users : /\ Submitting(u)' = Submitting(u) /\ th'[u].x = th[u].x
                            /\ \A y : Owns(u, y)' = Owns(u, y)
    <3>1. Submitting(t)' /\ th'[t].x = x
      BY <1>e, <2>1 DEF Submitting
    <3>2. \A u \in Users \ {t} : th'[u] = th[u]
      BY <1>a, <2>1
    <3> QED
      BY <1>e, <3>1, <3>2 DEF Submitting, Owns
  <2>5. /\ th'[Handler] = th[Handler] /\ CallbackDue' = CallbackDue /\ Ending' = Ending
    BY <1>a, <2>1, <2>2 DEF CallbackDue, Ending
  <2>6. Owns(t, x) /\ ~x_[x].flight /\ x \notin CallbackDue
    BY <1>0, <1>e DEF Owns, FlightInv
  <2>7. Ending \/ th[Handler].pc = "callback" => th[Handler].x \in Filled /\ th[Handler].x # x
    BY <1>0, <1>a, <2>6, HasTransfer DEF Ending, FlightInv, CallbackDue
  <2>8. \A u \in Users : th'[u].pc = "urb" /\ th'[u].i = 1 => /\ u # t /\ th'[u] = th[u]
                                                            /\ th[u].x \in Filled \ {x}
    <3>1. \A u \in Users \ {t} : th'[u] = th[u] /\ ~Owns(u, x)
      BY <1>0, <1>a, <1>e, <2>1, <2>6 DEF ListInv
    <3>2. \A u \in Users : th[u].pc = "urb" => th[u].x \in Filled
      BY <1>0, <1>a, HasTransfer
    <3> QED
      BY <1>e, <2>1, <3>1, <3>2 DEF Owns, Submitting
  <2>9. FlightInv'
    <3>1. ASSUME NEW y \in Filled
          PROVE  /\ accepts'[y] # answers'[y] <=> x_'[y].flight \/ y \in CallbackDue'
                 /\ y \in CallbackDue' => ~x_'[y].flight
                 /\ x_'[y].urbs => x_'[y].flight \/ \E u \in Users : Submitting(u)' /\ th'[u].x = y
                 /\ x_'[y].flight \/ y \in CallbackDue' => \A u \in Users : ~Owns(u, y)'
      <4>1. CASE y = x
        BY <1>0, <1>e, <2>4, <2>5, <4>1 DEF FlightInv
      <4>2. CASE y # x
        BY <1>0, <1>e, <2>4, <2>5, <4>2 DEF FlightInv
      <4> QED
        BY <4>1, <4>2
    <3> QED
      BY <1>0, <1>e, <2>2, <2>5, <2>7, <2>8, <3>1 DEF FlightInv
  <2>10. ListInv'
    <3>1. \A y \in Filled : x_'[y].flight = x_[y].flight
      BY <1>e
    <3> QED
      BY <1>0, <1>e, <2>2, <2>4, <2>5, <3>1 DEF ListInv
  <2> QED
    BY <2>3, <2>9, <2>10
<1>1. ASSUME NEW t \in Threads, SubmitUrb(t) PROVE LockInv' /\ FlightInv' /\ ListInv'
  <2> DEFINE x == th[t].x
             i == th[t].i
  <2>1. /\ x \in Filled /\ i \in Urbs(x) /\ t \in Users /\ Submitting(t)
        /\ x_ \in [Filled -> TransferState] /\ th[t] \in Call
        /\ NumUrbs(x) \in Nat /\ Urbs(x) = 1 .. NumUrbs(x)
    BY <1>0, <1>1, HasTransfer, CallType, TransferType
       DEF SubmitUrb, LockInv, LockOf, Submitting, TypeOK, TransfersOK, Urbs
  <2>2. CASE SubmitUrbOk(t, x, i) /\ i = NumUrbs(x)
    <3>1. x_'[x].flight /\ \A y \in Filled \ {x} : x_'[y] = x_[y]
      BY <2>1, <2>2 DEF SubmitUrbOk, InFlight, TransferState
    <3> QED
      BY <1>1, <1>d, <2>1, <2>2, <3>1 DEF SubmitUrb, SubmitUrbOk, InFlight
  <2>3. CASE SubmitUrbOk(t, x, i) /\ i # NumUrbs(x)
    <3> DEFINE f == [th[t] EXCEPT !.i = i + 1]
    <3>1. x_'[x].flight = x_[x].flight /\ \A y \in Filled \ {x} : x_'[y] = x_[y]
      BY <2>1, <2>3 DEF SubmitUrbOk, TransferState
    <3>2. Frame(t, f) /\ f.x = x /\ f.pc = "urb" /\ f.i \in Urbs(x) \ {1}
      BY <1>1, <2>1, <2>3 DEF SubmitUrb, SubmitUrbOk, Call
    <3> HIDE DEF f
    <3> QED
      BY <1>1, <1>e, <2>1, <2>3, <3>1, <3>2 DEF SubmitUrb, SubmitUrbOk
  <2>4. CASE i = 1 /\ SubmitUrbFirstFails(t, x)
    <3> DEFINE f == [Idle EXCEPT !.pc = "remove", !.x = x]
    <3>1. /\ Frame(t, f) /\ f.pc = "remove" /\ f.x = x
          /\ xlock' = [xlock EXCEPT ![x] = None] /\ UNCHANGED <<x_, accepts>>
      BY <2>4 DEF SubmitUrbFirstFails, Idle
    <3> HIDE DEF f
    <3>2. th'[t] = f /\ \A u \in Threads \ {t} : th'[u] = th[u]
      BY <1>0, <3>1, CallAfter
    <3>3. /\ Owns(t, x) /\ ~x_[x].flight /\ x \notin CallbackDue /\ ~x_[x].urbs
          /\ xlock[x] = t /\ t # Handler
      BY <1>0, <1>1, <1>a, <2>1, <2>4, HasTransfer DEF Owns, FlightInv, SubmitUrb
    <3>4. LockInv'
      <4>1. LockOf(t)'
        BY <1>0, <2>1, <3>1, <3>2 DEF LockOf, Expiring, SameShapes
      <4>2. \A y \in Filled : xlock[y] \notin {t, None} => xlock'[y] = xlock[y]
        BY <1>0, <3>1, <3>3 DEF TypeOK, LocksOK, TransfersOK
      <4>3. ASSUME NEW u \in Threads, u # t PROVE LockOf(u)'
        BY <1>0, <1>1, <3>2, <4>2, <4>3, OthersLock DEF SubmitUrb
      <4> QED
        BY <4>1, <4>3 DEF LockInv
    <3>5. \A u \in Users : /\ \A y : Owns(u, y)' = Owns(u, y)
                           /\ u # t => Submitting(u)' = Submitting(u) /\ th'[u] = th[u]
      <4>1. \A u \in Users \ {t} : th'[u] = th[u]
        BY <1>a, <3>2
      <4> QED
        BY <2>1, <3>1, <3>2, <3>3, <4>1 DEF Submitting, Owns
    <3>6. th'[Handler] = th[Handler] /\ CallbackDue' = CallbackDue /\ Ending' = Ending
          /\ Filled' = Filled
      BY <1>0, <1>a, <3>2, <3>3 DEF CallbackDue, Ending, SameShapes
    <3>7. FlightInv'
      <4>1. ASSUME NEW y \in Filled, x_[y].urbs
            PROVE  x_[y].flight \/ \E u \in Users : Submitting(u)' /\ th'[u].x = y
        <5>1. CASE x_[y].flight
          BY <5>1
        <5>2. CASE ~x_[y].flight
          <6>1. PICK u \in Users : Submitting(u) /\ th[u].x = y
            BY <1>0, <4>1, <5>2 DEF FlightInv
          <6>2. u # t
            BY <3>3, <4>1, <6>1
          <6> QED
            BY <3>5, <6>1, <6>2
        <5> QED
          BY <5>1, <5>2
      <4>2. \A u \in Users : th'[u].pc = "urb" => u # t
        BY <3>1, <3>2
      <4> QED
        BY <1>0, <1>1, <3>1, <3>5, <3>6, <4>1, <4>2 DEF FlightInv, SubmitUrb
    <3>8. ListInv'
      BY <1>0, <1>1, <3>1, <3>5, <3>6 DEF ListInv, SubmitUrb
    <3> QED
      BY <3>4, <3>7, <3>8
  <2>5. CASE i > 1 /\ SubmitUrbLaterFails(t, x, i)
    <3> DEFINE failed(a) == [x_ EXCEPT ![x].action = a,
                                       ![x].retired = @ + NumUrbs(x) - i + 1]
    <3>0. ASSUME NEW a PROVE /\ failed(a)[x].flight = x_[x].flight
                             /\ DOMAIN failed(a) = Filled /\ DOMAIN failed(a)[x] = DOMAIN x_[x]
                             /\ \A y \in Filled \ {x} : failed(a)[y] = x_[y]
      BY <2>1 DEF TransferState
    <3> HIDE DEF failed
    <3>1. CASE InFlight(t, failed("completed_early"))
      <4>1. x_'[x].flight /\ \A y \in Filled \ {x} : x_'[y] = x_[y]
        <5>1. "flight" \in DOMAIN x_[x]
          BY <2>1 DEF TransferState
        <5> QED
          BY <2>1, <3>0, <3>1, <5>1 DEF InFlight
      <4> QED
        BY <1>1, <1>d, <2>1, <3>1, <4>1 DEF SubmitUrb, InFlight
    <3>2. CASE /\ x_' = failed("submit_failed")
               /\ Frame(t, [Idle EXCEPT !.pc = "discard", !.x = x, !.lo = 1,
                              !.i = i - 1, !.top = i - 1, !.back = "inflight"])
               /\ UNCHANGED <<xlock, accepts>>
      <4> DEFINE f == [Idle EXCEPT !.pc = "discard", !.x = x, !.lo = 1,
                         !.i = i - 1, !.top = i - 1, !.back = "inflight"]
      <4>1. /\ f.x = x /\ f.pc = "discard" /\ f.back = "inflight"
            /\ f.lo \in 1 .. f.i /\ f.i \in Urbs(x)
        BY <2>1, <2>5 DEF Idle
      <4> HIDE DEF f
      <4>2. Frame(t, f)
        BY <3>2 DEF f
      <4> QED
        BY <1>1, <1>e, <2>1, <3>0, <3>2, <4>1, <4>2 DEF SubmitUrb
    <3> QED
      BY <2>5, <3>1, <3>2 DEF SubmitUrbLaterFails, failed
  <2> QED
    BY <1>1, <2>2, <2>3, <2>4, <2>5 DEF SubmitUrb
<1>3. ASSUME NEW t \in Threads, SubmitRemove(t) PROVE LockInv' /\ FlightInv' /\ ListInv'
  <2> DEFINE x == th[t].x
  <2>1. /\ x \in Filled /\ t \in Users /\ t # Handler /\ th[t].pc = "remove"
        /\ Owns(t, x) /\ ~Submitting(t)
    BY <1>0, <1>3, <1>a, HasTransfer DEF SubmitRemove, Owns, Submitting
  <2>2. th'[t] = Idle /\ \A u \in Threads \ {t} : th'[u] = th[u]
    BY <1>0, <1>3, CallAfter DEF SubmitRemove
  <2>3. ToSet(flying') = ToSet(flying) \ {x} /\ flock = None /\ flock' = None
    BY <1>0, <1>3, <2>1, RemoveFlyingType DEF SubmitRemove
  <2>4. LockInv'
    BY <1>3, <1>c, <2>3 DEF SubmitRemove
  <2>5. /\ \A y : ~Owns(t, y)' /\ ~Submitting(t)'
        /\ \A u \in Users \ {t} : /\ Submitting(u)' = Submitting(u) /\ th'[u] = th[u]
                                  /\ \A y : Owns(u, y)' = Owns(u, y)
        /\ th'[Handler] = th[Handler] /\ CallbackDue' = CallbackDue /\ Ending' = Ending
        /\ Filled' = Filled /\ x_' = x_
    BY <1>0, <1>3, <1>a, <1>b, <2>1, <2>2
       DEF Submitting, Owns, CallbackDue, Ending, SameShapes, SubmitRemove
  <2>6. ~x_[x].flight /\ \A u \in Users \ {t} : ~Owns(u, x)
    BY <1>0, <2>1 DEF FlightInv, ListInv
  <2>7. \A y : y # x => ~Owns(t, y)
    BY DEF Owns
  <2>8. FlightInv'
    <3>1. ASSUME NEW y \in Filled, x_[y].urbs
          PROVE  x_[y].flight \/ \E u \in Users : Submitting(u)' /\ th'[u].x = y
      BY <1>0, <2>1, <2>5, <3>1 DEF FlightInv
    <3>2. \A u \in Users : th'[u].pc = "urb" => u # t
      BY <1>b, <2>2
    <3> QED
      BY <1>0, <1>3, <2>5, <3>1, <3>2 DEF FlightInv, SubmitRemove
  <2>9. ListInv'
    <3>1. ASSUME NEW y \in Filled
          PROVE  y \in ToSet(flying') <=>
                   \/ \E u \in Users : Owns(u, y)'
                   \/ x_[y].flight /\ ~(th[Handler].pc = "land" /\ th[Handler].x = y)
      <4>1. CASE y = x
        BY <2>3, <2>5, <2>6, <4>1
      <4>2. CASE y # x
        BY <1>0, <2>3, <2>5, <2>7, <4>2 DEF ListInv
      <4> QED
        BY <4>1, <4>2
    <3>2. \A y \in Filled : \A u, v \in Users : Owns(u, y)' /\ Owns(v, y)' => u = v
      BY <1>0, <2>5 DEF ListInv
    <3> QED
      BY <2>5, <3>1, <3>2 DEF ListInv
  <2> QED
    BY <2>4, <2>8, <2>9
\* A step of one call, given what that call holds afterwards.
<1>f. ASSUME NEW t \in Threads, NEW f, Frame(t, f), LockOf(t)',
             \A x \in Filled : xlock[x] \notin {t, None} => xlock'[x] = xlock[x],
             flock \notin {t, None} => flock' = flock /\ flying' = flying
      PROVE  LockInv'
  <2>1. th'[t] = f /\ \A u \in Threads \ {t} : th'[u] = th[u]
    BY <1>0, <1>f, CallAfter
  <2>2. ASSUME NEW u \in Threads, u # t PROVE LockOf(u)'
    BY <1>0, <1>f, <2>1, <2>2, OthersLock
  <2> QED
    BY <1>f, <2>2 DEF LockInv
<1>g. ASSUME NEW x \in Filled, NEW v, xlock' = [xlock EXCEPT ![x] = v]
      PROVE  /\ xlock'[x] = v /\ \A y \in Filled \ {x} : xlock'[y] = xlock[y]
  BY <1>0, <1>g DEF TypeOK, LocksOK, TransfersOK
<1>h. ASSUME NEW x \in Filled, NEW o \in Call, NEW a
      PROVE  LET f == CancelFrame(o, x, a)
             IN  /\ f.x = x /\ f.lo = 1 /\ f.i = NumUrbs(x) /\ f.back = a
                 /\ f.pc = IF x_[x].urbs THEN "discard" ELSE a
                 /\ f.clock = o.clock
  BY DEF CancelFrame, Call
<1>i. Filled' = Filled /\ \A x \in Filled : /\ Urbs(x)' = Urbs(x) /\ NumUrbs(x) \in Urbs(x)
                                            /\ 1 \in 1 .. NumUrbs(x)
  BY <1>0, TransferType, UrbsSame DEF SameShapes, TypeOK, Urbs
<1>j. x_ \in [Filled -> TransferState] /\ Idle \in Call
  BY <1>0 DEF TypeOK, TransfersOK, Idle, Call, UserPcs, HandlerPcs, Statuses
<1>4. ASSUME NEW t \in Threads, CancelDone(t) PROVE LockInv' /\ FlightInv' /\ ListInv'
  <2> DEFINE x == th[t].x
             f == IF th[t].pc = "cancelled" THEN Idle ELSE [th[t] EXCEPT !.pc = "mark"]
  <2>1. /\ th[t].pc \in {"cancelled", "expired"} /\ Frame(t, f) /\ th[t] \in Call
        /\ xlock' = [xlock EXCEPT ![x] = None] /\ x_' = AfterCancel(x, th[t].r)
        /\ UNCHANGED <<lists, flock, kernel, ghost>>
    BY <1>0, <1>4, CallType DEF CancelDone
  <2>2. x \in Filled /\ xlock[x] = t /\ LockOf(t)
    BY <1>0, <2>1, HasTransfer DEF LockInv
  <2>3. /\ f.pc \in {"idle", "mark"}
        /\ f.pc = "mark" => th[t].pc = "expired" /\ f.x = x
    BY <1>b, <2>1 DEF Call
  <2> HIDE DEF f
  <2>4. th'[t] = f
    BY <1>0, <2>1, CallAfter
  <2>5. LockOf(t)'
    BY <1>i, <2>1, <2>2, <2>3, <2>4 DEF LockOf, Expiring
  <2>6. LockInv'
    BY <1>f, <1>g, <2>1, <2>2, <2>5
  <2>7. \A y \in Filled : x_'[y].flight = x_[y].flight /\ x_'[y].urbs = x_[y].urbs
    BY <1>j, <2>1, <2>2 DEF AfterCancel, TransferState
  <2>8. ~Submitting(t)
    BY <2>1 DEF Submitting
  <2> QED
    BY <1>0, <2>1, <2>3, <2>6, <2>7, <2>8, Neutral
<1>5. ASSUME NEW t \in Threads, Discard(t) PROVE LockInv' /\ FlightInv' /\ ListInv'
  <2> DEFINE x == th[t].x
             i == th[t].i
  <2>1. /\ th[t].pc = "discard" /\ th[t] \in Call /\ x \in Filled /\ LockOf(t)
        /\ UNCHANGED <<x_, lists, locks, ghost>>
    BY <1>0, <1>5, CallType, HasTransfer DEF Discard, LockInv
  <2>2. \E f : /\ Frame(t, f) /\ f.x = x /\ f.back = th[t].back /\ f.lo = th[t].lo
               /\ f.i = i - 1 /\ f.pc = IF i = th[t].lo THEN th[t].back ELSE "discard"
    <3> DEFINE next == [th[t] EXCEPT !.i = i - 1,
                          !.pc = IF i = th[t].lo THEN th[t].back ELSE "discard"]
               later == [next EXCEPT
                          !.r = CASE plugged # "yes" -> "no_device"
                                  [] i = th[t].top -> "not_found"
                                  [] OTHER -> @]
    <3>1. /\ next.x = x /\ next.back = th[t].back /\ next.lo = th[t].lo
          /\ next.i = i - 1 /\ next.pc = IF i = th[t].lo THEN th[t].back ELSE "discard"
      BY <2>1 DEF Call
    <3>2. /\ later.x = next.x /\ later.back = next.back /\ later.lo = next.lo
          /\ later.i = next.i /\ later.pc = next.pc
      OBVIOUS
    <3>3. Frame(t, next) \/ Frame(t, later)
      BY <1>5 DEF Discard
    <3> HIDE DEF next, later
    <3> QED
      BY <3>1, <3>2, <3>3
  <2>3. PICK f : /\ Frame(t, f) /\ f.x = x /\ f.back = th[t].back /\ f.lo = th[t].lo
                 /\ f.i = i - 1 /\ f.pc = IF i = th[t].lo THEN th[t].back ELSE "discard"
    BY <2>2
  <2>4. /\ f.pc = "discard" => f.lo \in 1 .. f.i /\ f.i \in Urbs(x)
        /\ f.pc \in {"discard", f.back}
        /\ f.back \in (IF t = Handler THEN {"reaped", "expired"}
                       ELSE {"inflight", "cancelled", "expired"})
    <3>1. NumUrbs(x) \in Nat
      BY <1>0, <2>1, TransferType
    <3> QED
      BY <2>1, <2>3, <3>1 DEF LockOf, Urbs
  <2>5. CASE f.back = "inflight"
    <3>1. t \in Users /\ Submitting(t)
      BY <2>1, <2>3, <2>4, <2>5 DEF Submitting, Threads
    <3> QED
      BY <1>e, <2>1, <2>3, <2>4, <2>5, <3>1
  <2>6. CASE f.back # "inflight"
    <3>1. th'[t] = f
      BY <1>0, <2>3, CallAfter
    <3>2. Expiring(t)' = Expiring(t)
      BY <2>1, <2>3, <2>4, <3>1 DEF Expiring
    <3>3. LockOf(t)'
      BY <1>i, <2>1, <2>3, <2>4, <2>6, <3>1, <3>2 DEF LockOf
    <3>4. LockInv'
      BY <1>f, <2>1, <2>3, <3>3
    <3>5. ~Submitting(t)
      BY <2>1, <2>3, <2>6 DEF Submitting
    <3>6. /\ f.pc \notin {"urb", "inflight", "remove", "cancellation", "completion", "land", "callback"}
          /\ ~(f.pc = "discard" /\ f.back = "inflight")
      BY <2>4, <2>6
    <3> QED
      BY <1>0, <2>1, <2>3, <3>4, <3>5, <3>6, Neutral
  <2> QED
    BY <2>5, <2>6
<1>6. ASSUME NEW t \in Threads, TimeoutsEnd(t) PROVE LockInv' /\ FlightInv' /\ ListInv'
  <2>1. flock = t /\ th[t].pc = "timeouts" /\ ~Submitting(t)
    BY <1>0, <1>6 DEF LockInv, LockOf, TimeoutsEnd, Submitting
  <2>2. LockInv'
    BY <1>6, <1>c, <2>1 DEF TimeoutsEnd
  <2> QED
    BY <1>0, <1>6, <1>b, <2>1, <2>2, Neutral DEF TimeoutsEnd
<1>8. ASSUME NEW t \in Threads, MarkTimedOut(t) PROVE LockInv' /\ FlightInv' /\ ListInv'
  <2>1. PICK n : Frame(t, [Idle EXCEPT !.pc = "timeouts", !.clock = th[t].clock, !.lo = n])
    BY <1>8 DEF MarkTimedOut
  <2> DEFINE f == [Idle EXCEPT !.pc = "timeouts", !.clock = th[t].clock, !.lo = n]
  <2>2. f.pc = "timeouts"
    BY DEF Idle
  <2> HIDE DEF f
  <2>3. Frame(t, f)
    BY <2>1 DEF f
  <2>4. th'[t] = f
    BY <1>0, <2>3, CallAfter
  <2>5. flock = t /\ th[t].pc = "mark" /\ ~Submitting(t) /\ th[t].x \in Filled
    BY <1>0, <1>8, HasTransfer DEF LockInv, LockOf, MarkTimedOut, Submitting, Expiring
  <2>6. LockOf(t)'
    BY <1>8, <2>2, <2>4, <2>5 DEF LockOf, Expiring, MarkTimedOut
  <2>7. LockInv'
    BY <1>8, <1>f, <2>3, <2>6 DEF MarkTimedOut
  <2>8. \A y \in Filled : x_'[y].flight = x_[y].flight /\ x_'[y].urbs = x_[y].urbs
    BY <1>8, <1>j, <2>5 DEF MarkTimedOut, TransferState
  <2> QED
    BY <1>0, <1>8, <2>2, <2>3, <2>5, <2>7, <2>8, Neutral DEF MarkTimedOut
<1>9. ASSUME NEW t \in Threads, Trigger(t) PROVE LockInv' /\ FlightInv' /\ ListInv'
  <2> DEFINE f == [Idle EXCEPT !.pc = "timeouts", !.clock = now]
  <2>1. f.pc = "timeouts"
    BY DEF Idle
  <2>2. /\ Frame(t, f) /\ th[t].pc = "idle" /\ flock = None /\ flock' = t
        /\ UNCHANGED <<x_, lists, xlock, kernel, ghost>>
    BY <1>9 DEF Trigger
  <2> HIDE DEF f
  <2>3. th'[t] = f
    BY <1>0, <2>2, CallAfter
  <2>4. LockOf(t)'
    BY <2>1, <2>2, <2>3 DEF LockOf, Expiring
  <2>5. LockInv'
    BY <1>f, <2>2, <2>4
  <2>6. ~Submitting(t)
    BY <2>2 DEF Submitting
  <2> QED
    BY <1>0, <2>1, <2>2, <2>5, <2>6, Neutral
<1>7. ASSUME NEW t \in Threads, HandleTimeout(t) PROVE LockInv' /\ FlightInv' /\ ListInv'
  <2> DEFINE k == th[t].lo + 1
             x == flying[k]
             next == [th[t] EXCEPT !.lo = k]
  <2>1. /\ th[t].pc = "timeouts" /\ flock = t /\ x \in Filled /\ x \in ToSet(flying)
        /\ th[t] \in Call /\ k \in Nat /\ UNCHANGED <<lists, flock, kernel, ghost>>
    BY <1>0, <1>7, TimeoutPlace, CallType DEF HandleTimeout, Call
  <2>2. next \in Call /\ next.pc = "timeouts"
    BY <2>1 DEF Call
  <2>3. ~Submitting(t)
    BY <2>1 DEF Submitting
  <2>4. \A y \in Filled : x_'[y].flight = x_[y].flight /\ x_'[y].urbs = x_[y].urbs
    BY <1>7, <1>j, <2>1 DEF HandleTimeout, TransferState
  <2>5. CASE Frame(t, next) /\ UNCHANGED xlock
    <3> HIDE DEF next
    <3>1. th'[t] = next
      BY <1>0, <2>5, CallAfter
    <3>2. LockOf(t)'
      BY <2>1, <2>2, <3>1 DEF LockOf, Expiring
    <3>3. LockInv'
      BY <1>f, <2>1, <2>5, <3>2
    <3> QED
      BY <1>0, <2>1, <2>2, <2>3, <2>4, <2>5, <3>3, Neutral
  <2>6. CASE /\ xlock[x] = None /\ xlock' = [xlock EXCEPT ![x] = t]
             /\ Frame(t, CancelFrame(next, x, "expired"))
    <3> DEFINE f == CancelFrame(next, x, "expired")
    <3> HIDE DEF next
    <3>1. /\ f.x = x /\ f.lo = 1 /\ f.i = NumUrbs(x) /\ f.back = "expired"
          /\ f.pc \in {"discard", "expired"}
      BY <1>h, <2>1, <2>2
    <3> HIDE DEF f
    <3>2. Frame(t, f)
      BY <2>6 DEF f
    <3>3. th'[t] = f
      BY <1>0, <3>2, CallAfter
    <3>4. xlock'[x] = t /\ \A y \in Filled \ {x} : xlock'[y] = xlock[y]
      BY <1>g, <2>1, <2>6
    <3>5. LockOf(t)'
      BY <1>i, <2>1, <3>1, <3>3, <3>4 DEF LockOf, Expiring
    <3>6. LockInv'
      BY <1>f, <2>1, <2>6, <3>2, <3>4, <3>5
    <3> QED
      BY <1>0, <2>1, <2>3, <2>4, <3>1, <3>2, <3>6, Neutral
  <2> QED
    BY <1>7, <2>5, <2>6 DEF HandleTimeout
<1>11. ASSUME NEW t \in Users, NEW x \in Filled, Cancel(t, x) PROVE LockInv' /\ FlightInv' /\ ListInv'
  <2> DEFINE f == CancelFrame(Idle, x, "cancelled")
  <2>1. /\ Frame(t, f) /\ th[t].pc = "idle" /\ xlock[x] = None /\ t \in Threads /\ t # Handler
        /\ xlock' = [xlock EXCEPT ![x] = t]
        /\ UNCHANGED <<x_, lists, flock, kernel, accepts, answers>>
    BY <1>11, <1>a DEF Cancel
  <2>2. /\ f.x = x /\ f.lo = 1 /\ f.i = NumUrbs(x) /\ f.back = "cancelled"
        /\ f.pc \in {"discard", "cancelled"}
    BY <1>h, <1>j
  <2> HIDE DEF f
  <2>3. th'[t] = f
    BY <1>0, <2>1, CallAfter
  <2>4. xlock'[x] = t /\ \A y \in Filled \ {x} : xlock'[y] = xlock[y]
    BY <1>g, <2>1
  <2>5. LockOf(t)'
    BY <1>i, <2>1, <2>2, <2>3, <2>4 DEF LockOf, Expiring
  <2>6. LockInv'
    BY <1>f, <2>1, <2>4, <2>5
  <2>7. ~Submitting(t)
    BY <2>1 DEF Submitting
  <2> QED
    BY <1>0, <2>1, <2>2, <2>6, <2>7, Neutral
<1>13. ASSUME ReapedUnlock PROVE LockInv' /\ FlightInv' /\ ListInv'
  <2>1. /\ th[Handler].x \in Filled /\ xlock[th[Handler].x] = Handler
        /\ th[Handler].pc = "reaped" /\ ~Submitting(Handler)
    BY <1>0, <1>13, <1>a, HasTransfer DEF ReapedUnlock, Submitting
  <2>2. LockInv'
    BY <1>13, <1>a, <1>c, <1>g, <2>1 DEF ReapedUnlock
  <2> QED
    BY <1>0, <1>13, <1>a, <1>b, <2>1, <2>2, Neutral DEF ReapedUnlock
<1>14. ASSUME HandleCancellation PROVE LockInv' /\ FlightInv' /\ ListInv'
  <2> DEFINE f == [th[Handler] EXCEPT !.pc = "completion",
                     !.r = IF x_[th[Handler].x].timedout THEN "timed_out" ELSE "cancelled"]
  <2>1. /\ Frame(Handler, f) /\ th[Handler].pc = "cancellation" /\ th[Handler] \in Call
        /\ th[Handler].x \in Filled /\ UNCHANGED <<x_, lists, locks, kernel, ghost>>
    BY <1>0, <1>14, <1>a, CallType, HasTransfer DEF HandleCancellation
  <2>2. f.pc = "completion" /\ f.x = th[Handler].x
    BY <2>1 DEF Call
  <2> HIDE DEF f
  <2>3. th'[Handler] = f
    BY <1>0, <1>a, <2>1, CallAfter
  <2>4. LockOf(Handler)'
    BY <1>i, <2>1, <2>2, <2>3 DEF LockOf, Expiring
  <2>5. LockInv'
    BY <1>a, <1>f, <2>1, <2>4
  <2>6. ~Submitting(Handler)
    BY <2>1 DEF Submitting
  <2> QED
    BY <1>0, <1>a, <2>1, <2>2, <2>5, <2>6, Neutral
<1>18. ASSUME Disconnected PROVE LockInv' /\ FlightInv' /\ ListInv'
  <2> DEFINE f == [Idle EXCEPT !.pc = "disconnect"]
  <2>1. f.pc = "disconnect"
    BY DEF Idle
  <2>2. /\ Frame(Handler, f) /\ th[Handler].pc = "idle"
        /\ UNCHANGED <<x_, lists, locks, ghost>>
    BY <1>18 DEF Disconnected
  <2> HIDE DEF f
  <2>3. th'[Handler] = f
    BY <1>0, <1>a, <2>2, CallAfter
  <2>4. LockOf(Handler)'
    BY <2>1, <2>3 DEF LockOf, Expiring
  <2>5. LockInv'
    BY <1>a, <1>f, <2>2, <2>4
  <2>6. ~Submitting(Handler)
    BY <2>2 DEF Submitting
  <2> QED
    BY <1>0, <1>a, <2>1, <2>2, <2>5, <2>6, Neutral
<1>l. ASSUME UNCHANGED <<x_, th, flying, locks, accepts, answers>>
      PROVE  LockInv' /\ FlightInv' /\ ListInv'
  BY <1>0, <1>l, LockSame, FlightSame, ListSame
<1>20. ASSUME NEW x \in Filled, NEW i \in Urbs(x), KernelEnds(x, i)
       PROVE  LockInv' /\ FlightInv' /\ ListInv'
  BY <1>20, <1>l DEF KernelEnds
<1>21. ASSUME Unplug PROVE LockInv' /\ FlightInv' /\ ListInv'
  BY <1>21, <1>l DEF Unplug
<1>22. ASSUME Tick PROVE LockInv' /\ FlightInv' /\ ListInv'
  BY <1>22, <1>l DEF Tick
<1>23. CASE UNCHANGED vars
  BY <1>23, <1>l DEF vars
\* A step of the event thread leaves the calls of the users.
<1>m. ASSUME NEW f, Frame(Handler, f)
      PROVE  /\ th'[Handler] = f
             /\ \A u \in Users : /\ th'[u] = th[u] /\ Submitting(u)' = Submitting(u)
                                 /\ \A y : Owns(u, y)' = Owns(u, y)
  <2>1. th'[Handler] = f /\ \A u \in Users : th'[u] = th[u]
    BY <1>0, <1>a, <1>m, CallAfter
  <2> QED
    BY <2>1 DEF Submitting, Owns
<1>n. \A u \in Users : th[u].pc = "urb" => th[u].x \in Filled
  BY <1>0, <1>a, HasTransfer
\* The event thread starts to end a transfer.
<1>k. ASSUME NEW x \in Filled, NEW f, Frame(Handler, f), th[Handler].pc \in {"idle", "disconnect"},
             f.pc \in {"cancellation", "completion"}, f.x = x, x_[x].flight,
             x_'[x].flight = x_[x].flight, ~x_'[x].urbs, \A y \in Filled \ {x} : x_'[y] = x_[y],
             UNCHANGED <<accepts, answers, flying, locks>>
      PROVE  LockInv' /\ FlightInv' /\ ListInv'
  <2>1. /\ th'[Handler] = f
        /\ \A u \in Users : /\ th'[u] = th[u] /\ Submitting(u)' = Submitting(u)
                            /\ \A y : Owns(u, y)' = Owns(u, y)
    BY <1>k, <1>m
  <2>2. LockOf(Handler)'
    BY <1>i, <1>k, <2>1 DEF LockOf, Expiring
  <2>3. LockInv'
    BY <1>a, <1>f, <1>k, <2>2
  <2>4. CallbackDue = {} /\ CallbackDue' = {}
    BY <1>k, <2>1 DEF CallbackDue
  <2>5. \A y \in Filled : x_'[y].flight = x_[y].flight /\ (x_'[y].urbs => x_[y].urbs)
    BY <1>k
  <2>6. FlightInv'
    BY <1>0, <1>i, <1>k, <1>n, <2>1, <2>4, <2>5 DEF FlightInv
  <2>7. ListInv'
    BY <1>0, <1>i, <1>k, <2>1, <2>5 DEF ListInv
  <2> QED
    BY <2>3, <2>6, <2>7
<1>12. ASSUME Reap PROVE LockInv' /\ FlightInv' /\ ListInv'
  <2>1. PICK x \in Filled, n \in TransferState, f \in Call :
             /\ x_[x].urbs /\ xlock[x] = None
             /\ ReapResult(x, n, f)
             /\ xlock' = IF f.pc = "discard"
                           THEN [xlock EXCEPT ![x] = Handler] ELSE xlock
    BY <1>0, <1>12, ReapEffect
  <2>2. /\ x_'[x] = n /\ (\A y \in Filled \ {x} : x_'[y] = x_[y])
        /\ Frame(Handler, f) /\ n.flight = x_[x].flight /\ th[Handler].pc = "idle"
        /\ UNCHANGED <<flying, flock, accepts, answers>>
    BY <1>12, <1>j, <2>1 DEF ReapResult, Keeps, Reap
  <2>3. x_[x].flight
    <3>1. ASSUME NEW u \in Users, Submitting(u), th[u].x = x PROVE FALSE
      <4>1. xlock[x] = u /\ u # None
        BY <1>0, <1>a, <3>1, HasTransfer, TransfersAssumption DEF Submitting
      <4> QED
        BY <2>1, <4>1
    <3> QED
      BY <1>0, <2>1, <3>1 DEF FlightInv
  <2>4. ~Submitting(Handler)
    BY <2>2 DEF Submitting
  <2>5. th'[Handler] = f
    BY <1>m, <2>2
  <2>6. CASE f.pc \in {"cancellation", "completion"}
    BY <1>k, <2>1, <2>2, <2>3, <2>6, <1>b DEF ReapResult
  <2>7. CASE f = Idle
    <3>1. LockInv'
      BY <1>a, <1>b, <1>c, <2>1, <2>2, <2>7
    <3>2. \A y \in Filled : x_'[y].flight = x_[y].flight /\ x_'[y].urbs = x_[y].urbs
      BY <1>b, <2>1, <2>2, <2>7 DEF ReapResult
    <3> QED
      BY <1>0, <1>a, <1>b, <2>2, <2>4, <2>7, <3>1, <3>2, Neutral
  <2>8. CASE /\ f.pc = "discard" /\ f.x = x /\ f.lo \in 1 .. f.i
             /\ f.i \in Urbs(x) /\ f.back = "reaped" /\ n.urbs = x_[x].urbs
    <3>1. xlock'[x] = Handler /\ \A y \in Filled \ {x} : xlock'[y] = xlock[y]
      BY <1>g, <2>1, <2>8
    <3>2. LockOf(Handler)'
      BY <1>i, <2>5, <2>8, <3>1 DEF LockOf, Expiring
    <3>3. LockInv'
      BY <1>a, <1>f, <2>1, <2>2, <3>1, <3>2
    <3>4. \A y \in Filled : x_'[y].flight = x_[y].flight /\ x_'[y].urbs = x_[y].urbs
      BY <2>2, <2>8
    <3> QED
      BY <1>0, <1>a, <2>2, <2>4, <2>8, <3>3, <3>4, Neutral
  <2> QED
    BY <2>1, <2>6, <2>7, <2>8 DEF ReapResult
<1>15. ASSUME HandleCompletion PROVE LockInv' /\ FlightInv' /\ ListInv'
  <2> DEFINE x == th[Handler].x
             f == [th[Handler] EXCEPT !.pc = "land"]
  <2>1. /\ th[Handler].pc = "completion" /\ th[Handler] \in Call /\ x \in Filled
        /\ flock = None /\ RemoveFlying(x) /\ Frame(Handler, f)
        /\ UNCHANGED <<x_, locks, kernel, ghost>>
    BY <1>0, <1>15, <1>a, CallType, HasTransfer DEF HandleCompletion
  <2>2. f.pc = "land" /\ f.x = x
    BY <2>1 DEF Call
  <2> HIDE DEF f
  <2>3. /\ th'[Handler] = f
        /\ \A u \in Users : /\ th'[u] = th[u] /\ Submitting(u)' = Submitting(u)
                            /\ \A y : Owns(u, y)' = Owns(u, y)
    BY <1>m, <2>1
  <2>4. ToSet(flying') = ToSet(flying) \ {x}
    BY <1>0, <2>1, RemoveFlyingType
  <2>5. x_[x].flight /\ ~x_[x].urbs /\ \A u \in Users : ~Owns(u, x)
    BY <1>0, <2>1 DEF FlightInv, Ending
  <2>6. LockOf(Handler)'
    BY <1>i, <2>1, <2>2, <2>3 DEF LockOf, Expiring
  <2>7. LockInv'
    BY <1>a, <1>f, <2>1, <2>6
  <2>8. CallbackDue = {} /\ CallbackDue' = {}
    BY <2>1, <2>2, <2>3 DEF CallbackDue
  <2>9. FlightInv'
    BY <1>0, <1>i, <1>n, <2>1, <2>2, <2>3, <2>5, <2>8 DEF FlightInv
  <2>10. ListInv'
    <3>1. ASSUME NEW y \in Filled
          PROVE  y \in ToSet(flying') <=>
                   \/ \E t \in Users : Owns(t, y)'
                   \/ x_'[y].flight /\ ~(th'[Handler].pc = "land" /\ th'[Handler].x = y)
      <4>1. CASE y = x
        BY <2>2, <2>3, <2>4, <2>5, <4>1
      <4>2. CASE y # x
        BY <1>0, <2>1, <2>2, <2>3, <2>4, <4>2 DEF ListInv
      <4> QED
        BY <4>1, <4>2
    <3> QED
      BY <1>0, <1>i, <2>3, <3>1 DEF ListInv
  <2> QED
    BY <2>7, <2>9, <2>10
<1>16. ASSUME Land PROVE LockInv' /\ FlightInv' /\ ListInv'
  <2> DEFINE x == th[Handler].x
             f == [th[Handler] EXCEPT !.pc = "callback",
                     !.r = IF @ = "completed" /\ x_[x].shape.shortNotOk /\ ~x_[x].full
                             THEN "error" ELSE @]
  <2>1. /\ th[Handler].pc = "land" /\ th[Handler] \in Call /\ x \in Filled
        /\ Frame(Handler, f) /\ x_' = [x_ EXCEPT ![x].flight = FALSE]
        /\ UNCHANGED <<lists, locks, kernel, ghost>>
    BY <1>0, <1>16, <1>a, CallType, HasTransfer DEF Land
  <2>2. f.pc = "callback" /\ f.x = x
    BY <2>1 DEF Call
  <2> HIDE DEF f
  <2>3. /\ th'[Handler] = f
        /\ \A u \in Users : /\ th'[u] = th[u] /\ Submitting(u)' = Submitting(u)
                            /\ \A y : Owns(u, y)' = Owns(u, y)
    BY <1>m, <2>1
  <2>4. /\ ~x_'[x].flight /\ x_'[x].urbs = x_[x].urbs
        /\ \A y \in Filled \ {x} : x_'[y] = x_[y]
    BY <1>j, <2>1 DEF TransferState
  <2>5. /\ x_[x].flight /\ ~x_[x].urbs /\ \A u \in Users : ~Owns(u, x)
        /\ accepts[x] # answers[x] /\ x \notin ToSet(flying)
    BY <1>0, <2>1 DEF FlightInv, Ending, ListInv
  <2>6. LockOf(Handler)'
    BY <1>i, <2>1, <2>2, <2>3 DEF LockOf, Expiring
  <2>7. LockInv'
    BY <1>a, <1>f, <2>1, <2>6
  <2>8. CallbackDue = {} /\ CallbackDue' = {x}
    BY <1>i, <2>1, <2>2, <2>3 DEF CallbackDue
  <2>9. FlightInv'
    <3>1. ASSUME NEW y \in Filled
          PROVE  /\ accepts'[y] # answers'[y] <=> x_'[y].flight \/ y \in CallbackDue'
                 /\ y \in CallbackDue' => ~x_'[y].flight
                 /\ x_'[y].urbs => x_'[y].flight \/ \E u \in Users : Submitting(u)' /\ th'[u].x = y
                 /\ x_'[y].flight \/ y \in CallbackDue' => \A u \in Users : ~Owns(u, y)'
      <4>1. CASE y = x
        BY <2>1, <2>3, <2>4, <2>5, <2>8, <4>1
      <4>2. CASE y # x
        BY <1>0, <2>1, <2>3, <2>4, <2>8, <4>2 DEF FlightInv
      <4> QED
        BY <4>1, <4>2
    <3>2. ~Ending' /\ ~x_'[th'[Handler].x].urbs
      BY <2>2, <2>3, <2>4, <2>5 DEF Ending
    <3>3. \A u \in Users : th'[u].pc = "urb" /\ th'[u].i = 1 => ~x_'[th'[u].x].urbs
      BY <1>0, <1>n, <2>3, <2>4, <2>5 DEF FlightInv
    <3> QED
      BY <1>i, <3>1, <3>2, <3>3 DEF FlightInv
  <2>10. ListInv'
    <3>1. ASSUME NEW y \in Filled
          PROVE  y \in ToSet(flying') <=>
                   \/ \E t \in Users : Owns(t, y)'
                   \/ x_'[y].flight /\ ~(th'[Handler].pc = "land" /\ th'[Handler].x = y)
      <4>1. CASE y = x
        BY <2>1, <2>3, <2>4, <2>5, <4>1
      <4>2. CASE y # x
        BY <1>0, <2>1, <2>2, <2>3, <2>4, <4>2 DEF ListInv
      <4> QED
        BY <4>1, <4>2
    <3> QED
      BY <1>0, <1>i, <2>3, <3>1 DEF ListInv
  <2> QED
    BY <2>7, <2>9, <2>10
<1>17. ASSUME Callback PROVE LockInv' /\ FlightInv' /\ ListInv'
  <2> DEFINE x == th[Handler].x
             f == IF th[Handler].back = "disconnect"
                    THEN [Idle EXCEPT !.pc = "disconnect"] ELSE Idle
             n == [NewTransfer(x_[x].shape) EXCEPT !.disappeared = x_[x].disappeared,
                                                  !.reap = x_[x].reap]
  <2>1. /\ th[Handler].pc = "callback" /\ x \in Filled /\ x \in Transfers
        /\ Frame(Handler, f) /\ x_' = [x_ EXCEPT ![x] = n]
        /\ answers' = [answers EXCEPT ![x] = 1 - @]
        /\ UNCHANGED <<lists, locks, kernel, accepts>>
    BY <1>0, <1>17, <1>a, HasTransfer, TransferType DEF Callback
  <2>2. f.pc \in {"idle", "disconnect"}
    BY DEF Idle
  <2>3. n.flight = FALSE /\ n.urbs = FALSE
    BY DEF NewTransfer
  <2> HIDE DEF f, n
  <2>4. /\ th'[Handler] = f
        /\ \A u \in Users : /\ th'[u] = th[u] /\ Submitting(u)' = Submitting(u)
                            /\ \A y : Owns(u, y)' = Owns(u, y)
    BY <1>m, <2>1
  <2>5. x_'[x] = n /\ \A y \in Filled \ {x} : x_'[y] = x_[y]
    BY <1>j, <2>1
  <2>6. CallbackDue = {x} /\ CallbackDue' = {}
    BY <2>1, <2>2, <2>4 DEF CallbackDue
  <2>7. /\ ~x_[x].flight /\ \A u \in Users : ~Owns(u, x)
        /\ accepts[x] # answers[x] /\ x \notin ToSet(flying)
    BY <1>0, <2>1, <2>6 DEF FlightInv, ListInv
  <2>8. accepts'[x] = answers'[x] /\ \A y \in Filled \ {x} : answers'[y] = answers[y]
    <3>1. /\ accepts[x] \in {0, 1} /\ answers[x] \in {0, 1}
          /\ answers \in [Transfers -> {0, 1}]
      BY <1>0, <2>1 DEF TypeOK, HistoryOK
    <3> QED
      BY <2>1, <2>7, <3>1
  <2>9. LockOf(Handler)'
    BY <2>2, <2>4 DEF LockOf, Expiring
  <2>10. LockInv'
    BY <1>a, <1>f, <2>1, <2>9
  <2>11. FlightInv'
    <3>1. ASSUME NEW y \in Filled
          PROVE  /\ accepts'[y] # answers'[y] <=> x_'[y].flight \/ y \in CallbackDue'
                 /\ y \in CallbackDue' => ~x_'[y].flight
                 /\ x_'[y].urbs => x_'[y].flight \/ \E u \in Users : Submitting(u)' /\ th'[u].x = y
                 /\ x_'[y].flight \/ y \in CallbackDue' => \A u \in Users : ~Owns(u, y)'
      <4>1. CASE y = x
        BY <2>3, <2>5, <2>6, <2>8, <4>1
      <4>2. CASE y # x
        BY <1>0, <2>1, <2>4, <2>5, <2>6, <2>8, <4>2 DEF FlightInv
      <4> QED
        BY <4>1, <4>2
    <3>2. ~Ending' /\ th'[Handler].pc # "callback"
      BY <2>2, <2>4 DEF Ending
    <3>3. \A u \in Users : th'[u].pc = "urb" /\ th'[u].i = 1 => ~x_'[th'[u].x].urbs
      BY <1>0, <1>n, <2>3, <2>4, <2>5 DEF FlightInv
    <3> QED
      BY <1>i, <3>1, <3>2, <3>3 DEF FlightInv
  <2>12. ListInv'
    <3>1. ASSUME NEW y \in Filled
          PROVE  y \in ToSet(flying') <=>
                   \/ \E t \in Users : Owns(t, y)'
                   \/ x_'[y].flight /\ ~(th'[Handler].pc = "land" /\ th'[Handler].x = y)
      <4>1. CASE y = x
        BY <2>1, <2>3, <2>4, <2>5, <2>7, <4>1
      <4>2. CASE y # x
        BY <1>0, <2>1, <2>2, <2>4, <2>5, <4>2 DEF ListInv
      <4> QED
        BY <4>1, <4>2
    <3> QED
      BY <1>0, <1>i, <2>4, <3>1 DEF ListInv
  <2> QED
    BY <2>10, <2>11, <2>12
<1>19. ASSUME Disconnect PROVE LockInv' /\ FlightInv' /\ ListInv'
  <2>1. /\ th[Handler].pc = "disconnect" /\ UNCHANGED <<lists, locks, kernel, ghost>>
    BY <1>19 DEF Disconnect
  <2>2. CASE Frame(Handler, Idle) /\ UNCHANGED x_
    <3>1. LockInv'
      BY <1>a, <1>c, <2>1, <2>2
    <3>2. ~Submitting(Handler)
      BY <2>1 DEF Submitting
    <3> QED
      BY <1>0, <1>a, <1>b, <2>1, <2>2, <3>1, <3>2, Neutral
  <2>3. ASSUME NEW k \in 1 .. Len(flying), x_[flying[k]].flight,
               x_' = [x_ EXCEPT ![flying[k]].urbs = FALSE],
               Frame(Handler, [Idle EXCEPT !.pc = "completion", !.x = flying[k],
                                !.r = "no_device", !.back = "disconnect"])
        PROVE  LockInv' /\ FlightInv' /\ ListInv'
    <3> DEFINE x == flying[k]
               f == [Idle EXCEPT !.pc = "completion", !.x = x,
                       !.r = "no_device", !.back = "disconnect"]
    <3>1. x \in Filled
      BY <1>0 DEF TypeOK, ListOK
    <3>2. f.pc = "completion" /\ f.x = x
      BY DEF Idle
    <3>3. x_'[x].flight = x_[x].flight /\ ~x_'[x].urbs /\ \A y \in Filled \ {x} : x_'[y] = x_[y]
      BY <1>j, <2>3, <3>1 DEF TransferState
    <3>4. Frame(Handler, f)
      BY <2>3
    <3> HIDE DEF f, x
    <3> QED
      BY <1>k, <2>1, <2>3, <3>1, <3>2, <3>3, <3>4 DEF x
  <2> QED
    BY <1>19, <2>2, <2>3 DEF Disconnect
<1>10. ASSUME NEW t \in Users, NEW x \in Filled, Submit(t, x) PROVE LockInv' /\ FlightInv' /\ ListInv'
  <2> DEFINE d == IF Timeout(x) = 0 THEN 0 ELSE now + Timeout(x)
             n == [NewTransfer(x_[x].shape) EXCEPT !.deadline = d]
             f == [Idle EXCEPT !.pc = "urb", !.x = x, !.i = 1]
  <2>1. /\ th[t].pc = "idle" /\ flock = None /\ xlock[x] = None /\ ~x_[x].flight
        /\ x \notin CallbackDue /\ t \in Threads /\ t # Handler
        /\ \A u \in Users : th[u].pc = "remove" => th[u].x # x
        /\ x_' = [x_ EXCEPT ![x] = n]
        /\ UNCHANGED <<now, flock, kernel, accepts, answers>>
    BY <1>10, <1>a DEF Submit, NotBusy
  <2>2. n.flight = FALSE /\ n.urbs = FALSE
    BY DEF NewTransfer
  <2>3. f.pc = "urb" /\ f.x = x /\ f.i = 1
    BY DEF Idle
  <2>4. \/ /\ \E k \in Position(d) : flying' = InsertAt(flying, k, x)
           /\ xlock' = [xlock EXCEPT ![x] = t] /\ Frame(t, f)
        \/ UNCHANGED <<flying, xlock, th>>
    BY <1>10 DEF Submit
  <2> HIDE DEF d, n, f
  <2>5. x_'[x] = n /\ \A y \in Filled \ {x} : x_'[y] = x_[y]
    BY <1>j, <2>1
  <2>6. \A u \in Users : ~Owns(u, x)
    <3>1. \A u \in Users : Submitting(u) /\ th[u].x = x => xlock[x] = u /\ u # None
      BY <1>0, <1>a, HasTransfer, TransfersAssumption DEF Submitting
    <3> QED
      BY <2>1, <3>1 DEF Owns
  <2>7. ~x_[x].urbs
    BY <1>0, <2>1, <2>6 DEF FlightInv, Owns
  <2>8. /\ x_'[x].flight = x_[x].flight /\ x_'[x].urbs = x_[x].urbs
    <3>1. x_[x].flight \in BOOLEAN /\ x_[x].urbs \in BOOLEAN
      BY <1>j DEF TransferState
    <3> QED
      BY <2>1, <2>2, <2>5, <2>7, <3>1
  <2>9. CASE UNCHANGED <<flying, xlock, th>>
    <3>1. LockInv'
      BY <1>0, <2>1, <2>9, LockSame
    <3> QED
      BY <1>0, <2>1, <2>5, <2>8, <2>9, <3>1, FlightSame, ListSame
  <2>10. ASSUME NEW k \in Position(d), flying' = InsertAt(flying, k, x),
                xlock' = [xlock EXCEPT ![x] = t], Frame(t, f)
         PROVE  LockInv' /\ FlightInv' /\ ListInv'
    <3>1. ToSet(flying') = ToSet(flying) \cup {x}
      BY <1>0, <2>10, InsertedList DEF Position, TypeOK, ListOK
    <3>2. th'[t] = f /\ \A u \in Threads \ {t} : th'[u] = th[u]
      BY <1>0, <2>1, <2>10, CallAfter
    <3>3. xlock'[x] = t /\ \A y \in Filled \ {x} : xlock'[y] = xlock[y]
      BY <1>g, <2>10
    <3>4. LockOf(t)'
      BY <1>i, <2>3, <3>2, <3>3 DEF LockOf, Expiring, Urbs
    <3>5. LockInv'
      BY <1>f, <2>1, <2>10, <3>3, <3>4
    <3>6. /\ th'[Handler] = th[Handler] /\ CallbackDue' = CallbackDue /\ Ending' = Ending
          /\ \A u \in Users \ {t} : /\ th'[u] = th[u] /\ Submitting(u)' = Submitting(u)
                                    /\ \A y : Owns(u, y)' = Owns(u, y)
          /\ \A y : ~Owns(t, y) /\ ~Submitting(t)
          /\ \A y : Owns(t, y)' <=> y = x
      BY <1>a, <1>i, <2>1, <2>3, <3>2 DEF CallbackDue, Ending, Submitting, Owns
    <3>7. Ending \/ th[Handler].pc = "callback" => th[Handler].x \in Filled /\ th[Handler].x # x
      BY <1>0, <1>a, <2>1, HasTransfer DEF Ending, FlightInv, CallbackDue
    <3>8. FlightInv'
      <4>1. ASSUME NEW y \in Filled
            PROVE  /\ accepts'[y] # answers'[y] <=> x_'[y].flight \/ y \in CallbackDue'
                   /\ y \in CallbackDue' => ~x_'[y].flight
                   /\ x_'[y].urbs => x_'[y].flight \/ \E u \in Users : Submitting(u)' /\ th'[u].x = y
                   /\ x_'[y].flight \/ y \in CallbackDue' => \A u \in Users : ~Owns(u, y)'
        <5>1. CASE y = x
          BY <1>0, <2>1, <2>7, <2>8, <3>6, <5>1 DEF FlightInv
        <5>2. CASE y # x
          BY <1>0, <2>1, <2>5, <3>6, <5>2 DEF FlightInv
        <5> QED
          BY <5>1, <5>2
      <4>2. ASSUME NEW u \in Users, th'[u].pc = "urb", th'[u].i = 1
            PROVE  ~x_'[th'[u].x].urbs
        <5>1. CASE u = t
          BY <2>3, <2>7, <2>8, <3>2, <5>1
        <5>2. CASE u # t
          <6>1. th'[u] = th[u] /\ th[u].x \in Filled /\ th[u].x # x
            BY <1>n, <2>6, <3>6, <4>2, <5>2 DEF Owns, Submitting
          <6> QED
            BY <1>0, <2>5, <4>2, <6>1 DEF FlightInv
        <5> QED
          BY <5>1, <5>2
      <4> QED
        BY <1>0, <1>i, <2>5, <3>6, <3>7, <4>1, <4>2 DEF FlightInv
    <3>9. ListInv'
      <4>1. ASSUME NEW y \in Filled
            PROVE  y \in ToSet(flying') <=>
                     \/ \E u \in Users : Owns(u, y)'
                     \/ x_'[y].flight /\ ~(th'[Handler].pc = "land" /\ th'[Handler].x = y)
        <5>1. CASE y = x
          BY <3>1, <3>6, <5>1
        <5>2. CASE y # x
          BY <1>0, <2>5, <3>1, <3>6, <5>2 DEF ListInv
        <5> QED
          BY <5>1, <5>2
      <4>2. ASSUME NEW y \in Filled, NEW u \in Users, NEW v \in Users, Owns(u, y)', Owns(v, y)'
            PROVE  u = v
        <5>1. CASE u # t /\ v # t
          BY <1>0, <3>6, <4>2, <5>1 DEF ListInv
        <5>2. CASE u = t \/ v = t
          BY <2>6, <3>6, <4>2, <5>2
        <5> QED
          BY <5>1, <5>2
      <4> QED
        BY <1>i, <4>1, <4>2 DEF ListInv
    <3> QED
      BY <3>5, <3>8, <3>9
  <2> QED
    BY <2>4, <2>9, <2>10
<1> QED
  BY <1>1, <1>2, <1>3, <1>4, <1>5, <1>6, <1>7, <1>8, <1>9, <1>10, <1>11, <1>12,
     <1>13, <1>14, <1>15, <1>16, <1>17, <1>18, <1>19, <1>20, <1>21, <1>22, <1>23
     DEF Next, ThreadStep, HandlerStep, Threads
-----------------------------------------------------------------------------
\* What a step other than a submission makes of the list: it stays or loses one
\* transfer, the timeouts of what is on it stay, and the timer stays or is set
\* for the first transfer that is not handled.
ListKept ==
  \A y \in Filled : y \in ToSet(flying') =>
    x_'[y].deadline = x_[y].deadline /\ (x_[y].handled => x_'[y].handled)

ListChange ==
  \/ UNCHANGED <<flying, timer>>
  \/ UNCHANGED <<flying, x_>> /\ timer' = NextTimeout(flying, x_)
  \/ UNCHANGED x_ /\ \E x \in Filled : RemoveFlying(x)

\* Every step but a submission is such a change of the list.
LEMMA ListStep ==
    ASSUME IndInv, [Next]_vars
    PROVE  \/ \E t \in Users, x \in Filled : Submit(t, x)
           \/ ListKept /\ ListChange
<1> USE DEF kernel, ghost, lists, locks
<1>0. TypeOK /\ LockInv /\ ListInv /\ FlightInv /\ x_ \in [Filled -> TransferState]
  BY DEF IndInv, TypeOK, TransfersOK
<1>a. ASSUME UNCHANGED x_ PROVE ListKept
  BY <1>a DEF ListKept
<1>b. ASSUME UNCHANGED <<x_, flying, timer>> PROVE ListKept /\ ListChange
  BY <1>a, <1>b DEF ListChange
<1>c. ASSUME UNCHANGED <<flying, timer>>,
             \A y \in Filled : /\ x_'[y].deadline = x_[y].deadline
                               /\ x_[y].handled => x_'[y].handled
      PROVE  ListKept /\ ListChange
  BY <1>c DEF ListKept, ListChange
<1>1. ASSUME NEW t \in Threads, SubmitUrb(t) PROVE ListKept /\ ListChange
  <2>1. th[t].x \in Filled
    BY <1>0, <1>1, HasTransfer DEF SubmitUrb
  <2>2. \A y \in Filled : x_'[y].deadline = x_[y].deadline /\ x_'[y].handled = x_[y].handled
    <3> DEFINE x == th[t].x
               i == th[t].i
               Same == \A y \in Filled : x_'[y].deadline = x_[y].deadline /\ x_'[y].handled = x_[y].handled
    <3>1. CASE SubmitUrbOk(t, x, i) /\ i = NumUrbs(x)
      BY <1>0, <2>1, <3>1 DEF SubmitUrbOk, InFlight, TransferState
    <3>2. CASE SubmitUrbOk(t, x, i) /\ i # NumUrbs(x)
      BY <1>0, <2>1, <3>2 DEF SubmitUrbOk, TransferState
    <3>3. CASE SubmitUrbFirstFails(t, x)
      BY <3>3 DEF SubmitUrbFirstFails
    <3>4. CASE SubmitUrbLaterFails(t, x, i)
      <4>1. PICK a, m : \/ x_' = [x_ EXCEPT ![x].action = a, ![x].retired = m]
                        \/ x_' = [[x_ EXCEPT ![x].action = a, ![x].retired = m]
                                   EXCEPT ![x].flight = TRUE]
        BY <3>4 DEF SubmitUrbLaterFails, InFlight
      <4> QED
        BY <1>0, <2>1, <4>1 DEF TransferState
    <3> QED
      BY <1>1, <3>1, <3>2, <3>3, <3>4 DEF SubmitUrb
  <2> QED
    BY <1>1, <1>c, <2>2 DEF SubmitUrb
<1>2. ASSUME NEW t \in Threads, SubmitDone(t) PROVE ListKept /\ ListChange
  <2>1. \A y \in Filled : x_'[y].deadline = x_[y].deadline /\ x_'[y].handled = x_[y].handled
    BY <1>0, <1>2 DEF SubmitDone, InFlight, TransferState
  <2> QED
    BY <1>2, <1>c, <2>1 DEF SubmitDone
<1>3. ASSUME NEW t \in Threads, SubmitRemove(t) PROVE ListKept /\ ListChange
  <2>1. th[t].x \in Filled
    BY <1>0, <1>3, HasTransfer DEF SubmitRemove
  <2> QED
    BY <1>3, <1>a, <2>1 DEF SubmitRemove, ListChange
<1>4. ASSUME NEW t \in Threads, CancelDone(t) PROVE ListKept /\ ListChange
  <2>1. \A y \in Filled : x_'[y].deadline = x_[y].deadline /\ x_'[y].handled = x_[y].handled
    BY <1>0, <1>4 DEF CancelDone, AfterCancel, TransferState
  <2> QED
    BY <1>4, <1>c, <2>1 DEF CancelDone
<1>5. ASSUME NEW t \in Threads, Discard(t) PROVE ListKept /\ ListChange
  BY <1>5, <1>b DEF Discard
<1>6. ASSUME NEW t \in Threads, TimeoutsEnd(t) PROVE ListKept /\ ListChange
  BY <1>6, <1>a DEF TimeoutsEnd, ListChange
<1>7. ASSUME NEW t \in Threads, HandleTimeout(t) PROVE ListKept /\ ListChange
  <2>1. \A y \in Filled : /\ x_'[y].deadline = x_[y].deadline
                          /\ x_[y].handled => x_'[y].handled
    BY <1>0, <1>7 DEF HandleTimeout, TransferState
  <2> QED
    BY <1>7, <1>c, <2>1 DEF HandleTimeout
<1>8. ASSUME NEW t \in Threads, MarkTimedOut(t) PROVE ListKept /\ ListChange
  <2>1. \A y \in Filled : x_'[y].deadline = x_[y].deadline /\ x_'[y].handled = x_[y].handled
    BY <1>0, <1>8 DEF MarkTimedOut, TransferState
  <2> QED
    BY <1>8, <1>c, <2>1 DEF MarkTimedOut
<1>9. ASSUME NEW t \in Threads, Trigger(t) PROVE ListKept /\ ListChange
  BY <1>9, <1>b DEF Trigger
<1>11. ASSUME NEW t \in Users, NEW x \in Filled, Cancel(t, x) PROVE ListKept /\ ListChange
  BY <1>11, <1>b DEF Cancel
<1>12. ASSUME Reap PROVE ListKept /\ ListChange
  <2>1. PICK x \in Filled, n \in TransferState, f \in Call : ReapResult(x, n, f)
    BY <1>0, <1>12, ReapEffect
  <2>2. \A y \in Filled : x_'[y].deadline = x_[y].deadline /\ x_'[y].handled = x_[y].handled
    BY <1>0, <2>1 DEF ReapResult, Keeps
  <2> QED
    BY <1>12, <1>c, <2>2 DEF Reap
<1>13. ASSUME ReapedUnlock PROVE ListKept /\ ListChange
  BY <1>13, <1>b DEF ReapedUnlock
<1>14. ASSUME HandleCancellation PROVE ListKept /\ ListChange
  BY <1>14, <1>b DEF HandleCancellation
<1>15. ASSUME HandleCompletion PROVE ListKept /\ ListChange
  <2>1. th[Handler].x \in Filled
    BY <1>0, <1>15, HasTransfer DEF HandleCompletion, Threads
  <2> QED
    BY <1>15, <1>a, <2>1 DEF HandleCompletion, ListChange
<1>16. ASSUME Land PROVE ListKept /\ ListChange
  <2>1. \A y \in Filled : x_'[y].deadline = x_[y].deadline /\ x_'[y].handled = x_[y].handled
    BY <1>0, <1>16 DEF Land, TransferState
  <2> QED
    BY <1>16, <1>c, <2>1 DEF Land
<1>17. ASSUME Callback PROVE ListKept /\ ListChange
  <2> DEFINE x == th[Handler].x
  <2>1. x \in Filled /\ x \in CallbackDue
    BY <1>0, <1>17, HasTransfer DEF Callback, Threads, CallbackDue
  <2>2. x \notin ToSet(flying)
    BY <1>0, <2>1 DEF FlightInv, ListInv
  <2>3. \A y \in Filled \ {x} : x_'[y] = x_[y]
    BY <1>0, <1>17, <2>1 DEF Callback
  <2> QED
    BY <1>17, <2>2, <2>3 DEF Callback, ListKept, ListChange
<1>18. ASSUME Disconnected PROVE ListKept /\ ListChange
  BY <1>18, <1>b DEF Disconnected
<1>19. ASSUME Disconnect PROVE ListKept /\ ListChange
  <2>1. UNCHANGED x_ \/ \E x : x_' = [x_ EXCEPT ![x].urbs = FALSE]
    BY <1>19 DEF Disconnect
  <2>2. \A y \in Filled : x_'[y].deadline = x_[y].deadline /\ x_'[y].handled = x_[y].handled
    BY <1>0, <2>1 DEF TransferState
  <2> QED
    BY <1>19, <1>c, <2>2 DEF Disconnect
<1>20. ASSUME NEW x \in Filled, NEW i \in Urbs(x), KernelEnds(x, i) PROVE ListKept /\ ListChange
  BY <1>20, <1>b DEF KernelEnds
<1>21. ASSUME Unplug PROVE ListKept /\ ListChange
  BY <1>21, <1>b DEF Unplug
<1>22. ASSUME Tick PROVE ListKept /\ ListChange
  BY <1>22, <1>b DEF Tick
<1>23. CASE UNCHANGED vars
  BY <1>23, <1>b DEF vars
<1> QED
  BY <1>1, <1>2, <1>3, <1>4, <1>5, <1>6, <1>7, <1>8, <1>9, <1>11, <1>12,
     <1>13, <1>14, <1>15, <1>16, <1>17, <1>18, <1>19, <1>20, <1>21, <1>22, <1>23
     DEF Next, ThreadStep, HandlerStep, Threads

\* A set of naturals that is not empty has a least element.
LEMMA LeastNatural ==
    ASSUME NEW T \in SUBSET Nat, T # {}
    PROVE  \E x \in T : \A y \in T : x <= y
<1> DEFINE R == OpToRel(<, Nat)
<1>1. IsWellFoundedOn(R, Nat)
  BY NatLessThanWellFounded
<1>2. \A a, b \in Nat : a < b => <<a, b>> \in R
  BY DEF OpToRel
<1> HIDE DEF R
<1>3. PICK x \in T : \A y \in T : ~ (<<y, x>> \in R)
  BY <1>1, WFMin
<1>4. ASSUME NEW y \in T PROVE x <= y
  <2>1. x \in Nat /\ y \in Nat /\ ~(y < x)
    BY <1>2, <1>3
  <2> QED
    BY <2>1
<1> QED
  BY <1>4

\* arm_timerfd_for_next_timeout() on a sorted list covers every timeout of it
\* that is not handled.
LEMMA NextTimeoutCovers ==
    ASSUME TypeOK, NEW list \in Seq(Filled),
           \A i, j \in 1 .. Len(list) : i < j =>
             \/ x_[list[j]].deadline = 0
             \/ x_[list[i]].deadline # 0 /\ x_[list[i]].deadline <= x_[list[j]].deadline,
           NEW m \in 1 .. Len(list), x_[list[m]].deadline # 0, ~x_[list[m]].handled
    PROVE  /\ NextTimeout(list, x_) # 0
           /\ NextTimeout(list, x_) <= x_[list[m]].deadline
<1> DEFINE T == {k \in 1 .. Len(list) : ~x_[list[k]].handled}
<1>1. T \in SUBSET Nat /\ T # {} /\ m \in T
  OBVIOUS
<1>2. PICK k \in T : \A y \in T : k <= y
  BY <1>1, LeastNatural
<1>3. k \in 1 .. Len(list) /\ ~x_[list[k]].handled /\ k <= m
  BY <1>1, <1>2
<1>4. \A j \in 1 .. (k - 1) : x_[list[j]].handled
  <2> SUFFICES ASSUME NEW j \in 1 .. (k - 1), ~x_[list[j]].handled PROVE FALSE
    OBVIOUS
  <2>1. j \in T /\ ~(k <= j)
    BY <1>3
  <2> QED
    BY <1>2, <2>1
<1>5. k \in FirstUnhandled(list, x_)
  BY <1>3, <1>4 DEF FirstUnhandled
<1>6. ASSUME NEW q \in FirstUnhandled(list, x_) PROVE q = k
  <2>1. q \in 1 .. Len(list) /\ ~x_[list[q]].handled /\ \A j \in 1 .. (q - 1) : x_[list[j]].handled
    BY DEF FirstUnhandled
  <2>2. ~(q < k)
    BY <1>4, <2>1
  <2>3. ~(k < q)
    BY <1>3, <2>1
  <2> QED
    BY <1>3, <2>1, <2>2, <2>3
<1>7. (CHOOSE q \in FirstUnhandled(list, x_) : TRUE) = k
  BY <1>5, <1>6
<1>8. x_[list[k]].deadline \in Nat /\ x_[list[m]].deadline \in Nat
  BY <1>3, TransferType, TransfersAssumption DEF TransferState
<1>9. x_[list[k]].deadline # 0 /\ x_[list[k]].deadline <= x_[list[m]].deadline
  <2>1. CASE k = m
    BY <1>8, <2>1
  <2>2. CASE k < m
    BY <1>3, <2>2
  <2> QED
    BY <1>3, <2>1, <2>2
<1>10. NextTimeout(list, x_) = x_[list[k]].deadline
  BY <1>5, <1>7, <1>9 DEF NextTimeout
<1> QED
  BY <1>9, <1>10

\* add_to_flying_list(): what a submission that is accepted does to the list.
LEMMA SubmitList ==
    ASSUME IndInv, NEW t \in Users, NEW x \in Filled, Submit(t, x)
    PROVE  /\ x \notin ToSet(flying) /\ x_'[x].deadline \in Nat /\ ~x_'[x].handled
           /\ \A y \in Filled \ {x} : x_'[y] = x_[y]
           /\ \/ UNCHANGED <<flying, timer>>
              \/ \E k \in Position(x_'[x].deadline) :
                   /\ flying' = InsertAt(flying, k, x)
                   /\ timer' = TimerAfterAdd(x_'[x].deadline, k)
<1> DEFINE d == IF Timeout(x) = 0 THEN 0 ELSE now + Timeout(x)
           n == [NewTransfer(x_[x].shape) EXCEPT !.deadline = d]
<1>0. /\ TypeOK /\ LockInv /\ FlightInv /\ ListInv
      /\ x_ \in [Filled -> TransferState] /\ now \in Nat /\ Timeout(x) \in Nat
  BY TransferType, TransfersAssumption DEF IndInv, TypeOK, TransfersOK, ListOK
<1>1. n.deadline = d /\ n.handled = FALSE /\ d \in Nat
  BY <1>0 DEF NewTransfer
<1>2. x_' = [x_ EXCEPT ![x] = n]
  BY DEF Submit
<1>3. \/ UNCHANGED <<flying, timer>>
      \/ \E k \in Position(d) : /\ flying' = InsertAt(flying, k, x)
                                /\ timer' = TimerAfterAdd(d, k)
  BY DEF Submit
<1> HIDE DEF n, d
<1>4. x_'[x] = n /\ \A y \in Filled \ {x} : x_'[y] = x_[y]
  BY <1>0, <1>2
<1>5. x \notin ToSet(flying)
  <2>1. ASSUME NEW u \in Users, Owns(u, x) PROVE FALSE
    <3>1. th[u].pc # "remove" /\ xlock[x] = None
      BY <2>1 DEF Submit, Owns
    <3>2. xlock[x] = u /\ u # None
      BY <1>0, <2>1, <3>1, HasTransfer, TransfersAssumption DEF Owns, Submitting, Threads
    <3> QED
      BY <3>1, <3>2
  <2>2. ~x_[x].flight
    BY DEF Submit, NotBusy
  <2> QED
    BY <1>0, <2>1, <2>2 DEF ListInv
<1> QED
  BY <1>1, <1>3, <1>4, <1>5

\* Every step keeps the list sorted by timeout.
LEMMA SortedStep ==
    ASSUME IndInv, [Next]_vars
    PROVE  FlyingSorted'
<1>0. /\ TypeOK /\ FlyingSorted /\ flying \in Seq(Filled) /\ IsInjective(flying)
      /\ \A y \in Filled : x_[y].deadline \in Nat
  BY TransferType, TransfersAssumption DEF IndInv, TypeOK, ListOK, TransferState
<1> DEFINE Before(i, j) == \/ x_[flying[j]].deadline = 0
                           \/ /\ x_[flying[i]].deadline # 0
                              /\ x_[flying[i]].deadline <= x_[flying[j]].deadline
<1>a. \A i, j \in 1 .. Len(flying) : i < j => Before(i, j)
  BY <1>0 DEF FlyingSorted
<1>b. \A i \in 1 .. Len(flying) : flying[i] \in Filled /\ flying[i] \in ToSet(flying)
  BY <1>0 DEF ToSet
<1>1. ASSUME NEW t \in Users, NEW x \in Filled, Submit(t, x) PROVE FlyingSorted'
  <2> DEFINE d == x_'[x].deadline
  <2>1. /\ x \notin ToSet(flying) /\ d \in Nat
        /\ \A y \in Filled \ {x} : x_'[y] = x_[y]
        /\ \/ UNCHANGED <<flying, timer>>
           \/ \E k \in Position(d) : flying' = InsertAt(flying, k, x)
    BY <1>1, SubmitList
  <2> HIDE DEF d
  <2>2. \A i \in 1 .. Len(flying) : x_'[flying[i]] = x_[flying[i]]
    BY <1>b, <2>1
  <2>3. CASE UNCHANGED flying
    BY <1>a, <2>2, <2>3 DEF FlyingSorted
  <2>4. ASSUME NEW k \in Position(d), flying' = InsertAt(flying, k, x) PROVE FlyingSorted'
    <3>1. /\ k \in 1 .. (Len(flying) + 1)
          /\ \A j \in 1 .. (k - 1) : d = 0 \/ ~ExpiresLater(flying[j], d)
          /\ k <= Len(flying) => d # 0 /\ ExpiresLater(flying[k], d)
      BY <2>4 DEF Position
    <3>2. /\ Len(flying') = Len(flying) + 1
          /\ \A j \in 1 .. (k - 1) : flying'[j] = flying[j]
          /\ flying'[k] = x
          /\ \A j \in k .. Len(flying) : flying'[j + 1] = flying[j]
      <4> DEFINE q == InsertAt(flying, k, x)
      <4>1. /\ Len(q) = Len(flying) + 1
            /\ \A j \in 1 .. (k - 1) : q[j] = flying[j]
            /\ q[k] = x
            /\ \A j \in k .. Len(flying) : q[j + 1] = flying[j]
        BY <1>0, <3>1, InsertAtFacts
      <4> HIDE DEF q
      <4>2. flying' = q
        BY <2>4 DEF q
      <4> QED
        BY <4>1, <4>2
    <3> SUFFICES ASSUME NEW i \in 1 .. Len(flying'), NEW j \in 1 .. Len(flying'), i < j
                 PROVE  \/ x_'[flying'[j]].deadline = 0
                        \/ /\ x_'[flying'[i]].deadline # 0
                           /\ x_'[flying'[i]].deadline <= x_'[flying'[j]].deadline
      BY DEF FlyingSorted
    <3>3. CASE j < k
      <4>1. flying'[i] = flying[i] /\ flying'[j] = flying[j] /\ i \in 1 .. Len(flying) /\ j \in 1 .. Len(flying)
        BY <3>1, <3>2, <3>3
      <4> QED
        BY <1>a, <2>2, <4>1
    <3>4. CASE j = k
      <4>1. flying'[i] = flying[i] /\ flying'[j] = x /\ i \in 1 .. Len(flying) /\ i \in 1 .. (k - 1)
        BY <3>1, <3>2, <3>4
      <4>2. d = 0 \/ (x_[flying[i]].deadline # 0 /\ ~(x_[flying[i]].deadline > d))
        BY <3>1, <4>1 DEF ExpiresLater
      <4>3. x_[flying[i]].deadline \in Nat
        BY <1>0, <1>b, <4>1
      <4> QED
        BY <2>1, <2>2, <4>1, <4>2, <4>3 DEF d
    <3>5. CASE j > k
      <4>1. j - 1 \in k .. Len(flying) /\ (j - 1) + 1 = j
        BY <3>1, <3>2, <3>5
      <4>2. flying'[j] = flying[j - 1] /\ j - 1 \in 1 .. Len(flying)
        BY <3>1, <3>2, <4>1
      <4>3. CASE i < k
        <5>1. flying'[i] = flying[i] /\ i \in 1 .. Len(flying) /\ i < j - 1
          BY <3>1, <3>2, <3>5, <4>3
        <5> QED
          BY <1>a, <2>2, <4>2, <5>1
      <4>4. CASE i = k
        <5>1. d # 0 /\ (x_[flying[k]].deadline = 0 \/ x_[flying[k]].deadline > d)
              /\ k \in 1 .. Len(flying)
          BY <3>1, <3>5, <4>1 DEF ExpiresLater
        <5>2. k = j - 1 \/ Before(k, j - 1)
          BY <1>a, <4>1, <4>2, <5>1
        <5>3. x_[flying[k]].deadline \in Nat /\ x_[flying[j - 1]].deadline \in Nat
          BY <1>0, <1>b, <4>2, <5>1
        <5>4. x_[flying[j - 1]].deadline = 0 \/ d <= x_[flying[j - 1]].deadline
          BY <2>1, <5>1, <5>2, <5>3
        <5> QED
          BY <2>2, <3>2, <4>2, <4>4, <5>1, <5>4 DEF d
      <4>5. CASE i > k
        <5>1. i - 1 \in k .. Len(flying) /\ (i - 1) + 1 = i /\ i - 1 < j - 1
          BY <3>1, <3>2, <4>5
        <5>2. flying'[i] = flying[i - 1] /\ i - 1 \in 1 .. Len(flying)
          BY <3>1, <3>2, <5>1
        <5> QED
          BY <1>a, <2>2, <4>2, <5>1, <5>2
      <4> QED
        BY <3>1, <4>3, <4>4, <4>5
    <3> QED
      BY <3>1, <3>3, <3>4, <3>5
  <2> QED
    BY <2>1, <2>3, <2>4
<1>2. ASSUME ListKept, ListChange PROVE FlyingSorted'
  <2>1. CASE UNCHANGED flying
    <3>1. \A i \in 1 .. Len(flying) : x_'[flying[i]].deadline = x_[flying[i]].deadline
      BY <1>2, <1>b, <2>1 DEF ListKept
    <3> QED
      BY <1>a, <2>1, <3>1 DEF FlyingSorted
  <2>2. ASSUME UNCHANGED x_, NEW k \in 1 .. Len(flying), flying' = RemoveAt(flying, k)
        PROVE  FlyingSorted'
    <3>1. /\ Len(flying') = Len(flying) - 1
          /\ \A j \in 1 .. (k - 1) : flying'[j] = flying[j]
          /\ \A j \in k .. (Len(flying) - 1) : flying'[j] = flying[j + 1]
      BY <1>0, <2>2, RemoveAtFacts
    <3> SUFFICES ASSUME NEW i \in 1 .. Len(flying'), NEW j \in 1 .. Len(flying'), i < j
                 PROVE  \/ x_[flying'[j]].deadline = 0
                        \/ /\ x_[flying'[i]].deadline # 0
                           /\ x_[flying'[i]].deadline <= x_[flying'[j]].deadline
      BY <2>2 DEF FlyingSorted
    <3>2. ASSUME NEW m \in 1 .. Len(flying')
          PROVE  \/ m < k /\ flying'[m] = flying[m] /\ m \in 1 .. Len(flying)
                 \/ m >= k /\ flying'[m] = flying[m + 1] /\ m + 1 \in 1 .. Len(flying)
      BY <3>1
    <3>3. PICK a, b \in 1 .. Len(flying) : flying'[i] = flying[a] /\ flying'[j] = flying[b] /\ a < b
      <4>1. CASE j < k
        BY <3>2, <4>1
      <4>2. CASE i < k /\ j >= k
        <5>1. i < j + 1
          OBVIOUS
        <5> QED
          BY <3>2, <4>2, <5>1
      <4>3. CASE i >= k
        <5>1. i + 1 < j + 1
          OBVIOUS
        <5> QED
          BY <3>2, <4>3, <5>1
      <4> QED
        BY <4>1, <4>2, <4>3
    <3> QED
      BY <1>a, <3>3
  <2> QED
    BY <1>2, <2>1, <2>2 DEF ListChange, RemoveFlying
<1> QED
  BY <1>1, <1>2, ListStep

\* Every step keeps the timer armed for the timeouts that are still to come.
LEMMA TimerStep ==
    ASSUME IndInv, [Next]_vars
    PROVE  TimerCoversTimeouts'
<1>0. /\ TypeOK /\ FlyingSorted /\ flying \in Seq(Filled) /\ IsInjective(flying)
      /\ TimerCoversTimeouts /\ timer \in Nat
      /\ \A y \in Filled : x_[y].deadline \in Nat
  BY TransferType, TransfersAssumption DEF IndInv, TypeOK, ListOK, TransferState
<1>a. \A i \in 1 .. Len(flying) : flying[i] \in Filled /\ flying[i] \in ToSet(flying)
  BY <1>0 DEF ToSet
<1>b. ToSet(flying) \subseteq Filled
  BY <1>0 DEF ToSet
<1>c. ASSUME NEW y \in ToSet(flying), x_[y].deadline # 0, ~x_[y].handled
      PROVE  (timer # 0 /\ timer <= x_[y].deadline) \/ x_[flying[1]].handled
  BY <1>0, <1>c DEF TimerCoversTimeouts
<1>d. FlyingSorted' /\ flying' \in Seq(Filled) /\ TypeOK'
  BY SortedStep, TypeStep DEF TypeOK, ListOK, SameShapes
<1>1. ASSUME NEW t \in Users, NEW x \in Filled, Submit(t, x) PROVE TimerCoversTimeouts'
  <2> DEFINE d == x_'[x].deadline
  <2>1. /\ x \notin ToSet(flying) /\ d \in Nat /\ ~x_'[x].handled
        /\ \A y \in Filled \ {x} : x_'[y] = x_[y]
        /\ \/ UNCHANGED <<flying, timer>>
           \/ \E k \in Position(d) : /\ flying' = InsertAt(flying, k, x)
                                     /\ timer' = TimerAfterAdd(d, k)
    BY <1>1, SubmitList
  <2> HIDE DEF d
  <2>2. \A y \in ToSet(flying) : x_'[y] = x_[y] /\ y # x
    BY <1>b, <2>1
  <2>3. CASE UNCHANGED <<flying, timer>>
    <3> SUFFICES ASSUME NEW y \in ToSet(flying), x_'[y].deadline # 0, ~x_'[y].handled
                 PROVE  \/ timer # 0 /\ timer <= x_'[y].deadline
                        \/ x_'[flying[1]].handled
      BY <1>0, <2>3 DEF TimerCoversTimeouts
    <3>1. flying[1] \in ToSet(flying)
      BY <1>0, <1>a DEF ToSet
    <3> QED
      BY <1>c, <2>2, <3>1
  <2>4. ASSUME NEW k \in Position(d), flying' = InsertAt(flying, k, x),
               timer' = TimerAfterAdd(d, k)
        PROVE  TimerCoversTimeouts'
    <3>1. /\ k \in 1 .. (Len(flying) + 1)
          /\ \A j \in 1 .. (k - 1) : d = 0 \/ ~ExpiresLater(flying[j], d)
          /\ k <= Len(flying) => d # 0 /\ ExpiresLater(flying[k], d)
      BY <2>4 DEF Position
    <3>2. /\ Len(flying') = Len(flying) + 1
          /\ \A j \in 1 .. (k - 1) : flying'[j] = flying[j]
          /\ flying'[k] = x
          /\ ToSet(flying') = ToSet(flying) \cup {x}
      <4> DEFINE q == InsertAt(flying, k, x)
      <4>1. /\ Len(q) = Len(flying) + 1
            /\ \A j \in 1 .. (k - 1) : q[j] = flying[j]
            /\ q[k] = x
        BY <1>0, <3>1, InsertAtFacts
      <4>2. ToSet(q) = ToSet(flying) \cup {x}
        <5>1. flying \in Seq(Filled) /\ k \in 1 .. (Len(flying) + 1) /\ x \in Filled
          BY <1>0, <3>1
        <5> QED
          BY <5>1, InsertedList
      <4> HIDE DEF q
      <4>3. flying' = q
        BY <2>4 DEF q
      <4> QED
        BY <4>1, <4>2, <4>3
    <3>3. Head(flying') = flying'[1] /\ flying' # << >>
      BY <1>d, <3>1, <3>2
    <3> SUFFICES ASSUME NEW y \in ToSet(flying'), x_'[y].deadline # 0, ~x_'[y].handled
                 PROVE  \/ timer' # 0 /\ timer' <= x_'[y].deadline
                        \/ x_'[flying'[1]].handled
      BY <3>3 DEF TimerCoversTimeouts
    <3>4. CASE k = 1 /\ d # 0
      <4>1. timer' = d
        BY <2>4, <3>4 DEF TimerAfterAdd
      <4>2. PICK m \in 1 .. Len(flying') : flying'[m] = y
        BY <1>d DEF ToSet
      <4>3. CASE m = 1
        BY <2>1, <3>2, <3>4, <4>1, <4>2, <4>3 DEF d
      <4>4. CASE m # 1
        <5>1. 1 < m /\ 1 \in 1 .. Len(flying')
          BY <3>1, <3>2, <4>4
        <5>2. \/ x_'[flying'[m]].deadline = 0
              \/ /\ x_'[flying'[1]].deadline # 0
                 /\ x_'[flying'[1]].deadline <= x_'[flying'[m]].deadline
          BY <1>d, <5>1 DEF FlyingSorted
        <5> QED
          BY <3>2, <3>4, <4>1, <4>2, <5>2 DEF d
      <4> QED
        BY <4>3, <4>4
    <3>5. CASE k = 1 /\ d = 0
      <4>1. ToSet(flying) = {}
        BY <1>0, <3>1, <3>5 DEF ToSet
      <4> QED
        BY <3>2, <3>5, <4>1 DEF d
    <3>6. CASE k # 1
      <4>1. /\ timer' = timer /\ flying'[1] = flying[1] /\ 1 \in 1 .. Len(flying)
            /\ flying[1] \in ToSet(flying) /\ flying[1] \in Filled
        BY <1>a, <2>4, <3>1, <3>2, <3>6 DEF TimerAfterAdd
      <4>2. CASE y # x
        <5>1. y \in ToSet(flying)
          BY <3>2, <4>2
        <5> QED
          BY <1>c, <2>2, <4>1, <5>1
      <4>3. CASE y = x
        <5>1. d # 0 /\ x_[flying[1]].deadline # 0 /\ ~(x_[flying[1]].deadline > d)
          BY <3>1, <3>6, <4>3 DEF ExpiresLater, d
        <5>2. \/ timer # 0 /\ timer <= x_[flying[1]].deadline
              \/ x_[flying[1]].handled
          BY <1>c, <4>1, <5>1
        <5>3. x_[flying[1]].deadline \in Nat
          BY <1>0, <4>1
        <5>4. timer # 0 /\ timer <= x_[flying[1]].deadline => timer <= d
          BY <1>0, <2>1, <5>1, <5>3
        <5> QED
          BY <2>2, <4>1, <4>3, <5>2, <5>4 DEF d
      <4> QED
        BY <4>2, <4>3
    <3> QED
      BY <3>4, <3>5, <3>6
  <2> QED
    BY <2>1, <2>3, <2>4
<1>2. ASSUME ListKept, ListChange PROVE TimerCoversTimeouts'
  <2>a. ASSUME UNCHANGED x_, timer' = NextTimeout(flying', x_) PROVE TimerCoversTimeouts'
    <3> SUFFICES ASSUME NEW y \in ToSet(flying'), x_[y].deadline # 0, ~x_[y].handled
                 PROVE  timer' # 0 /\ timer' <= x_[y].deadline
      BY <2>a DEF TimerCoversTimeouts
    <3>1. PICK m \in 1 .. Len(flying') : flying'[m] = y
      BY <1>d DEF ToSet
    <3>2. \A i, j \in 1 .. Len(flying') : i < j =>
             \/ x_[flying'[j]].deadline = 0
             \/ x_[flying'[i]].deadline # 0 /\ x_[flying'[i]].deadline <= x_[flying'[j]].deadline
      BY <1>d, <2>a DEF FlyingSorted
    <3> QED
      BY <1>0, <1>d, <2>a, <3>1, <3>2, NextTimeoutCovers
  <2>1. CASE UNCHANGED <<flying, timer>>
    <3> SUFFICES ASSUME NEW y \in ToSet(flying), x_'[y].deadline # 0, ~x_'[y].handled
                 PROVE  \/ timer # 0 /\ timer <= x_'[y].deadline
                        \/ x_'[flying[1]].handled
      BY <1>0, <2>1 DEF TimerCoversTimeouts
    <3>1. \A z \in ToSet(flying) : x_'[z].deadline = x_[z].deadline /\ (x_[z].handled => x_'[z].handled)
      BY <1>2, <1>b, <2>1 DEF ListKept
    <3>2. flying[1] \in ToSet(flying)
      BY <1>0, <1>a DEF ToSet
    <3> QED
      BY <1>c, <3>1, <3>2
  <2>2. CASE UNCHANGED <<flying, x_>> /\ timer' = NextTimeout(flying, x_)
    BY <2>2, <2>a
  <2>3. ASSUME UNCHANGED x_, NEW k \in 1 .. Len(flying), flying' = RemoveAt(flying, k),
               timer' = IF k = 1 /\ x_[flying[k]].deadline # 0
                          THEN NextTimeout(flying', x_) ELSE timer
        PROVE  TimerCoversTimeouts'
    <3>1. CASE k = 1 /\ x_[flying[k]].deadline # 0
      BY <2>3, <2>a, <3>1
    <3>2. CASE ~(k = 1 /\ x_[flying[k]].deadline # 0)
      <4>1. ToSet(flying') = ToSet(flying) \ {flying[k]} /\ timer' = timer
        BY <1>0, <2>3, <3>2, RemovedList
      <4> SUFFICES ASSUME NEW y \in ToSet(flying'), x_[y].deadline # 0, ~x_[y].handled
                   PROVE  \/ timer # 0 /\ timer <= x_[y].deadline
                          \/ x_[Head(flying')].handled
        BY <2>3, <4>1 DEF TimerCoversTimeouts
      <4>2. CASE k = 1
        <5>1. PICK m \in 1 .. Len(flying) : flying[m] = y /\ m # 1
          BY <1>0, <4>1, <4>2 DEF ToSet
        <5>2. 1 \in 1 .. Len(flying) /\ 1 < m
          BY <5>1
        <5>3. x_[flying[1]].deadline # 0
          BY <1>0, <5>1, <5>2 DEF FlyingSorted
        <5> QED
          BY <3>2, <4>2, <5>3
      <4>3. CASE k # 1
        <5>1. flying'[1] = flying[1]
          BY <1>0, <2>3, <4>3, RemoveAtFacts
        <5>2. flying' # << >> /\ Head(flying') = flying'[1]
          BY <1>d DEF ToSet
        <5> QED
          BY <1>c, <4>1, <5>1, <5>2
      <4> QED
        BY <4>2, <4>3
    <3> QED
      BY <3>1, <3>2
  <2>4. CASE UNCHANGED x_ /\ \E x \in Filled : RemoveFlying(x)
    BY <2>3, <2>4 DEF RemoveFlying
  <2> QED
    BY <1>2, <2>1, <2>2, <2>4 DEF ListChange
<1> QED
  BY <1>1, <1>2, ListStep

\* The initial states satisfy the inductive invariant.
LEMMA InitInv == Init => IndInv
<1> SUFFICES ASSUME Init PROVE IndInv
  OBVIOUS
<1>1. PICK s \in Shapes :
        /\ x_ = [x \in DOMAIN s |-> NewTransfer(s[x])]
        /\ urb = [x \in DOMAIN s |-> [i \in 1..s[x].urbs |-> "none"]]
  BY DEF Init
<1>2. DOMAIN s \subseteq Transfers /\ \A x \in DOMAIN s : s[x] \in Shape
  BY TransfersAssumption
<1>3. Filled = DOMAIN s /\ \A x \in Filled : x_[x] = NewTransfer(s[x])
  BY <1>1 DEF Filled
<1>4. ASSUME NEW x \in Filled
      PROVE  /\ x_[x] \in TransferState /\ x_[x].shape = s[x]
             /\ x_[x].flight = FALSE /\ x_[x].urbs = FALSE
  <2>1. s[x] \in Shape
    BY <1>2, <1>3
  <2>2. NewTransfer(s[x]) \in TransferState
    BY <2>1, TransfersAssumption DEF NewTransfer, TransferState, Statuses
  <2> QED
    BY <1>3, <2>2 DEF NewTransfer
<1>5. TransfersOK
  BY <1>1, <1>2, <1>3, <1>4 DEF TransfersOK
<1>6. ListOK
  BY TransfersAssumption DEF Init, ListOK, IsInjective
<1>7. LocksOK
  BY DEF Init, LocksOK
<1>8. \A t \in Threads : th[t] = Idle
  BY DEF Init
<1>9. Idle \in Call /\ Idle.pc = "idle" /\ Idle.pc \in UserPcs \cap HandlerPcs
  BY DEF Idle, Call, UserPcs, HandlerPcs, Statuses
<1>10. CallsOK
  BY <1>8, <1>9 DEF Init, CallsOK, Threads
<1>11. UrbsOK
  <2>1. DOMAIN urb = Filled
    BY <1>1, <1>3
  <2>2. ASSUME NEW x \in Filled PROVE urb[x] \in [Urbs(x) -> UrbStates]
    BY <1>1, <1>3, <1>4, <2>2 DEF Urbs, NumUrbs, UrbStates
  <2> QED
    <3>1. done = << >> /\ plugged = "yes" /\ reapcap = FALSE
      BY DEF Init
    <3> QED
      <4>1. done \in Seq(AllUrbs)
        BY <3>1
      <4>2. \A x \in Filled : urb[x] \in [Urbs(x) -> UrbStates]
        BY <2>2
      <4> QED
        BY <2>1, <3>1, <4>1, <4>2 DEF UrbsOK
<1>12. HistoryOK
  BY TransfersAssumption DEF Init, HistoryOK
<1>13. TypeOK
  BY <1>5, <1>6, <1>7, <1>10, <1>11, <1>12 DEF TypeOK
<1>14. Handler \in Threads /\ Users \subseteq Threads
  BY DEF Threads
<1>15. LockInv
  BY <1>8, <1>9 DEF LockInv, LockOf, Expiring
<1>16. \A t \in Users, x \in Filled : ~Owns(t, x)
  BY <1>8, <1>9, <1>14 DEF Owns, Submitting
<1>17. CallbackDue = {} /\ ~Ending /\ th[Handler].pc = "idle"
  BY <1>8, <1>9, <1>14 DEF CallbackDue, Ending
<1>18. \A x \in Filled : accepts[x] = answers[x]
  BY DEF Init
<1>19. FlightInv
  BY <1>4, <1>8, <1>9, <1>14, <1>16, <1>17, <1>18 DEF FlightInv
<1>20. ToSet(flying) = {} /\ Len(flying) = 0
  BY DEF Init, ToSet
<1>21. ListInv
  BY <1>4, <1>16, <1>20 DEF ListInv
<1>22. FlyingSorted /\ TimerCoversTimeouts
  BY <1>20 DEF FlyingSorted, TimerCoversTimeouts
<1> QED
  BY <1>13, <1>15, <1>19, <1>21, <1>22 DEF IndInv

\* The inductive invariant holds in every reachable state.
THEOREM Invariance == Spec => []IndInv
<1>1. IndInv /\ [Next]_vars => IndInv'
  <2> SUFFICES ASSUME IndInv, [Next]_vars PROVE IndInv'
    OBVIOUS
  <2> QED
    BY TypeStep, CoreStep, SortedStep, TimerStep DEF IndInv
<1> QED
  BY <1>1, InitInv, PTL DEF Spec

\* On every run, for any number of transfers, threads, URBs and timeouts: the
\* list of flying transfers is sorted and the timer covers every timeout on it
\* that has not been dealt with (add_to_flying_list, remove_from_flying_list,
\* handle_timeouts_locked, arm_timerfd_for_next_timeout).
THEOREM TimeoutsAreCovered == Spec => []TimeoutsCovered
<1>1. IndInv => TimeoutsCovered
  BY DEF IndInv, TimeoutsCovered
<1> QED
  BY <1>1, Invariance, PTL

\* Every step of the transfers is a step of AsyncTransfer or leaves the history
\* of submissions, callbacks and requests to cancel.
LEMMA PromiseStep ==
    ASSUME IndInv, [Next]_vars
    PROVE  [Promise!Next]_<<accepts, answers, asked>>
<1> USE DEF kernel, ghost, lists, locks
<1>0. TypeOK /\ LockInv /\ FlightInv /\ Filled \subseteq Transfers
  BY DEF IndInv, TypeOK, TransfersOK
<1>a. ASSUME NEW t \in Users, NEW X, Submitting(t), InFlight(t, X), UNCHANGED <<answers, asked>>
      PROVE  Promise!Next
  <2> DEFINE x == th[t].x
  <2>1. x \in Filled /\ Owns(t, x)
    BY <1>0, <1>a, HasTransfer DEF Submitting, Owns, Threads
  <2>2. x \in Transfers /\ accepts[x] = answers[x]
    BY <1>0, <2>1 DEF FlightInv
  <2>3. Promise!Submit(x)
    BY <1>a, <2>2 DEF InFlight, Promise!Submit, Promise!active
  <2> QED
    BY <2>2, <2>3 DEF Promise!Next
<1>b. ASSUME UNCHANGED <<accepts, answers, asked>>
      PROVE  [Promise!Next]_<<accepts, answers, asked>>
  BY <1>b
<1>1. ASSUME NEW t \in Threads, SubmitUrb(t) PROVE [Promise!Next]_<<accepts, answers, asked>>
  <2>1. Submitting(t) /\ t \in Users
    BY <1>0, <1>1, HasTransfer DEF SubmitUrb, Submitting
  <2>2. UNCHANGED accepts \/ \E X : InFlight(t, X)
    BY <1>1 DEF SubmitUrb, SubmitUrbOk, SubmitUrbFirstFails, SubmitUrbLaterFails
  <2> QED
    BY <1>1, <1>a, <2>1, <2>2 DEF SubmitUrb
<1>2. ASSUME NEW t \in Threads, SubmitDone(t) PROVE [Promise!Next]_<<accepts, answers, asked>>
  <2>1. Submitting(t) /\ t \in Users
    BY <1>0, <1>2, HasTransfer DEF SubmitDone, Submitting
  <2> QED
    BY <1>2, <1>a, <2>1 DEF SubmitDone
<1>11. ASSUME NEW t \in Users, NEW x \in Filled, Cancel(t, x)
       PROVE  [Promise!Next]_<<accepts, answers, asked>>
  <2>1. x \in Transfers /\ accepts[x] # answers[x]
    BY <1>0, <1>11 DEF Cancel, FlightInv
  <2>2. CASE x \in asked
    BY <1>11, <2>2 DEF Cancel
  <2>3. CASE x \notin asked
    <3>1. Promise!Cancel(x)
      BY <1>11, <2>1, <2>3 DEF Cancel, Promise!Cancel, Promise!active
    <3> QED
      BY <2>1, <3>1 DEF Promise!Next
  <2> QED
    BY <2>2, <2>3
<1>17. ASSUME Callback PROVE [Promise!Next]_<<accepts, answers, asked>>
  <2> DEFINE x == th[Handler].x
  <2>1. x \in Filled /\ x \in CallbackDue
    BY <1>0, <1>17, HasTransfer DEF Callback, Threads, CallbackDue
  <2>2. x \in Transfers /\ accepts[x] # answers[x]
    BY <1>0, <2>1 DEF FlightInv
  <2>3. Promise!Callback(x)
    BY <1>17, <2>2 DEF Callback, Promise!Callback, Promise!active
  <2> QED
    BY <2>2, <2>3 DEF Promise!Next
<1>3. ASSUME NEW t \in Threads,
             \/ SubmitRemove(t) \/ CancelDone(t) \/ Discard(t) \/ TimeoutsEnd(t)
             \/ HandleTimeout(t) \/ MarkTimedOut(t) \/ Trigger(t)
      PROVE  UNCHANGED <<accepts, answers, asked>>
  BY <1>3 DEF SubmitRemove, CancelDone, Discard, TimeoutsEnd, HandleTimeout, MarkTimedOut, Trigger
<1>4. ASSUME NEW t \in Users, NEW x \in Filled, Submit(t, x)
      PROVE  UNCHANGED <<accepts, answers, asked>>
  BY <1>4 DEF Submit
<1>5. ASSUME \/ Reap \/ ReapedUnlock \/ HandleCancellation \/ HandleCompletion \/ Land
             \/ Disconnected \/ Disconnect
      PROVE  UNCHANGED <<accepts, answers, asked>>
  BY <1>5 DEF Reap, ReapedUnlock, HandleCancellation, HandleCompletion, Land,
              Disconnected, Disconnect
<1>6. ASSUME \/ \E x \in Filled : \E i \in Urbs(x) : KernelEnds(x, i)
             \/ Unplug \/ Tick
      PROVE  UNCHANGED <<accepts, answers, asked>>
  BY <1>6 DEF KernelEnds, Unplug, Tick
<1>7. CASE UNCHANGED vars
  BY <1>7 DEF vars
<1> QED
  BY <1>1, <1>2, <1>3, <1>4, <1>5, <1>6, <1>7, <1>11, <1>17, <1>b
     DEF Next, ThreadStep, HandlerStep, Threads

\* The promise of AsyncTransfer is kept on every run, for any number of
\* transfers, threads and URBs: each submission that succeeds is answered by
\* exactly one callback, whatever order reaping, timeouts, cancellations and
\* the loss of the device come in.
THEOREM CallbacksAnswerSubmissions == Spec => OneCallbackEach
<1>1. Init => Promise!Init
  BY DEF Init, Promise!Init
<1> QED
  BY <1>1, Invariance, PromiseStep, PTL DEF Spec, OneCallbackEach, Promise!Spec
=============================================================================
