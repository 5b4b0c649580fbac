--------------------------- MODULE LibusbEventsProofs ---------------------------
(***************************************************************************)
(* Proofs about event handling, for any number of threads of each kind.    *)
(***************************************************************************)
EXTENDS MCLibusbEvents, FiniteSetTheorems, TLAPS

-----------------------------------------------------------------------------
(* The invariant *)

\* Where a thread holds the events lock.
Handling ==
  {"locked", "hev", "poll", "fish", "cb", "relock", "backend", "reap", "cbclose",
   "handled", "app", "apppoll", "unlock", "unlock2", "close2"}

\* The types; device_close is bounded by CountInv.
ThreadTypes ==
  /\ pc \in [Threads -> Labels] /\ device_close \in Nat
  /\ events_lock \in Threads \cup {None} /\ waiters_lock \in Threads \cup {None}
  /\ open_devs_lock \in Threads \cup {None} /\ event_handler_active \in BOOLEAN

DataTypes ==
  /\ interrupt \in BOOLEAN /\ modified \in BOOLEAN /\ pipe \in Int
  /\ notes \in 0..MaxNotes /\ hotplug_msgs \in 0..notes
  /\ completed_transfers \in Seq(Users) /\ path \in Paths
  /\ urb \in [Users -> {"flying", "done", "reaped"}] /\ completed \in [Users -> BOOLEAN]

FdTypes ==
  /\ ipollfds \subseteq Threads \cup {"pipe"} /\ pollfds \subseteq Threads \cup {"pipe"}
  /\ open \subseteq Threads
  /\ poll \in [revents : SUBSET (Threads \cup {"pipe"}), special : BOOLEAN, zero : BOOLEAN,
               failed : BOOLEAN, cur : Users \cup {None}]

\* One thread handles events, the holder of the lock; the flag is set only
\* under the lock.  open_devs_lock is held to reap and across its callbacks.
LockInv ==
  /\ \A t \in Threads : pc[t] \in Handling <=> events_lock = t
  /\ event_handler_active => events_lock # None
  /\ \A t \in Threads : pc[t] = "unlock2" => ~event_handler_active
  /\ \A t \in Threads : pc[t] = "reap" => open_devs_lock = t

\* device_close counts the threads that have announced a close.
Closing == {c \in Closers : pc[c] \in {"closing", "close2"}}
CountInv == device_close = Cardinality(Closing)

\* A pending event has its byte, and nobody takes it from the handler that saw
\* it; with "pollfd" the backend reports no transfer through the pipe.
PipeInv ==
  /\ pipe >= 0 /\ (Pending => pipe > 0)
  /\ path = "pollfd" => completed_transfers = <<>>
  /\ \A t \in Threads :
       pc[t] \in {"fish", "cb", "relock"} \/ (pc[t] = "cbclose" /\ open_devs_lock # t)
         => pipe > 0
  /\ \A t \in Threads :
       pc[t] = "cb" \/ (pc[t] = "cbclose" /\ open_devs_lock # t) => path = "signal"

\* The list names the open descriptors; the array is the list unless it is to
\* be rebuilt; during a call it names closed ones only if a callback closed them.
FdInv ==
  /\ ipollfds = open \cup {"pipe"}
  /\ pollfds # ipollfds => modified
  /\ \A t \in Threads :
       /\ pc[t] \in {"cb", "cbclose"} => poll.cur \in Users
       /\ pc[t] = "cbclose" => poll.cur \in CallbackCloses[path]
       /\ pc[t] \in {"poll", "fish", "cb", "relock", "backend", "reap", "cbclose", "handled"}
            => pollfds \ (open \cup {"pipe"}) \subseteq CallbackCloses[path]
       /\ pc[t] = "poll" /\ ~poll.zero => pollfds \subseteq open \cup {"pipe"}

\* A thread that waits has one that will broadcast, at the latest after a close.
WaiterInv ==
  \A t \in Threads : pc[t] = "wait" =>
    events_lock # None \/ \E u \in Threads : pc[u] \in {"bcast", "closing"}

EventsInv ==
  /\ ThreadTypes /\ DataTypes /\ FdTypes /\ LockInv /\ CountInv /\ PipeInv /\ FdInv
  /\ WaiterInv

-----------------------------------------------------------------------------
(* The steps *)

\* As many threads are closing as device_close says, none of them twice.
LEMMA CloseCount ==
    ASSUME EventsInv
    PROVE  /\ device_close \in 0..Cardinality(Closers)
           /\ device_close > 0 => \E c \in Closers : pc[c] \in {"closing", "close2"}
<1>1. Closing \subseteq Closers /\ device_close = Cardinality(Closing) /\ device_close \in Nat
  BY DEF EventsInv, CountInv, Closing, ThreadTypes
<1>2. Cardinality(Closing) <= Cardinality(Closers) /\ Cardinality(Closers) \in Nat
  BY <1>1, EventsAssumption, FS_Subset, FS_CardinalityType
<1>3. Closing = {} => Cardinality(Closing) = 0
  BY FS_EmptySet
<1> QED
  BY <1>1, <1>2, <1>3 DEF Closing

\* Enter keeps the invariant.
LEMMA EnterStep ==
    ASSUME EventsInv, NEW t \in Users, Enter(t)
    PROVE  EventsInv'
<1> USE EventsAssumption DEF Goto, locks, data, fds, rest, Labels, Threads, Users
<1>1. /\ ThreadTypes /\ DataTypes /\ FdTypes /\ LockInv /\ CountInv /\ PipeInv /\ FdInv
      /\ WaiterInv
  BY DEF EventsInv
<1>2. ThreadTypes'
  BY <1>1 DEF ThreadTypes, Enter
<1>3. DataTypes'
  BY <1>1 DEF DataTypes, Enter
<1>4. FdTypes'
  BY <1>1 DEF FdTypes, Enter
<1>5. LockInv'
  BY <1>1 DEF ThreadTypes, LockInv, Handling, Enter
<1>6. CountInv'
  <2>1. Closing' = Closing /\ device_close' = device_close
    BY <1>1 DEF Closing, ThreadTypes, Enter
  <2> QED
    BY <1>1, <2>1 DEF CountInv
<1>7. PipeInv'
  BY <1>1 DEF ThreadTypes, DataTypes, LockInv, Handling, Pending, PipeInv, Enter
<1>8. FdInv'
  BY <1>1 DEF ThreadTypes, FdTypes, LockInv, Handling, FdInv, Enter
<1>9. WaiterInv'
  BY <1>1 DEF ThreadTypes, LockInv, Handling, WaiterInv, Enter
<1> QED
  BY <1>2, <1>3, <1>4, <1>5, <1>6, <1>7, <1>8, <1>9 DEF EventsInv

\* TryCheck keeps the invariant.
LEMMA TryCheckStep ==
    ASSUME EventsInv, NEW t \in Users, TryCheck(t)
    PROVE  EventsInv'
<1> USE EventsAssumption DEF Goto, locks, data, fds, rest, Labels, Threads, Users
<1>1. /\ ThreadTypes /\ DataTypes /\ FdTypes /\ LockInv /\ CountInv /\ PipeInv /\ FdInv
      /\ WaiterInv
  BY DEF EventsInv
<1>2. ThreadTypes'
  BY <1>1 DEF ThreadTypes, TryCheck
<1>3. DataTypes'
  BY <1>1 DEF DataTypes, TryCheck
<1>4. FdTypes'
  BY <1>1 DEF FdTypes, TryCheck
<1>5. LockInv'
  BY <1>1 DEF ThreadTypes, LockInv, Handling, TryCheck
<1>6. CountInv'
  <2>1. Closing' = Closing /\ device_close' = device_close
    BY <1>1 DEF Closing, ThreadTypes, TryCheck
  <2> QED
    BY <1>1, <2>1 DEF CountInv
<1>7. PipeInv'
  BY <1>1 DEF ThreadTypes, DataTypes, LockInv, Handling, Pending, PipeInv, TryCheck
<1>8. FdInv'
  BY <1>1 DEF ThreadTypes, FdTypes, LockInv, Handling, FdInv, TryCheck
<1>9. WaiterInv'
  BY <1>1 DEF ThreadTypes, LockInv, Handling, WaiterInv, TryCheck
<1> QED
  BY <1>2, <1>3, <1>4, <1>5, <1>6, <1>7, <1>8, <1>9 DEF EventsInv

\* TryLock keeps the invariant.
LEMMA TryLockStep ==
    ASSUME EventsInv, NEW t \in Users, TryLock(t)
    PROVE  EventsInv'
<1> USE EventsAssumption DEF Goto, locks, data, fds, rest, Labels, Threads, Users
<1>1. /\ ThreadTypes /\ DataTypes /\ FdTypes /\ LockInv /\ CountInv /\ PipeInv /\ FdInv
      /\ WaiterInv
  BY DEF EventsInv
<1>2. ThreadTypes'
  BY <1>1 DEF ThreadTypes, TryLock
<1>3. DataTypes'
  BY <1>1 DEF DataTypes, TryLock
<1>4. FdTypes'
  BY <1>1 DEF FdTypes, TryLock
<1>5. LockInv'
  BY <1>1 DEF ThreadTypes, LockInv, Handling, TryLock
<1>6. CountInv'
  <2>1. Closing' = Closing /\ device_close' = device_close
    BY <1>1 DEF Closing, ThreadTypes, TryLock
  <2> QED
    BY <1>1, <2>1 DEF CountInv
<1>7. PipeInv'
  BY <1>1 DEF ThreadTypes, DataTypes, LockInv, Handling, Pending, PipeInv, TryLock
<1>8. FdInv'
  BY <1>1 DEF ThreadTypes, FdTypes, LockInv, Handling, FdInv, TryLock
<1>9. WaiterInv'
  BY <1>1 DEF ThreadTypes, LockInv, Handling, WaiterInv, TryLock
<1> QED
  BY <1>2, <1>3, <1>4, <1>5, <1>6, <1>7, <1>8, <1>9 DEF EventsInv

\* Locked keeps the invariant.
LEMMA LockedStep ==
    ASSUME EventsInv, NEW t \in Users, Locked(t)
    PROVE  EventsInv'
<1> USE EventsAssumption DEF Goto, locks, data, fds, rest, Labels, Threads, Users
<1>1. /\ ThreadTypes /\ DataTypes /\ FdTypes /\ LockInv /\ CountInv /\ PipeInv /\ FdInv
      /\ WaiterInv
  BY DEF EventsInv
<1>2. ThreadTypes'
  BY <1>1 DEF ThreadTypes, Locked
<1>3. DataTypes'
  BY <1>1 DEF DataTypes, Locked
<1>4. FdTypes'
  BY <1>1 DEF FdTypes, Locked
<1>5. LockInv'
  BY <1>1 DEF ThreadTypes, LockInv, Handling, Locked
<1>6. CountInv'
  <2>1. Closing' = Closing /\ device_close' = device_close
    BY <1>1 DEF Closing, ThreadTypes, Locked
  <2> QED
    BY <1>1, <2>1 DEF CountInv
<1>7. PipeInv'
  BY <1>1 DEF ThreadTypes, DataTypes, LockInv, Handling, Pending, PipeInv, Locked
<1>8. FdInv'
  BY <1>1 DEF ThreadTypes, FdTypes, LockInv, Handling, FdInv, Locked
<1>9. WaiterInv'
  BY <1>1 DEF ThreadTypes, LockInv, Handling, WaiterInv, Locked
<1> QED
  BY <1>2, <1>3, <1>4, <1>5, <1>6, <1>7, <1>8, <1>9 DEF EventsInv

\* AppCheck keeps the invariant.
LEMMA AppCheckStep ==
    ASSUME EventsInv, NEW t \in Users, AppCheck(t)
    PROVE  EventsInv'
<1> USE EventsAssumption DEF Goto, locks, data, fds, rest, Labels, Threads, Users
<1>1. /\ ThreadTypes /\ DataTypes /\ FdTypes /\ LockInv /\ CountInv /\ PipeInv /\ FdInv
      /\ WaiterInv
  BY DEF EventsInv
<1>2. ThreadTypes'
  BY <1>1 DEF ThreadTypes, AppCheck, NoPoll
<1>3. DataTypes'
  BY <1>1 DEF DataTypes, AppCheck, NoPoll
<1>4. FdTypes'
  BY <1>1 DEF FdTypes, AppCheck, NoPoll
<1>5. LockInv'
  BY <1>1 DEF ThreadTypes, LockInv, Handling, AppCheck, NoPoll
<1>6. CountInv'
  <2>1. Closing' = Closing /\ device_close' = device_close
    BY <1>1 DEF Closing, ThreadTypes, AppCheck, NoPoll
  <2> QED
    BY <1>1, <2>1 DEF CountInv
<1>7. PipeInv'
  BY <1>1 DEF ThreadTypes, DataTypes, LockInv, Handling, Pending, PipeInv, AppCheck, NoPoll
<1>8. FdInv'
  BY <1>1 DEF ThreadTypes, FdTypes, LockInv, Handling, FdInv, AppCheck, NoPoll
<1>9. WaiterInv'
  BY <1>1 DEF ThreadTypes, LockInv, Handling, WaiterInv, AppCheck, NoPoll
<1> QED
  BY <1>2, <1>3, <1>4, <1>5, <1>6, <1>7, <1>8, <1>9 DEF EventsInv

\* AppPoll keeps the invariant.
LEMMA AppPollStep ==
    ASSUME EventsInv, NEW t \in Users, AppPoll(t)
    PROVE  EventsInv'
<1> USE EventsAssumption DEF Goto, locks, data, fds, rest, Labels, Threads, Users
<1>1. /\ ThreadTypes /\ DataTypes /\ FdTypes /\ LockInv /\ CountInv /\ PipeInv /\ FdInv
      /\ WaiterInv
  BY DEF EventsInv
<1>2. ThreadTypes'
  BY <1>1 DEF ThreadTypes, AppPoll, Ready
<1>3. DataTypes'
  BY <1>1 DEF DataTypes, AppPoll, Ready
<1>4. FdTypes'
  BY <1>1 DEF FdTypes, AppPoll, Ready
<1>5. LockInv'
  BY <1>1 DEF ThreadTypes, LockInv, Handling, AppPoll, Ready
<1>6. CountInv'
  <2>1. Closing' = Closing /\ device_close' = device_close
    BY <1>1 DEF Closing, ThreadTypes, AppPoll, Ready
  <2> QED
    BY <1>1, <2>1 DEF CountInv
<1>7. PipeInv'
  BY <1>1 DEF ThreadTypes, DataTypes, LockInv, Handling, Pending, PipeInv, AppPoll, Ready
<1>8. FdInv'
  BY <1>1 DEF ThreadTypes, FdTypes, LockInv, Handling, FdInv, AppPoll, Ready
<1>9. WaiterInv'
  BY <1>1 DEF ThreadTypes, LockInv, Handling, WaiterInv, AppPoll, Ready
<1> QED
  BY <1>2, <1>3, <1>4, <1>5, <1>6, <1>7, <1>8, <1>9 DEF EventsInv

\* Unlock keeps the invariant.
LEMMA UnlockStep ==
    ASSUME EventsInv, NEW t \in Threads, Unlock(t)
    PROVE  EventsInv'
<1> USE EventsAssumption DEF Goto, locks, data, fds, rest, Labels, Threads, Users
<1>1. /\ ThreadTypes /\ DataTypes /\ FdTypes /\ LockInv /\ CountInv /\ PipeInv /\ FdInv
      /\ WaiterInv
  BY DEF EventsInv
<1>2. ThreadTypes'
  BY <1>1 DEF ThreadTypes, Unlock, NoPoll
<1>3. DataTypes'
  BY <1>1 DEF DataTypes, Unlock, NoPoll
<1>4. FdTypes'
  BY <1>1 DEF FdTypes, Unlock, NoPoll
<1>5. LockInv'
  BY <1>1 DEF ThreadTypes, LockInv, Handling, Unlock, NoPoll
<1>6. CountInv'
  <2>1. Closing' = Closing /\ device_close' = device_close
    BY <1>1 DEF Closing, ThreadTypes, Unlock, NoPoll
  <2> QED
    BY <1>1, <2>1 DEF CountInv
<1>7. PipeInv'
  BY <1>1 DEF ThreadTypes, DataTypes, LockInv, Handling, Pending, PipeInv, Unlock, NoPoll
<1>8. FdInv'
  BY <1>1 DEF ThreadTypes, FdTypes, LockInv, Handling, FdInv, Unlock, NoPoll
<1>9. WaiterInv'
  BY <1>1 DEF ThreadTypes, LockInv, Handling, WaiterInv, Unlock, NoPoll
<1> QED
  BY <1>2, <1>3, <1>4, <1>5, <1>6, <1>7, <1>8, <1>9 DEF EventsInv

\* Unlock2 keeps the invariant.
LEMMA Unlock2Step ==
    ASSUME EventsInv, NEW t \in Threads, Unlock2(t)
    PROVE  EventsInv'
<1> USE EventsAssumption DEF Goto, locks, data, fds, rest, Labels, Threads, Users
<1>1. /\ ThreadTypes /\ DataTypes /\ FdTypes /\ LockInv /\ CountInv /\ PipeInv /\ FdInv
      /\ WaiterInv
  BY DEF EventsInv
<1>2. ThreadTypes'
  BY <1>1 DEF ThreadTypes, Unlock2
<1>3. DataTypes'
  BY <1>1 DEF DataTypes, Unlock2
<1>4. FdTypes'
  BY <1>1 DEF FdTypes, Unlock2
<1>5. LockInv'
  BY <1>1 DEF ThreadTypes, LockInv, Handling, Unlock2
<1>6. CountInv'
  <2>1. Closing' = Closing /\ device_close' = device_close
    BY <1>1 DEF Closing, ThreadTypes, Unlock2
  <2> QED
    BY <1>1, <2>1 DEF CountInv
<1>7. PipeInv'
  BY <1>1 DEF ThreadTypes, DataTypes, LockInv, Handling, Pending, PipeInv, Unlock2
<1>8. FdInv'
  BY <1>1 DEF ThreadTypes, FdTypes, LockInv, Handling, FdInv, Unlock2
<1>9. WaiterInv'
  BY <1>1 DEF ThreadTypes, LockInv, Handling, WaiterInv, Unlock2
<1> QED
  BY <1>2, <1>3, <1>4, <1>5, <1>6, <1>7, <1>8, <1>9 DEF EventsInv

\* Broadcast keeps the invariant.
LEMMA BroadcastStep ==
    ASSUME EventsInv, NEW t \in Threads, Broadcast(t)
    PROVE  EventsInv'
<1> USE EventsAssumption DEF Goto, locks, data, fds, rest, Labels, Threads, Users
<1>1. /\ ThreadTypes /\ DataTypes /\ FdTypes /\ LockInv /\ CountInv /\ PipeInv /\ FdInv
      /\ WaiterInv
  BY DEF EventsInv
<1>2. ThreadTypes'
  BY <1>1 DEF ThreadTypes, Broadcast, AfterUnlock
<1>3. DataTypes'
  BY <1>1 DEF DataTypes, Broadcast, AfterUnlock
<1>4. FdTypes'
  BY <1>1 DEF FdTypes, Broadcast, AfterUnlock
<1>5. LockInv'
  BY <1>1 DEF ThreadTypes, LockInv, Handling, Broadcast, AfterUnlock
<1>6. CountInv'
  <2>1. Closing' = Closing /\ device_close' = device_close
    BY <1>1 DEF Closing, ThreadTypes, Broadcast, AfterUnlock
  <2> QED
    BY <1>1, <2>1 DEF CountInv
<1>7. PipeInv'
  BY <1>1 DEF ThreadTypes, DataTypes, LockInv, Handling, Pending, PipeInv, Broadcast, AfterUnlock
<1>8. FdInv'
  BY <1>1 DEF ThreadTypes, FdTypes, LockInv, Handling, FdInv, Broadcast, AfterUnlock
<1>9. WaiterInv'
  BY <1>1 DEF ThreadTypes, LockInv, Handling, WaiterInv, Broadcast, AfterUnlock
<1> QED
  BY <1>2, <1>3, <1>4, <1>5, <1>6, <1>7, <1>8, <1>9 DEF EventsInv

\* WaitersLock keeps the invariant.
LEMMA WaitersLockStep ==
    ASSUME EventsInv, NEW t \in Users, WaitersLock(t)
    PROVE  EventsInv'
<1> USE EventsAssumption DEF Goto, locks, data, fds, rest, Labels, Threads, Users
<1>1. /\ ThreadTypes /\ DataTypes /\ FdTypes /\ LockInv /\ CountInv /\ PipeInv /\ FdInv
      /\ WaiterInv
  BY DEF EventsInv
<1>2. ThreadTypes'
  BY <1>1 DEF ThreadTypes, WaitersLock
<1>3. DataTypes'
  BY <1>1 DEF DataTypes, WaitersLock
<1>4. FdTypes'
  BY <1>1 DEF FdTypes, WaitersLock
<1>5. LockInv'
  BY <1>1 DEF ThreadTypes, LockInv, Handling, WaitersLock
<1>6. CountInv'
  <2>1. Closing' = Closing /\ device_close' = device_close
    BY <1>1 DEF Closing, ThreadTypes, WaitersLock
  <2> QED
    BY <1>1, <2>1 DEF CountInv
<1>7. PipeInv'
  BY <1>1 DEF ThreadTypes, DataTypes, LockInv, Handling, Pending, PipeInv, WaitersLock
<1>8. FdInv'
  BY <1>1 DEF ThreadTypes, FdTypes, LockInv, Handling, FdInv, WaitersLock
<1>9. WaiterInv'
  BY <1>1 DEF ThreadTypes, LockInv, Handling, WaiterInv, WaitersLock
<1> QED
  BY <1>2, <1>3, <1>4, <1>5, <1>6, <1>7, <1>8, <1>9 DEF EventsInv

\* WaitersCheck keeps the invariant.
LEMMA WaitersCheckStep ==
    ASSUME EventsInv, NEW t \in Users, WaitersCheck(t)
    PROVE  EventsInv'
<1> USE EventsAssumption DEF Goto, locks, data, fds, rest, Labels, Threads, Users
<1>1. /\ ThreadTypes /\ DataTypes /\ FdTypes /\ LockInv /\ CountInv /\ PipeInv /\ FdInv
      /\ WaiterInv
  BY DEF EventsInv
<1>2. ThreadTypes'
  BY <1>1 DEF ThreadTypes, WaitersCheck
<1>3. DataTypes'
  BY <1>1 DEF DataTypes, WaitersCheck
<1>4. FdTypes'
  BY <1>1 DEF FdTypes, WaitersCheck
<1>5. LockInv'
  BY <1>1 DEF ThreadTypes, LockInv, Handling, WaitersCheck
<1>6. CountInv'
  <2>1. Closing' = Closing /\ device_close' = device_close
    BY <1>1 DEF Closing, ThreadTypes, WaitersCheck
  <2> QED
    BY <1>1, <2>1 DEF CountInv
<1>7. PipeInv'
  BY <1>1 DEF ThreadTypes, DataTypes, LockInv, Handling, Pending, PipeInv, WaitersCheck
<1>8. FdInv'
  BY <1>1 DEF ThreadTypes, FdTypes, LockInv, Handling, FdInv, WaitersCheck
<1>9. WaiterInv'
  <2>1. events_lock # None \/ \E u \in Threads : pc[u] \in {"bcast", "closing"} \/ pc'[t] # "wait"
    BY <1>1, CloseCount DEF ThreadTypes, LockInv, Handling, WaitersCheck
  <2> QED
    BY <1>1, <2>1 DEF ThreadTypes, LockInv, Handling, WaiterInv, WaitersCheck
<1> QED
  BY <1>2, <1>3, <1>4, <1>5, <1>6, <1>7, <1>8, <1>9 DEF EventsInv

\* WaitTimeout keeps the invariant.
LEMMA WaitTimeoutStep ==
    ASSUME EventsInv, NEW t \in Users, WaitTimeout(t)
    PROVE  EventsInv'
<1> USE EventsAssumption DEF Goto, locks, data, fds, rest, Labels, Threads, Users
<1>1. /\ ThreadTypes /\ DataTypes /\ FdTypes /\ LockInv /\ CountInv /\ PipeInv /\ FdInv
      /\ WaiterInv
  BY DEF EventsInv
<1>2. ThreadTypes'
  BY <1>1 DEF ThreadTypes, WaitTimeout
<1>3. DataTypes'
  BY <1>1 DEF DataTypes, WaitTimeout
<1>4. FdTypes'
  BY <1>1 DEF FdTypes, WaitTimeout
<1>5. LockInv'
  BY <1>1 DEF ThreadTypes, LockInv, Handling, WaitTimeout
<1>6. CountInv'
  <2>1. Closing' = Closing /\ device_close' = device_close
    BY <1>1 DEF Closing, ThreadTypes, WaitTimeout
  <2> QED
    BY <1>1, <2>1 DEF CountInv
<1>7. PipeInv'
  BY <1>1 DEF ThreadTypes, DataTypes, LockInv, Handling, Pending, PipeInv, WaitTimeout
<1>8. FdInv'
  BY <1>1 DEF ThreadTypes, FdTypes, LockInv, Handling, FdInv, WaitTimeout
<1>9. WaiterInv'
  BY <1>1 DEF ThreadTypes, LockInv, Handling, WaiterInv, WaitTimeout
<1> QED
  BY <1>2, <1>3, <1>4, <1>5, <1>6, <1>7, <1>8, <1>9 DEF EventsInv

\* Woken keeps the invariant.
LEMMA WokenStep ==
    ASSUME EventsInv, NEW t \in Users, Woken(t)
    PROVE  EventsInv'
<1> USE EventsAssumption DEF Goto, locks, data, fds, rest, Labels, Threads, Users
<1>1. /\ ThreadTypes /\ DataTypes /\ FdTypes /\ LockInv /\ CountInv /\ PipeInv /\ FdInv
      /\ WaiterInv
  BY DEF EventsInv
<1>2. ThreadTypes'
  BY <1>1 DEF ThreadTypes, Woken
<1>3. DataTypes'
  BY <1>1 DEF DataTypes, Woken
<1>4. FdTypes'
  BY <1>1 DEF FdTypes, Woken
<1>5. LockInv'
  BY <1>1 DEF ThreadTypes, LockInv, Handling, Woken
<1>6. CountInv'
  <2>1. Closing' = Closing /\ device_close' = device_close
    BY <1>1 DEF Closing, ThreadTypes, Woken
  <2> QED
    BY <1>1, <2>1 DEF CountInv
<1>7. PipeInv'
  BY <1>1 DEF ThreadTypes, DataTypes, LockInv, Handling, Pending, PipeInv, Woken
<1>8. FdInv'
  BY <1>1 DEF ThreadTypes, FdTypes, LockInv, Handling, FdInv, Woken
<1>9. WaiterInv'
  BY <1>1 DEF ThreadTypes, LockInv, Handling, WaiterInv, Woken
<1> QED
  BY <1>2, <1>3, <1>4, <1>5, <1>6, <1>7, <1>8, <1>9 DEF EventsInv

\* Rebuild keeps the invariant.
LEMMA RebuildStep ==
    ASSUME EventsInv, NEW t \in Users, Rebuild(t)
    PROVE  EventsInv'
<1> USE EventsAssumption DEF Goto, locks, data, fds, rest, Labels, Threads, Users
<1>1. /\ ThreadTypes /\ DataTypes /\ FdTypes /\ LockInv /\ CountInv /\ PipeInv /\ FdInv
      /\ WaiterInv
  BY DEF EventsInv
<1>2. ThreadTypes'
  BY <1>1 DEF ThreadTypes, Rebuild, ClearIfNone
<1>3. DataTypes'
  <2>1. pipe' \in Int
    BY <1>1 DEF DataTypes, Rebuild, ClearIfNone
  <2> QED
    BY <1>1, <2>1 DEF DataTypes, Rebuild
<1>4. FdTypes'
  BY <1>1 DEF FdTypes, Rebuild, ClearIfNone
<1>5. LockInv'
  BY <1>1 DEF ThreadTypes, LockInv, Handling, Rebuild, ClearIfNone
<1>6. CountInv'
  <2>1. Closing' = Closing /\ device_close' = device_close
    BY <1>1 DEF Closing, ThreadTypes, Rebuild, ClearIfNone
  <2> QED
    BY <1>1, <2>1 DEF CountInv
<1>7. PipeInv'
  BY <1>1 DEF ThreadTypes, DataTypes, LockInv, Handling, Pending, PipeInv, Rebuild, ClearIfNone
<1>8. FdInv'
  BY <1>1 DEF ThreadTypes, FdTypes, LockInv, Handling, FdInv, Rebuild, ClearIfNone
<1>9. WaiterInv'
  BY <1>1 DEF ThreadTypes, LockInv, Handling, WaiterInv, Rebuild, ClearIfNone
<1> QED
  BY <1>2, <1>3, <1>4, <1>5, <1>6, <1>7, <1>8, <1>9 DEF EventsInv

\* RebuildFails keeps the invariant.
LEMMA RebuildFailsStep ==
    ASSUME EventsInv, NEW t \in Users, RebuildFails(t)
    PROVE  EventsInv'
<1> USE EventsAssumption DEF Goto, locks, data, fds, rest, Labels, Threads, Users
<1>1. /\ ThreadTypes /\ DataTypes /\ FdTypes /\ LockInv /\ CountInv /\ PipeInv /\ FdInv
      /\ WaiterInv
  BY DEF EventsInv
<1>2. ThreadTypes'
  BY <1>1 DEF ThreadTypes, RebuildFails, AfterEvents
<1>3. DataTypes'
  BY <1>1 DEF DataTypes, RebuildFails, AfterEvents
<1>4. FdTypes'
  BY <1>1 DEF FdTypes, RebuildFails, AfterEvents
<1>5. LockInv'
  BY <1>1 DEF ThreadTypes, LockInv, Handling, RebuildFails, AfterEvents
<1>6. CountInv'
  <2>1. Closing' = Closing /\ device_close' = device_close
    BY <1>1 DEF Closing, ThreadTypes, RebuildFails, AfterEvents
  <2> QED
    BY <1>1, <2>1 DEF CountInv
<1>7. PipeInv'
  BY <1>1 DEF ThreadTypes, DataTypes, LockInv, Handling, Pending, PipeInv, RebuildFails, AfterEvents
<1>8. FdInv'
  BY <1>1 DEF ThreadTypes, FdTypes, LockInv, Handling, FdInv, RebuildFails, AfterEvents
<1>9. WaiterInv'
  BY <1>1 DEF ThreadTypes, LockInv, Handling, WaiterInv, RebuildFails, AfterEvents
<1> QED
  BY <1>2, <1>3, <1>4, <1>5, <1>6, <1>7, <1>8, <1>9 DEF EventsInv

\* Poll keeps the invariant.
LEMMA PollStep ==
    ASSUME EventsInv, NEW t \in Users, Poll(t)
    PROVE  EventsInv'
<1> USE EventsAssumption DEF Goto, locks, data, fds, rest, Labels, Threads, Users
<1>1. /\ ThreadTypes /\ DataTypes /\ FdTypes /\ LockInv /\ CountInv /\ PipeInv /\ FdInv
      /\ WaiterInv
  BY DEF EventsInv
<1>2. ThreadTypes'
  BY <1>1 DEF ThreadTypes, Poll, Ready
<1>3. DataTypes'
  BY <1>1 DEF DataTypes, Poll, Ready
<1>4. FdTypes'
  BY <1>1 DEF FdTypes, Poll, Ready
<1>5. LockInv'
  BY <1>1 DEF ThreadTypes, LockInv, Handling, Poll, Ready
<1>6. CountInv'
  <2>1. Closing' = Closing /\ device_close' = device_close
    BY <1>1 DEF Closing, ThreadTypes, Poll, Ready
  <2> QED
    BY <1>1, <2>1 DEF CountInv
<1>7. PipeInv'
  BY <1>1 DEF ThreadTypes, DataTypes, LockInv, Handling, Pending, PipeInv, Poll, Ready
<1>8. FdInv'
  BY <1>1 DEF ThreadTypes, FdTypes, LockInv, Handling, FdInv, Poll, Ready
<1>9. WaiterInv'
  BY <1>1 DEF ThreadTypes, LockInv, Handling, WaiterInv, Poll, Ready
<1> QED
  BY <1>2, <1>3, <1>4, <1>5, <1>6, <1>7, <1>8, <1>9 DEF EventsInv

\* PollNothing keeps the invariant.
LEMMA PollNothingStep ==
    ASSUME EventsInv, NEW t \in Users, PollNothing(t)
    PROVE  EventsInv'
<1> USE EventsAssumption DEF Goto, locks, data, fds, rest, Labels, Threads, Users
<1>1. /\ ThreadTypes /\ DataTypes /\ FdTypes /\ LockInv /\ CountInv /\ PipeInv /\ FdInv
      /\ WaiterInv
  BY DEF EventsInv
<1>2. ThreadTypes'
  BY <1>1 DEF ThreadTypes, PollNothing, AfterEvents
<1>3. DataTypes'
  BY <1>1 DEF DataTypes, PollNothing, AfterEvents
<1>4. FdTypes'
  BY <1>1 DEF FdTypes, PollNothing, AfterEvents
<1>5. LockInv'
  BY <1>1 DEF ThreadTypes, LockInv, Handling, PollNothing, AfterEvents
<1>6. CountInv'
  <2>1. Closing' = Closing /\ device_close' = device_close
    BY <1>1 DEF Closing, ThreadTypes, PollNothing, AfterEvents
  <2> QED
    BY <1>1, <2>1 DEF CountInv
<1>7. PipeInv'
  BY <1>1 DEF ThreadTypes, DataTypes, LockInv, Handling, Pending, PipeInv, PollNothing, AfterEvents
<1>8. FdInv'
  BY <1>1 DEF ThreadTypes, FdTypes, LockInv, Handling, FdInv, PollNothing, AfterEvents
<1>9. WaiterInv'
  BY <1>1 DEF ThreadTypes, LockInv, Handling, WaiterInv, PollNothing, AfterEvents
<1> QED
  BY <1>2, <1>3, <1>4, <1>5, <1>6, <1>7, <1>8, <1>9 DEF EventsInv

\* Fish keeps the invariant.
LEMMA FishStep ==
    ASSUME EventsInv, NEW t \in Users, Fish(t)
    PROVE  EventsInv'
<1> USE EventsAssumption DEF Goto, locks, data, fds, rest, Labels, Threads, Users
<1>1. /\ ThreadTypes /\ DataTypes /\ FdTypes /\ LockInv /\ CountInv /\ PipeInv /\ FdInv
      /\ WaiterInv
  BY DEF EventsInv
<1>2. ThreadTypes'
  BY <1>1 DEF ThreadTypes, Fish, NextCompleted, LeavePipe, ClearIfNone, AfterEvents
<1>3. DataTypes'
  <2>1. completed_transfers' \in Seq(Users)
    <3>1. \/ UNCHANGED completed_transfers
          \/ completed_transfers # <<>> /\ completed_transfers' = Tail(completed_transfers)
      BY DEF Fish, NextCompleted
    <3> QED
      BY <1>1, <3>1 DEF DataTypes
  <2>2. hotplug_msgs' \in 0..notes
    BY <1>1 DEF DataTypes, Fish
  <2>3. pipe' \in Int
    BY <1>1 DEF DataTypes, Fish, NextCompleted, LeavePipe, ClearIfNone
  <2> QED
    BY <1>1, <2>1, <2>2, <2>3 DEF DataTypes, Fish
<1>4. FdTypes'
  <2>1. completed_transfers # <<>> => Head(completed_transfers) \in Users
    BY <1>1 DEF DataTypes
  <2>2. poll.special \in BOOLEAN /\ (hotplug_msgs > 0) \in BOOLEAN
    BY <1>1 DEF FdTypes
  <2>3. UNCHANGED fds
    BY DEF Fish
  <2>4. \/ /\ ~ FALSE /\ completed_transfers # <<>>
           /\ poll' = [poll EXCEPT !.cur = Head(completed_transfers), !.special = hotplug_msgs > 0]
        \/ poll' = [poll EXCEPT !.cur = None, !.special = hotplug_msgs > 0]
    BY DEF Fish, NextCompleted
  <2> QED
    BY <1>1, <2>1, <2>2, <2>3, <2>4 DEF FdTypes
<1>5. LockInv'
  BY <1>1 DEF ThreadTypes, LockInv, Handling, Fish, NextCompleted, LeavePipe, ClearIfNone, AfterEvents
<1>6. CountInv'
  <2>1. Closing' = Closing /\ device_close' = device_close
    BY <1>1 DEF Closing, ThreadTypes, Fish, NextCompleted, LeavePipe, ClearIfNone, AfterEvents
  <2> QED
    BY <1>1, <2>1 DEF CountInv
<1>7. PipeInv'
  BY <1>1 DEF ThreadTypes, DataTypes, LockInv, Handling, Pending, PipeInv, Fish, NextCompleted, LeavePipe, ClearIfNone, AfterEvents
<1>8. FdInv'
  <2>1. pollfds \ (open \cup {"pipe"}) \subseteq CallbackCloses[path] /\ UNCHANGED <<fds, path, modified>>
    BY <1>1 DEF ThreadTypes, LockInv, Handling, FdInv, Fish
  <2>2. \A u \in Threads : u # t => pc[u] \notin Handling /\ pc'[u] = pc[u]
    BY <1>1 DEF ThreadTypes, LockInv, Handling, Fish, NextCompleted, LeavePipe
  <2>3. \/ /\ completed_transfers # <<>> /\ pc'[t] = "cb" /\ poll'.cur = Head(completed_transfers)
        \/ pc'[t] \in {"app", "unlock", "handled", "backend"}
    <3>1. CASE ~ FALSE /\ completed_transfers # <<>>
      <4>1. pc'[t] = "cb"
        BY <1>1, <3>1 DEF ThreadTypes, Fish, NextCompleted
      <4>2. poll' = [poll EXCEPT !.cur = Head(completed_transfers), !.special = hotplug_msgs > 0]
        BY <3>1 DEF Fish, NextCompleted
      <4>3. poll'.cur = Head(completed_transfers)
        BY <1>1, <4>2 DEF FdTypes
      <4> QED
        BY <3>1, <4>1, <4>3
    <3>2. CASE ~(~ FALSE /\ completed_transfers # <<>>)
      <4>1. LeavePipe(t, FALSE)
        BY <3>2 DEF Fish, NextCompleted
      <4> QED
        BY <1>1, <4>1 DEF ThreadTypes, LeavePipe, AfterEvents
    <3> QED
      BY <3>1, <3>2
  <2>4. completed_transfers # <<>> => Head(completed_transfers) \in Users
    BY <1>1 DEF DataTypes
  <2> QED
    BY <1>1, <2>1, <2>2, <2>3, <2>4 DEF FdInv, Handling
<1>9. WaiterInv'
  BY <1>1 DEF ThreadTypes, LockInv, Handling, WaiterInv, Fish, NextCompleted, LeavePipe, ClearIfNone, AfterEvents
<1> QED
  BY <1>2, <1>3, <1>4, <1>5, <1>6, <1>7, <1>8, <1>9 DEF EventsInv

\* Complete keeps the invariant.
LEMMA CompleteStep ==
    ASSUME EventsInv, NEW t \in Users, Complete(t)
    PROVE  EventsInv'
<1> USE EventsAssumption DEF Goto, locks, data, fds, rest, Labels, Threads, Users
<1>1. /\ ThreadTypes /\ DataTypes /\ FdTypes /\ LockInv /\ CountInv /\ PipeInv /\ FdInv
      /\ WaiterInv
  BY DEF EventsInv
<1>2. ThreadTypes'
  BY <1>1 DEF ThreadTypes, Complete, Callback, AfterCallback
<1>3. DataTypes'
  BY <1>1 DEF DataTypes, Complete, Callback, AfterCallback
<1>4. FdTypes'
  BY <1>1 DEF FdTypes, Complete, Callback, AfterCallback
<1>5. LockInv'
  BY <1>1 DEF ThreadTypes, LockInv, Handling, Complete, Callback, AfterCallback
<1>6. CountInv'
  <2>1. Closing' = Closing /\ device_close' = device_close
    BY <1>1 DEF Closing, ThreadTypes, Complete, Callback, AfterCallback
  <2> QED
    BY <1>1, <2>1 DEF CountInv
<1>7. PipeInv'
  BY <1>1 DEF ThreadTypes, DataTypes, LockInv, Handling, Pending, PipeInv, Complete, Callback, AfterCallback
<1>8. FdInv'
  BY <1>1 DEF ThreadTypes, FdTypes, LockInv, Handling, FdInv, Complete, Callback, AfterCallback
<1>9. WaiterInv'
  BY <1>1 DEF ThreadTypes, LockInv, Handling, WaiterInv, Complete, Callback, AfterCallback
<1> QED
  BY <1>2, <1>3, <1>4, <1>5, <1>6, <1>7, <1>8, <1>9 DEF EventsInv

\* Relock keeps the invariant.
LEMMA RelockStep ==
    ASSUME EventsInv, NEW t \in Users, Relock(t)
    PROVE  EventsInv'
<1> USE EventsAssumption DEF Goto, locks, data, fds, rest, Labels, Threads, Users
<1>1. /\ ThreadTypes /\ DataTypes /\ FdTypes /\ LockInv /\ CountInv /\ PipeInv /\ FdInv
      /\ WaiterInv
  BY DEF EventsInv
<1>2. ThreadTypes'
  BY <1>1 DEF ThreadTypes, Relock, NextCompleted, LeavePipe, ClearIfNone, AfterEvents
<1>3. DataTypes'
  <2>1. completed_transfers' \in Seq(Users)
    <3>1. \/ UNCHANGED completed_transfers
          \/ completed_transfers # <<>> /\ completed_transfers' = Tail(completed_transfers)
      BY DEF Relock, NextCompleted
    <3> QED
      BY <1>1, <3>1 DEF DataTypes
  <2>2. hotplug_msgs' \in 0..notes
    BY <1>1 DEF DataTypes, Relock
  <2>3. pipe' \in Int
    BY <1>1 DEF DataTypes, Relock, NextCompleted, LeavePipe, ClearIfNone
  <2> QED
    BY <1>1, <2>1, <2>2, <2>3 DEF DataTypes, Relock
<1>4. FdTypes'
  <2>1. completed_transfers # <<>> => Head(completed_transfers) \in Users
    BY <1>1 DEF DataTypes
  <2>2. poll.special \in BOOLEAN /\ (hotplug_msgs > 0) \in BOOLEAN
    BY <1>1 DEF FdTypes
  <2>3. UNCHANGED fds
    BY DEF Relock
  <2>4. \/ /\ ~ poll.failed /\ completed_transfers # <<>>
           /\ poll' = [poll EXCEPT !.cur = Head(completed_transfers), !.special = poll.special]
        \/ poll' = [poll EXCEPT !.cur = None, !.special = poll.special]
    BY DEF Relock, NextCompleted
  <2> QED
    BY <1>1, <2>1, <2>2, <2>3, <2>4 DEF FdTypes
<1>5. LockInv'
  BY <1>1 DEF ThreadTypes, LockInv, Handling, Relock, NextCompleted, LeavePipe, ClearIfNone, AfterEvents
<1>6. CountInv'
  <2>1. Closing' = Closing /\ device_close' = device_close
    BY <1>1 DEF Closing, ThreadTypes, Relock, NextCompleted, LeavePipe, ClearIfNone, AfterEvents
  <2> QED
    BY <1>1, <2>1 DEF CountInv
<1>7. PipeInv'
  BY <1>1 DEF ThreadTypes, DataTypes, LockInv, Handling, Pending, PipeInv, Relock, NextCompleted, LeavePipe, ClearIfNone, AfterEvents
<1>8. FdInv'
  <2>1. pollfds \ (open \cup {"pipe"}) \subseteq CallbackCloses[path] /\ UNCHANGED <<fds, path, modified>>
    BY <1>1 DEF ThreadTypes, LockInv, Handling, FdInv, Relock
  <2>2. \A u \in Threads : u # t => pc[u] \notin Handling /\ pc'[u] = pc[u]
    BY <1>1 DEF ThreadTypes, LockInv, Handling, Relock, NextCompleted, LeavePipe
  <2>3. \/ /\ completed_transfers # <<>> /\ pc'[t] = "cb" /\ poll'.cur = Head(completed_transfers)
        \/ pc'[t] \in {"app", "unlock", "handled", "backend"}
    <3>1. CASE ~ poll.failed /\ completed_transfers # <<>>
      <4>1. pc'[t] = "cb"
        BY <1>1, <3>1 DEF ThreadTypes, Relock, NextCompleted
      <4>2. poll' = [poll EXCEPT !.cur = Head(completed_transfers), !.special = poll.special]
        BY <3>1 DEF Relock, NextCompleted
      <4>3. poll'.cur = Head(completed_transfers)
        BY <1>1, <4>2 DEF FdTypes
      <4> QED
        BY <3>1, <4>1, <4>3
    <3>2. CASE ~(~ poll.failed /\ completed_transfers # <<>>)
      <4>1. LeavePipe(t, poll.failed)
        BY <3>2 DEF Relock, NextCompleted
      <4> QED
        BY <1>1, <4>1 DEF ThreadTypes, LeavePipe, AfterEvents
    <3> QED
      BY <3>1, <3>2
  <2>4. completed_transfers # <<>> => Head(completed_transfers) \in Users
    BY <1>1 DEF DataTypes
  <2> QED
    BY <1>1, <2>1, <2>2, <2>3, <2>4 DEF FdInv, Handling
<1>9. WaiterInv'
  BY <1>1 DEF ThreadTypes, LockInv, Handling, WaiterInv, Relock, NextCompleted, LeavePipe, ClearIfNone, AfterEvents
<1> QED
  BY <1>2, <1>3, <1>4, <1>5, <1>6, <1>7, <1>8, <1>9 DEF EventsInv

\* Backend keeps the invariant.
LEMMA BackendStep ==
    ASSUME EventsInv, NEW t \in Users, Backend(t)
    PROVE  EventsInv'
<1> USE EventsAssumption DEF Goto, locks, data, fds, rest, Labels, Threads, Users
<1>1. /\ ThreadTypes /\ DataTypes /\ FdTypes /\ LockInv /\ CountInv /\ PipeInv /\ FdInv
      /\ WaiterInv
  BY DEF EventsInv
<1>2. ThreadTypes'
  BY <1>1 DEF ThreadTypes, Backend
<1>3. DataTypes'
  BY <1>1 DEF DataTypes, Backend
<1>4. FdTypes'
  BY <1>1 DEF FdTypes, Backend
<1>5. LockInv'
  BY <1>1 DEF ThreadTypes, LockInv, Handling, Backend
<1>6. CountInv'
  <2>1. Closing' = Closing /\ device_close' = device_close
    BY <1>1 DEF Closing, ThreadTypes, Backend
  <2> QED
    BY <1>1, <2>1 DEF CountInv
<1>7. PipeInv'
  BY <1>1 DEF ThreadTypes, DataTypes, LockInv, Handling, Pending, PipeInv, Backend
<1>8. FdInv'
  BY <1>1 DEF ThreadTypes, FdTypes, LockInv, Handling, FdInv, Backend
<1>9. WaiterInv'
  BY <1>1 DEF ThreadTypes, LockInv, Handling, WaiterInv, Backend
<1> QED
  BY <1>2, <1>3, <1>4, <1>5, <1>6, <1>7, <1>8, <1>9 DEF EventsInv

\* Reap keeps the invariant.
LEMMA ReapStep ==
    ASSUME EventsInv, NEW t \in Users, Reap(t)
    PROVE  EventsInv'
<1> USE EventsAssumption DEF Goto, locks, data, fds, rest, Labels, Threads, Users
<1>1. /\ ThreadTypes /\ DataTypes /\ FdTypes /\ LockInv /\ CountInv /\ PipeInv /\ FdInv
      /\ WaiterInv
  BY DEF EventsInv
<1>2. ThreadTypes'
  BY <1>1 DEF ThreadTypes, Reap, Callback, AfterCallback
<1>3. DataTypes'
  BY <1>1 DEF DataTypes, Reap, Callback, AfterCallback
<1>4. FdTypes'
  BY <1>1 DEF FdTypes, Reap, Callback, AfterCallback
<1>5. LockInv'
  BY <1>1 DEF ThreadTypes, LockInv, Handling, Reap, Callback, AfterCallback
<1>6. CountInv'
  <2>1. Closing' = Closing /\ device_close' = device_close
    BY <1>1 DEF Closing, ThreadTypes, Reap, Callback, AfterCallback
  <2> QED
    BY <1>1, <2>1 DEF CountInv
<1>7. PipeInv'
  BY <1>1 DEF ThreadTypes, DataTypes, LockInv, Handling, Pending, PipeInv, Reap, Callback, AfterCallback
<1>8. FdInv'
  BY <1>1 DEF ThreadTypes, FdTypes, LockInv, Handling, FdInv, Reap, Callback, AfterCallback
<1>9. WaiterInv'
  BY <1>1 DEF ThreadTypes, LockInv, Handling, WaiterInv, Reap, Callback, AfterCallback
<1> QED
  BY <1>2, <1>3, <1>4, <1>5, <1>6, <1>7, <1>8, <1>9 DEF EventsInv

\* Handled keeps the invariant.
LEMMA HandledStep ==
    ASSUME EventsInv, NEW t \in Users, Handled(t)
    PROVE  EventsInv'
<1> USE EventsAssumption DEF Goto, locks, data, fds, rest, Labels, Threads, Users
<1>1. /\ ThreadTypes /\ DataTypes /\ FdTypes /\ LockInv /\ CountInv /\ PipeInv /\ FdInv
      /\ WaiterInv
  BY DEF EventsInv
<1>2. ThreadTypes'
  BY <1>1 DEF ThreadTypes, Handled, NoPoll, AfterEvents
<1>3. DataTypes'
  BY <1>1 DEF DataTypes, Handled, NoPoll, AfterEvents
<1>4. FdTypes'
  BY <1>1 DEF FdTypes, Handled, NoPoll, AfterEvents
<1>5. LockInv'
  BY <1>1 DEF ThreadTypes, LockInv, Handling, Handled, NoPoll, AfterEvents
<1>6. CountInv'
  <2>1. Closing' = Closing /\ device_close' = device_close
    BY <1>1 DEF Closing, ThreadTypes, Handled, NoPoll, AfterEvents
  <2> QED
    BY <1>1, <2>1 DEF CountInv
<1>7. PipeInv'
  BY <1>1 DEF ThreadTypes, DataTypes, LockInv, Handling, Pending, PipeInv, Handled, NoPoll, AfterEvents
<1>8. FdInv'
  BY <1>1 DEF ThreadTypes, FdTypes, LockInv, Handling, FdInv, Handled, NoPoll, AfterEvents
<1>9. WaiterInv'
  BY <1>1 DEF ThreadTypes, LockInv, Handling, WaiterInv, Handled, NoPoll, AfterEvents
<1> QED
  BY <1>2, <1>3, <1>4, <1>5, <1>6, <1>7, <1>8, <1>9 DEF EventsInv

\* OpenFd keeps the invariant.
LEMMA OpenFdStep ==
    ASSUME EventsInv, NEW t \in Closers, OpenFd(t)
    PROVE  EventsInv'
<1> USE EventsAssumption DEF Goto, locks, data, fds, rest, Labels, Threads, Users
<1>1. /\ ThreadTypes /\ DataTypes /\ FdTypes /\ LockInv /\ CountInv /\ PipeInv /\ FdInv
      /\ WaiterInv
  BY DEF EventsInv
<1>2. ThreadTypes'
  BY <1>1 DEF ThreadTypes, OpenFd, SignalIfFirst
<1>3. DataTypes'
  BY <1>1 DEF DataTypes, OpenFd, SignalIfFirst
<1>4. FdTypes'
  BY <1>1 DEF FdTypes, OpenFd, SignalIfFirst
<1>5. LockInv'
  BY <1>1 DEF ThreadTypes, LockInv, Handling, OpenFd, SignalIfFirst
<1>6. CountInv'
  <2>1. Closing' = Closing /\ device_close' = device_close
    BY <1>1 DEF Closing, ThreadTypes, OpenFd, SignalIfFirst
  <2> QED
    BY <1>1, <2>1 DEF CountInv
<1>7. PipeInv'
  BY <1>1 DEF ThreadTypes, DataTypes, LockInv, Handling, Pending, PipeInv, OpenFd, SignalIfFirst
<1>8. FdInv'
  BY <1>1 DEF ThreadTypes, FdTypes, LockInv, Handling, FdInv, OpenFd, SignalIfFirst
<1>9. WaiterInv'
  BY <1>1 DEF ThreadTypes, LockInv, Handling, WaiterInv, OpenFd, SignalIfFirst
<1> QED
  BY <1>2, <1>3, <1>4, <1>5, <1>6, <1>7, <1>8, <1>9 DEF EventsInv

\* CloseAnnounce keeps the invariant.
LEMMA CloseAnnounceStep ==
    ASSUME EventsInv, NEW t \in Closers, CloseAnnounce(t)
    PROVE  EventsInv'
<1> USE EventsAssumption DEF Goto, locks, data, fds, rest, Labels, Threads, Users
<1>1. /\ ThreadTypes /\ DataTypes /\ FdTypes /\ LockInv /\ CountInv /\ PipeInv /\ FdInv
      /\ WaiterInv
  BY DEF EventsInv
<1>2. ThreadTypes'
  BY <1>1 DEF ThreadTypes, CloseAnnounce, SignalIfFirst
<1>3. DataTypes'
  BY <1>1 DEF DataTypes, CloseAnnounce, SignalIfFirst
<1>4. FdTypes'
  BY <1>1 DEF FdTypes, CloseAnnounce, SignalIfFirst
<1>5. LockInv'
  BY <1>1 DEF ThreadTypes, LockInv, Handling, CloseAnnounce, SignalIfFirst
<1>6. CountInv'
  <2>1. Closing' = Closing \cup {t} /\ t \notin Closing
    BY <1>1 DEF Closing, ThreadTypes, CloseAnnounce
  <2>2. IsFiniteSet(Closing)
    BY FS_Subset DEF Closing
  <2>3. Cardinality(Closing') = Cardinality(Closing) + 1
    BY <2>1, <2>2, FS_AddElement
  <2> QED
    BY <1>1, <2>3 DEF CountInv, CloseAnnounce
<1>7. PipeInv'
  BY <1>1 DEF ThreadTypes, DataTypes, LockInv, Handling, Pending, PipeInv, CloseAnnounce, SignalIfFirst
<1>8. FdInv'
  BY <1>1 DEF ThreadTypes, FdTypes, LockInv, Handling, FdInv, CloseAnnounce, SignalIfFirst
<1>9. WaiterInv'
  BY <1>1 DEF ThreadTypes, LockInv, Handling, WaiterInv, CloseAnnounce, SignalIfFirst
<1> QED
  BY <1>2, <1>3, <1>4, <1>5, <1>6, <1>7, <1>8, <1>9 DEF EventsInv

\* CloseLock keeps the invariant.
LEMMA CloseLockStep ==
    ASSUME EventsInv, NEW t \in Closers, CloseLock(t)
    PROVE  EventsInv'
<1> USE EventsAssumption DEF Goto, locks, data, fds, rest, Labels, Threads, Users
<1>1. /\ ThreadTypes /\ DataTypes /\ FdTypes /\ LockInv /\ CountInv /\ PipeInv /\ FdInv
      /\ WaiterInv
  BY DEF EventsInv
<1>2. ThreadTypes'
  BY <1>1 DEF ThreadTypes, CloseLock
<1>3. DataTypes'
  BY <1>1 DEF DataTypes, CloseLock
<1>4. FdTypes'
  BY <1>1 DEF FdTypes, CloseLock
<1>5. LockInv'
  BY <1>1 DEF ThreadTypes, LockInv, Handling, CloseLock
<1>6. CountInv'
  <2>1. Closing' = Closing /\ device_close' = device_close
    BY <1>1 DEF Closing, ThreadTypes, CloseLock
  <2> QED
    BY <1>1, <2>1 DEF CountInv
<1>7. PipeInv'
  BY <1>1 DEF ThreadTypes, DataTypes, LockInv, Handling, Pending, PipeInv, CloseLock
<1>8. FdInv'
  BY <1>1 DEF ThreadTypes, FdTypes, LockInv, Handling, FdInv, CloseLock
<1>9. WaiterInv'
  BY <1>1 DEF ThreadTypes, LockInv, Handling, WaiterInv, CloseLock
<1> QED
  BY <1>2, <1>3, <1>4, <1>5, <1>6, <1>7, <1>8, <1>9 DEF EventsInv

\* CloseFd keeps the invariant.
LEMMA CloseFdStep ==
    ASSUME EventsInv, NEW t \in Threads, CloseFd(t)
    PROVE  EventsInv'
<1> USE EventsAssumption DEF Goto, locks, data, fds, rest, Labels, Threads, Users
<1>1. /\ ThreadTypes /\ DataTypes /\ FdTypes /\ LockInv /\ CountInv /\ PipeInv /\ FdInv
      /\ WaiterInv
  BY DEF EventsInv
<1>2. ThreadTypes'
  BY <1>1 DEF ThreadTypes, CloseFd, DoClose, SignalIfFirst
<1>3. DataTypes'
  <2>1. pipe' \in Int
    BY <1>1 DEF DataTypes, CloseFd, DoClose, SignalIfFirst
  <2>2. UNCHANGED <<hotplug_msgs, completed_transfers, interrupt>> /\ modified' = TRUE
    BY DEF CloseFd, DoClose
  <2> QED
    BY <1>1, <2>1, <2>2 DEF DataTypes, CloseFd
<1>4. FdTypes'
  BY <1>1 DEF FdTypes, CloseFd, DoClose, SignalIfFirst
<1>5. LockInv'
  <2>1. CASE UNCHANGED pc
    BY <1>1, <2>1 DEF LockInv, CloseFd
  <2>2. CASE /\ pc[t] = "cbclose" /\ Goto(t, IF path = "signal" THEN "relock" ELSE "reap")
    <3>1. path = "signal" /\ UNCHANGED locks
      BY <1>1, <2>2 DEF PipeInv, CloseFd
    <3> QED
      BY <1>1, <2>2, <3>1 DEF ThreadTypes, LockInv, Handling
  <2> QED
    BY <2>1, <2>2 DEF CloseFd
<1>6. CountInv'
  <2>1. Closing' = Closing /\ device_close' = device_close
    BY <1>1 DEF Closing, ThreadTypes, CloseFd, DoClose, SignalIfFirst
  <2> QED
    BY <1>1, <2>1 DEF CountInv
<1>7. PipeInv'
  BY <1>1 DEF ThreadTypes, DataTypes, LockInv, Handling, Pending, PipeInv, CloseFd, DoClose, SignalIfFirst
<1>8. FdInv'
  BY <1>1 DEF ThreadTypes, FdTypes, LockInv, Handling, FdInv, CloseFd, DoClose, SignalIfFirst
<1>9. WaiterInv'
  BY <1>1 DEF ThreadTypes, LockInv, Handling, WaiterInv, CloseFd, DoClose, SignalIfFirst
<1> QED
  BY <1>2, <1>3, <1>4, <1>5, <1>6, <1>7, <1>8, <1>9 DEF EventsInv

\* CloseDone keeps the invariant.
LEMMA CloseDoneStep ==
    ASSUME EventsInv, NEW t \in Closers, CloseDone(t)
    PROVE  EventsInv'
<1> USE EventsAssumption DEF Goto, locks, data, fds, rest, Labels, Threads, Users
<1>1. /\ ThreadTypes /\ DataTypes /\ FdTypes /\ LockInv /\ CountInv /\ PipeInv /\ FdInv
      /\ WaiterInv
  BY DEF EventsInv
<1>2. ThreadTypes' /\ CountInv' /\ device_close > 0
  <2>1. t \in Closing
    BY <1>1 DEF Closing, CloseDone
  <2>2. IsFiniteSet(Closing)
    BY FS_Subset DEF Closing
  <2>3. Cardinality(Closing \ {t}) = Cardinality(Closing) - 1 /\ Cardinality(Closing \ {t}) \in Nat
    BY <2>1, <2>2, FS_RemoveElement, FS_CardinalityType
  <2>4. Closing' = Closing \ {t}
    BY <1>1 DEF Closing, ThreadTypes, CloseDone
  <2>5. device_close' \in Nat /\ device_close' = Cardinality(Closing') /\ device_close > 0
    BY <1>1, <2>3, <2>4 DEF CountInv, ThreadTypes, CloseDone
  <2> QED
    BY <1>1, <2>5 DEF ThreadTypes, CountInv, CloseDone
<1>3. DataTypes'
  BY <1>1 DEF DataTypes, CloseDone, ClearIfNone
<1>4. FdTypes'
  BY <1>1 DEF FdTypes, CloseDone, ClearIfNone
<1>5. LockInv'
  BY <1>1 DEF ThreadTypes, LockInv, Handling, CloseDone, ClearIfNone
<1>6. CountInv'
  BY <1>2
<1>7. PipeInv'
  <2>1. pipe > 0 /\ pipe \in Int
    BY <1>1, <1>2 DEF PipeInv, Pending, DataTypes
  <2>2. pipe' >= 0 /\ (Pending' => pipe' > 0)
    BY <2>1 DEF CloseDone, ClearIfNone
  <2>3. \A u \in Threads : u # t => pc[u] \notin Handling /\ pc'[u] = pc[u]
    BY <1>1 DEF ThreadTypes, LockInv, Handling, CloseDone
  <2> QED
    BY <1>1, <2>2, <2>3 DEF ThreadTypes, PipeInv, Handling, CloseDone
<1>8. FdInv'
  BY <1>1 DEF ThreadTypes, FdTypes, LockInv, Handling, FdInv, CloseDone, ClearIfNone
<1>9. WaiterInv'
  BY <1>1 DEF ThreadTypes, LockInv, Handling, WaiterInv, CloseDone, ClearIfNone
<1> QED
  BY <1>2, <1>3, <1>4, <1>5, <1>6, <1>7, <1>8, <1>9 DEF EventsInv

\* Finish keeps the invariant.
LEMMA FinishStep ==
    ASSUME EventsInv, NEW t \in Users, Finish(t)
    PROVE  EventsInv'
<1> USE EventsAssumption DEF Goto, locks, data, fds, rest, Labels, Threads, Users
<1>1. /\ ThreadTypes /\ DataTypes /\ FdTypes /\ LockInv /\ CountInv /\ PipeInv /\ FdInv
      /\ WaiterInv
  BY DEF EventsInv
<1>2. ThreadTypes'
  BY <1>1 DEF ThreadTypes, Finish, SignalIfFirst
<1>3. DataTypes'
  <2>1. pipe' \in Int
    BY <1>1 DEF DataTypes, Finish, SignalIfFirst
  <2>2. completed_transfers' \in Seq(Users)
    <3>1. completed_transfers' \in {completed_transfers, Append(completed_transfers, t)}
      BY DEF Finish
    <3>2. Append(completed_transfers, t) \in Seq(Users)
      BY <1>1 DEF DataTypes
    <3> QED
      BY <1>1, <3>1, <3>2 DEF DataTypes
  <2>3. urb' \in [Users -> {"flying", "done", "reaped"}]
    BY <1>1 DEF DataTypes, Finish
  <2> QED
    BY <1>1, <2>1, <2>2, <2>3 DEF DataTypes, Finish
<1>4. FdTypes'
  BY <1>1 DEF FdTypes, Finish, SignalIfFirst
<1>5. LockInv'
  BY <1>1 DEF ThreadTypes, LockInv, Handling, Finish, SignalIfFirst
<1>6. CountInv'
  <2>1. Closing' = Closing /\ device_close' = device_close
    BY <1>1 DEF Closing, ThreadTypes, Finish, SignalIfFirst
  <2> QED
    BY <1>1, <2>1 DEF CountInv
<1>7. PipeInv'
  BY <1>1 DEF ThreadTypes, DataTypes, LockInv, Handling, Pending, PipeInv, Finish, SignalIfFirst
<1>8. FdInv'
  BY <1>1 DEF ThreadTypes, FdTypes, LockInv, Handling, FdInv, Finish, SignalIfFirst
<1>9. WaiterInv'
  BY <1>1 DEF ThreadTypes, LockInv, Handling, WaiterInv, Finish, SignalIfFirst
<1> QED
  BY <1>2, <1>3, <1>4, <1>5, <1>6, <1>7, <1>8, <1>9 DEF EventsInv

\* Interrupt keeps the invariant.
LEMMA InterruptStep ==
    ASSUME EventsInv, Interrupt
    PROVE  EventsInv'
<1> USE EventsAssumption DEF Goto, locks, data, fds, rest, Labels, Threads, Users
<1>1. /\ ThreadTypes /\ DataTypes /\ FdTypes /\ LockInv /\ CountInv /\ PipeInv /\ FdInv
      /\ WaiterInv
  BY DEF EventsInv
<1>2. ThreadTypes'
  BY <1>1 DEF ThreadTypes, Interrupt, SignalIfFirst
<1>3. DataTypes'
  BY <1>1 DEF DataTypes, Interrupt, SignalIfFirst
<1>4. FdTypes'
  BY <1>1 DEF FdTypes, Interrupt, SignalIfFirst
<1>5. LockInv'
  BY <1>1 DEF ThreadTypes, LockInv, Handling, Interrupt, SignalIfFirst
<1>6. CountInv'
  <2>1. Closing' = Closing /\ device_close' = device_close
    BY <1>1 DEF Closing, ThreadTypes, Interrupt, SignalIfFirst
  <2> QED
    BY <1>1, <2>1 DEF CountInv
<1>7. PipeInv'
  BY <1>1 DEF ThreadTypes, DataTypes, LockInv, Handling, Pending, PipeInv, Interrupt, SignalIfFirst
<1>8. FdInv'
  BY <1>1 DEF ThreadTypes, FdTypes, LockInv, Handling, FdInv, Interrupt, SignalIfFirst
<1>9. WaiterInv'
  BY <1>1 DEF ThreadTypes, LockInv, Handling, WaiterInv, Interrupt, SignalIfFirst
<1> QED
  BY <1>2, <1>3, <1>4, <1>5, <1>6, <1>7, <1>8, <1>9 DEF EventsInv

\* HotplugNotification keeps the invariant.
LEMMA HotplugNotificationStep ==
    ASSUME EventsInv, HotplugNotification
    PROVE  EventsInv'
<1> USE EventsAssumption DEF Goto, locks, data, fds, rest, Labels, Threads, Users
<1>1. /\ ThreadTypes /\ DataTypes /\ FdTypes /\ LockInv /\ CountInv /\ PipeInv /\ FdInv
      /\ WaiterInv
  BY DEF EventsInv
<1>2. ThreadTypes'
  BY <1>1 DEF ThreadTypes, HotplugNotification, SignalIfFirst
<1>3. DataTypes'
  BY <1>1 DEF DataTypes, HotplugNotification, SignalIfFirst
<1>4. FdTypes'
  BY <1>1 DEF FdTypes, HotplugNotification, SignalIfFirst
<1>5. LockInv'
  BY <1>1 DEF ThreadTypes, LockInv, Handling, HotplugNotification, SignalIfFirst
<1>6. CountInv'
  <2>1. Closing' = Closing /\ device_close' = device_close
    BY <1>1 DEF Closing, ThreadTypes, HotplugNotification, SignalIfFirst
  <2> QED
    BY <1>1, <2>1 DEF CountInv
<1>7. PipeInv'
  BY <1>1 DEF ThreadTypes, DataTypes, LockInv, Handling, Pending, PipeInv, HotplugNotification, SignalIfFirst
<1>8. FdInv'
  BY <1>1 DEF ThreadTypes, FdTypes, LockInv, Handling, FdInv, HotplugNotification, SignalIfFirst
<1>9. WaiterInv'
  BY <1>1 DEF ThreadTypes, LockInv, Handling, WaiterInv, HotplugNotification, SignalIfFirst
<1> QED
  BY <1>2, <1>3, <1>4, <1>5, <1>6, <1>7, <1>8, <1>9 DEF EventsInv

-----------------------------------------------------------------------------
(* The theorems *)

\* Every step of every thread, of the kernel and of other callers keeps it.
LEMMA EventsInvStep ==
    ASSUME EventsInv, [Next]_vars
    PROVE  EventsInv'
<1>1. CASE UNCHANGED vars
  BY <1>1 DEF vars, locks, data, fds, rest, EventsInv, ThreadTypes, DataTypes, FdTypes, LockInv,
     CountInv, Closing, PipeInv, Pending, FdInv, WaiterInv
<1>2. ASSUME NEW t \in Users, UserStep(t) \/ WaitTimeout(t) \/ PollNothing(t) \/ Finish(t) \/ RebuildFails(t)
      PROVE  EventsInv'
  <2>1. t \in Threads
    BY DEF Threads
  <2> QED
    BY <1>2, <2>1, EnterStep, TryCheckStep, TryLockStep, LockedStep, AppCheckStep, AppPollStep,
       UnlockStep, Unlock2Step, BroadcastStep, WaitersLockStep, WaitersCheckStep, WaitTimeoutStep,
       WokenStep, RebuildStep, RebuildFailsStep, PollStep, PollNothingStep, FishStep, CompleteStep,
       RelockStep, BackendStep, ReapStep, HandledStep, CloseFdStep, FinishStep DEF UserStep
<1>3. ASSUME NEW c \in Closers, OpenFd(c) \/ CloseAnnounce(c) \/ CloserStep(c)
      PROVE  EventsInv'
  <2>1. c \in Threads
    BY DEF Threads
  <2> QED
    BY <1>3, <2>1, OpenFdStep, CloseAnnounceStep, CloseLockStep, CloseFdStep, CloseDoneStep,
       UnlockStep, Unlock2Step, BroadcastStep DEF CloserStep
<1> QED
  BY <1>1, <1>2, <1>3, InterruptStep, HotplugNotificationStep DEF Next

\* It holds after libusb_init() and the users' libusb_open().
LEMMA EventsInvInit ==
    ASSUME Init
    PROVE  EventsInv
<1> USE EventsAssumption DEF Init, Users, Threads
<1>1. ThreadTypes /\ DataTypes /\ FdTypes
  <2>1. ThreadTypes
    BY DEF ThreadTypes, Labels
  <2>2. DataTypes
    <3>1. notes \in 0..MaxNotes /\ hotplug_msgs \in 0..notes /\ pipe \in Int
      OBVIOUS
    <3>2. completed_transfers \in Seq(Users) /\ path \in Paths
      OBVIOUS
    <3>3. urb \in [Users -> {"flying", "done", "reaped"}] /\ completed \in [Users -> BOOLEAN]
      OBVIOUS
    <3> QED
      BY <3>1, <3>2, <3>3 DEF DataTypes
  <2>3. FdTypes
    BY DEF FdTypes, NoPoll
  <2> QED
    BY <2>1, <2>2, <2>3
<1>2. LockInv
  BY DEF LockInv, Handling
<1>3. CountInv
  <2>1. Closing = {}
    BY DEF Closing
  <2> QED
    BY <2>1, FS_EmptySet DEF CountInv
<1>4. PipeInv
  BY DEF PipeInv, Pending
<1>5. FdInv /\ WaiterInv
  BY DEF FdInv, WaiterInv
<1> QED
  BY <1>1, <1>2, <1>3, <1>4, <1>5 DEF EventsInv

\* The invariant of event handling.
LEMMA EventsInvariance == Spec => []EventsInv
BY EventsInvInit, EventsInvStep, PTL DEF Spec

\* A pending event has its byte in the pipe, and so has a poll set that is not
\* the current one; a thread in libusb_wait_for_event() has one that will wake it.
THEOREM SleepersAreWoken == Spec => []SleepersWoken
<1>1. ASSUME EventsInv PROVE SleepersWoken
  <2>1. ThreadTypes /\ DataTypes /\ FdTypes /\ LockInv /\ PipeInv /\ FdInv
    BY <1>1 DEF EventsInv
  <2>2. TypeOK
    <3>1. hotplug_msgs \in 0..MaxNotes
      BY <2>1, EventsAssumption DEF DataTypes
    <3> QED
      BY <1>1, <2>1, <3>1, CloseCount DEF TypeOK, ThreadTypes, DataTypes, FdTypes
  <2>3. PendingIsSignalled
    BY <2>1 DEF PipeInv, PendingIsSignalled
  <2>4. StalePollSetIsWoken
    BY <2>1 DEF PipeInv, FdInv, Pending, StalePollSetIsWoken
  <2>5. WaiterHasWaker
    BY <1>1 DEF EventsInv, WaiterInv, WaiterHasWaker, Threads
  <2> QED
    BY <2>2, <2>3, <2>4, <2>5 DEF SleepersWoken
<1>2. EventsInv => SleepersWoken
  BY <1>1
<1> QED
  BY <1>2, EventsInvariance, PTL

\* No handler sleeps in poll() on a closed descriptor: libusb_close() has the
\* events lock when it closes one, and a callback's close is followed by a poll
\* that does not block.
THEOREM NoSleepOnClosed == Spec => []NoSleepOnClosedFd
<1>1. ASSUME EventsInv PROVE NoSleepOnClosedFd
  BY <1>1 DEF EventsInv, FdInv, NoSleepOnClosedFd, Threads
<1>2. EventsInv => NoSleepOnClosedFd
  BY <1>1
<1> QED
  BY <1>2, EventsInvariance, PTL
=============================================================================
