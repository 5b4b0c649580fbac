------------------------- MODULE MCLibusbEvents -------------------------
(* Instances of LibusbEvents for TLC. *)
EXTENDS LibusbEvents

CONSTANT l1

\* A callback closes its handle only where no library lock is held around it.
ClosesFromSignal == [p \in Paths |-> IF p = "signal" THEN {l1} ELSE {}]

\* An event that is pending has a byte in the pipe, and so has a poll set that
\* is not the current one, so that no handler sleeps over either; and a thread
\* that waits for an event has one that will wake it.
SleepersWoken ==
  TypeOK /\ PendingIsSignalled /\ StalePollSetIsWoken /\ WaiterHasWaker
=============================================================================
