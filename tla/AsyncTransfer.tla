--------------------------- MODULE AsyncTransfer ---------------------------
(***************************************************************************)
(* What libusb promises about an asynchronous transfer, as a handshake     *)
(* between the user and the library: a submission that succeeds is         *)
(* answered by exactly one call of the callback, one that fails by none,   *)
(* and a transfer is not submitted again before it was answered.           *)
(***************************************************************************)
EXTENDS Integers

CONSTANT Transfers

VARIABLES
  accepts,   \* flips when libusb_submit_transfer() returns 0
  answers,   \* flips when the callback runs
  asked      \* transfers the user asked to cancel

active == {x \in Transfers : accepts[x] # answers[x]}

Init ==
  /\ accepts = [x \in Transfers |-> 0] /\ answers = accepts
  /\ asked = {}

Submit(x) ==
  /\ x \notin active
  /\ accepts' = [accepts EXCEPT ![x] = 1 - @]
  /\ UNCHANGED <<answers, asked>>

Cancel(x) ==
  /\ x \in active \ asked
  /\ asked' = asked \cup {x}
  /\ UNCHANGED <<accepts, answers>>

Callback(x) ==
  /\ x \in active
  /\ answers' = [answers EXCEPT ![x] = 1 - @]
  /\ asked' = asked \ {x}
  /\ UNCHANGED accepts

Next == \E x \in Transfers : Submit(x) \/ Cancel(x) \/ Callback(x)

Spec == Init /\ [][Next]_<<accepts, answers, asked>>
=============================================================================
