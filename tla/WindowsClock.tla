---------------------------- MODULE WindowsClock ----------------------------
(***************************************************************************)
(* The monotonic clock of libusb's Windows backends (os/windows_nt_        *)
(* common.c): a thread of its own reads the counter, on one core always.   *)
(* windows_clock_gettime() posts it a request that lies on the caller's    *)
(* stack and waits for the event in it.                                    *)
(*                                                                         *)
(* The clock is made with the first context and destroyed with the last,   *)
(* when no call is under way.                                              *)
(***************************************************************************)
EXTENDS Integers, Sequences, SequencesExt

CONSTANTS
  Callers,   \* threads that ask for the time
  MaxAsks,   \* bound on requests
  MaxClocks  \* bound on clocks made

VARIABLES
  clock,    \* "down", "init", "up", "rough" (no counter: the real time), "exit"
  timer,    \* the thread: "none", "new", "queue" (it can be posted to), "loop",
            \* "ended"; its handle is kept until the clock is down
  ready,    \* the event windows_init_clock() waits for
  msgs,     \* the thread's queue of messages: requests, and 0 to quit
  asks,     \* requests made: by whom, waited for, answered
  broken,   \* an answer, or the thread, was lost to a failing call (history)
  wild,     \* requests written to when their caller had returned
  quit,     \* callers whose wait failed (history)
  clocks

vars == <<clock, timer, ready, msgs, asks, broken, wild, quit, clocks>>

Requests == 1..Len(asks)
Waits(n) == asks[n].waits

TypeOK ==
  /\ clock \in {"down", "init", "up", "rough", "exit"}
  /\ timer \in {"none", "new", "queue", "loop", "ended"}
  /\ ready \in BOOLEAN /\ broken \in BOOLEAN /\ clocks \in 0..MaxClocks
  /\ \A k \in DOMAIN msgs : msgs[k] \in 0..Len(asks)
  /\ wild \subseteq Requests /\ quit \subseteq Requests

Init ==
  /\ clock = "down" /\ timer = "none" /\ ready = FALSE /\ msgs = <<>> /\ asks = <<>>
  /\ broken = FALSE /\ wild = {} /\ quit = {} /\ clocks = 0

\* windows_init_clock(): there is a counter, and the thread is made, or not; or
\* a call on the way fails and the clock stays down.
InitClock ==
  /\ clock = "down" /\ clocks < MaxClocks
  /\ clocks' = clocks + 1
  /\ \/ clock' = "rough" /\ UNCHANGED timer
     \/ clock' = "init" /\ timer' = "new"
     \/ UNCHANGED <<clock, timer>>
  /\ ready' = FALSE /\ msgs' = <<>> /\ broken' = FALSE
  /\ UNCHANGED <<asks, wild, quit>>

\* ... which waits for the thread to become ready.
InitReady ==
  /\ clock = "init" /\ ready
  /\ clock' = "up"
  /\ UNCHANGED <<timer, ready, msgs, asks, broken, wild, quit, clocks>>

\* The wait fails, and windows_common_init() rolls back.
InitWaitFails ==
  /\ clock = "init"
  /\ clock' = "exit"
  /\ UNCHANGED <<timer, ready, msgs, asks, broken, wild, quit, clocks>>

\* windows_clock_gettime_threaded(): the first look at the queue creates it ...
TimerStarts ==
  /\ timer = "new"
  /\ timer' = "queue"
  /\ UNCHANGED <<clock, ready, msgs, asks, broken, wild, quit, clocks>>

\* ... and the init is told, unless that fails, which is only logged.
TimerReady ==
  /\ timer = "queue"
  /\ timer' = "loop"
  /\ ready' \in BOOLEAN
  /\ UNCHANGED <<clock, msgs, asks, broken, wild, quit, clocks>>

\* A message: the time is written to the request and its event set; or the end.
TimerServes ==
  /\ timer = "loop" /\ msgs # <<>>
  /\ msgs' = Tail(msgs)
  /\ LET n == Head(msgs) IN
     IF n = 0 THEN timer' = "ended" /\ UNCHANGED <<asks, broken, wild>>
     ELSE /\ \/ asks' = [asks EXCEPT ![n].answered = TRUE] /\ UNCHANGED broken
             \/ broken' = TRUE /\ UNCHANGED asks
          /\ wild' = IF Waits(n) THEN wild ELSE wild \cup {n}
          /\ UNCHANGED timer
  /\ UNCHANGED <<clock, ready, quit, clocks>>

\* GetMessage() fails, and the thread returns.
TimerFails ==
  /\ timer = "loop"
  /\ timer' = "ended" /\ broken' = TRUE
  /\ UNCHANGED <<clock, ready, msgs, asks, wild, quit, clocks>>

CanPost == timer \in {"queue", "loop"}
Ended(c) == \A n \in Requests : asks[n].by = c => ~Waits(n)

\* windows_clock_gettime(): the request is posted; a call that cannot make the
\* event or post returns at once.
GetTime(c) ==
  /\ clock = "up" /\ CanPost /\ Ended(c) /\ Len(asks) < MaxAsks
  /\ asks' = Append(asks, [by |-> c, waits |-> TRUE, answered |-> FALSE])
  /\ msgs' = Append(msgs, Len(asks) + 1)
  /\ UNCHANGED <<clock, timer, ready, broken, wild, quit, clocks>>

\* It waits again after every timeout, until the event is set.
GetTimeReturns(n) ==
  /\ Waits(n) /\ asks[n].answered
  /\ asks' = [asks EXCEPT ![n].waits = FALSE]
  /\ UNCHANGED <<clock, timer, ready, msgs, broken, wild, quit, clocks>>

\* WAIT_FAILED: it returns, and the request stays posted.
GetTimeFails(n) ==
  /\ Waits(n)
  /\ asks' = [asks EXCEPT ![n].waits = FALSE] /\ quit' = quit \cup {n}
  /\ UNCHANGED <<clock, timer, ready, msgs, broken, wild, clocks>>

\* windows_destroy_clock() with the last context.
DestroyClock ==
  /\ clock \in {"up", "rough"} /\ \A n \in Requests : ~Waits(n)
  /\ clock' = IF clock = "rough" THEN "down" ELSE "exit"
  /\ UNCHANGED <<timer, ready, msgs, asks, broken, wild, quit, clocks>>

\* The message to quit is posted ...
PostExit ==
  /\ clock = "exit" /\ CanPost /\ ~Contains(msgs, 0)
  /\ msgs' = Append(msgs, 0)
  /\ UNCHANGED <<clock, timer, ready, asks, broken, wild, quit, clocks>>

\* ... and the thread has gone; or it could not be told, or waited for, and is
\* terminated.
TimerGone ==
  /\ clock = "exit"
  /\ clock' = "down" /\ timer' = "none" /\ msgs' = <<>>
  /\ UNCHANGED <<ready, asks, broken, wild, quit, clocks>>

Next ==
  \/ InitClock \/ InitReady \/ InitWaitFails
  \/ TimerStarts \/ TimerReady \/ TimerServes \/ TimerFails
  \/ \E c \in Callers : GetTime(c)
  \/ \E n \in Requests : GetTimeReturns(n) \/ GetTimeFails(n)
  \/ DestroyClock \/ PostExit \/ TimerGone

-----------------------------------------------------------------------------
\* A caller that waits for the time will be answered: the thread is there, and the
\* request in its queue or the event set; unless a call of the system's failed.
WaitersServed ==
  \A n \in Requests :
    Waits(n) /\ ~broken => asks[n].answered \/ (timer = "loop" /\ Contains(msgs, n))

\* The thread writes only to requests whose caller still waits, and it is there,
\* with its queue, as soon as the clock is up.
RequestsLive ==
  /\ wild \subseteq quit
  /\ clock = "up" => timer \in {"loop", "ended"}
  /\ clock = "down" => timer = "none"
=============================================================================
