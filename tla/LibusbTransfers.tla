-------------------------- MODULE LibusbTransfers --------------------------
(***************************************************************************)
(* Asynchronous transfers of libusb 1.0.21: libusb/io.c (submission,       *)
(* cancellation, completion, the timeout-sorted list of flying transfers   *)
(* and its timerfd, disconnection) on top of the Linux backend, which cuts *)
(* a transfer into several URBs (libusb/os/linux_usbfs.c).                 *)
(*                                                                         *)
(* A user thread submits and cancels; the event thread, the holder of the  *)
(* events lock, reaps URBs, expires timeouts and handles a disconnection.  *)
(* flying_transfers_lock and each itransfer->lock are modelled: what is    *)
(* done in one holding of a lock is one step, except the loops that submit *)
(* and discard URBs, during which the kernel goes on.                      *)
(***************************************************************************)
EXTENDS Integers, Sequences, FiniteSets, SequencesExt

CONSTANTS
  Transfers,   \* the transfers, all on one device handle
  Shapes,      \* how the user may have filled the transfers in
  Users,       \* threads that submit and cancel
  Handler,     \* the event thread
  MaxTime,     \* bound on the clock
  MaxSubmits,  \* bound on submissions
  None

\* A transfer as libusb_fill_*_transfer() leaves it, with the number of URBs
\* the backend cuts it into; a timeout of 0 is none.
Shape == [type : {"bulk", "interrupt", "control", "iso"}, urbs : Nat \ {0},
          timeout : Nat, shortNotOk : BOOLEAN]

ASSUME TransfersAssumption ==
  /\ \A s \in Shapes : /\ DOMAIN s \subseteq Transfers
                       /\ s \in [DOMAIN s -> Shape]
                       /\ \A x \in DOMAIN s :
                            s[x].type = "control" => s[x].urbs = 1
  /\ Handler \notin Users /\ None \notin Users \cup {Handler}
  /\ IsFiniteSet(Transfers) /\ MaxTime \in Nat /\ MaxSubmits \in Nat

Threads == Users \cup {Handler}

VARIABLES
  x_,        \* usbi_transfer and linux_transfer_priv of each transfer
  flying,    \* ctx->flying_transfers
  timer,     \* the time the timerfd is armed for, 0 when disarmed
  now,       \* the clock
  flock,     \* holder of flying_transfers_lock
  xlock,     \* holder of each itransfer->lock
  th,        \* what each thread is doing
  urb,       \* the kernel's state of each URB
  done,      \* URBs that can be reaped, in order
  plugged,   \* the device is there, gone, or its loss has been handled
  reapcap,   \* USBFS_CAP_REAP_AFTER_DISCONNECT
  accepts,   \* flips when a submission succeeds (history, for AsyncTransfer)
  answers,   \* flips when the callback runs (history)
  asked,     \* transfers the user asked to cancel (history)
  submits    \* submissions so far

kernel == <<urb, done, plugged, reapcap>>
ghost == <<accepts, answers, asked, submits>>
lists == <<flying, timer, now>>
locks == <<flock, xlock>>
vars == <<x_, lists, locks, th, kernel, ghost>>

\* The transfers the user has allocated and filled in.
Filled == DOMAIN x_
Type(x) == x_[x].shape.type
NumUrbs(x) == x_[x].shape.urbs
Timeout(x) == x_[x].shape.timeout
Urbs(x) == 1..NumUrbs(x)
AllUrbs == UNION {{x} \X Urbs(x) : x \in Filled}

Idle == [pc |-> "idle", x |-> None, i |-> 0, lo |-> 0, top |-> 0,
         r |-> "ok", back |-> "idle", clock |-> 0]

NewTransfer(s) ==
  [shape |-> s, flight |-> FALSE, cancelling |-> FALSE, disappeared |-> FALSE,
   handled |-> FALSE, timedout |-> FALSE, deadline |-> 0, urbs |-> FALSE,
   retired |-> 0, action |-> "normal", reap |-> "completed", full |-> TRUE]

Statuses == {"completed", "error", "stall", "overflow", "no_device",
             "timed_out", "cancelled"}
UrbStates == {"none", "pending", "ok", "short", "stall", "err", "overflow",
              "gone", "nodev"}

\* What a transfer keeps, and what a thread keeps of the call it is in.
TransferState ==
  [shape : Shape, flight : BOOLEAN, cancelling : BOOLEAN,
   disappeared : BOOLEAN, handled : BOOLEAN, timedout : BOOLEAN,
   deadline : 0..MaxTime, urbs : BOOLEAN, retired : Nat,
   action : {"normal", "submit_failed", "cancelled", "completed_early", "error"},
   reap : Statuses \ {"timed_out", "cancelled"}, full : BOOLEAN]

UserPcs == {"idle", "urb", "inflight", "discard", "remove", "cancelled",
            "timeouts", "expired", "mark"}
HandlerPcs == {"idle", "discard", "reaped", "timeouts", "expired", "mark",
               "cancellation", "completion", "land", "callback", "disconnect"}
Call == [pc : UserPcs \cup HandlerPcs, x : Transfers \cup {None}, i : Nat,
         lo : Nat, top : Nat, r : Statuses \cup {"ok", "not_found"},
         back : UserPcs \cup HandlerPcs, clock : Nat]

TransfersOK == Filled \subseteq Transfers /\ x_ \in [Filled -> TransferState]

ListOK ==
  /\ flying \in Seq(Filled) /\ IsInjective(flying)
  /\ timer \in Nat /\ now \in 0..MaxTime

LocksOK ==
  flock \in Threads \cup {None} /\ xlock \in [Transfers -> Threads \cup {None}]

CallsOK ==
  /\ th \in [Threads -> Call] /\ th[Handler].pc \in HandlerPcs
  /\ \A t \in Users : th[t].pc \in UserPcs

UrbsOK ==
  /\ DOMAIN urb = Filled /\ \A x \in Filled : urb[x] \in [Urbs(x) -> UrbStates]
  /\ done \in Seq(AllUrbs)
  /\ plugged \in {"yes", "gone", "handled"} /\ reapcap \in BOOLEAN

HistoryOK ==
  /\ accepts \in [Transfers -> {0, 1}] /\ answers \in [Transfers -> {0, 1}]
  /\ asked \subseteq Transfers /\ submits \in 0..MaxSubmits

TypeOK ==
  TransfersOK /\ ListOK /\ LocksOK /\ CallsOK /\ UrbsOK /\ HistoryOK

Init ==
  /\ \E s \in Shapes :
       /\ x_ = [x \in DOMAIN s |-> NewTransfer(s[x])]
       /\ urb = [x \in DOMAIN s |-> [i \in 1..s[x].urbs |-> "none"]]
  /\ flying = <<>> /\ timer = 0 /\ now = 0
  /\ flock = None /\ xlock = [x \in Transfers |-> None]
  /\ th = [t \in Threads |-> Idle]
  /\ done = <<>> /\ plugged = "yes" /\ reapcap = FALSE
  /\ accepts = [x \in Transfers |-> 0] /\ answers = accepts
  /\ asked = {} /\ submits = 0

\* The transfer whose callback is about to run.
CallbackDue == {x \in Filled : th[Handler].pc = "callback" /\ th[Handler].x = x}

Frame(t, f) == th' = [th EXCEPT ![t] = f]

-----------------------------------------------------------------------------
(* The list of flying transfers and its timer *)

\* arm_timerfd_for_next_timeout(): the first transfer that is not yet handled,
\* unless it has no timeout.
FirstUnhandled(list, X) ==
  {k \in 1..Len(list) : /\ ~X[list[k]].handled
                        /\ \A j \in 1..(k - 1) : X[list[j]].handled}

NextTimeout(list, X) ==
  IF \E k \in FirstUnhandled(list, X) : X[list[k]].deadline # 0
  THEN X[list[CHOOSE k \in FirstUnhandled(list, X) : TRUE]].deadline
  ELSE 0

\* add_to_flying_list(): before the first transfer that expires later, at the
\* end if there is none or if the transfer has no timeout.
ExpiresLater(y, d) == x_[y].deadline = 0 \/ x_[y].deadline > d

Position(d) ==
  {k \in 1..(Len(flying) + 1) :
     /\ \A j \in 1..(k - 1) : d = 0 \/ ~ExpiresLater(flying[j], d)
     /\ k <= Len(flying) => d # 0 /\ ExpiresLater(flying[k], d)}

\* Mutant: only the first transfer of an empty list arms the timer.
TimerAfterAddMutant(d, k) == IF d # 0 /\ flying = <<>> THEN d ELSE timer

\* The timer is armed for a transfer that became the first of the list.
TimerAfterAdd(d, k) == IF d # 0 /\ k = 1 THEN d ELSE timer

\* remove_from_flying_list(): rearm when the transfer with a timeout was first.
RemoveFlying(x) ==
  \E k \in 1..Len(flying) :
    /\ flying[k] = x /\ flying' = RemoveAt(flying, k)
    /\ timer' = IF k = 1 /\ x_[x].deadline # 0
                  THEN NextTimeout(flying', x_) ELSE timer
    /\ UNCHANGED now

-----------------------------------------------------------------------------
(* libusb_submit_transfer() *)

\* Mutant: the test is forgotten.
NotBusyMutant(x) == TRUE

\* A transfer in flight is refused with LIBUSB_ERROR_BUSY.
NotBusy(x) == ~x_[x].flight

\* Both locks are taken, the flags cleared, the transfer put on the list and
\* the list unlocked again; or the timer cannot be armed.  The user calls
\* again only when an earlier call on the transfer has returned.
Submit(t, x) ==
  LET d == IF Timeout(x) = 0 THEN 0 ELSE now + Timeout(x)
  IN /\ th[t].pc = "idle" /\ flock = None /\ xlock[x] = None
     /\ NotBusy(x) /\ x \notin CallbackDue
     /\ \A u \in Users : th[u].pc = "remove" => th[u].x # x
     /\ \A i \in Urbs(x) : urb[x][i] = "none"
     /\ submits < MaxSubmits /\ submits' = submits + 1
     /\ now + Timeout(x) <= MaxTime
     /\ x_' = [x_ EXCEPT ![x] = [NewTransfer(x_[x].shape) EXCEPT !.deadline = d]]
     /\ \/ /\ \E k \in Position(d) : /\ flying' = InsertAt(flying, k, x)
                                     /\ timer' = TimerAfterAdd(d, k)
           /\ xlock' = [xlock EXCEPT ![x] = t]
           /\ Frame(t, [Idle EXCEPT !.pc = "urb", !.x = x, !.i = 1])
        \/ Timeout(x) # 0 /\ UNCHANGED <<flying, timer, xlock, th>>
     /\ UNCHANGED <<now, flock, kernel, accepts, answers, asked>>

\* The backend returned 0: the transfer is in flight, its lock is released.
InFlight(t, X) ==
  /\ x_' = [X EXCEPT ![th[t].x].flight = TRUE]
  /\ xlock' = [xlock EXCEPT ![th[t].x] = None]
  /\ accepts' = [accepts EXCEPT ![th[t].x] = 1 - @]
  /\ Frame(t, Idle)

\* submit_bulk_transfer(), submit_iso_transfer(), submit_control_transfer():
\* one SUBMITURB of the loop.  When a later one fails the ones not submitted
\* count as retired and, unless the transfer ended short, the earlier ones
\* are discarded; the submission itself is reported as a success.
SubmitUrbOk(t, x, i) ==
  /\ plugged = "yes"
  /\ urb' = [urb EXCEPT ![x][i] = "pending"]
  /\ IF i = NumUrbs(x)
       THEN InFlight(t, [x_ EXCEPT ![x].urbs = TRUE])
       ELSE /\ x_' = [x_ EXCEPT ![x].urbs = TRUE]
            /\ Frame(t, [th[t] EXCEPT !.i = i + 1])
            /\ UNCHANGED <<xlock, accepts>>

SubmitUrbFirstFails(t, x) ==
  /\ xlock' = [xlock EXCEPT ![x] = None]
  /\ Frame(t, [Idle EXCEPT !.pc = "remove", !.x = x])
  /\ UNCHANGED <<x_, urb, accepts>>

SubmitUrbLaterFails(t, x, i) ==
  LET failed(a) == [x_ EXCEPT ![x].action = a,
                              ![x].retired = @ + NumUrbs(x) - i + 1]
  IN /\ \/ /\ Type(x) # "iso" /\ \E j \in 1..(i - 1) : urb[x][j] = "short"
           /\ InFlight(t, failed("completed_early"))
        \/ /\ x_' = failed("submit_failed")
           /\ Frame(t, [Idle EXCEPT !.pc = "discard", !.x = x, !.lo = 1,
                          !.i = i - 1, !.top = i - 1, !.back = "inflight"])
           /\ UNCHANGED <<xlock, accepts>>
     /\ UNCHANGED urb

SubmitUrb(t) ==
  LET x == th[t].x  i == th[t].i
  IN /\ th[t].pc = "urb"
     /\ \/ SubmitUrbOk(t, x, i)
        \/ i = 1 /\ SubmitUrbFirstFails(t, x)
        \/ i > 1 /\ SubmitUrbLaterFails(t, x, i)
     /\ UNCHANGED <<lists, flock, done, plugged, reapcap, answers, asked, submits>>

SubmitDone(t) ==
  /\ th[t].pc = "inflight"
  /\ InFlight(t, x_)
  /\ UNCHANGED <<lists, flock, kernel, answers, asked, submits>>

\* The first SUBMITURB failed, and with it the submission: with the transfer's
\* lock released, lock the list and leave it.
SubmitRemove(t) ==
  /\ th[t].pc = "remove" /\ flock = None
  /\ RemoveFlying(th[t].x)
  /\ Frame(t, Idle)
  /\ UNCHANGED <<x_, locks, kernel, ghost>>
-----------------------------------------------------------------------------
(* libusb_cancel_transfer() *)

\* discard_urbs(): one DISCARDURB of the loop, from the last URB to the first.
\* A URB no longer pending is ready to be reaped; only when it is the last
\* one does that make the result NOT_FOUND.
Discard(t) ==
  LET x == th[t].x  i == th[t].i
      next == [th[t] EXCEPT !.i = i - 1,
                 !.pc = IF i = th[t].lo THEN th[t].back ELSE "discard"]
  IN /\ th[t].pc = "discard"
     /\ \/ /\ urb[x][i] = "pending"
           /\ urb' = [urb EXCEPT ![x][i] = "gone"]
           /\ done' = Append(done, <<x, i>>)
           /\ Frame(t, next)
        \/ /\ urb[x][i] # "pending"
           /\ Frame(t, [next EXCEPT
                  !.r = CASE plugged # "yes" -> "no_device"
                          [] i = th[t].top -> "not_found"
                          [] OTHER -> @])
           /\ UNCHANGED <<urb, done>>
     /\ UNCHANGED <<x_, lists, locks, plugged, reapcap, ghost>>

\* op_cancel_transfer() starts; without URBs there is nothing to find.
CancelFrame(f, x, after) ==
  [f EXCEPT !.x = x, !.lo = 1, !.i = NumUrbs(x), !.top = NumUrbs(x),
            !.back = after, !.pc = IF x_[x].urbs THEN "discard" ELSE after,
            !.r = IF x_[x].urbs THEN "ok" ELSE "not_found"]

Cancel(t, x) ==
  /\ th[t].pc = "idle" /\ xlock[x] = None
  /\ x_[x].flight /\ ~x_[x].cancelling
  /\ xlock' = [xlock EXCEPT ![x] = t]
  /\ asked' = asked \cup {x}
  /\ Frame(t, CancelFrame(Idle, x, "cancelled"))
  /\ UNCHANGED <<x_, lists, flock, kernel, accepts, answers, submits>>

\* The state after the backend's cancel; a bulk transfer that met a low-level
\* error goes on being torn down for it.
AfterCancel(x, r) ==
  [x_ EXCEPT ![x].cancelling = TRUE,
             ![x].disappeared = @ \/ r = "no_device",
             ![x].action = IF r # "ok" \/ (Type(x) = "bulk" /\ @ = "error")
                             THEN @ ELSE "cancelled"]

\* libusb_cancel_transfer() ends: back to the user, or to the timeouts.
CancelDone(t) ==
  /\ th[t].pc \in {"cancelled", "expired"}
  /\ x_' = AfterCancel(th[t].x, th[t].r)
  /\ xlock' = [xlock EXCEPT ![th[t].x] = None]
  /\ Frame(t, IF th[t].pc = "cancelled" THEN Idle
              ELSE [th[t] EXCEPT !.pc = "mark"])
  /\ UNCHANGED <<lists, flock, kernel, ghost>>

-----------------------------------------------------------------------------
(* Timeouts *)

\* handle_timerfd_trigger() of the event thread, when the timer has expired;
\* handle_timeouts() of any thread whose own wait timed out (a pass that finds
\* nothing to expire changes nothing and is left out).
Trigger(t) ==
  /\ th[t].pc = "idle" /\ flock = None /\ flying # <<>>
  /\ IF t = Handler THEN timer # 0 /\ timer <= now
     ELSE \E x \in ToSet(flying) :
            x_[x].deadline \in 1..now /\ ~x_[x].handled
  /\ flock' = t
  /\ Frame(t, [Idle EXCEPT !.pc = "timeouts", !.clock = now])
  /\ UNCHANGED <<x_, lists, xlock, kernel, ghost>>

\* The rest of the list has nothing to expire.
TimeoutsOver(t, k) ==
  k <= Len(flying) =>
    LET o == x_[flying[k]]
    IN o.deadline = 0 \/ (~o.handled /\ o.deadline > th[t].clock)

\* The end of handle_timeouts_locked(); the event thread rearms the timer.
TimeoutsEnd(t) ==
  /\ th[t].pc = "timeouts" /\ TimeoutsOver(t, th[t].lo + 1)
  /\ timer' = IF t = Handler THEN NextTimeout(flying, x_) ELSE timer
  /\ flock' = None
  /\ Frame(t, Idle)
  /\ UNCHANGED <<x_, flying, now, xlock, kernel, ghost>>

\* Mutant: whether it is in flight is looked at before its lock is taken.
HandleTimeoutMutant(t) ==
  LET k == th[t].lo + 1
      x == flying[k]
      next == [th[t] EXCEPT !.lo = k]
  IN /\ th[t].pc = "timeouts" /\ ~TimeoutsOver(t, k)
     /\ \/ x_[x].handled /\ Frame(t, next) /\ UNCHANGED <<x_, xlock>>
        \/ /\ ~x_[x].handled /\ (x_[x].flight => xlock[x] = None)
           /\ x_' = [x_ EXCEPT ![x].handled = TRUE]
           /\ IF x_[x].flight /\ ~x_[x].cancelling
                THEN /\ xlock' = [xlock EXCEPT ![x] = t]
                     /\ Frame(t, CancelFrame(next, x, "expired"))
                ELSE Frame(t, next) /\ UNCHANGED xlock
     /\ UNCHANGED <<lists, flock, kernel, ghost>>

\* One transfer of the list.  An expired timeout is flagged and cancelled.
HandleTimeout(t) ==
  LET k == th[t].lo + 1
      x == flying[k]
      next == [th[t] EXCEPT !.lo = k]
  IN /\ th[t].pc = "timeouts" /\ ~TimeoutsOver(t, k)
     /\ \/ x_[x].handled /\ Frame(t, next) /\ UNCHANGED <<x_, xlock>>
        \/ /\ ~x_[x].handled /\ xlock[x] = None
           /\ x_' = [x_ EXCEPT ![x].handled = TRUE]
           /\ IF x_[x].flight /\ ~x_[x].cancelling
                THEN /\ xlock' = [xlock EXCEPT ![x] = t]
                     /\ Frame(t, CancelFrame(next, x, "expired"))
                ELSE Frame(t, next) /\ UNCHANGED xlock
     /\ UNCHANGED <<lists, flock, kernel, ghost>>

\* handle_timeout() after its cancel: one that succeeded marks the transfer.
MarkTimedOut(t) ==
  /\ th[t].pc = "mark"
  /\ x_' = [x_ EXCEPT ![th[t].x].timedout = @ \/ th[t].r = "ok"]
  /\ Frame(t, [Idle EXCEPT !.pc = "timeouts", !.clock = th[t].clock,
               !.lo = CHOOSE k \in 1..Len(flying) : flying[k] = th[t].x])
  /\ UNCHANGED <<lists, locks, kernel, ghost>>

-----------------------------------------------------------------------------
(* Reaping: reap_for_handle() and the completion handlers *)

\* handle_bulk_completion(): where the transfer goes with one URB more.
ReapStatus(u, old) ==
  CASE u = "nodev" -> "no_device"
    [] u = "stall" /\ old = "completed" -> "stall"
    [] u = "overflow" /\ old = "completed" -> "overflow"
    [] u = "err" /\ old = "completed" -> "error"
    [] OTHER -> old

\* The transfer after URB i, with the result u, was retired.
BulkRetired(x, i, u) ==
  LET o == x_[x]
      n == [o EXCEPT !.retired = @ + 1, !.full = @ /\ u = "ok"]
      last == n.retired = NumUrbs(x)
  IN IF o.action # "normal"
     THEN [n EXCEPT !.reap = IF last /\ o.action # "completed_early"
                                     /\ @ = "completed"
                               THEN "error" ELSE @]
     ELSE [n EXCEPT !.reap = ReapStatus(u, @),
                    !.action = CASE u = "err" -> "error"
                                 [] u \in {"short", "gone"} /\ i < NumUrbs(x)
                                      -> "completed_early"
                                 [] OTHER -> @]

\* Mutant: the last URB ends the transfer whatever is still out.
BulkOverMutant(x, i, u) == i = NumUrbs(x) \/ x_[x].retired + 1 = NumUrbs(x)

\* Is that the end of the transfer?
BulkOver(x, i, u) ==
  IF x_[x].action # "normal"
  THEN x_[x].retired + 1 = NumUrbs(x)
  ELSE \/ u = "overflow"
       \/ u \in {"ok", "short", "gone"} /\ i = NumUrbs(x)
       \/ u # "ok" /\ x_[x].retired + 1 = NumUrbs(x)

\* Are the URBs after it to be discarded?
BulkDiscards(x, i, u) ==
  x_[x].action = "normal" /\ u # "ok" /\ i < NumUrbs(x)

\* handle_iso_completion(): ends with the last URB; on an abnormal action
\* with the last one retired.
IsoOver(x, i) ==
  IF x_[x].action # "normal" THEN x_[x].retired + 1 = NumUrbs(x)
  ELSE i = NumUrbs(x)

IsoStatus(x, u) ==
  CASE x_[x].action # "normal" -> "error"
    [] u \in {"ok", "gone"} -> "completed"
    [] u = "nodev" -> "no_device"
    [] OTHER -> "error"

\* handle_control_completion()
ControlStatus(u) ==
  CASE u \in {"ok", "short"} -> "completed"
    [] u = "gone" -> "cancelled"
    [] u = "nodev" -> "no_device"
    [] u \in {"stall", "overflow"} -> u
    [] OTHER -> "error"

\* The end: the URBs are freed; a cancelled transfer first finds out whether
\* the cancellation came from its timeout.
Ends(x, s) ==
  Frame(Handler, [Idle EXCEPT !.x = x, !.r = s,
          !.pc = IF x_[x].action = "cancelled" THEN "cancellation"
                                               ELSE "completion"])

Reaped(x, i, u) ==
  CASE Type(x) \in {"bulk", "interrupt"} ->
         LET n == BulkRetired(x, i, u) IN
         IF BulkOver(x, i, u)
         THEN x_' = [x_ EXCEPT ![x] = [n EXCEPT !.urbs = FALSE]] /\ Ends(x, n.reap)
         ELSE /\ x_' = [x_ EXCEPT ![x] = n]
              /\ Frame(Handler,
                   IF BulkDiscards(x, i, u)
                   THEN [Idle EXCEPT !.pc = "discard", !.x = x, !.lo = i + 1,
                           !.i = NumUrbs(x), !.top = NumUrbs(x),
                           !.back = "reaped"]
                   ELSE Idle)
    [] Type(x) = "iso" ->
         LET n == [x_[x] EXCEPT !.retired = @ + 1, !.full = @ /\ u = "ok"] IN
         IF IsoOver(x, i)
         THEN x_' = [x_ EXCEPT ![x] = [n EXCEPT !.urbs = FALSE]]
              /\ Ends(x, IsoStatus(x, u))
         ELSE x_' = [x_ EXCEPT ![x] = n] /\ Frame(Handler, Idle)
    [] OTHER ->
         /\ x_' = [x_ EXCEPT ![x].urbs = FALSE, ![x].full = u = "ok"]
         /\ Ends(x, ControlStatus(u))

\* REAPURBNDELAY returns a URB.  Nothing is modelled of what follows when its
\* transfer has freed it (see UrbsEndBeforeTransfer).
Reap ==
  /\ th[Handler].pc = "idle" /\ done # <<>> /\ plugged # "handled"
  /\ x_[Head(done)[1]].urbs
  /\ plugged = "yes" \/ reapcap
  /\ LET x == Head(done)[1]  i == Head(done)[2] IN
       /\ xlock[x] = None
       /\ done' = Tail(done)
       /\ urb' = [urb EXCEPT ![x][i] = "none"]
       /\ Reaped(x, i, urb[x][i])
       /\ xlock' = IF th'[Handler].pc = "discard"
                     THEN [xlock EXCEPT ![x] = Handler] ELSE xlock
  /\ UNCHANGED <<lists, flock, plugged, reapcap, ghost>>

\* The remaining URBs are discarded: unlock and go on reaping.
ReapedUnlock ==
  /\ th[Handler].pc = "reaped"
  /\ xlock' = [xlock EXCEPT ![th[Handler].x] = None]
  /\ Frame(Handler, Idle)
  /\ UNCHANGED <<x_, lists, flock, kernel, ghost>>

\* usbi_handle_transfer_cancellation()
HandleCancellation ==
  /\ th[Handler].pc = "cancellation" /\ flock = None
  /\ Frame(Handler, [th[Handler] EXCEPT !.pc = "completion",
       !.r = IF x_[th[Handler].x].timedout THEN "timed_out" ELSE "cancelled"])
  /\ UNCHANGED <<x_, lists, locks, kernel, ghost>>

\* usbi_handle_transfer_completion(): leave the list ...
HandleCompletion ==
  /\ th[Handler].pc = "completion" /\ flock = None
  /\ RemoveFlying(th[Handler].x)
  /\ Frame(Handler, [th[Handler] EXCEPT !.pc = "land"])
  /\ UNCHANGED <<x_, locks, kernel, ghost>>

\* ... be no longer in flight ...
Land ==
  LET x == th[Handler].x
  IN /\ th[Handler].pc = "land" /\ xlock[x] = None
     /\ x_' = [x_ EXCEPT ![x].flight = FALSE]
     /\ Frame(Handler, [th[Handler] EXCEPT !.pc = "callback",
          !.r = IF @ = "completed" /\ x_[x].shape.shortNotOk /\ ~x_[x].full
                  THEN "error" ELSE @])
     /\ UNCHANGED <<lists, locks, kernel, ghost>>

\* ... and call the user.  Nobody reads the fields of the transfer before the
\* next submission clears them.  A disconnection goes on with the next one.
Callback ==
  LET x == th[Handler].x
  IN /\ th[Handler].pc = "callback"
     /\ asked' = asked \ {x}
     /\ answers' = [answers EXCEPT ![x] = 1 - @]
     /\ x_' = [x_ EXCEPT ![x] = [NewTransfer(x_[x].shape) EXCEPT
                             !.disappeared = x_[x].disappeared, !.reap = x_[x].reap]]
     /\ Frame(Handler, IF th[Handler].back = "disconnect"
                         THEN [Idle EXCEPT !.pc = "disconnect"] ELSE Idle)
     /\ UNCHANGED <<lists, locks, kernel, accepts, submits>>
-----------------------------------------------------------------------------
(* Disconnection: op_handle_events() on POLLERR, usbi_handle_disconnect() *)

Disconnected ==
  /\ th[Handler].pc = "idle" /\ plugged = "gone"
  /\ reapcap => done = <<>>
  /\ plugged' = "handled"
  /\ Frame(Handler, [Idle EXCEPT !.pc = "disconnect"])
  /\ UNCHANGED <<x_, lists, locks, urb, done, reapcap, ghost>>

\* One pass over the list, under its lock and the lock of each transfer up to
\* the first in flight, which is ended.  A transfer that is being submitted is
\* waited for by way of its lock.
Disconnect ==
  /\ th[Handler].pc = "disconnect" /\ flock = None
  /\ \/ /\ \A j \in 1..Len(flying) :
             ~x_[flying[j]].flight /\ xlock[flying[j]] = None
        /\ Frame(Handler, Idle) /\ UNCHANGED x_
     \/ \E k \in 1..Len(flying) :
          /\ x_[flying[k]].flight /\ \A j \in 1..(k - 1) : ~x_[flying[j]].flight
          /\ \A j \in 1..k : xlock[flying[j]] = None
          /\ x_' = [x_ EXCEPT ![flying[k]].urbs = FALSE]
          /\ Frame(Handler, [Idle EXCEPT !.pc = "completion", !.x = flying[k],
                              !.r = "no_device", !.back = "disconnect"])
  /\ UNCHANGED <<lists, locks, kernel, ghost>>

-----------------------------------------------------------------------------
(* The kernel and the clock *)

\* A URB ends.  URBs of an endpoint end in order; overflow only in the last
\* (linux_usbfs.c:2305); after a short or failed one the kernel may take the
\* rest of the transfer, up to URB m, back (USBFS_URB_BULK_CONTINUATION).
KernelEnds(x, i) ==
  /\ plugged = "yes" /\ urb[x][i] = "pending"
  /\ \A j \in 1..(i - 1) : urb[x][j] # "pending"
  /\ \E u \in {"ok", "short", "stall", "err", "overflow"}, m \in i..NumUrbs(x) :
       /\ u = "overflow" => i = NumUrbs(x)
       /\ m > i =>
            /\ u # "ok" /\ Type(x) # "iso"
            /\ \A j \in (i + 1)..NumUrbs(x) : j <= m <=> urb[x][j] = "pending"
       /\ urb' = [urb EXCEPT ![x] = [j \in Urbs(x) |->
                    IF j = i THEN u ELSE IF j \in i..m THEN "gone" ELSE @[j]]]
       /\ done' = done \o [k \in 1..(m - i + 1) |-> <<x, i + k - 1>>]
  /\ UNCHANGED <<x_, lists, locks, th, plugged, reapcap, ghost>>

\* The device goes: what is pending ends with ENODEV, in any order of the
\* transfers.  The capability was read when the device was opened; only now
\* does it matter.
PendingUrbs == {u \in AllUrbs : urb[u[1]][u[2]] = "pending"}

Unplug ==
  /\ plugged = "yes" /\ plugged' = "gone" /\ reapcap' \in BOOLEAN
  /\ urb' = [x \in Filled |-> [i \in Urbs(x) |->
               IF urb[x][i] = "pending" THEN "nodev" ELSE urb[x][i]]]
  /\ \E s \in [1..Cardinality(PendingUrbs) -> PendingUrbs] :
       /\ \A j, k \in DOMAIN s :
            j < k => s[j] # s[k] /\ (s[j][1] = s[k][1] => s[j][2] < s[k][2])
       /\ done' = done \o s
  /\ UNCHANGED <<x_, lists, locks, th, ghost>>

\* The clock, of interest while a timeout is to come.
Tick ==
  /\ \E x \in ToSet(flying) : x_[x].deadline > now
  /\ now' = now + 1
  /\ UNCHANGED <<x_, flying, timer, locks, th, kernel, ghost>>

-----------------------------------------------------------------------------
ThreadStep(t) ==
  \/ SubmitUrb(t) \/ SubmitDone(t) \/ SubmitRemove(t)
  \/ CancelDone(t) \/ Discard(t)
  \/ TimeoutsEnd(t) \/ HandleTimeout(t) \/ MarkTimedOut(t)

HandlerStep ==
  \/ Trigger(Handler) \/ Reap \/ ReapedUnlock
  \/ HandleCancellation \/ HandleCompletion \/ Land \/ Callback
  \/ Disconnected \/ Disconnect

Next ==
  \/ \E t \in Threads : ThreadStep(t)
  \/ \E t \in Users : \/ Trigger(t)
                       \/ \E x \in Filled : Submit(t, x) \/ Cancel(t, x)
  \/ HandlerStep
  \/ \E x \in Filled : \E i \in Urbs(x) : KernelEnds(x, i)
  \/ Unplug \/ Tick

Spec == Init /\ [][Next]_vars

\* The clock runs, every thread is scheduled, and the event thread, which
\* competes with the others for two mutexes, gets them in the end.  Nothing
\* is assumed of the kernel, of the device or of new calls.
FairSpec ==
  /\ Spec /\ WF_vars(Tick)
  /\ \A t \in Threads : WF_vars(ThreadStep(t))
  /\ SF_vars(HandlerStep)

-----------------------------------------------------------------------------
\* The transfers keep the promise of AsyncTransfer: each submission that
\* succeeds is answered by one callback, which never comes before the
\* submission has returned or after a failed one, however reaping, timeouts,
\* cancellations and the loss of the device interleave.
Promise == INSTANCE AsyncTransfer

OneCallbackEach == Promise!Spec

\* linux_usbfs.c:2356 "cancel remaining urbs and wait for their completion
\* before reporting results": when the URB array of a transfer is freed the
\* kernel holds none of its URBs that could still be reaped.
UrbsEndBeforeTransfer ==
  plugged = "yes" =>
    \A x \in Filled : \A i \in Urbs(x) :
      urb[x][i] # "none" => x_[x].urbs

\* A stall leaves the action "normal" and has the URBs after it discarded, the last
\* one first; that one is reaped first, and ends the transfer as the last URB.
StalledEarly(x) == x_[x].reap = "stall" /\ NumUrbs(x) > 2

\* The same, with or without the device, for every transfer that was not ended by
\* such a stall and of which no cancellation met the loss of the device half-way.
NoUrbOutlivesTransfer ==
  plugged # "handled" =>
    \A x \in Filled : \A i \in Urbs(x) :
      urb[x][i] # "none" => x_[x].urbs \/ x_[x].disappeared \/ StalledEarly(x)

\* The list is sorted: timeouts ascending, transfers without one at its end.
FlyingSorted ==
  \A i, j \in 1..Len(flying) : i < j =>
    LET a == x_[flying[i]].deadline  b == x_[flying[j]].deadline
    IN b = 0 \/ (a # 0 /\ a <= b)

\* A flying transfer whose timeout is still to come is never forgotten: the
\* timer is armed no later than that, or the list is headed by a transfer
\* already timed out, whose removal rearms it.
TimerCoversTimeouts ==
  \A x \in ToSet(flying) :
    x_[x].deadline # 0 /\ ~x_[x].handled
      => (timer # 0 /\ timer <= x_[x].deadline) \/ x_[Head(flying)].handled

\* The flying list is sorted by timeout, and the timer covers the timeouts that
\* are still to come.
TimeoutsCovered == TypeOK /\ FlyingSorted /\ TimerCoversTimeouts

\* The status handed to the callback has its cause: "timed out" exactly when
\* the timeout made the cancellation, "cancelled" only when the user asked.
StatusHasCause ==
  \A x \in CallbackDue :
    LET r == th[Handler].r
    IN /\ r = "timed_out" => x_[x].timedout
       /\ r = "cancelled" => x \in asked /\ ~x_[x].timedout
       /\ r = "completed" => x_[x].full \/ ~x_[x].shape.shortNotOk

\* When the callback is called the transfer is over, and the status says why.
CallbackEndsTransfer == NoUrbOutlivesTransfer /\ StatusHasCause

TimedInFlight(x) ==
  IF x \in Filled THEN x_[x].flight /\ x_[x].deadline # 0 ELSE FALSE

\* A transfer with a timeout ends, whatever the device does.
TimedTransferEnds ==
  \A x \in Transfers :
    TimedInFlight(x) ~> ~TimedInFlight(x)
=============================================================================
