--------------------------- MODULE LibusbEvents ---------------------------
(***************************************************************************)
(* Event handling in libusb 1.0.21 (libusb/io.c, libusb/core.c and the     *)
(* usbfs backend's op_handle_events): the events lock, the event waiters,  *)
(* the event pipe with its pending_events bookkeeping, the cached poll set *)
(* and libusb_close(), which has to push every event handler aside.        *)
(*                                                                         *)
(* A thread of LibThreads runs                                             *)
(*     while (!completed)                                                  *)
(*         libusb_handle_events_completed(ctx, &completed);                *)
(* a thread of AppThreads runs the loop that io.c documents for programs   *)
(* that poll by themselves.  Each of them has one transfer in flight on a  *)
(* handle of its own.  A thread of Closers opens a device and closes it.   *)
(* Everything done in one holding of event_data_lock is one step.          *)
(***************************************************************************)
EXTENDS Naturals, Integers, Sequences, FiniteSets

CONSTANTS
  LibThreads,      \* threads inside libusb_handle_events_completed()
  AppThreads,      \* threads that run the documented poll() loop
  Closers,         \* threads that open and close a device
  CallbackCloses,  \* per path, whose transfer callback closes the handle
  Paths,           \* how the backend reports: "pollfd" and/or "signal"
  MaxNotes,        \* bound on interrupts, hotplug messages, failed callocs
  None             \* no thread

ASSUME EventsAssumption ==
  /\ Paths \subseteq {"pollfd", "signal"}
  /\ CallbackCloses \in [Paths -> SUBSET (LibThreads \cup AppThreads)]
  /\ MaxNotes \in Nat /\ IsFiniteSet(Closers)
  /\ (LibThreads \cup AppThreads) \cap Closers = {}
  /\ {None, "pipe"} \cap (LibThreads \cup AppThreads \cup Closers) = {}

Users == LibThreads \cup AppThreads

Threads == Users \cup Closers

VARIABLES
  pc,                   \* where each thread is
  events_lock,          \* ctx->events_lock: its holder
  event_handler_active, \* ctx->event_handler_active
  waiters_lock,         \* ctx->event_waiters_lock: its holder
  open_devs_lock,       \* ctx->open_devs_lock: its holder
  device_close,         \* ctx->device_close
  interrupt,            \* USBI_EVENT_USER_INTERRUPT in event_flags
  modified,             \* USBI_EVENT_POLLFDS_MODIFIED in event_flags
  hotplug_msgs,         \* length of ctx->hotplug_msgs
  completed_transfers,  \* ctx->completed_transfers
  pipe,                 \* bytes in ctx->event_pipe
  ipollfds,             \* the descriptors of ctx->ipollfds
  pollfds,              \* the array ctx->pollfds built from it
  open,                 \* descriptors whose handle is open
  poll,                 \* locals of handle_events()
  urb,                  \* transfer of a thread: flying, done, reaped
  completed,            \* the thread's completed flag
  path,                 \* the backend's way to report completions
  notes                 \* interrupts, messages and failed callocs so far

locks == <<events_lock, event_handler_active, waiters_lock, open_devs_lock>>

data == <<device_close, interrupt, modified, hotplug_msgs,
          completed_transfers, pipe>>

fds == <<ipollfds, pollfds, open>>

rest == <<urb, completed, path, notes>>

vars == <<pc, locks, data, fds, poll, rest>>

Labels == {"idle", "try", "trylock", "locked", "hev", "poll", "fish", "cb", "relock",
           "backend", "reap", "cbclose", "handled", "app", "apppoll", "unlock",
           "unlock2", "bcast", "wlock", "wchk", "wait", "woken", "exit",
           "opening", "opened", "closing", "close2"}

TypeOK ==
  /\ pc \in [Threads -> Labels]
  /\ {events_lock, waiters_lock, open_devs_lock} \subseteq Threads \cup {None}
  /\ {event_handler_active, interrupt, modified} \subseteq BOOLEAN
  /\ device_close \in 0..Cardinality(Closers) /\ hotplug_msgs \in 0..MaxNotes
  /\ completed_transfers \in Seq(Users) /\ pipe \in Int
  /\ {ipollfds, pollfds} \subseteq SUBSET (Threads \cup {"pipe"})
  /\ open \subseteq Threads
  /\ poll \in [revents : SUBSET (Threads \cup {"pipe"}),
               special : BOOLEAN, zero : BOOLEAN, failed : BOOLEAN,
               cur : Users \cup {None}]
  /\ urb \in [Users -> {"flying", "done", "reaped"}]
  /\ completed \in [Users -> BOOLEAN]
  /\ path \in Paths /\ notes \in 0..MaxNotes

\* The locals of handle_events() while no call is under way.
NoPoll == [revents |-> {}, special |-> FALSE, zero |-> FALSE,
           failed |-> FALSE, cur |-> None]

\* State after libusb_init() and the users' libusb_open(): the pipe and their
\* descriptors have been added, so the modification is still pending.
Init ==
  /\ pc = [t \in Threads |-> IF t \in Closers THEN "opening" ELSE "idle"]
  /\ events_lock = None /\ waiters_lock = None /\ open_devs_lock = None
  /\ event_handler_active = FALSE
  /\ device_close = 0 /\ interrupt = FALSE /\ modified = TRUE
  /\ hotplug_msgs = 0 /\ completed_transfers = <<>> /\ pipe = 1
  /\ ipollfds = Users \cup {"pipe"} /\ pollfds = {} /\ open = Users
  /\ poll = NoPoll
  /\ urb = [t \in Users |-> "flying"]
  /\ completed = [t \in Users |-> FALSE]
  /\ path \in Paths /\ notes = 0

Goto(t, l) == pc' = [pc EXCEPT ![t] = l]

\* usbi_pending_events()
Pending == \/ interrupt \/ modified \/ device_close > 0
           \/ hotplug_msgs > 0 \/ completed_transfers # <<>>

\* usbi_signal_event() by whoever makes events pending first.
SignalIfFirst == pipe' = IF Pending THEN pipe ELSE pipe + 1

\* usbi_clear_event() once nothing is pending any more.  The read end of the
\* pipe blocks: a byte that is not there (-1) hangs the caller.
ClearIfNone == pipe' = IF Pending' THEN pipe ELSE pipe - 1

-----------------------------------------------------------------------------
(* The events lock and the event waiters *)

\* The loop test, and libusb_handle_events_timeout_completed() up to retry:.
Enter(t) ==
  /\ pc[t] = "idle"
  /\ Goto(t, IF completed[t] THEN "exit" ELSE "try")
  /\ UNCHANGED <<locks, data, fds, poll, rest>>

\* Mutant: the closing thread is not looked for.
TryCheckMutant(t) ==
  /\ pc[t] = "try"
  /\ Goto(t, "trylock")
  /\ UNCHANGED <<locks, data, fds, poll, rest>>

\* libusb_try_lock_events(): is someone waiting to close a device?
TryCheck(t) ==
  /\ pc[t] = "try"
  /\ Goto(t, IF device_close > 0 THEN "wlock" ELSE "trylock")
  /\ UNCHANGED <<locks, data, fds, poll, rest>>

\* libusb_try_lock_events(): the trylock itself.
TryLock(t) ==
  /\ pc[t] = "trylock"
  /\ IF events_lock = None
       THEN /\ events_lock' = t /\ event_handler_active' = TRUE
            /\ Goto(t, "locked")
       ELSE /\ Goto(t, "wlock")
            /\ UNCHANGED <<events_lock, event_handler_active>>
  /\ UNCHANGED <<waiters_lock, open_devs_lock, data, fds, poll, rest>>

\* The events lock is held: handle events unless the flag is already set.
Locked(t) ==
  /\ pc[t] = "locked"
  /\ Goto(t, CASE t \in AppThreads -> "app"
               [] completed[t] -> "unlock"
               [] OTHER -> "hev")
  /\ UNCHANGED <<locks, data, fds, poll, rest>>

\* Descriptors that poll() reports: readable, or closed (POLLNVAL).
Ready(s) == {f \in s : \/ f = "pipe" /\ pipe > 0
                       \/ f \in Users /\ path = "pollfd" /\ urb[f] = "done"
                       \/ f # "pipe" /\ f \notin open}

\* The documented application loop, holding the events lock: stop when done
\* or when libusb_event_handling_ok() says so ...
AppCheck(t) ==
  /\ pc[t] = "app"
  /\ Goto(t, IF completed[t] \/ device_close > 0 THEN "unlock" ELSE "apppoll")
  /\ poll' = NoPoll
  /\ UNCHANGED <<locks, data, fds, rest>>

\* ... else poll, and on activity call libusb_handle_events_locked() with a
\* zero timeout.
AppPoll(t) ==
  /\ pc[t] = "apppoll" /\ Ready(ipollfds) # {}
  /\ Goto(t, "hev")
  /\ poll' = [poll EXCEPT !.zero = TRUE]
  /\ UNCHANGED <<locks, data, fds, rest>>

\* libusb_unlock_events(): flag, mutex, broadcast are three steps.
Unlock(t) ==
  /\ pc[t] = "unlock"
  /\ event_handler_active' = FALSE
  /\ poll' = NoPoll
  /\ Goto(t, "unlock2")
  /\ UNCHANGED <<events_lock, waiters_lock, open_devs_lock>>
  /\ UNCHANGED <<data, fds, rest>>

Unlock2(t) ==
  /\ pc[t] = "unlock2"
  /\ events_lock' = None
  /\ Goto(t, "bcast")
  /\ UNCHANGED <<event_handler_active, waiters_lock, open_devs_lock>>
  /\ UNCHANGED <<data, fds, poll, rest>>

AfterUnlock(t) == IF t \in Closers THEN "exit" ELSE "idle"

Broadcast(t) ==
  /\ pc[t] = "bcast" /\ waiters_lock = None
  /\ pc' = [u \in Threads |-> CASE u = t -> AfterUnlock(t)
                                [] pc[u] = "wait" -> "woken"
                                [] OTHER -> pc[u]]
  /\ UNCHANGED <<locks, data, fds, poll, rest>>

\* libusb_lock_event_waiters(), then the completed flag.
WaitersLock(t) ==
  /\ pc[t] = "wlock" /\ waiters_lock = None
  /\ IF completed[t]
       THEN Goto(t, "idle") /\ UNCHANGED waiters_lock
       ELSE Goto(t, "wchk") /\ waiters_lock' = t
  /\ UNCHANGED <<events_lock, event_handler_active, open_devs_lock>>
  /\ UNCHANGED <<data, fds, poll, rest>>

\* Mutant: the thread waits without asking again who handles events.
WaitersCheckMutant(t) ==
  /\ pc[t] = "wchk"
  /\ Goto(t, "wait")
  /\ waiters_lock' = None
  /\ UNCHANGED <<events_lock, event_handler_active, open_devs_lock>>
  /\ UNCHANGED <<data, fds, poll, rest>>

\* libusb_event_handler_active() under the waiters lock, then either
\* libusb_wait_for_event(), which releases that lock, or another try.
WaitersCheck(t) ==
  /\ pc[t] = "wchk"
  /\ Goto(t, IF device_close > 0 \/ event_handler_active
               THEN "wait" ELSE "try")
  /\ waiters_lock' = None
  /\ UNCHANGED <<events_lock, event_handler_active, open_devs_lock>>
  /\ UNCHANGED <<data, fds, poll, rest>>

\* The timed wait ends by its timeout.
WaitTimeout(t) ==
  /\ pc[t] = "wait" /\ t \in LibThreads
  /\ Goto(t, "woken")
  /\ UNCHANGED <<locks, data, fds, poll, rest>>

\* A woken thread takes the waiters lock again; the library returns to its
\* caller, the documented loop tests its flag and checks the handler again.
Woken(t) ==
  /\ pc[t] = "woken" /\ waiters_lock = None
  /\ IF t \in AppThreads /\ ~completed[t]
       THEN Goto(t, "wchk") /\ waiters_lock' = t
       ELSE Goto(t, "idle") /\ UNCHANGED waiters_lock
  /\ UNCHANGED <<events_lock, event_handler_active, open_devs_lock>>
  /\ UNCHANGED <<data, fds, poll, rest>>

-----------------------------------------------------------------------------
(* handle_events() *)

AfterEvents(t) == IF t \in AppThreads THEN "app" ELSE "unlock"

\* The cached array is rebuilt when the list was modified ...
Rebuild(t) ==
  /\ pc[t] = "hev"
  /\ Goto(t, "poll")
  /\ UNCHANGED <<device_close, interrupt, hotplug_msgs, completed_transfers>>
  /\ modified' = FALSE
  /\ IF modified THEN pollfds' = ipollfds /\ ClearIfNone
                 ELSE UNCHANGED <<pollfds, pipe>>
  /\ UNCHANGED <<locks, ipollfds, open, poll, rest>>

\* ... and if its calloc fails the call ends with the modification pending.
RebuildFails(t) ==
  /\ pc[t] = "hev" /\ modified
  /\ notes < MaxNotes /\ notes' = notes + 1
  /\ pollfds' = {}
  /\ Goto(t, AfterEvents(t))
  /\ UNCHANGED <<locks, data, ipollfds, open, poll, urb, completed, path>>

\* usbi_poll() returns with descriptors ready.
Poll(t) ==
  /\ pc[t] = "poll" /\ Ready(pollfds) # {}
  /\ poll' = [poll EXCEPT !.revents = Ready(pollfds), !.special = FALSE,
                          !.failed = FALSE]
  /\ Goto(t, IF "pipe" \in Ready(pollfds) THEN "fish" ELSE "backend")
  /\ UNCHANGED <<locks, data, fds, rest>>

\* usbi_poll() returns 0 or is interrupted by a signal: handle_events ends.
PollNothing(t) ==
  /\ pc[t] = "poll" /\ Ready(pollfds) = {}
  /\ Goto(t, AfterEvents(t))
  /\ UNCHANGED <<locks, data, fds, poll, rest>>

\* The end of a section that read the pipe: the byte goes when nothing is
\* pending; an error of the backend ends the call.  Then come the hotplug
\* message, if any (usbi_hotplug_match), and the other descriptors.
LeavePipe(t, failed) ==
  /\ ClearIfNone
  /\ Goto(t, CASE failed -> AfterEvents(t)
               [] poll.revents = {"pipe"} -> "handled"
               [] OTHER -> "backend")

\* A round of the loop over completed_transfers, or its end.
NextCompleted(t, failed, special) ==
  IF ~failed /\ completed_transfers # <<>>
    THEN /\ completed_transfers' = Tail(completed_transfers)
         /\ poll' = [poll EXCEPT !.cur = Head(completed_transfers),
                                 !.special = special]
         /\ Goto(t, "cb")
         /\ UNCHANGED pipe
    ELSE /\ poll' = [poll EXCEPT !.cur = None, !.special = special]
         /\ UNCHANGED completed_transfers
         /\ LeavePipe(t, failed)

\* Mutant: the pass forgets that the descriptors were modified.
FishMutant(t) ==
  /\ pc[t] = "fish"
  /\ interrupt' = FALSE /\ modified' = FALSE
  /\ hotplug_msgs' = IF hotplug_msgs > 0 THEN hotplug_msgs - 1 ELSE 0
  /\ UNCHANGED device_close
  /\ NextCompleted(t, FALSE, hotplug_msgs > 0)
  /\ UNCHANGED <<locks, fds, rest>>

\* The pipe is readable: drop the interrupt, take one hotplug message, look
\* at the completed transfers.
Fish(t) ==
  /\ pc[t] = "fish"
  /\ interrupt' = FALSE
  /\ hotplug_msgs' = IF hotplug_msgs > 0 THEN hotplug_msgs - 1 ELSE 0
  /\ UNCHANGED <<device_close, modified>>
  /\ NextCompleted(t, FALSE, hotplug_msgs > 0)
  /\ UNCHANGED <<locks, fds, rest>>

\* The user's callback for the transfer of u, as the backend ends it.
Callback(u) ==
  /\ urb' = [urb EXCEPT ![u] = "reaped"]
  /\ completed' = [completed EXCEPT ![u] = TRUE]
  /\ UNCHANGED <<path, notes>>

\* do_close() and the backend's close: the handle leaves open_devs, the
\* descriptor leaves the poll list (usbi_remove_pollfd) and is closed.
DoClose(u) ==
  /\ open' = open \ {u} /\ ipollfds' = ipollfds \ {u}
  /\ modified' = TRUE /\ SignalIfFirst
  /\ UNCHANGED <<device_close, interrupt, hotplug_msgs, completed_transfers>>
  /\ UNCHANGED pollfds

\* Where a callback leads: libusb_close() in it closes at once, because this
\* thread is the event handler; otherwise on with l.
AfterCallback(u, l) == IF u \in CallbackCloses[path] THEN "cbclose" ELSE l

\* handle_transfer_completion() of the backend, event_data_lock released.
Complete(t) ==
  /\ pc[t] = "cb"
  /\ Callback(poll.cur)
  /\ \E failed \in BOOLEAN : poll' = [poll EXCEPT !.failed = failed]
  /\ Goto(t, AfterCallback(poll.cur, "relock"))
  /\ UNCHANGED <<locks, data, fds>>

Relock(t) ==
  /\ pc[t] = "relock"
  /\ UNCHANGED <<device_close, interrupt, modified, hotplug_msgs>>
  /\ NextCompleted(t, poll.failed, poll.special)
  /\ UNCHANGED <<locks, fds, rest>>

\* op_handle_events() holds open_devs_lock while it reaps ...
Backend(t) ==
  /\ pc[t] = "backend" /\ open_devs_lock = None
  /\ open_devs_lock' = t
  /\ Goto(t, "reap")
  /\ UNCHANGED <<events_lock, event_handler_active, waiters_lock>>
  /\ UNCHANGED <<data, fds, poll, rest>>

\* ... each ready descriptor that still has an open handle, callbacks
\* included, and releases it at the end.
Reap(t) ==
  /\ pc[t] = "reap"
  /\ LET ready == {u \in poll.revents \cap open : u \in Users /\ urb[u] = "done"}
     IN \/ /\ ready = {}
           /\ open_devs_lock' = None
           /\ Goto(t, "handled")
           /\ UNCHANGED <<poll, rest>>
        \/ \E u \in ready :
             /\ Callback(u)
             /\ poll' = [poll EXCEPT !.cur = u]
             /\ Goto(t, AfterCallback(u, "reap"))
             /\ UNCHANGED open_devs_lock
  /\ UNCHANGED <<events_lock, event_handler_active, waiters_lock, data, fds>>

\* After a special event the descriptors are polled once more, with a zero
\* timeout and the array of this call.
Handled(t) ==
  /\ pc[t] = "handled"
  /\ IF poll.special
       THEN Goto(t, "poll") /\ poll' = [NoPoll EXCEPT !.zero = TRUE]
       ELSE Goto(t, AfterEvents(t)) /\ UNCHANGED poll
  /\ UNCHANGED <<locks, data, fds, rest>>
-----------------------------------------------------------------------------
(* libusb_open() and libusb_close() by other threads *)

\* op_open() adds the descriptor; then the handle joins open_devs.
OpenFd(c) ==
  /\ pc[c] = "opening"
  /\ ipollfds' = ipollfds \cup {c} /\ open' = open \cup {c}
  /\ modified' = TRUE /\ SignalIfFirst
  /\ Goto(c, "opened")
  /\ UNCHANGED <<device_close, interrupt, hotplug_msgs, completed_transfers>>
  /\ UNCHANGED <<locks, pollfds, poll, rest>>

\* libusb_close(): announce the close and interrupt the event handler.
CloseAnnounce(c) ==
  /\ pc[c] = "opened" /\ open_devs_lock = None
  /\ device_close' = device_close + 1 /\ SignalIfFirst
  /\ Goto(c, "closing")
  /\ UNCHANGED <<interrupt, modified, hotplug_msgs, completed_transfers>>
  /\ UNCHANGED <<locks, fds, poll, rest>>

\* Mutant: the close does not wait for the event handler.
CloseLockMutant(c) ==
  /\ pc[c] = "closing"
  /\ event_handler_active' = TRUE
  /\ Goto(c, "close2")
  /\ UNCHANGED <<events_lock, waiters_lock, open_devs_lock>>
  /\ UNCHANGED <<data, fds, poll, rest>>

\* libusb_lock_events().
CloseLock(c) ==
  /\ pc[c] = "closing" /\ events_lock = None
  /\ events_lock' = c /\ event_handler_active' = TRUE
  /\ Goto(c, "close2")
  /\ UNCHANGED <<waiters_lock, open_devs_lock, data, fds, poll, rest>>

\* do_close(): in libusb_close() of a closing thread, or of the event handler
\* inside a callback.  It takes open_devs_lock, a mutex that is not recursive,
\* and which op_handle_events() holds around its callbacks.
CloseFd(t) ==
  /\ open_devs_lock = None
  /\ \/ pc[t] = "close2" /\ t \in open /\ DoClose(t) /\ UNCHANGED pc
     \/ /\ pc[t] = "cbclose" /\ DoClose(poll.cur)
        /\ Goto(t, IF path = "signal" THEN "relock" ELSE "reap")
  /\ UNCHANGED <<locks, poll, rest>>

\* The close is no longer announced; libusb_unlock_events() follows.
CloseDone(c) ==
  /\ pc[c] = "close2" /\ c \notin open
  /\ device_close' = device_close - 1
  /\ UNCHANGED <<interrupt, modified, hotplug_msgs, completed_transfers>>
  /\ ClearIfNone
  /\ Goto(c, "unlock")
  /\ UNCHANGED <<locks, fds, poll, rest>>

-----------------------------------------------------------------------------
(* The kernel, the backend's own threads, other callers *)

\* The kernel finishes a transfer; with "signal" the backend adds it to
\* completed_transfers (usbi_signal_transfer_completion).
Finish(u) ==
  /\ urb[u] = "flying" /\ u \in open
  /\ urb' = [urb EXCEPT ![u] = "done"]
  /\ IF path = "signal"
       THEN /\ completed_transfers' = Append(completed_transfers, u)
            /\ SignalIfFirst
       ELSE UNCHANGED <<completed_transfers, pipe>>
  /\ UNCHANGED <<device_close, interrupt, modified, hotplug_msgs>>
  /\ UNCHANGED <<pc, locks, fds, poll, completed, path, notes>>

\* libusb_interrupt_event_handler().
Interrupt ==
  /\ notes < MaxNotes /\ notes' = notes + 1
  /\ interrupt' = (interrupt \/ ~Pending)
  /\ SignalIfFirst
  /\ UNCHANGED <<device_close, modified, hotplug_msgs, completed_transfers>>
  /\ UNCHANGED <<pc, locks, fds, poll, urb, completed, path>>

-----------------------------------------------------------------------------
\* What a thread does by itself once it can: no timeout, no kernel.
UserStep(t) ==
  \/ Enter(t) \/ TryCheck(t) \/ TryLock(t) \/ Locked(t)
  \/ AppCheck(t) \/ AppPoll(t)
  \/ WaitersLock(t) \/ WaitersCheck(t) \/ Woken(t)
  \/ Rebuild(t) \/ Poll(t) \/ (poll.zero /\ PollNothing(t))
  \/ Fish(t) \/ Complete(t) \/ Relock(t)
  \/ Backend(t) \/ Reap(t) \/ CloseFd(t) \/ Handled(t)
  \/ Unlock(t) \/ Unlock2(t) \/ Broadcast(t)

\* usbi_hotplug_notification().
HotplugNotification ==
  /\ notes < MaxNotes /\ notes' = notes + 1
  /\ hotplug_msgs' = hotplug_msgs + 1
  /\ SignalIfFirst
  /\ UNCHANGED <<device_close, interrupt, modified, completed_transfers>>
  /\ UNCHANGED <<pc, locks, fds, poll, urb, completed, path>>

\* The steps that need the waiters lock.
WaitersStep(t) == Broadcast(t) \/ WaitersLock(t) \/ Woken(t)

CloserStep(c) ==
  \/ CloseLock(c) \/ CloseFd(c) \/ CloseDone(c)
  \/ Unlock(c) \/ Unlock2(c) \/ Broadcast(c)

Next ==
  \/ \E t \in Users : \/ UserStep(t) \/ WaitTimeout(t)
                       \/ PollNothing(t) \/ Finish(t) \/ RebuildFails(t)
  \/ \E c \in Closers : OpenFd(c) \/ CloseAnnounce(c) \/ CloserStep(c)
  \/ Interrupt \/ HotplugNotification

Spec == Init /\ [][Next]_vars

\* Every thread is scheduled, and the waiters lock, held for moments only, is
\* not kept from a thread for ever.  Nothing of the sort is assumed of the
\* events lock, of timeouts, of the kernel or of the other callers.
FairSpec ==
  /\ Spec
  /\ \A t \in Users : WF_vars(UserStep(t)) /\ SF_vars(WaitersStep(t))
  /\ \A c \in Closers : WF_vars(CloserStep(c)) /\ SF_vars(Broadcast(c))

-----------------------------------------------------------------------------
\* Whenever an event is pending the pipe holds a byte, so that no handler can
\* sleep over it, and usbi_clear_event() never reads an empty pipe, which
\* would block it while it holds event_data_lock (pipe would be -1).
PendingIsSignalled == pipe >= 0 /\ (Pending => pipe > 0)

\* A handler that sleeps in poll() on a set that is not the current list of
\* descriptors has a byte in the pipe that will wake it: a descriptor opened
\* meanwhile is not starved, one removed meanwhile is not kept.
StalePollSetIsWoken ==
  \A t \in Users : pc[t] = "poll" /\ pollfds # ipollfds => pipe > 0

\* No handler sleeps in poll() on a descriptor that has been closed: only the
\* second, non-blocking poll of one call can see one, and only after a close
\* from its own callback.
NoSleepOnClosedFd ==
  \A t \in Users :
    pc[t] = "poll" /\ ~(pollfds \subseteq open \cup {"pipe"})
      => poll.zero /\ pollfds \ (open \cup {"pipe"}) \subseteq CallbackCloses[path]

\* Whoever sleeps in libusb_wait_for_event() has somebody left to wake it:
\* the holder of the events lock, a thread about to broadcast, or a closer
\* that still has to take and release the lock.
WaiterHasWaker ==
  (\E t \in Users : pc[t] = "wait")
    => \/ events_lock # None
       \/ \E u \in Threads : pc[u] \in {"bcast", "closing"}

\* libusb_close() ends: device_close keeps the event handlers out until the
\* closing thread has had the events lock.
CloseReturns == \A c \in Closers : (pc[c] = "closing") ~> (pc[c] = "exit")

\* A finished transfer gets its thread out of its wait, unless a program that
\* polls by itself keeps the events lock.
CompletionReturns ==
  \A t \in LibThreads :
    (urb[t] = "done") ~> (pc[t] = "exit" \/ events_lock \in AppThreads)
=============================================================================
