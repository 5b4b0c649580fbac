----------------------------- MODULE LibusbSync -----------------------------
(***************************************************************************)
(* Synchronous transfers of libusb (libusb/sync.c) on top of what the      *)
(* library promises of asynchronous ones (AsyncTransfer): a transfer is    *)
(* allocated, submitted, waited for while events are handled, read and     *)
(* freed.  Several threads do so on one handle; whichever handles events   *)
(* runs the callbacks of all, and of an asynchronous transfer of the       *)
(* application's, from whose callback a synchronous one is tried.          *)
(***************************************************************************)
EXTENDS Integers

CONSTANTS
  Callers,     \* threads; each has a transfer of its own name
  App,         \* the application's transfer
  MaxSyncs,    \* bound on synchronous calls
  None

Transfers == Callers \cup {App}
Statuses == {"COMPLETED", "TIMED_OUT", "STALL", "NO_DEVICE", "OVERFLOW", "ERROR", "CANCELLED"}

VARIABLES
  accepts, answers, asked,   \* of AsyncTransfer
  call,       \* the call of each thread: place, kind, transfer->status
  memory,     \* what each call has allocated: the transfer, the buffer
  completed,  \* the calls' flags
  handling,   \* the thread that runs a callback of the application
  result,     \* what the last call of each thread returned
  dead,       \* callbacks that wrote to a call that had returned
  syncs

async == <<accepts, answers, asked>>
vars == <<async, call, memory, completed, handling, result, dead, syncs>>

A == INSTANCE AsyncTransfer

NoCall == [at |-> "idle", kind |-> None, status |-> None]

TypeOK ==
  /\ \A t \in Callers : call[t].at \in {"idle", "alloc", "buffer", "submit", "wait", "read"}
  /\ memory \in [Callers -> SUBSET {"transfer", "buffer"}]
  /\ completed \subseteq Callers /\ handling \in Callers \cup {None}
  /\ dead \subseteq Callers /\ syncs \in 0..MaxSyncs

Init ==
  /\ A!Init /\ call = [t \in Callers |-> NoCall]
  /\ memory = [t \in Callers |-> {}] /\ completed = {} /\ handling = None
  /\ result = [t \in Callers |-> None] /\ dead = {} /\ syncs = 0

Return(t, r) ==
  /\ call' = [call EXCEPT ![t] = NoCall]
  /\ result' = [result EXCEPT ![t] = r]

\* libusb_free_transfer(), with LIBUSB_TRANSFER_FREE_BUFFER of a control transfer.
FreeTransfer(t) == memory' = [memory EXCEPT ![t] = {}]

\* libusb_control_transfer(), libusb_bulk_transfer(), libusb_interrupt_transfer():
\* refused to a thread that is handling events.
Sync(t, kind) ==
  /\ call[t] = NoCall /\ handling # t /\ syncs < MaxSyncs
  /\ syncs' = syncs + 1
  /\ call' = [call EXCEPT ![t] = [at |-> "alloc", kind |-> kind, status |-> None]]
  /\ completed' = completed \ {t}
  /\ UNCHANGED <<async, memory, handling, result, dead>>

SyncBusy(t) ==
  /\ handling = t
  /\ result' = [result EXCEPT ![t] = "BUSY"]
  /\ handling' = None
  /\ UNCHANGED <<async, call, memory, completed, dead, syncs>>

Alloc(t) ==
  /\ call[t].at = "alloc"
  /\ \/ /\ memory' = [memory EXCEPT ![t] = {"transfer"}]
        /\ call' = [call EXCEPT ![t].at = IF call[t].kind = "control" THEN "buffer" ELSE "submit"]
        /\ UNCHANGED result
     \/ Return(t, "NO_MEM") /\ UNCHANGED memory
  /\ UNCHANGED <<async, completed, handling, dead, syncs>>

AllocBuffer(t) ==
  /\ call[t].at = "buffer"
  /\ \/ /\ memory' = [memory EXCEPT ![t] = @ \cup {"buffer"}]
        /\ call' = [call EXCEPT ![t].at = "submit"] /\ UNCHANGED result
     \/ Return(t, "NO_MEM") /\ FreeTransfer(t)
  /\ UNCHANGED <<async, completed, handling, dead, syncs>>

Submit(t) ==
  /\ call[t].at = "submit"
  /\ A!Submit(t)
  /\ call' = [call EXCEPT ![t].at = "wait"]
  /\ UNCHANGED <<memory, completed, handling, result, dead, syncs>>

SubmitFails(t) ==
  /\ call[t].at = "submit"
  /\ Return(t, "submit error") /\ FreeTransfer(t)
  /\ UNCHANGED <<async, completed, handling, dead, syncs>>

\* libusb_handle_events_completed() of a thread that waits, while no other is
\* in a callback: some transfer ends, and sync_transfer_cb() sets the flag.
HandleEvents(t, x, status) ==
  /\ call[t].at = "wait" /\ t \notin completed /\ handling = None
  /\ x \in Callers /\ status \in Statuses
  /\ status = "CANCELLED" => x \in asked
  /\ A!Callback(x)
  /\ completed' = completed \cup {x}
  /\ dead' = IF call[x].at = "wait" THEN dead ELSE dead \cup {x}
  /\ call' = [call EXCEPT ![x].status = status]
  /\ UNCHANGED <<memory, handling, result, syncs>>

\* The same, for the application's transfer.
HandleApp(t) ==
  /\ call[t].at = "wait" /\ t \notin completed /\ handling = None
  /\ A!Callback(App)
  /\ handling' = t
  /\ UNCHANGED <<call, memory, completed, result, dead, syncs>>

SubmitApp ==
  /\ A!Submit(App) /\ handling = None /\ syncs < MaxSyncs
  /\ UNCHANGED <<call, memory, completed, handling, result, dead, syncs>>

\* Handling events fails, but for an interrupted call: the transfer is cancelled,
\* if it has not been, and waited for all the same.
HandleFails(t) ==
  /\ call[t].at = "wait" /\ t \notin completed /\ handling # t
  /\ A!Cancel(t)
  /\ UNCHANGED <<call, memory, completed, handling, result, dead, syncs>>

\* The loop ends when it finds the flag set.
Completed(t) ==
  /\ call[t].at = "wait" /\ t \in completed /\ handling # t
  /\ call' = [call EXCEPT ![t].at = "read"]
  /\ UNCHANGED <<async, memory, completed, handling, result, dead, syncs>>

\* What the status means to the caller.
ReturnCode(status) ==
  CASE status = "COMPLETED" -> "OK"
    [] status = "TIMED_OUT" -> "TIMEOUT"
    [] status = "STALL" -> "PIPE"
    [] status \in {"NO_DEVICE", "OVERFLOW"} -> status
    [] status \in {"ERROR", "CANCELLED"} -> "IO"
    [] OTHER -> "OTHER"

Finish(t) ==
  /\ call[t].at = "read"
  /\ Return(t, ReturnCode(call[t].status)) /\ FreeTransfer(t)
  /\ UNCHANGED <<async, completed, handling, dead, syncs>>

Next ==
  \/ \E t \in Callers :
       \/ \E kind \in {"control", "bulk"} : Sync(t, kind)
       \/ SyncBusy(t) \/ Alloc(t) \/ AllocBuffer(t) \/ Submit(t) \/ SubmitFails(t)
       \/ \E x \in Callers, status \in Statuses : HandleEvents(t, x, status)
       \/ HandleApp(t) \/ HandleFails(t) \/ Completed(t) \/ Finish(t)
  \/ SubmitApp

-----------------------------------------------------------------------------
\* A transfer in flight has a call that waits for it, with its memory; a call that
\* returned has none left; and no callback wrote to a call that had returned.
TransfersOwned ==
  /\ dead = {}
  /\ \A t \in Callers :
       /\ t \in A!active => call[t].at = "wait" /\ "transfer" \in memory[t]
       /\ call[t].at = "idle" => memory[t] = {}
       /\ call[t].at = "read" => t \notin A!active /\ call[t].status # None

\* A call waits for something that will end: its transfer is in flight, or its flag
\* is set; and the status it then finds is one it knows.
WaitsEnd ==
  \A t \in Callers :
    /\ call[t].at = "wait" => t \in A!active \/ t \in completed
    /\ result[t] # "OTHER"
=============================================================================
