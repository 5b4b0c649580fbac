---------------------------- MODULE UdevMonitor ----------------------------
(***************************************************************************)
(* The udev monitor of libusb's Linux backend (os/linux_udev.c): starting  *)
(* and stopping it with the first and the last context, its thread, the    *)
(* scan of a new context and linux_udev_hotplug_poll(), which takes events *)
(* from under the thread.  linux_hotplug_lock covers every use of the      *)
(* context's devices; the start and stop lock, one call of each.           *)
(***************************************************************************)
EXTENDS Integers, Sequences, FiniteSets

CONSTANTS
  Addresses,   \* bus addresses
  MaxChanges,  \* bound on changes of the bus
  MaxStarts,   \* bound on starts of the monitor
  MaxPolls,    \* bound on polls by the application
  None

VARIABLES
  ports, changes,  \* what is plugged in, and how often that changed
  sock,            \* events in the monitor's socket
  parts,           \* what exists of the monitor
  byte,            \* the control pipe has a byte
  thread,          \* the thread: "none", "poll", "event" (it saw one), "gone"
  hlock,           \* holder of linux_hotplug_lock
  op,              \* the call under way: of op_init(), op_exit(), or none
  todo,            \* the scan: what is left of the list of udev
  known,           \* devices of the context
  unread,          \* devices of which an event, or they, could not be read (history)
  freed,           \* the thread used what was given up (history)
  starts, polls

outside == <<ports, changes>>
monitor == <<parts, byte, thread>>
vars == <<outside, sock, monitor, hlock, op, todo, known, unread, freed, starts, polls>>

\* In the order in which they are made.
Parts == <<"context", "monitor", "filter", "receiving", "nonblocking", "pipe", "thread">>
Receiving == "receiving" \in parts

TypeOK ==
  /\ ports \subseteq Addresses /\ changes \in 0..MaxChanges
  /\ parts \subseteq {Parts[k] : k \in DOMAIN Parts} /\ byte \in BOOLEAN
  /\ thread \in {"none", "poll", "event", "gone"} /\ hlock \in {"thread", "user", None}
  /\ op \in {"down", "start", "scan", "up", "stop", "join", "polling"}
  /\ todo \subseteq Addresses
  /\ known \subseteq Addresses /\ unread \subseteq Addresses /\ freed \in BOOLEAN
  /\ starts \in 0..MaxStarts /\ polls \in 0..MaxPolls

Init ==
  /\ ports \in SUBSET Addresses /\ changes = 0 /\ sock = <<>>
  /\ parts = {} /\ byte = FALSE /\ thread = "none" /\ hlock = None /\ op = "down"
  /\ todo = {} /\ known = {} /\ unread = {} /\ freed = FALSE
  /\ starts = 0 /\ polls = 0

\* A device comes or goes.
Change(a) ==
  /\ changes < MaxChanges /\ changes' = changes + 1
  /\ IF a \in ports THEN ports' = ports \ {a} ELSE ports' = ports \cup {a}
  /\ sock' = IF ~Receiving THEN sock
             ELSE Append(sock, [a |-> a, action |-> IF a \in ports THEN "remove" ELSE "add"])
  /\ UNCHANGED <<monitor, hlock, op, todo, known, unread, freed, starts, polls>>

-----------------------------------------------------------------------------
(* linux_udev_start_event_monitor() and linux_udev_stop_event_monitor() *)

Start ==
  /\ op = "down" /\ starts < MaxStarts
  /\ op' = "start" /\ starts' = starts + 1
  /\ UNCHANGED <<outside, sock, monitor, hlock, todo, known, unread, freed, polls>>

\* One part after the other; the thread, the last one, starts to poll.
StartPart ==
  /\ op = "start"
  /\ parts' = parts \cup {Parts[Cardinality(parts) + 1]}
  /\ IF parts' = {Parts[k] : k \in DOMAIN Parts}
       THEN op' = "scan" /\ thread' = "poll"
       ELSE UNCHANGED <<op, thread>>
  /\ UNCHANGED <<outside, sock, byte, hlock, todo, known, unread, freed, starts, polls>>

\* A part that cannot be made: the earlier ones are given up.
StartFails ==
  /\ op = "start"
  /\ parts' = {} /\ sock' = <<>> /\ op' = "down"
  /\ UNCHANGED <<outside, byte, thread, hlock, todo, known, unread, freed, starts, polls>>

\* The thread is told by a byte in the control pipe, unless that fails ...
Stop ==
  /\ op = "stop"
  /\ byte' \in BOOLEAN /\ op' = "join"
  /\ UNCHANGED <<outside, sock, parts, thread, hlock, todo, known, unread, freed, starts, polls>>

\* ... and joined, before the monitor, its context and the pipe go.
Join ==
  /\ op = "join" /\ thread = "gone"
  /\ parts' = {} /\ sock' = <<>> /\ byte' = FALSE /\ op' = "down"
  /\ known' = {} /\ unread' = {}
  /\ UNCHANGED <<outside, thread, hlock, todo, freed, starts, polls>>

\* op_exit() of the last context.
Exit ==
  /\ op = "up"
  /\ op' = "stop"
  /\ UNCHANGED <<outside, sock, monitor, hlock, todo, known, unread, freed, starts, polls>>

-----------------------------------------------------------------------------
(* Events *)

\* linux_enumerate_device(), linux_hotplug_enumerate(): a device that is known is
\* left alone; one that cannot be read, because it has gone or otherwise, skipped.
Enumerate(a) ==
  \/ a \in known /\ UNCHANGED <<known, unread>>
  \/ a \notin known /\ known' = known \cup {a} /\ unread' = unread \ {a}
  \/ a \notin known /\ UNCHANGED known /\ unread' = unread \cup {a}

\* udev_hotplug_event(): an event without an action or a node is passed over.
HotplugEvent(e) ==
  \/ e.action = "add" /\ Enumerate(e.a)
  \/ e.action = "remove" /\ known' = known \ {e.a} /\ unread' = unread \ {e.a}
  \/ UNCHANGED known /\ unread' = unread \cup {e.a}

\* linux_udev_event_thread_main(): poll() finds an event, and no byte ...
ThreadPolls ==
  /\ thread = "poll" /\ sock # <<>> /\ ~byte
  /\ thread' = "event"
  /\ UNCHANGED <<outside, sock, parts, byte, hlock, op, todo, known, unread, freed, starts, polls>>

\* ... which is handled under the lock, if it is still there.
ThreadReceives ==
  /\ thread = "event" /\ hlock = None
  /\ freed' = (freed \/ parts = {})
  /\ IF sock = <<>> THEN UNCHANGED <<sock, known, unread>>
     ELSE HotplugEvent(Head(sock)) /\ sock' = Tail(sock)
  /\ thread' = "poll"
  /\ UNCHANGED <<outside, parts, byte, hlock, op, todo, starts, polls>>

\* The byte is read, or poll() fails.
ThreadEnds ==
  /\ thread = "poll" /\ byte
  /\ thread' = "gone" /\ byte' = FALSE
  /\ UNCHANGED <<outside, sock, parts, hlock, op, todo, known, unread, freed, starts, polls>>

ThreadFails ==
  /\ thread = "poll" /\ thread' = "gone"
  /\ UNCHANGED <<outside, sock, parts, byte, hlock, op, todo, known, unread, freed, starts, polls>>

\* linux_udev_scan_devices(), under the lock: udev lists what is there ...
Scan ==
  /\ op = "scan" /\ hlock = None
  /\ hlock' = "user" /\ todo' = ports
  /\ UNCHANGED <<outside, sock, monitor, op, known, unread, freed, starts, polls>>

\* ... and each is enumerated.
ScanDevice(a) ==
  /\ op = "scan" /\ hlock = "user" /\ a \in todo
  /\ Enumerate(a) /\ todo' = todo \ {a}
  /\ UNCHANGED <<outside, sock, monitor, hlock, op, freed, starts, polls>>

ScanEnds ==
  /\ op = "scan" /\ hlock = "user" /\ todo = {}
  /\ hlock' = None /\ op' = "up"
  /\ UNCHANGED <<outside, sock, monitor, todo, known, unread, freed, starts, polls>>

\* No enumerator: op_init() stops the monitor again.
ScanFails ==
  /\ op = "scan" /\ hlock = None
  /\ op' = "stop"
  /\ UNCHANGED <<outside, sock, monitor, hlock, todo, known, unread, freed, starts, polls>>

\* linux_udev_hotplug_poll(), from libusb_get_device_list(): all events that are there.
PollStart ==
  /\ op = "up" /\ hlock = None /\ polls < MaxPolls
  /\ hlock' = "user" /\ op' = "polling" /\ polls' = polls + 1
  /\ UNCHANGED <<outside, sock, monitor, todo, known, unread, freed, starts>>

PollEvent ==
  /\ op = "polling" /\ sock # <<>>
  /\ HotplugEvent(Head(sock)) /\ sock' = Tail(sock)
  /\ UNCHANGED <<outside, monitor, hlock, op, todo, freed, starts, polls>>

PollEnd ==
  /\ op = "polling" /\ sock = <<>>
  /\ hlock' = None /\ op' = "up"
  /\ UNCHANGED <<outside, sock, monitor, todo, known, unread, freed, starts, polls>>

Next ==
  \/ \E a \in Addresses : Change(a) \/ ScanDevice(a)
  \/ Start \/ StartPart \/ StartFails \/ Stop \/ Join \/ Exit
  \/ ThreadPolls \/ ThreadReceives \/ ThreadEnds \/ ThreadFails
  \/ Scan \/ ScanEnds \/ ScanFails \/ PollStart \/ PollEvent \/ PollEnd

-----------------------------------------------------------------------------
\* Once the scan is done and the events are handled, the context knows the devices
\* that are plugged in, and those only; but for the ones of which something could
\* not be read.
KnownMatchesBus ==
  op = "up" /\ sock = <<>> /\ hlock = None =>
    (known \ ports) \cup (ports \ known) \subseteq unread

\* The thread does not use the monitor after it was released, and has everything it
\* uses for as long as it runs.
ThreadHasMonitor ==
  ~freed /\ (thread \in {"poll", "event"} => Cardinality(parts) = Len(Parts))
=============================================================================
