--------------------------- MODULE DarwinDevices ---------------------------
(***************************************************************************)
(* Contexts and devices of libusb's Darwin backend (darwin_usb.c): the     *)
(* cache of devices, which all contexts share, its reference counts, the   *)
(* event thread that is told of arrivals and removals, and the scan of a   *)
(* new context.                                                            *)
(*                                                                         *)
(* A session is one stay of a device on the bus.  Devices that are read    *)
(* differ in nothing else.                                                 *)
(***************************************************************************)
EXTENDS Naturals, FiniteSets

CONSTANTS
  Contexts,
  MaxPlugs,   \* bound on sessions
  MaxInits    \* bound on calls of libusb_init()

VARIABLES
  bus, plugs,        \* sessions present, and how many there were
  added, removed,    \* sessions whose notification is still to be handled
  rc,                \* refcount of each session's cached device; 0: it has none
  good,              \* sessions whose device descriptor was read
  count,             \* initCount
  thread,            \* the event thread
  active,            \* active_contexts_list
  inits, lock,       \* calls of libusb_init(); default_context_lock
  x,                 \* what each context's call, and the event thread, is at
  listed,            \* devices of each context's list, by session
  held, gone,        \* sessions whose device the application holds, listed or not
  unseen, missed,    \* sessions whose arrival or removal the thread drops (history)
  failed,            \* sessions that could not be processed (history)
  odd                \* sessions that met one of three races, below (history)

vars == <<bus, plugs, added, removed, rc, good, count, thread, active, inits, lock, x,
          listed, held, gone, unseen, missed, failed, odd>>
busVars == <<bus, plugs, added, removed>>
histVars == <<unseen, missed, failed, odd>>

Sessions == 1..MaxPlugs
Ev == "event thread"
Actors == Contexts \cup {Ev}
Free == "free"

\* Where a call is at, what it has still to do, and the session and the context
\* it is doing that for.
Place(place, todo) == [at |-> place, todo |-> todo, s |-> 0, c |-> Free]
Idle == Place("idle", {})

TypeOK ==
  /\ bus \subseteq Sessions /\ plugs \in 0..MaxPlugs
  /\ added \subseteq Sessions /\ removed \subseteq Sessions
  /\ rc \in [Sessions -> Nat] /\ good \subseteq Sessions
  /\ count \in 0..Cardinality(Contexts)
  /\ thread \in {"none", "arming", "failed", "loop", "stopping"}
  /\ active \subseteq Contexts /\ inits \in 0..MaxInits /\ lock \in Contexts \cup {Free}
  /\ listed \in [Contexts -> [Sessions -> 0..2]]
  /\ held \in [Contexts -> SUBSET Sessions] /\ gone \in [Contexts -> SUBSET Sessions]
  /\ \A a \in Actors : x[a].at \in {"idle", "in", "scan", "wait", "unlist", "out", "join",
                                     "add", "disconnect", "processing", "connect"}

Init ==
  /\ bus = {} /\ plugs = 0 /\ added = {} /\ removed = {}
  /\ rc = [s \in Sessions |-> 0] /\ good = {} /\ count = 0 /\ thread = "none"
  /\ active = {} /\ inits = 0 /\ lock = Free /\ x = [a \in Actors |-> Idle]
  /\ listed = [c \in Contexts |-> [s \in Sessions |-> 0]]
  /\ held = [c \in Contexts |-> {}] /\ gone = [c \in Contexts |-> {}]
  /\ unseen = {} /\ missed = {} /\ failed = {} /\ odd = {}

-----------------------------------------------------------------------------
(* The bus *)

Plug ==
  /\ plugs < MaxPlugs /\ plugs' = plugs + 1
  /\ bus' = bus \cup {plugs'} /\ added' = added \cup {plugs'}
  /\ UNCHANGED <<removed, rc, good, count, thread, active, inits, lock, x, listed, held, gone, histVars>>

Unplug(s) ==
  /\ s \in bus /\ bus' = bus \ {s} /\ removed' = removed \cup {s}
  /\ UNCHANGED <<plugs, added, rc, good, count, thread, active, inits, lock, x, listed, held, gone, histVars>>

-----------------------------------------------------------------------------
(* The cache *)

\* Mutant: the device stays.
DerefMutant(s) == IF rc[s] > 1 THEN [rc EXCEPT ![s] = @ - 1] ELSE rc

\* darwin_deref_cached_device(): the last reference frees the device.
Deref(s) == [rc EXCEPT ![s] = IF @ > 0 THEN @ - 1 ELSE 0]

\* A new device has no plug-in, or there is no memory; or its descriptor cannot be
\* read, and it stays cached, "to prevent them from being enumerated multiple
\* times".
NoDevice(s) ==
  /\ rc[s] = 0 /\ good' = good \ {s} /\ failed' = failed \cup {s}
  /\ \/ rc' = rc
     \/ s \in bus /\ rc' = [rc EXCEPT ![s] = 1]

\* Where the loop over services, or over contexts, goes on.
Back(a, todo) == Place(IF a = Ev THEN "add" ELSE "scan", todo)

\* darwin_get_cached_device(), under darwin_cached_devices_lock: the cached
\* device of the session, or a new one with a reference that removal drops.  The
\* caller gets no reference of its own.
GetCached(a, s, c, todo) ==
  \/ /\ rc[s] > 0 /\ s \in good
     /\ x' = [x EXCEPT ![a] = [at |-> "processing", todo |-> todo, s |-> s, c |-> c]]
     /\ UNCHANGED <<rc, good, failed>>
  \/ /\ rc[s] > 0 /\ s \notin good
     /\ x' = [x EXCEPT ![a] = Back(a, todo)] /\ UNCHANGED <<rc, good, failed>>
  \/ /\ rc[s] = 0 /\ s \in bus
     /\ rc' = [rc EXCEPT ![s] = 1] /\ good' = good \cup {s}
     /\ x' = [x EXCEPT ![a] = [at |-> "processing", todo |-> todo, s |-> s, c |-> c]]
     /\ UNCHANGED failed
  \/ NoDevice(s) /\ x' = [x EXCEPT ![a] = Back(a, todo)]

\* darwin_check_configuration() fails: there is none, or no interface iterator.
ConfigurationUnknown(s) == rc[s] > 0 /\ failed' = failed \cup {s}

\* process_new_device(): it has the configuration checked and a device made,
\* which takes a reference.  (First race: the thread may have freed what the
\* scan of another context got from the cache.)
Process(a) ==
  LET p == x[a] IN
  /\ p.at = "processing"
  /\ \/ /\ rc[p.s] = 0 /\ odd' = odd \cup {p.s}
        /\ x' = [x EXCEPT ![a] = Back(a, p.todo)] /\ UNCHANGED <<rc, failed>>
     \/ /\ rc[p.s] > 0 /\ rc' = [rc EXCEPT ![p.s] = @ + 1]
        /\ x' = [x EXCEPT ![a].at = "connect"] /\ UNCHANGED <<failed, odd>>
     \/ /\ ConfigurationUnknown(p.s)
        /\ x' = [x EXCEPT ![a] = Back(a, p.todo)] /\ UNCHANGED <<rc, odd>>
  /\ UNCHANGED <<busVars, good, count, thread, active, inits, lock, listed, held, gone, unseen, missed>>

ToDisconnect(s, c) == x[Ev].at = "disconnect" /\ x[Ev].s = s /\ c \in x[Ev].todo

\* usbi_connect_device(), or the device is dropped, with its reference.  (Second
\* race: the scan and a notification both add it.  Third: its removal was
\* handled before it was listed.)
Connect(a) ==
  LET p == x[a] IN
  /\ p.at = "connect" /\ x' = [x EXCEPT ![a] = Back(a, p.todo)]
  /\ \/ /\ listed' = [listed EXCEPT ![p.c][p.s] = @ + 1]
        /\ odd' = IF listed[p.c][p.s] > 0 \/ ~(p.s \in bus \cup removed \/ ToDisconnect(p.s, p.c))
                  THEN odd \cup {p.s} ELSE odd
        /\ UNCHANGED <<rc, failed>>
     \/ rc' = Deref(p.s) /\ failed' = failed \cup {p.s} /\ UNCHANGED <<listed, odd>>
  /\ UNCHANGED <<busVars, good, count, thread, active, inits, lock, held, gone, unseen, missed>>

-----------------------------------------------------------------------------
(* libusb_init() and darwin_init() *)

HandlerRuns == x[Ev] # Idle   \* it has active_contexts_lock

\* The context is listed; then what is on the bus now is scanned.
BeginInit(c) ==
  /\ x[c] = Idle /\ lock = Free /\ inits < MaxInits /\ ~HandlerRuns
  /\ lock' = c /\ inits' = inits + 1 /\ active' = active \cup {c}
  /\ x' = [x EXCEPT ![c] = Place("scan", bus)]
  /\ IF thread = "none"
     THEN added' = {} /\ removed' = {} /\ missed' = missed \cup removed
     ELSE UNCHANGED <<added, removed, missed>>
  /\ UNCHANGED <<bus, plugs, rc, good, count, thread, listed, held, gone, unseen, failed, odd>>

\* darwin_scan_devices()
Scan(c) ==
  /\ x[c].at = "scan"
  /\ \E s \in x[c].todo : GetCached(c, s, c, x[c].todo \ {s})
  /\ UNCHANGED <<busVars, count, thread, active, inits, lock, listed, held, gone, unseen, missed, odd>>

\* The services cannot be listed: err_free_ctx.
ScanFails(c) ==
  /\ x[c].at = "scan" /\ x[c].todo = bus /\ (\A s \in Sessions : listed[c][s] = 0) /\ ~HandlerRuns
  /\ lock' = Free /\ active' = active \ {c} /\ x' = [x EXCEPT ![c] = Idle]
  /\ UNCHANGED <<busVars, rc, good, count, thread, inits, listed, held, gone, histVars>>

StartsThread == count = 0

\* The first context creates the thread and waits for its run loop.  (The thread
\* of a context that is leaving is assumed to have ended.)
Started(c) ==
  /\ x[c].at = "scan" /\ x[c].todo = {} /\ (count = 0 => thread = "none")
  /\ count' = count + 1
  /\ IF StartsThread
     THEN /\ thread' = "arming" /\ x' = [x EXCEPT ![c] = Place("wait", {})]
          /\ UNCHANGED lock
     ELSE /\ lock' = Free /\ x' = [x EXCEPT ![c] = Place("in", {})] /\ UNCHANGED thread
  /\ UNCHANGED <<busVars, rc, good, active, inits, listed, held, gone, histVars>>

\* pthread_cond_wait() until the thread has set libusb_darwin_acfl.
Waited(c) ==
  /\ x[c].at = "wait" /\ thread = "loop"
  /\ lock' = Free /\ x' = [x EXCEPT ![c] = Place("in", {})]
  /\ UNCHANGED <<busVars, rc, good, count, thread, active, inits, listed, held, gone, histVars>>

-----------------------------------------------------------------------------
(* libusb_exit() and darwin_exit() *)

BeginExit(c) ==
  /\ x[c].at = "in" /\ held[c] = {} /\ gone[c] = {} /\ ~HandlerRuns
  /\ active' = active \ {c} /\ x' = [x EXCEPT ![c] = Place("unlist", {})]
  /\ UNCHANGED <<busVars, rc, good, count, thread, inits, lock, listed, held, gone, histVars>>

\* darwin_destroy_device() for each.
Unlist(c) ==
  /\ x[c].at = "unlist" /\ x' = [x EXCEPT ![c].at = "out"]
  /\ rc' = [s \in Sessions |-> IF rc[s] > listed[c][s] THEN rc[s] - listed[c][s] ELSE 0]
  /\ listed' = [listed EXCEPT ![c] = [s \in Sessions |-> 0]]
  /\ UNCHANGED <<busVars, good, count, thread, active, inits, lock, held, gone, histVars>>

\* The last one stops the thread and joins it.
BackendExit(c) ==
  /\ x[c].at = "out" /\ count' = count - 1
  /\ IF count = 1 THEN thread' = "stopping" /\ x' = [x EXCEPT ![c].at = "join"]
                  ELSE UNCHANGED thread /\ x' = [x EXCEPT ![c] = Idle]
  /\ UNCHANGED <<busVars, rc, good, active, inits, lock, listed, held, gone, histVars>>

Joined(c) ==
  /\ x[c].at = "join" /\ thread = "none" /\ x' = [x EXCEPT ![c] = Idle]
  /\ UNCHANGED <<busVars, rc, good, count, thread, active, inits, lock, listed, held, gone, histVars>>

-----------------------------------------------------------------------------
(* The event thread *)

\* "arm notifiers": what came since the scan is thrown away.
Arm ==
  /\ thread = "arming" /\ thread' = "loop"
  /\ unseen' = unseen \cup added /\ missed' = missed \cup removed
  /\ added' = {} /\ removed' = {}
  /\ UNCHANGED <<bus, plugs, rc, good, count, active, inits, lock, x, listed, held, gone, failed, odd>>

\* A notification cannot be registered: pthread_exit(), and darwin_init() waits on.
ArmFails ==
  /\ thread = "arming" /\ thread' = "failed"
  /\ UNCHANGED <<busVars, rc, good, count, active, inits, lock, x, listed, held, gone, histVars>>

Running == thread \in {"loop", "stopping"} /\ x[Ev] = Idle

\* CFRunLoopRun() returns.
Leave ==
  /\ thread = "stopping" /\ x[Ev] = Idle /\ thread' = "none"
  /\ UNCHANGED <<busVars, rc, good, count, active, inits, lock, x, listed, held, gone, histVars>>

\* darwin_devices_attached(): each active context, under active_contexts_lock.
Attached(s) ==
  /\ Running /\ s \in added /\ added' = added \ {s}
  /\ x' = [x EXCEPT ![Ev] = Place("add", {s} \X active)]
  /\ UNCHANGED <<bus, plugs, removed, rc, good, count, thread, active, inits, lock, listed, held, gone, histVars>>

AttachTo ==
  /\ x[Ev].at = "add"
  /\ \E t \in x[Ev].todo : GetCached(Ev, t[1], t[2], x[Ev].todo \ {t})
  /\ UNCHANGED <<busVars, count, thread, active, inits, lock, listed, held, gone, unseen, missed, odd>>

AttachedDone ==
  /\ x[Ev].at = "add" /\ x[Ev].todo = {} /\ x' = [x EXCEPT ![Ev] = Idle]
  /\ UNCHANGED <<busVars, rc, good, count, thread, active, inits, lock, listed, held, gone, histVars>>

\* darwin_devices_detached(): the reference of darwin_get_cached_device() ...
Detached(s) ==
  /\ Running /\ s \in removed /\ removed' = removed \ {s}
  /\ rc' = Deref(s)
  /\ x' = [x EXCEPT ![Ev] = [at |-> "disconnect", todo |-> active, s |-> s, c |-> Free]]
  /\ UNCHANGED <<bus, plugs, added, good, count, thread, active, inits, lock, listed, held, gone, histVars>>

\* ... then the device of each context is unlisted, and destroyed unless the
\* application holds it.
Disconnect ==
  /\ x[Ev].at = "disconnect"
  /\ \E c \in x[Ev].todo :
       LET s == x[Ev].s
       IN /\ x' = [x EXCEPT ![Ev].todo = @ \ {c}]
          /\ IF listed[c][s] = 0 THEN UNCHANGED <<listed, held, gone, rc>>
             ELSE /\ listed' = [listed EXCEPT ![c][s] = @ - 1]
                  /\ held' = [held EXCEPT ![c] = @ \ {s}]
                  /\ gone' = [gone EXCEPT ![c] = @ \cup (held[c] \cap {s})]
                  /\ rc' = IF s \in held[c] THEN rc ELSE Deref(s)
  /\ UNCHANGED <<busVars, good, count, thread, active, inits, lock, histVars>>

DetachedDone ==
  /\ x[Ev].at = "disconnect" /\ x[Ev].todo = {} /\ x' = [x EXCEPT ![Ev] = Idle]
  /\ UNCHANGED <<busVars, rc, good, count, thread, active, inits, lock, listed, held, gone, histVars>>

-----------------------------------------------------------------------------
(* The application *)

Hold(c, s) ==
  /\ x[c].at = "in" /\ listed[c][s] > 0 /\ s \notin held[c] \cup gone[c]
  /\ held' = [held EXCEPT ![c] = @ \cup {s}]
  /\ UNCHANGED <<busVars, rc, good, count, thread, active, inits, lock, x, listed, gone, histVars>>

\* The last reference destroys a device that is no longer listed.
Unref(c, s) ==
  /\ s \in held[c] \cup gone[c]
  /\ held' = [held EXCEPT ![c] = @ \ {s}] /\ gone' = [gone EXCEPT ![c] = @ \ {s}]
  /\ rc' = IF s \in gone[c] THEN Deref(s) ELSE rc
  /\ UNCHANGED <<busVars, good, count, thread, active, inits, lock, x, listed, histVars>>

\* After a race nothing more is explored.
Next ==
  /\ odd = {}
  /\ \/ Plug \/ (\E s \in Sessions : Unplug(s))
     \/ \E c \in Contexts :
          \/ BeginInit(c) \/ Scan(c) \/ ScanFails(c) \/ Started(c) \/ Waited(c)
          \/ BeginExit(c) \/ Unlist(c) \/ BackendExit(c) \/ Joined(c)
     \/ \E a \in Actors : Process(a) \/ Connect(a)
     \/ Arm \/ ArmFails \/ Leave \/ AttachTo \/ AttachedDone \/ Disconnect \/ DetachedDone
     \/ \E s \in Sessions : Attached(s) \/ Detached(s)
     \/ \E c \in Contexts, s \in Sessions : Hold(c, s) \/ Unref(c, s)

Spec == Init /\ [][Next]_vars

-----------------------------------------------------------------------------
\* Devices made of a cached device: in lists, held by the application alone, and
\* about to be listed.
Made(s) == {d \in Contexts \X (1..2) : d[2] <= listed[d[1]][s]}
Left(s) == {c \in Contexts : s \in gone[c]}
Connecting(s) == {a \in Actors : x[a].at = "connect" /\ x[a].s = s}
Users(s) == Cardinality(Made(s)) + Cardinality(Left(s)) + Cardinality(Connecting(s))

\* A cached device has one reference for each device made of it and one until
\* its removal is handled; so it is there while a device needs it, and not
\* longer.  (A removal while no thread runs is never handled.)
CacheExact ==
  odd = {} => \A s \in Sessions :
    rc[s] = Users(s) + (IF rc[s] > 0 /\ s \in bus \cup removed \cup missed THEN 1 ELSE 0)

\* When all notifications are handled a context lists each device on the bus
\* once, and no other: but for those that could not be read, and those that
\* came or left while the thread was starting.
ListMatchesBus ==
  odd = {} /\ thread = "loop" /\ x[Ev] = Idle /\ added \cup removed = {} =>
    \A c \in Contexts, s \in Sessions \ (unseen \cup missed \cup failed) :
      x[c].at = "in" => listed[c][s] = (IF s \in bus THEN 1 ELSE 0)

\* The thread runs while a context is in use.
ThreadRuns == (\E c \in Contexts : x[c].at = "in") => thread = "loop"
=============================================================================
