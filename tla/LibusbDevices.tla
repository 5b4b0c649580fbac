--------------------------- MODULE LibusbDevices ---------------------------
(***************************************************************************)
(* Devices and hotplug of one libusb context on Linux: device objects and  *)
(* their reference counts, initial enumeration, the monitor thread, the    *)
(* hotplug messages and the callbacks (libusb/core.c, libusb/hotplug.c,    *)
(* libusb/os/linux_usbfs.c, linux_netlink.c and linux_udev.c).             *)
(*                                                                         *)
(* There is one bus address; a device that comes back is a new device      *)
(* object with the same session ID.  Three threads: the monitor, the       *)
(* user's, and the user's event thread.  What is done under                *)
(* linux_hotplug_lock is cut where the other threads can see it.           *)
(***************************************************************************)
EXTENDS Integers, Sequences, FiniteSets, SequencesExt, FiniteSetsExt

CONSTANTS
  Callbacks,   \* callback structures that can be registered
  MaxObjs,     \* bound on device objects made
  MaxPlugs,    \* bound on changes of the bus
  None

VARIABLES
  bus,      \* a device is plugged in
  plugs,    \* changes of the bus so far
  netlink,  \* events in the monitor's socket
  ctx,      \* stage of libusb_init()/libusb_exit()
  ref,      \* refcnt of each device object, 0 when it does not exist
  attached, \* dev->attached
  made,     \* objects made
  devs,     \* ctx->usb_devs
  msgs,     \* ctx->hotplug_msgs
  pipe,     \* the event pipe has a byte
  stray,    \* a byte was written before the pipe was there (history)
  lost,     \* objects that left without a message (history)
  skipped,  \* the device plugged in could not be initialised (history)
  hp,       \* what the holder of linux_hotplug_lock is doing
  cbs,      \* ctx->hotplug_cbs
  dying,    \* callbacks with needs_free
  usr,      \* the user's thread
  held,     \* device references the user holds by lists
  opened,   \* devices the user has open
  ev        \* the event thread

bussy == <<bus, plugs, netlink>>
objs == <<ref, attached, made>>
queue == <<msgs, pipe, stray, lost>>
user == <<usr, held, opened>>
vars == <<bussy, ctx, objs, devs, queue, skipped, hp, cbs, dying, user, ev>>

Objs == 1..MaxObjs
Free == [pc |-> "free", o |-> 0, by |-> "none"]
NoMsg == [event |-> "none", o |-> 0]
Sleeping == [pc |-> "poll", m |-> NoMsg, todo |-> <<>>]
AtRest == [pc |-> "rest", c |-> None, o |-> 0]

\* Stages in which the context is in active_contexts_list.
Listed == ctx \in {"listed", "monitor", "scanned", "lists", "ready", "failing"}
Monitoring ==
  ctx \in {"monitor", "scanned", "lists", "ready", "failing", "exiting"}

TypeOK ==
  /\ bus \in BOOLEAN /\ plugs \in 0..MaxPlugs
  /\ netlink \in Seq({"add", "remove"})
  /\ ctx \in {"none", "listed", "monitor", "scanned", "lists", "ready",
              "exiting", "failing"}
  /\ ref \in [Objs -> Nat] /\ attached \subseteq Objs /\ made \in 0..MaxObjs
  /\ devs \subseteq Objs /\ Cardinality(devs) <= 1
  /\ pipe \in BOOLEAN /\ stray \in BOOLEAN /\ lost \subseteq Objs
  /\ skipped \in BOOLEAN
  /\ ToSet(cbs) \subseteq Callbacks /\ IsInjective(cbs)
  /\ dying \subseteq ToSet(cbs)
  /\ held \subseteq Objs /\ opened \subseteq Objs

Init ==
  /\ bus \in BOOLEAN /\ plugs = 0 /\ netlink = <<>> /\ ctx = "none"
  /\ ref = [o \in Objs |-> 0] /\ attached = {} /\ made = 0
  /\ devs = {} /\ msgs = <<>> /\ pipe = FALSE /\ stray = FALSE
  /\ lost = {} /\ skipped = FALSE /\ hp = Free /\ cbs = <<>> /\ dying = {}
  /\ usr = AtRest /\ held = {} /\ opened = {} /\ ev = Sleeping

-----------------------------------------------------------------------------
(* Messages *)

\* usbi_hotplug_notification(): only the first pending event is signalled.
Notification(event, o) ==
  /\ msgs' = Append(msgs, [event |-> event, o |-> o])
  /\ IF msgs # <<>> THEN UNCHANGED <<pipe, stray>>
     ELSE IF ctx = "ready" THEN pipe' = TRUE /\ UNCHANGED stray
     ELSE stray' = TRUE /\ UNCHANGED pipe
  /\ UNCHANGED lost

\* The hotplug message list is ready from usbi_io_init() on.
NotifyWhenReady(event, o) ==
  IF ctx \in {"lists", "ready", "failing"} THEN Notification(event, o)
  ELSE /\ lost' = IF event = "left" THEN lost \cup {o} ELSE lost
       /\ UNCHANGED <<msgs, pipe, stray>>

Unref(r, o) == [r EXCEPT ![o] = @ - 1]

-----------------------------------------------------------------------------
(* linux_hotplug_lock: enumeration and disconnection *)

\* usbi_alloc_device(): a new object with one reference.
NewDevice(t) ==
  /\ made < MaxObjs /\ made' = made + 1
  /\ ref' = [ref EXCEPT ![made + 1] = 1]
  /\ hp' = [pc |-> "connect", o |-> made + 1, by |-> t]
  /\ skipped' = FALSE

\* initialize_device() or usbi_sanitize_device() fails, and the object goes.
Rejected == hp' = Free /\ skipped' = TRUE /\ UNCHANGED <<ref, made>>

\* linux_enumerate_device(): nothing to do when the session ID is known.
Enumerate(t) ==
  \/ devs # {} /\ hp' = Free /\ UNCHANGED <<ref, made, skipped>>
  \/ devs = {} /\ NewDevice(t)
  \/ devs = {} /\ Rejected

\* usbi_connect_device(): on the list ...
Connect ==
  /\ hp.pc = "connect"
  /\ attached' = attached \cup {hp.o} /\ devs' = devs \cup {hp.o}
  /\ hp' = [hp EXCEPT !.pc = "arrived"]
  /\ UNCHANGED <<bussy, ctx, ref, made, queue, skipped, cbs, dying, user, ev>>

\* ... and, once messages can be sent, announced.
Arrived ==
  /\ hp.pc = "arrived"
  /\ NotifyWhenReady("arrived", hp.o)
  /\ hp' = Free
  /\ UNCHANGED <<bussy, ctx, objs, devs, skipped, cbs, dying, user, ev>>

\* linux_device_disconnected(): the reference taken by the look-up and the
\* one of the list, which passes to the message.
Disconnect(t) ==
  IF devs = {} THEN hp' = Free /\ UNCHANGED <<ref, attached, devs>>
  ELSE LET o == CHOOSE d \in devs : TRUE
       IN /\ ref' = [ref EXCEPT ![o] = @ + 1]
          /\ attached' = attached \ {o} /\ devs' = devs \ {o}
          /\ hp' = [pc |-> "left", o |-> o, by |-> t]

\* usbi_disconnect_device() announces it; then the look-up's reference goes.
Left ==
  /\ hp.pc = "left"
  /\ NotifyWhenReady("left", hp.o)
  /\ ref' = Unref(ref, hp.o)
  /\ hp' = Free
  /\ UNCHANGED <<bussy, ctx, attached, made, devs, skipped, cbs, dying, user, ev>>

\* linux_netlink_parse(): what the next message of the socket says.
NextEvent == Head(netlink)

\* linux_netlink_read_message(), udev_hotplug_event(): one event of the
\* socket, to every active context.
Read(t) ==
  /\ hp = Free /\ netlink # <<>>
  /\ netlink' = Tail(netlink)
  /\ IF ~Listed THEN UNCHANGED <<objs, devs, skipped, hp>>
     ELSE \/ /\ NextEvent = "add"
             /\ Enumerate(t)
             /\ UNCHANGED <<attached, devs>>
          \/ /\ NextEvent = "remove"
             /\ Disconnect(t)
             /\ UNCHANGED <<made, skipped>>
  /\ UNCHANGED <<bus, plugs, ctx, queue, cbs, dying, user, ev>>

Monitor == Monitoring /\ Read("monitor")

\* The bus changes; the socket tells whoever listens.
Plug ==
  /\ plugs < MaxPlugs /\ plugs' = plugs + 1
  /\ bus' = ~bus
  /\ netlink' = IF Monitoring THEN Append(netlink, IF bus THEN "remove" ELSE "add")
                ELSE netlink
  /\ UNCHANGED <<ctx, objs, devs, queue, skipped, hp, cbs, dying, user, ev>>

-----------------------------------------------------------------------------
(* libusb_init() and libusb_exit() *)

\* The context is listed; op_init() starts the monitor, or fails to.
InitStart ==
  /\ ctx = "none" /\ usr = AtRest /\ held = {} /\ opened = {}
  /\ ctx' = "listed"
  /\ UNCHANGED <<bussy, objs, devs, queue, skipped, hp, cbs, dying, user, ev>>

StartMonitor ==
  /\ ctx = "listed"
  /\ ctx' \in {"monitor", "none"} /\ netlink' = <<>>
  /\ UNCHANGED <<bus, plugs, objs, devs, queue, skipped, hp, cbs, dying, user, ev>>

\* linux_scan_devices(): under linux_hotplug_lock, what is on the bus; it may
\* fail, with or without a device enumerated.
Scan ==
  /\ ctx = "monitor" /\ hp = Free
  /\ ctx' \in {"scanned", "failing"}
  /\ IF bus THEN Enumerate("user") ELSE UNCHANGED <<ref, made, skipped, hp>>
  /\ UNCHANGED <<bussy, attached, devs, queue, cbs, dying, user, ev>>

\* usbi_io_init(): first the lists, then the event pipe.
IoInitLists ==
  /\ ctx = "scanned" /\ hp.by # "user"
  /\ ctx' = "lists"
  /\ UNCHANGED <<bussy, objs, devs, queue, skipped, hp, cbs, dying, user, ev>>

IoInitPipe ==
  /\ ctx = "lists"
  /\ ctx' \in {"ready", "failing"}
  /\ UNCHANGED <<bussy, objs, devs, queue, skipped, hp, cbs, dying, user, ev>>

\* The devices whose removal is in a message.
Gone == {m.o : m \in {n \in ToSet(msgs) : n.event = "left"}}

\* Give up what usb_devs and the pending messages refer to.
DropAll ==
     /\ ref' = [o \in Objs |-> ref[o] - (IF o \in devs THEN 1 ELSE 0)
                                      - (IF o \in Gone THEN 1 ELSE 0)]
     /\ devs' = {} /\ msgs' = <<>> /\ pipe' = FALSE

\* libusb_exit(), with the event thread stopped and every device closed: leave
\* the list of contexts, for which the monitor must be done with it ...
ExitStart ==
  /\ ctx = "ready" /\ usr = AtRest /\ opened = {} /\ ev.pc = "poll"
  /\ hp = Free
  /\ ctx' = "exiting"
  /\ UNCHANGED <<bussy, objs, devs, queue, skipped, hp, cbs, dying, user, ev>>

\* ... drop the callbacks, handle the pending messages, drop the devices, and
\* stop the monitor with the last context.
ExitEnd ==
  /\ ctx = "exiting" /\ hp = Free
  /\ ctx' = "none" /\ netlink' = <<>>
  /\ cbs' = <<>> /\ dying' = {}
  /\ DropAll /\ stray' = FALSE /\ UNCHANGED lost
  /\ UNCHANGED <<bus, plugs, attached, made, skipped, hp, user, ev>>

\* The error path of libusb_init(): the messages are forgotten.
InitFails ==
  /\ ctx = "failing" /\ hp = Free
  /\ ctx' = "none" /\ netlink' = <<>>
  /\ ref' = [o \in Objs |-> ref[o] - (IF o \in devs THEN 1 ELSE 0)]
  /\ devs' = {} /\ msgs' = <<>> /\ stray' = FALSE /\ lost' = lost \cup Gone
  /\ UNCHANGED <<bus, plugs, attached, made, pipe, skipped, hp, cbs, dying, user, ev>>

-----------------------------------------------------------------------------
(* The user's calls *)

\* libusb_get_device_list(): after the socket was emptied (hotplug_poll), a
\* reference to every device of the list.
HotplugPoll ==
  /\ ctx = "ready" /\ usr.pc \in {"rest", "enumerate"} /\ held = {}
  /\ Read("user")

TakeList(then) ==
  /\ hp.by # "user" /\ netlink = <<>> /\ held = {}
  /\ ref' = [o \in Objs |-> ref[o] + (IF o \in devs THEN 1 ELSE 0)]
  /\ held' = devs /\ usr' = then
  /\ UNCHANGED <<bussy, ctx, attached, made, devs, queue, skipped, hp, cbs, dying, opened, ev>>

GetDeviceList == ctx = "ready" /\ usr = AtRest /\ devs # {} /\ TakeList(AtRest)

\* libusb_free_device_list()
FreeDeviceList ==
  /\ usr.pc \in {"rest", "enumerated"} /\ (held # {} \/ usr.pc = "enumerated")
  /\ ref' = [o \in Objs |-> ref[o] - (IF o \in held THEN 1 ELSE 0)]
  /\ held' = {} /\ usr' = AtRest
  /\ UNCHANGED <<bussy, ctx, attached, made, devs, queue, skipped, hp, cbs, dying, opened, ev>>

\* libusb_open() of a device of a list: it must be attached; the file it opens
\* is the one of its address, whatever is plugged in now.
Open(o) ==
  /\ ctx = "ready" /\ usr = AtRest /\ o \in held \ opened /\ o \in attached
  /\ ref' = [ref EXCEPT ![o] = @ + 1]
  /\ IF bus THEN opened' = opened \cup {o} /\ UNCHANGED usr
            ELSE usr' = [AtRest EXCEPT !.pc = "opening", !.o = o] /\ UNCHANGED opened
  /\ UNCHANGED <<bussy, ctx, attached, made, devs, queue, skipped, hp, cbs, dying, held, ev>>

\* Mutant: without linux_hotplug_lock.
OpenFailsMutant ==
  /\ usr.pc = "opening" /\ hp = Free
  /\ hp' = [pc |-> "left", o |-> usr.o, by |-> "user"]
  /\ ref' = [ref EXCEPT ![usr.o] = @ + 1]
  /\ attached' = attached \ {usr.o} /\ devs' = devs \ {usr.o}
  /\ usr' = [usr EXCEPT !.pc = "unopened"]
  /\ UNCHANGED <<bussy, ctx, made, queue, skipped, cbs, dying, held, opened, ev>>

\* op_open() found no device: if the monitor has not seen the removal yet, it
\* is handled here, under the monitor's lock.
OpenFails ==
  /\ usr.pc = "opening" /\ hp = Free
  /\ IF usr.o \in attached THEN Disconnect("user")
                           ELSE UNCHANGED <<ref, attached, devs, hp>>
  /\ usr' = [usr EXCEPT !.pc = "unopened"]
  /\ UNCHANGED <<bussy, ctx, made, queue, skipped, cbs, dying, held, opened, ev>>

OpenReturns ==
  /\ usr.pc = "unopened" /\ hp.by # "user"
  /\ ref' = Unref(ref, usr.o)
  /\ usr' = AtRest
  /\ UNCHANGED <<bussy, ctx, attached, made, devs, queue, skipped, hp, cbs, dying, held, opened, ev>>

\* do_close()
Close(o) ==
  /\ o \in opened /\ usr = AtRest
  /\ opened' = opened \ {o} /\ ref' = Unref(ref, o)
  /\ UNCHANGED <<bussy, ctx, attached, made, devs, queue, skipped, hp, cbs, dying, usr, held, ev>>

\* libusb_hotplug_register_callback(): at the head of the list; with
\* LIBUSB_HOTPLUG_ENUMERATE the devices known are then reported.
Register(c) ==
  /\ ctx = "ready" /\ usr = AtRest /\ held = {}
  /\ c \notin ToSet(cbs)
  /\ cbs' = <<c>> \o cbs
  /\ usr' \in {AtRest, [AtRest EXCEPT !.pc = "enumerate", !.c = c]}
  /\ UNCHANGED <<bussy, ctx, objs, devs, queue, skipped, hp, dying, held, opened, ev>>

RegisterEnumerate ==
  usr.pc = "enumerate" /\ TakeList([usr EXCEPT !.pc = "enumerated"])

\* Mutant: no message.
DeregisterMutant(c) ==
  /\ ctx = "ready" /\ usr = AtRest /\ c \in ToSet(cbs) \ dying
  /\ dying' = dying \cup {c}
  /\ UNCHANGED queue
  /\ UNCHANGED <<bussy, ctx, objs, devs, skipped, hp, cbs, user, ev>>

\* libusb_hotplug_deregister_callback(): marked, and a message so that the
\* event thread frees it.
Deregister(c) ==
  /\ ctx = "ready" /\ usr = AtRest /\ c \in ToSet(cbs) \ dying
  /\ dying' = dying \cup {c}
  /\ Notification("none", 0)
  /\ UNCHANGED <<bussy, ctx, objs, devs, skipped, hp, cbs, user, ev>>

-----------------------------------------------------------------------------
(* The event thread *)

\* The event pipe has a byte: take one message, clear the pipe with the last.
Fish ==
  /\ ctx = "ready" /\ ev.pc = "poll" /\ pipe /\ msgs # <<>>
  /\ ev' = [Sleeping EXCEPT !.pc = "message", !.m = Head(msgs)]
  /\ msgs' = Tail(msgs) /\ pipe' = (msgs' # <<>>)
  /\ UNCHANGED <<bussy, ctx, objs, devs, stray, lost, skipped, hp, cbs, dying, user>>

\* usbi_hotplug_match() goes over the list as it is when it starts: a callback
\* registered meanwhile is put before the first, and only this thread frees.
MatchStart ==
  /\ ev.pc = "message"
  /\ ev' = [ev EXCEPT !.pc = "match", !.todo = cbs]
  /\ UNCHANGED <<bussy, ctx, objs, devs, queue, skipped, hp, cbs, dying, user>>

\* One callback, called without the lock.  It is freed when it is to be
\* deregistered or returns 1.  One that is still being registered returns 0:
\* the registering thread goes on using it.
Match ==
  LET c == Head(ev.todo)
  IN /\ ev.pc = "match" /\ ev.todo # <<>>
     /\ ev' = [ev EXCEPT !.todo = Tail(@)]
     /\ \/ /\ c \in dying \/ (ev.m.event # "none" /\ c # usr.c)
           /\ \E k \in DOMAIN cbs : cbs[k] = c /\ cbs' = RemoveAt(cbs, k)
           /\ dying' = dying \ {c}
        \/ c \notin dying /\ UNCHANGED <<cbs, dying>>
     /\ UNCHANGED <<bussy, ctx, objs, devs, queue, skipped, hp, user>>

\* Mutant: the reference of the message is kept.
MatchedMutant ==
  /\ ev.pc = "match" /\ ev.todo = <<>>
  /\ ev' = Sleeping
  /\ UNCHANGED <<bussy, ctx, objs, devs, queue, skipped, hp, cbs, dying, user>>

\* The message of a device that left holds the reference the list had.
Matched ==
  /\ ev.pc = "match" /\ ev.todo = <<>>
  /\ ref' = IF ev.m.event = "left" THEN Unref(ref, ev.m.o) ELSE ref
  /\ ev' = Sleeping
  /\ UNCHANGED <<bussy, ctx, attached, made, devs, queue, skipped, hp, cbs, dying, user>>

-----------------------------------------------------------------------------
HotplugStep == Connect \/ Arrived \/ Left

UserStep ==
  \/ InitStart \/ StartMonitor \/ Scan \/ IoInitLists \/ IoInitPipe
  \/ InitFails \/ ExitStart \/ ExitEnd
  \/ HotplugPoll \/ GetDeviceList \/ FreeDeviceList \/ RegisterEnumerate
  \/ OpenFails \/ OpenReturns
  \/ \E o \in Objs : Open(o) \/ Close(o)
  \/ \E c \in Callbacks : Register(c) \/ Deregister(c)

EventStep == Fish \/ MatchStart \/ Match \/ Matched

Next == Monitor \/ HotplugStep \/ UserStep \/ EventStep \/ Plug

Spec == Init /\ [][Next]_vars

\* The three threads are scheduled; nothing is assumed of the bus or of new
\* calls of the user.
FairSpec ==
  /\ Spec /\ WF_vars(EventStep) /\ WF_vars(HotplugStep) /\ WF_vars(Monitor)

-----------------------------------------------------------------------------
Count(b) == IF b THEN 1 ELSE 0

\* Who refers to object o: the list, a message of its removal, waiting or
\* being handled, the user's list and handle, the call that looked it up.
Holders(o) ==
  Count(o \in devs)
    + Cardinality({k \in 1..Len(msgs) : msgs[k] = [event |-> "left", o |-> o]})
    + Count(ev.m = [event |-> "left", o |-> o])
    + Count(o \in held) + Count(o \in opened)
    + Count(usr.pc \in {"opening", "unopened"} /\ usr.o = o)
    + Count(hp.pc = "connect" /\ hp.o = o) + 2 * Count(hp.pc = "left" /\ hp.o = o)

\* A device object lives exactly as long as somebody refers to it, except for
\* those that leave before the context can queue a message.
RefsExact == \A o \in Objs : ref[o] = Holders(o) + Count(o \in lost)

\* A message names a device object that still exists: the one of an arrival
\* holds no reference of its own and lives on the list or on a later message.
MessagesLive ==
  \A m \in ToSet(msgs) \cup {ev.m} : m.event # "none" => ref[m.o] > 0

\* Arrivals and removals alternate in the queue, so that no callback hears of
\* an arrival twice in a row from the event thread.
MessagesAlternate ==
  \A j, k \in 1..Len(msgs) :
    /\ j < k /\ msgs[j].event # "none" /\ msgs[k].event # "none"
    /\ \A i \in (j + 1)..(k - 1) : msgs[i].event = "none"
    => msgs[j].event # msgs[k].event

\* Once the socket is empty and the monitor idle, the list of the context is
\* what is on the bus.
ListMatchesBus ==
  ctx = "ready" /\ netlink = <<>> /\ hp = Free
    => (devs # {}) = (bus /\ ~skipped)

\* A message waits for the event thread with the pipe signalled, unless its
\* signal went astray.
MessagesSignalled == ctx = "ready" /\ msgs # <<>> => pipe \/ stray

\* As long as the context stays, a device that left is let go of and a
\* callback that was deregistered is freed, however the user goes on.
Leaving(o) == ctx = "ready" /\ [event |-> "left", o |-> o] \in ToSet(msgs)

Deregistering(c) == ctx = "ready" /\ c \in dying

MessagesHandled ==
  /\ \A o \in Objs : Leaving(o) ~> ~Leaving(o) \/ stray
  /\ \A c \in Callbacks : Deregistering(c) ~> ~Deregistering(c) \/ stray
=============================================================================
