--------------------------- MODULE WindowsDevices ---------------------------
(***************************************************************************)
(* The Windows backend of libusb: windows_init() and windows_exit() with   *)
(* the resources all contexts share, and windows_get_device_list(), which  *)
(* goes over what Windows lists in five passes and keeps a tree of device  *)
(* objects by reference counts (os/windows_winusb.c).                      *)
(*                                                                         *)
(* The bus is a chain: a host controller, its root hub, a hub, a device    *)
(* and an interface of the device.  Hub, device and interface come and go  *)
(* at any time, also while they are being enumerated.  A node has one      *)
(* session ID, and so at most one object.                                  *)
(***************************************************************************)
EXTENDS Naturals, Sequences, FiniteSetsExt, SequencesExt

CONSTANTS
  Contexts,
  MaxPlugs,   \* bound on changes of the bus
  MaxLists,   \* bound on enumerations
  None

VARIABLES
  usage,      \* concurrent_usage + 1
  res,        \* the shared resources that exist
  sem,        \* holder of the semaphore libusb_init<pid>, with its next step
  ctxs,       \* contexts initialised
  present,    \* what is on the bus
  plugs,
  dev,        \* the device objects
  en,         \* the enumeration under way
  seen,       \* discdevs: what it found so far
  held,       \* references of the application, through its lists
  leaked,     \* references that failed enumerations left (history)
  lists

shared == <<usage, res, sem, ctxs>>
bus == <<present, plugs>>
vars == <<shared, bus, dev, en, seen, held, leaked, lists>>

Chain == <<"hcd", "root", "hub", "device">>
Nodes == ToSet(Chain)
Hubs == {"hcd", "root", "hub"}
Level(n) == CHOOSE k \in DOMAIN Chain : Chain[k] = n

Stages == <<"autoclaim_lock", "polling", "dlls", "clock", "htab">>

NoDev == [ref |-> 0, parent |-> None, path |-> FALSE, addr |-> FALSE, bus |-> FALSE,
          api |-> FALSE]
Resting == [pass |-> "rest", todo |-> {}, unref |-> <<>>, ok |-> TRUE]

TypeOK ==
  /\ usage \in 0..(Cardinality(Contexts) + 1) /\ res \subseteq ToSet(Stages)
  /\ ctxs \subseteq Contexts
  /\ present \subseteq Nodes \cup {"interface"} /\ plugs \in 0..MaxPlugs
  /\ dev \in [Nodes -> [ref : Nat, parent : Nodes \cup {None}, path : BOOLEAN,
                        addr : BOOLEAN, bus : BOOLEAN, api : BOOLEAN]]
  /\ en.pass \in {"rest", "HCD", "HUB", "GEN", "DEV", "HID", "unref"}
  /\ ToSet(en.unref) \subseteq Nodes
  /\ seen \subseteq Nodes /\ held \in [Nodes -> 0..MaxLists]
  /\ leaked \in [Nodes -> Nat] /\ lists \in 0..MaxLists

Init ==
  /\ usage = 0 /\ res = {} /\ sem = None /\ ctxs = {}
  /\ present = Nodes \cup {"interface"} /\ plugs = 0
  /\ dev = [n \in Nodes |-> NoDev] /\ en = Resting /\ seen = {} /\ held = [n \in Nodes |-> 0]
  /\ leaked = [n \in Nodes |-> 0] /\ lists = 0

-----------------------------------------------------------------------------
(* windows_init() and windows_exit(), under the semaphore *)

rest == <<bus, dev, en, seen, held, leaked, lists>>

\* ++concurrent_usage; only the first caller goes on to initialise.
InitEnter(c) ==
  /\ sem = None /\ c \notin ctxs
  /\ usage' = usage + 1
  /\ IF usage = 0 THEN sem' = [c |-> c, at |-> 1] /\ UNCHANGED ctxs
                  ELSE ctxs' = ctxs \cup {c} /\ UNCHANGED sem
  /\ UNCHANGED <<res, rest>>

\* init_polling(), init_dlls(), windows_init_clock(), htab_create().
InitStage ==
  /\ sem # None
  /\ res' = res \cup {Stages[sem.at]}
  /\ IF sem.at < Len(Stages)
       THEN sem' = [sem EXCEPT !.at = @ + 1] /\ UNCHANGED ctxs
       ELSE sem' = None /\ ctxs' = ctxs \cup {sem.c}
  /\ UNCHANGED <<usage, rest>>

\* init_exit: an unsupported version of Windows, or a resource that cannot be
\* had: all are given up, and the call is not counted.
InitFails ==
  /\ sem # None
  /\ Stages[sem.at] # "polling"
  /\ res' = {} /\ usage' = usage - 1 /\ sem' = None
  /\ UNCHANGED <<ctxs, rest>>

\* windows_exit() of a context whose devices the application has given up.
Exit(c) ==
  /\ sem = None /\ c \in ctxs /\ en = Resting /\ \A n \in Nodes : held[n] = 0
  /\ ctxs' = ctxs \ {c} /\ usage' = usage - 1
  /\ res' = IF usage = 1 THEN {} ELSE res
  /\ UNCHANGED <<sem, rest>>

-----------------------------------------------------------------------------
(* References *)

Ref(d, n) == [d EXCEPT ![n].ref = @ + 1]

\* libusb_unref_device(): with the last reference the device is taken off the
\* list of the context, and its parent, which is nearer to the host, loses one.
Drop(s, n) ==
  IF s.next # n THEN s
  ELSE IF s.dev[n].ref > 1 THEN [dev |-> [s.dev EXCEPT ![n].ref = @ - 1], next |-> None]
  ELSE [dev |-> [s.dev EXCEPT ![n] = NoDev], next |-> s.dev[n].parent]

Unref(d, n) == FoldLeft(Drop, [dev |-> d, next |-> n], Reverse(Chain)).dev

\* get_ancestor_session_id() and usbi_get_device_by_session_id(): the nearest
\* ancestor that has an object.
Ancestor(level) ==
  LET known == {k \in 1..(level - 1) : dev[Chain[k]].ref > 0}
  IN IF known = {} THEN None ELSE Chain[Max(known)]

-----------------------------------------------------------------------------
(* windows_get_device_list() *)

Enumerating(pass) == en.pass = pass

\* What Windows lists in a pass; a hub is listed as one only with its driver.
Listed(pass) ==
  CASE pass = "HCD" -> {"hcd"}
    [] pass = "HUB" -> {"root", "hub"} \cap present
    [] pass = "GEN" -> {"root", "hub", "device"} \cap present
    [] pass = "DEV" -> {"device"} \cap present
    [] pass = "HID" -> {"interface"} \cap present

GetDeviceList ==
  /\ ctxs # {} /\ en = Resting /\ lists < MaxLists
  /\ en' = [Resting EXCEPT !.pass = "HCD", !.todo = Listed("HCD")]
  /\ seen' = {} /\ lists' = lists + 1
  /\ UNCHANGED <<shared, bus, dev, held, leaked>>

After == [HCD |-> "HUB", HUB |-> "GEN", GEN |-> "DEV", DEV |-> "HID", HID |-> "unref"]

\* The pass is over, or was broken off by an error; or some entry of it is
\* skipped, since its path, its port or its driver's state cannot be read.
NextPass ==
  /\ en.pass \in DOMAIN After
  /\ IF ~en.ok THEN en' = [en EXCEPT !.pass = "unref", !.todo = {}]
     ELSE IF en.todo = {}
       THEN LET p == After[en.pass]
            IN en' = [en EXCEPT !.pass = p,
                                !.todo = IF p = "unref" THEN {} ELSE Listed(p)]
       ELSE \E n \in en.todo : en' = [en EXCEPT !.todo = @ \ {n}]
  /\ UNCHANGED <<shared, bus, dev, seen, held, leaked, lists>>

Done(n, d, more) ==
  /\ dev' = d
  /\ en' = [en EXCEPT !.todo = @ \ {n}, !.unref = @ \o more]

\* The error paths break the loop off; GEN_PASS has a reference to the parent
\* then, which nobody drops.
Broken(n, d, more, parent) ==
  /\ dev' = d
  /\ en' = [en EXCEPT !.ok = FALSE, !.unref = @ \o more]
  /\ leaked' = IF parent = None THEN leaked ELSE [leaked EXCEPT ![parent] = @ + 1]

\* The object of a node, allocated when it has none, with a reference for
\* unref_list.
Object(d, n) == IF d[n].ref > 0 THEN Ref(d, n) ELSE [d EXCEPT ![n] = [NoDev EXCEPT !.ref = 1]]

\* HCD_PASS and HUB_PASS: the path and the API of a new object are set.
HubPass(n) ==
  /\ en.pass \in {"HCD", "HUB"} /\ en.ok /\ n \in en.todo
  /\ \/ /\ Done(n, [Object(dev, n) EXCEPT
                      ![n].path = TRUE, ![n].api = TRUE, ![n].bus = @ \/ n = "hcd"],
                <<n>>)
        /\ UNCHANGED leaked
     \/ dev[n].ref = 0 /\ Broken(n, dev, <<>>, None)
  /\ UNCHANGED <<shared, bus, seen, held, lists>>

\* init_device(): the bus number comes from the parent, or from any ancestor.
BusKnown(d, n) == \E k \in 1..(Level(n) - 1) : d[Chain[k]].ref > 0 /\ d[Chain[k]].bus

\* Mutant: the reference to a parent the device has already is kept.
AdoptedMutant(d, n, p) ==
  IF d[n].parent = None THEN [Ref(d, p) EXCEPT ![n].parent = p]
  ELSE IF d[n].parent = p THEN Ref(d, p)
  ELSE [Unref(Ref(d, p), d[n].parent) EXCEPT ![n].parent = p]

\* The parent of an existing device: the same, or a nearer one than the one
\* known when it was first seen.  One reference per child.
Adopted(d, n, p) ==
  IF d[n].parent = None THEN [Ref(d, p) EXCEPT ![n].parent = p]
  ELSE IF d[n].parent = p THEN d
  ELSE [Unref(Ref(d, p), d[n].parent) EXCEPT ![n].parent = p]

\* GEN_PASS: find the parent, which must be a hub, and the device or a new
\* object for it; initialise it and put it on the list.
GenPass(n) ==
  LET p == Ancestor(Level(n))
      o == Object(dev, n)
      a == Adopted(o, n, p)
      bused == [k \in Nodes |-> IF k \in {n, p} THEN [a[k] EXCEPT !.bus = TRUE] ELSE a[k]]
  IN /\ Enumerating("GEN") /\ en.ok /\ n \in en.todo
     /\ IF p = None \/ ~dev[p].api
          THEN Done(n, dev, <<>>) /\ UNCHANGED <<seen, leaked>>
        ELSE \/ /\ BusKnown(dev, n)
                /\ Done(n, [bused EXCEPT ![n].addr = TRUE], <<n>>)
                /\ seen' = seen \cup {n} /\ UNCHANGED leaked
             \/ /\ BusKnown(dev, n) /\ ~dev[n].addr     \* the hub says: no device
                /\ Done(n, bused, <<n>>)
                /\ UNCHANGED <<seen, leaked>>
             \/ /\ BusKnown(dev, n) /\ ~dev[n].addr     \* the hub cannot be opened
                /\ Broken(n, bused, <<n>>, None)
                /\ UNCHANGED seen
             \/ /\ dev[n].ref = 0                       \* no memory
                /\ Broken(n, Ref(dev, p), <<>>, p)
                /\ UNCHANGED seen
             \/ /\ ~BusKnown(dev, n) /\ dev[n].parent = None
                /\ Broken(n, Ref(o, p), <<n>>, p)
                /\ UNCHANGED seen
  /\ UNCHANGED <<shared, bus, held, lists>>

\* DEV_PASS: the path and the driver; a device that only shows up now waits
\* for the next list.
DevPass(n) ==
  /\ Enumerating("DEV") /\ en.ok /\ n \in en.todo
  /\ \/ /\ IF dev[n].ref = 0 THEN Done(n, dev, <<>>)
           ELSE Done(n, [Ref(dev, n) EXCEPT ![n].path = TRUE], <<n>>)
        /\ UNCHANGED leaked
     \/ dev[n].ref > 0 /\ Broken(n, [Ref(dev, n) EXCEPT ![n].path = TRUE], <<n>>, None)
  /\ UNCHANGED <<shared, bus, seen, held, lists>>

\* HID_PASS and later: the interface is set on its device.  A failure keeps
\* the reference to it.
HidPass ==
  LET p == Ancestor(Len(Chain) + 1)
  IN /\ Enumerating("HID") /\ en.ok /\ "interface" \in en.todo
     /\ \/ Done("interface", dev, <<>>) /\ UNCHANGED leaked
        \/ p = "device" /\ Broken("interface", Ref(dev, p), <<>>, p)
     /\ UNCHANGED <<shared, bus, seen, held, lists>>

\* discovered_devs_append() took a reference to each device found (counted
\* here); now those of unref_list go, and the list too after an error.
UnrefAll ==
  LET listed == FoldSet(LAMBDA n, d : Ref(d, n), dev, seen)
      dropped == FoldSeq(LAMBDA n, d : Unref(d, n), listed, en.unref)
  IN /\ en.pass = "unref"
     /\ IF en.ok THEN dev' = dropped /\ held' = [n \in Nodes |-> held[n] + (IF n \in seen THEN 1 ELSE 0)]
        ELSE dev' = FoldSet(LAMBDA n, d : Unref(d, n), dropped, seen) /\ UNCHANGED held
     /\ en' = Resting /\ seen' = {}
     /\ UNCHANGED <<shared, bus, leaked, lists>>

\* libusb_unref_device() by the application, or by libusb_free_device_list().
UnrefDevice(n) ==
  /\ en = Resting /\ held[n] > 0
  /\ held' = [held EXCEPT ![n] = @ - 1] /\ dev' = Unref(dev, n)
  /\ UNCHANGED <<shared, bus, en, seen, leaked, lists>>

\* Things are plugged in and out: with a hub goes what is behind it.
Plug ==
  /\ plugs < MaxPlugs /\ plugs' = plugs + 1
  /\ present' \in {Nodes \cup {"interface"}, Nodes, {"hcd", "root", "hub"}, {"hcd", "root"}}
                  \ {present}
  /\ UNCHANGED <<shared, dev, en, seen, held, leaked, lists>>

Next ==
  \/ \E c \in Contexts : InitEnter(c) \/ Exit(c)
  \/ InitStage \/ InitFails
  \/ GetDeviceList \/ NextPass \/ HidPass \/ UnrefAll
  \/ \E n \in Nodes : HubPass(n) \/ GenPass(n) \/ DevPass(n) \/ UnrefDevice(n)
  \/ Plug

Spec == Init /\ [][Next]_vars

-----------------------------------------------------------------------------
Children(n) == {k \in Nodes : dev[k].ref > 0 /\ dev[k].parent = n}
Uses(n) == Cardinality({k \in DOMAIN en.unref : en.unref[k] = n})

\* A device object has exactly the references of the application's list, of its
\* children and of the enumeration under way; what failed enumerations left is
\* all that is ever lost, and an object a parent pointer leads to is alive.
RefsExact ==
  \A n \in Nodes :
    /\ dev[n].ref = Cardinality(Children(n)) + Uses(n) + leaked[n] + held[n]
    /\ dev[n].parent # None => dev[dev[n].parent].ref > 0

\* A device on the application's list has a bus number, an address, and for a
\* parent an object nearer to the host than itself.
ListedComplete ==
  \A n \in {k \in Nodes : held[k] > 0} :
                  /\ dev[n].bus /\ dev[n].addr /\ dev[n].parent # None
                  /\ Level(dev[n].parent) < Level(n)

\* The shared resources exist for as long as a context does, and all of them,
\* however initialisations fail and contexts come and go.
ResourcesShared ==
  /\ ctxs # {} => res = ToSet(Stages)
  /\ sem = None => usage = Cardinality(ctxs) /\ (ctxs = {} => res = {})
=============================================================================
