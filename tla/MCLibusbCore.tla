---------------------------- MODULE MCLibusbCore ----------------------------
(***************************************************************************)
(* One run for the parts of libusb that keep their state apart from each   *)
(* other: the devices of a context, a device handle on a kernel with and   *)
(* without IOCTL_USBFS_DISCONNECT_CLAIM, the parser of descriptors,        *)
(* synchronous transfers and the udev monitor.  Each behaviour is one of   *)
(* the part that the initial state chooses.                                *)
(***************************************************************************)
EXTENDS Integers, Sequences, FiniteSets

CONSTANTS Callbacks, MaxObjs, MaxPlugs, Threads, Interfaces, None, MaxEndpoints, Counts,
  App, MaxSyncs, Addresses, MaxChanges, MaxStarts, MaxPolls

ASSUME HandleAssumption ==
  /\ IsFiniteSet(Interfaces) /\ Interfaces = 0..(Cardinality(Interfaces) - 1)
  /\ None \notin Threads

ASSUME DevicesAssumption == MaxObjs \in Nat /\ MaxPlugs \in Nat

ASSUME DescriptorsAssumption == MaxEndpoints \in Nat

ASSUME UdevAssumption ==
  /\ MaxChanges \in Nat /\ MaxStarts \in Nat /\ MaxPolls \in Nat
  /\ None \notin {"thread", "user"}

VARIABLES
  part,  \* "devices", "handle", "old handle", "descriptors", "sync" or "udev"
  bus, plugs, netlink, ctx, ref, attached, made, devs, msgs, pipe, stray, lost,
  skipped, hp, cbs, dying, usr, held, opened, ev,
  owner, claimed, auto, lock, th, present, stale,
  input, cut, claim, pos, entry, at, skip, ifs, live, short, dangling, refused,
  accepts, answers, asked, call, memory, completed, handling, result, dead, syncs,
  ports, changes, sock, parts, byte, thread, hlock, op, todo, known, unread, freed,
  starts, polls

Devices == INSTANCE LibusbDevices
Handle == INSTANCE LibusbHandle WITH OldKernel <- FALSE
OldHandle == INSTANCE LibusbHandle WITH OldKernel <- TRUE

\* A configuration and up to three of these descriptors, some of them too short
\* or with an endpoint too many; and capabilities likewise.
De(t, l, n, id) == [t |-> t, l |-> l, n |-> n, id |-> id]
If(n, id) == De("if", 9, n, id)
Kinds == {If(0, 0), If(1, 0), If(1, 1), If(2, 1), De("ep", 7, 0, 0), De("x", 3, 0, 0),
          De("if", 4, 0, 0), De("ep", 3, 0, 0), De("x", 1, 0, 0)}
CapKinds == {De("cap", 4, 0, 0), De("cap", 2, 0, 0), De("x", 3, 0, 0)}
UpTo(k, S) == UNION {[1..n -> S] : n \in 0..k}
DescriptorInputs ==
  {<<De("cfg", 9, 0, 0)>> \o q : q \in UpTo(3, Kinds)}
  \cup {<<De("bos", 5, 0, 0)>> \o q : q \in UpTo(2, CapKinds)}
  \cup {<<>>, <<De("x", 9, 0, 0)>>, <<De("cfg", 8, 0, 0), If(0, 0)>>, <<De("bos", 4, 0, 0), If(0, 0)>>}
Descriptors == INSTANCE LibusbDescriptors WITH skipped <- skip, Inputs <- DescriptorInputs

Sync == INSTANCE LibusbSync WITH Callers <- Threads
Udev == INSTANCE UdevMonitor

ASSUME SyncAssumption ==
  App \notin Threads /\ MaxSyncs \in Nat /\ None \notin Sync!Statuses \cup {"OTHER"}

devicesVars ==
  <<bus, plugs, netlink, ctx, ref, attached, made, devs, msgs, pipe, stray,
    lost, skipped, hp, cbs, dying, usr, held, opened, ev>>
handleVars == <<owner, claimed, auto, lock, th, present, stale>>
descVars == <<input, cut, claim, pos, entry, at, skip, ifs, live, short, dangling, refused>>
syncVars ==
  <<accepts, answers, asked, call, memory, completed, handling, result, dead, syncs>>
udevVars ==
  <<ports, changes, sock, parts, byte, thread, hlock, op, todo, known, unread, freed,
    starts, polls>>
moreVars == <<syncVars, udevVars>>
vars == <<part, devicesVars, handleVars, descVars, moreVars>>

Init ==
  /\ part \in {"devices", "handle", "old handle", "descriptors", "sync", "udev"}
  /\ Devices!Init /\ (part # "devices" => bus)
  /\ Handle!Init /\ (part \notin {"handle", "old handle"} => \A i \in Interfaces : owner[i] = "free")
  /\ Descriptors!Init /\ (part # "descriptors" => input = <<>> /\ cut = 0 /\ claim = 1)
  /\ Sync!Init
  /\ Udev!Init /\ (part # "udev" => ports = {})

DevicesNext ==
  part = "devices" /\ Devices!Next /\ UNCHANGED <<part, handleVars, descVars, moreVars>>

HandleNext ==
  /\ \/ part = "handle" /\ Handle!Next
     \/ part = "old handle" /\ OldHandle!Next
  /\ UNCHANGED <<part, devicesVars, descVars, moreVars>>

DescriptorsNext ==
  part = "descriptors" /\ Descriptors!Next /\ UNCHANGED <<part, devicesVars, handleVars, moreVars>>

SyncNext ==
  /\ part = "sync" /\ Sync!Next
  /\ UNCHANGED <<part, devicesVars, handleVars, descVars, udevVars>>

UdevNext ==
  /\ part = "udev" /\ Udev!Next
  /\ UNCHANGED <<part, devicesVars, handleVars, descVars, syncVars>>

Next == DevicesNext \/ HandleNext \/ DescriptorsNext \/ SyncNext \/ UdevNext

\* The fairness of Devices!FairSpec.
Spec ==
  /\ Init /\ [][Next]_vars
  /\ WF_vars(part = "devices" /\ Devices!EventStep /\ UNCHANGED <<part, handleVars, descVars, moreVars>>)
  /\ WF_vars(part = "devices" /\ Devices!HotplugStep /\ UNCHANGED <<part, handleVars, descVars, moreVars>>)
  /\ WF_vars(part = "devices" /\ Devices!Monitor /\ UNCHANGED <<part, handleVars, descVars, moreVars>>)

-----------------------------------------------------------------------------
\* The variables of the other parts stay in their types; a device object has exactly the
\* references its holders took, and a transfer lives as long as the synchronous
\* call that made it needs it.
RefsExact ==
  /\ Devices!TypeOK /\ Descriptors!TypeOK /\ Sync!TypeOK /\ Udev!TypeOK
  /\ Devices!RefsExact
  /\ Sync!TransfersOwned /\ Sync!WaitsEnd

\* Hotplug messages name devices that still exist, alternate between arrivals and
\* removals of a device, and have the event pipe signalled; and with the monitor
\* idle the list of the context is what is on the bus; also with udev, whose thread
\* has its monitor while it runs.
MessagesFollowBus ==
  /\ Devices!MessagesLive /\ Devices!MessagesAlternate /\ Devices!MessagesSignalled
  /\ Devices!ListMatchesBus
  /\ Udev!KnownMatchesBus /\ Udev!ThreadHasMonitor

\* Messages are handled and deregistered callbacks freed.
MessagesHandled == Devices!MessagesHandled

\* The variables of a handle stay in their types; no claim of the kernel's is
\* missing in the handle, and the handle's bits are claims of the kernel's, failed
\* resets apart.
ClaimsExact == Handle!TypeOK /\ Handle!ClaimsRecorded /\ Handle!BitsMeanClaims

\* Descriptors are parsed into what they describe, and what the parser allocated
\* is freed after an error and by the free functions.
DescriptorsParsed ==
  /\ Descriptors!EndpointsThere /\ Descriptors!WellFormedParsed
  /\ Descriptors!WellFormedAccepted /\ Descriptors!MemoryReleased
=============================================================================
