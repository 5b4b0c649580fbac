--------------------------- MODULE DarwinBackend ---------------------------
(***************************************************************************)
(* The parts of libusb's Darwin backend that keep their state apart from   *)
(* each other: the cache of devices and the event thread, the probe of a   *)
(* device and its handles, and an interface with its transfers.  Each      *)
(* behaviour is one of the part that the initial state chooses.            *)
(***************************************************************************)
EXTENDS Naturals, FiniteSets

CONSTANTS DContexts, MaxSessions, MaxInits, Handles, MaxOpens, Interfaces, Transfers, MaxIfCalls

ASSUME DarwinAssumption ==
  IsFiniteSet(Handles) /\ MaxOpens \in Nat /\ MaxIfCalls \in Nat

\* What stands for the event thread and for a lock that is free is no context.
ASSUME DarwinDevicesAssumption ==
  /\ IsFiniteSet(DContexts) /\ {"event thread", "free"} \cap DContexts = {}
  /\ MaxSessions \in Nat /\ MaxInits \in Nat

VARIABLES
  part,  \* "Ddevices", "Dhandles", "Dtransfers", or a part of another backend
  bus, dplugs, added, removed, rc, good, count, thread, active, inits, lock, at,
  listed, dheld, gone, unseen, missed, dfailed, odd,
  probe, seized, suspended, before, awake, open_count, h, sources, stuck, opens,
  configured, dclaimed, ifc, dx, twice, silent, dcalls

DDevices == INSTANCE DarwinDevices WITH
  Contexts <- DContexts, MaxPlugs <- MaxSessions, plugs <- dplugs, x <- at, held <- dheld, failed <- dfailed
DHandles == INSTANCE DarwinHandles WITH leaked <- stuck
DTransfers == INSTANCE DarwinTransfers WITH
  MaxCalls <- MaxIfCalls, claimed <- dclaimed, x <- dx, calls <- dcalls

dDevicesVars ==
  <<bus, dplugs, added, removed, rc, good, count, thread, active, inits, lock, at,
    listed, dheld, gone, unseen, missed, dfailed, odd>>
dHandlesVars == <<probe, seized, suspended, before, awake, open_count, h, sources, stuck, opens>>
dTransfersVars == <<configured, dclaimed, ifc, dx, twice, silent, dcalls>>
darwin == <<dDevicesVars, dHandlesVars, dTransfersVars>>

DarwinInit ==
  /\ DDevices!Init
  /\ DHandles!Init /\ (part # "Dhandles" => ~suspended)
  /\ DTransfers!Init /\ (part # "Dtransfers" => ~configured)

DarwinNext ==
  /\ \/ part = "Ddevices" /\ DDevices!Next /\ UNCHANGED <<dHandlesVars, dTransfersVars>>
     \/ part = "Dhandles" /\ DHandles!Next /\ UNCHANGED <<dDevicesVars, dTransfersVars>>
     \/ part = "Dtransfers" /\ DTransfers!Next /\ UNCHANGED <<dDevicesVars, dHandlesVars>>
  /\ UNCHANGED part

DarwinSpec == DarwinInit /\ [][DarwinNext]_<<part, darwin>>

-----------------------------------------------------------------------------
\* The cached devices of Darwin live as long as they are needed, the lists follow
\* the bus, and the event thread runs while a context is in use.
CacheExact ==
  part = "Ddevices" =>
    DDevices!TypeOK /\ DDevices!CacheExact /\ DDevices!ListMatchesBus /\ DDevices!ThreadRuns

\* A device is left as it was found, and open as long as handles are.
OpenedForHandles ==
  part = "Dhandles" => DHandles!TypeOK /\ DHandles!ProbeRestores /\ DHandles!OpenedForHandles

\* Transfers are let through to open interfaces only, can end, and end with a
\* status that has a cause.
EndpointsUsable ==
  part = "Dtransfers" =>
    /\ DTransfers!TypeOK
    /\ DTransfers!EndpointsUsable /\ DTransfers!TransfersEnd /\ DTransfers!StatusHasCause
=============================================================================
