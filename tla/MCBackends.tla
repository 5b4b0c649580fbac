----------------------------- MODULE MCBackends -----------------------------
(***************************************************************************)
(* One run for the parts of libusb's Windows and Darwin backends that keep *)
(* their state apart from each other: transfers, the resources that        *)
(* contexts share, the enumeration of devices, their session IDs and the   *)
(* clock; and, of DarwinBackend, the cache, the handles and the            *)
(* interfaces.  Each behaviour is one of the part that the initial state   *)
(* chooses.                                                                *)
(***************************************************************************)
EXTENDS Naturals, Sequences, FiniteSets, DarwinBackend

CONSTANTS MaxFds, MaxCalls, Contexts, MaxPlugs, MaxLists, None,
  Callers, MaxAsks, MaxClocks, MaxHashes

VARIABLES
  kind, dev, api, eps, claimed, auto, mine, fds, poll, x, flying, ready, cur,
  orphans, leaked, failed, calls,
  usage, res, sem, ctxs, present, plugs, obj, en, seen, held, lostRefs, lists,
  htab, filled, mutex, th, ids, met, hashes,
  clock, timer, told, msgs, asks, broken, wild, quit, clocks

Winusb == INSTANCE WinusbTransfers
Windows == INSTANCE WindowsDevices WITH
  Contexts <- {CHOOSE c \in Contexts : TRUE}, dev <- obj, leaked <- lostRefs
WindowsContexts == INSTANCE WindowsDevices WITH
  MaxLists <- 0, MaxPlugs <- 0, dev <- obj, leaked <- lostRefs

\* Two paths with one hash value, the third that of an entry in their walk.
Sessions == INSTANCE WindowsSessions WITH
  Paths <- {"a", "b", "c"}, HashOf <- [a |-> 1, b |-> 5, c |-> 4], Requested <- 4,
  Taken <- {{}, {2, 3, 5}}, Earlier <- "d",
  Threads <- Callers, MaxCalls <- MaxHashes, odd <- met, calls <- hashes
Clock == INSTANCE WindowsClock WITH ready <- told

winusbVars ==
  <<kind, dev, api, eps, claimed, auto, mine, fds, poll, x, flying, ready, cur,
    orphans, leaked, failed, calls>>
windowsVars ==
  <<usage, res, sem, ctxs, present, plugs, obj, en, seen, held, lostRefs, lists>>
sessionVars == <<htab, filled, mutex, th, ids, met, hashes>>
clockVars == <<clock, timer, told, msgs, asks, broken, wild, quit, clocks>>
commonVars == <<sessionVars, clockVars>>
windows == <<winusbVars, windowsVars, commonVars>>
vars == <<part, windows, darwin>>

Init ==
  /\ part \in {"transfers", "contexts", "devices", "sessions", "clock", "Ddevices", "Dhandles", "Dtransfers"}
  /\ Winusb!Init /\ (part # "transfers" => kind = "winusb")
  /\ Windows!Init
  /\ Sessions!Init /\ (part # "sessions" => filled = 0)
  /\ Clock!Init
  /\ DarwinInit

WinusbNext == part = "transfers" /\ Winusb!Next /\ UNCHANGED <<part, windowsVars, commonVars, darwin>>
WindowsNext ==
  /\ \/ part = "contexts" /\ WindowsContexts!Next
     \/ part = "devices" /\ Windows!Next
  /\ UNCHANGED <<part, winusbVars, commonVars, darwin>>
CommonNext ==
  /\ \/ part = "sessions" /\ Sessions!Next /\ UNCHANGED clockVars
     \/ part = "clock" /\ Clock!Next /\ UNCHANGED sessionVars
  /\ UNCHANGED <<part, winusbVars, windowsVars, darwin>>

Next == WinusbNext \/ WindowsNext \/ CommonNext \/ (DarwinNext /\ UNCHANGED windows)

Spec == Init /\ [][Next]_vars

-----------------------------------------------------------------------------
\* A descriptor of the poll table leads to the transfer it was made for, no entry
\* of the table outlives its transfer, and what control transfers claimed for
\* themselves is released with the last.
FdNamesItsTransfer ==
  part = "transfers" =>
    Winusb!TypeOK /\ Winusb!FdNamesItsTransfer /\ Winusb!FdTableExact /\ Winusb!AutoClaimsEnd

\* "we must increment its autoclaim count so that we can prevent an early release"
NoEarlyRelease == Winusb!NoEarlyRelease

\* A device object of Windows has the references of its holders, a listed one is
\* complete, and session IDs tell devices apart; the shared resources live exactly
\* as long as there are contexts; and the clock's thread answers who waits for it.
HoldersExact ==
  /\ part = "devices" => Windows!TypeOK /\ Windows!RefsExact /\ Windows!ListedComplete
  /\ part = "contexts" => WindowsContexts!TypeOK /\ WindowsContexts!ResourcesShared
  /\ part = "sessions" =>
       Sessions!TypeOK /\ Sessions!SessionIdsUnique /\ Sessions!EntriesCounted
  /\ part = "clock" => Clock!TypeOK /\ Clock!WaitersServed /\ Clock!RequestsLive
=============================================================================
