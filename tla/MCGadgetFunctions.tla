------------------------- MODULE MCGadgetFunctions -------------------------
(***************************************************************************)
(* One run for the parts of the gadget whose state is their own: the       *)
(* serial function, the other function drivers, the life of the platform   *)
(* devices, and the loopback function.  Each behaviour is one of the part  *)
(* that the initial state chooses; the others stay where they begin.       *)
(***************************************************************************)
EXTENDS SerialFunction

CONSTANTS MaxTransports, NumFunctions, MaxProbes, MaxRequests, MaxFunctions

ASSUME GroupAssumption ==
  /\ MaxTransports \in Nat \ {0} /\ NumFunctions \in Nat /\ MaxProbes \in Nat
  /\ MaxRequests \in Nat /\ MaxFunctions \in Nat

VARIABLES
  part,
  s, stage, ipa, driverNames,
  dt, list, count, class, udcs, fns, probes, shared, wild,
  lbBound, enabled, data, req, work, refcnt, qlen, used

Drivers ==
  INSTANCE GadgetFunctions WITH MaxNames <- MaxTransports, names <- driverNames
Lifecycle == INSTANCE AndroidLifecycle WITH bound <- udcs
Loopback == INSTANCE LoopbackFunction WITH bound <- lbBound

driverVars == <<s, stage, ipa, driverNames>>
lifeVars == <<dt, list, count, class, udcs, fns, probes, shared, wild>>
loopVars == <<lbBound, enabled, data, req, work, refcnt, qlen, used>>
allVars == <<part, vars, driverVars, lifeVars, loopVars>>

GroupInit ==
  /\ part \in {"serial", "drivers", "lifecycle", "loopback"}
  /\ Init
  /\ Drivers!Init /\ (part # "drivers" => s = Drivers!Fresh("acm") /\ ipa)
  /\ Lifecycle!Init /\ (part # "lifecycle" => dt)
  /\ Loopback!Init /\ (part # "loopback" => qlen = 0)

SerialNext == part = "serial" /\ Next /\ UNCHANGED <<part, driverVars, lifeVars, loopVars>>
DriversNext == part = "drivers" /\ Drivers!Next /\ UNCHANGED <<part, vars, lifeVars, loopVars>>
LifecycleNext == part = "lifecycle" /\ Lifecycle!Next /\ UNCHANGED <<part, vars, driverVars, loopVars>>
LoopbackNext == part = "loopback" /\ Loopback!Next /\ UNCHANGED <<part, vars, driverVars, lifeVars>>

GroupNext == SerialNext \/ DriversNext \/ LifecycleNext \/ LoopbackNext

GroupSpec == GroupInit /\ [][GroupNext]_allVars

-----------------------------------------------------------------------------
\* The variables of every part stay in their types; the serial function and the
\* other drivers add only live functions to a configuration, also after
\* failures and retries.
AddsLive ==
  /\ TypeOK /\ Drivers!TypeOK /\ Lifecycle!TypeOK /\ Loopback!TypeOK
  /\ AddsOnlyLive /\ CountedObjectsLive /\ Drivers!AddsOnlyLive

\* The drivers use their objects and network devices once each, and what they
\* take is given back by cleanup.
UsesPaired == Drivers!PutsOnce /\ Drivers!NetPaired /\ Drivers!CleanupFreesAll

\* A function is cleaned up once and only after it was initialised; a bound
\* controller has initialised functions, and a class for its devices.
LifecycleExact ==
  Lifecycle!CleanedOnce /\ Lifecycle!BoundHasFunctions /\ Lifecycle!ClassMatchesList

\* An endpoint of the loopback function has one request at most.
OneRequestEach == Loopback!OneRequestEach /\ Loopback!OptionsFrozen
=============================================================================
