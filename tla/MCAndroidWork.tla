--------------------------- MODULE MCAndroidWork ---------------------------
(***************************************************************************)
(* One run of AndroidWork on two platforms.  One has a host that suspends  *)
(* the bus, userspace that switches pm_qos, and a deepest idle state that  *)
(* needs no latency bound at all (its request is removed), so that the     *)
(* governor of android_pm_qos_work adds and removes the request too.  The  *)
(* quiet one leaves the vote alone in IDLE_PC, and its host never suspends *)
(* the bus.                                                                *)
(***************************************************************************)
EXTENDS AndroidWork

MCLatency == [s \in QosStates |-> CASE s = "WFI" -> 44 [] s = "IDLE_PC" -> 101 [] OTHER -> 9999]

VARIABLE quiet

Quiet == INSTANCE AndroidWork WITH
  Latency <- [Latency EXCEPT !["IDLE_PC"] = 0], HostSuspends <- FALSE, Policies <- {"high"}

MCInit == quiet \in BOOLEAN /\ Init

MCNext ==
  /\ \/ ~quiet /\ Next
     \/ quiet /\ Quiet!Next
  /\ UNCHANGED quiet

\* The fairness of FairSpec, on either platform.
MCSpec ==
  /\ MCInit /\ [][MCNext]_<<vars, quiet>>
  /\ \A d \in Devs :
       /\ WF_<<vars, quiet>>(~quiet /\ WorkStep(d) /\ UNCHANGED quiet)
       /\ WF_<<vars, quiet>>(quiet /\ Quiet!WorkStep(d) /\ UNCHANGED quiet)
       /\ WF_<<vars, quiet>>((composite_setup(d) \/ android_setup_end(d)) /\ UNCHANGED quiet)

-----------------------------------------------------------------------------
\* A disconnect is reported before the next configuration, and in any case once
\* the work has run.
DisconnectsReported == TypeOK /\ DisconnectPrecedesConfigured /\ DisconnectReported

\* The pm_qos request is the one of the state, on either platform.
VoteMatches == IF quiet THEN Quiet!VoteMatchesState ELSE VoteMatchesState

\* Where the host does not suspend the bus, a configured device is reported.
ConfiguredKnown == quiet => ConfiguredReported
=============================================================================
