---------------------------- MODULE AndroidWork ----------------------------
(***************************************************************************)
(* Bus notifications of the Android gadget (usb/gadget/android.c): how     *)
(* android_setup, _disconnect, _suspend and _resume, called by the USB     *)
(* device controller, reach userspace as uevents and the CPU as a pm_qos   *)
(* vote, through one work item and one delayed work item per android_dev.  *)
(*                                                                         *)
(* A controller delivers its callbacks one at a time; the work item runs   *)
(* on another CPU and, being a work item, never in parallel with itself;   *)
(* schedule_work on a pending item does nothing.  The three statics        *)
(* last_uevent, next_state and last_vote are shared by all devices.        *)
(***************************************************************************)
EXTENDS Naturals

CONSTANTS
    Devs,           \* the android_devs
    Latency,        \* pdata->pm_qos_latency, by pm_qos state
    DefaultValue,   \* PM_QOS_DEFAULT_VALUE
    RpmSamples,     \* idle_pc_rpm_no_int_secs / up_pm_qos_sample_sec
    HostSuspends,   \* does the host ever suspend the bus?
    Policies        \* what userspace writes to pm_qos

QosStates == {"WFI", "IDLE_PC", "IDLE_PC_RPM"}

ASSUME LatencyAssumption ==
    /\ DOMAIN Latency = QosStates
    /\ Latency["WFI"] \notin {0, DefaultValue}
    /\ DefaultValue # 0

ASSUME BoundsAssumption ==
    RpmSamples \in Nat /\ HostSuspends \in BOOLEAN /\ Policies \subseteq {"high", "low"}

VARIABLES
    connected, sw_connected, suspended, sw_suspended,   \* fields of android_dev
    pm_qos,         \* dev->pm_qos: "high" or "low"
    config,         \* cdev->config # NULL
    attached,       \* no configuration was taken away since the session began
    setup,          \* android_setup under way: place and prev_configured
    pending,        \* dev->work is queued
    wpc,            \* android_work: place
    envp, vote,     \* android_work: uevent_envp and pm_qos_vote
    next_state, last_uevent,                            \* statics of android_work
    last_vote,      \* static of android_pm_qos_update_latency
    active,         \* dev->pm_qos_req_dma is in the kernel's list
    curr_pm_qos_state, qosPending,                      \* dev->pm_qos_work
    no_int_sample_count,                                \* static of android_pm_qos_work
    sent,           \* the last uevent userspace got from this device
    owesDisc        \* history: CONFIGURED was sent and no DISCONNECTED since

bus == <<connected, suspended, config, attached>>
sw == <<sw_connected, sw_suspended>>
work == <<wpc, envp, vote, next_state, last_uevent>>
qos == <<last_vote, active, curr_pm_qos_state, qosPending, no_int_sample_count>>
events == <<sent, owesDisc>>
vars == <<bus, sw, pm_qos, setup, pending, work, qos, events>>

Set(f, d, v) == f' = [f EXCEPT ![d] = v]

NoSetup == [at |-> "none", prev |-> FALSE]

-----------------------------------------------------------------------------
(***************************************************************************)
(* Callbacks of the controller.                                            *)
(***************************************************************************)
Idle(d) == setup[d].at = "none"

\* android_setup up to the read of cdev->config.
android_setup(d) ==
    /\ Idle(d)
    /\ Set(setup, d, [at |-> "begun", prev |-> config[d]])
    /\ UNCHANGED <<bus, sw, pm_qos, pending, work, qos, events>>

\* composite_setup_func (external): SET_CONFIGURATION selects a configuration,
\* if there is one, or none; every other request leaves it alone.  A host reads
\* descriptors, and so makes connected true, before it selects.
composite_setup(d) ==
    /\ setup[d].at = "begun"
    /\ \/ /\ Set(setup, d, [setup[d] EXCEPT !.at = "other"])
          /\ UNCHANGED config
       \/ /\ connected[d]
          /\ Set(setup, d, [setup[d] EXCEPT !.at = "setConfig"])
          /\ \E c \in {FALSE, attached[d]} : Set(config, d, c)
    /\ UNCHANGED <<connected, suspended, attached, sw, pm_qos, pending, work, qos, events>>

\* Mutant: work is scheduled for a first contact only.
android_setup_end_contact(d) ==
    /\ setup[d].at \in {"other", "setConfig"}
    /\ Set(pending, d, pending[d] \/ ~ connected[d])
    /\ Set(connected, d, TRUE)
    /\ Set(setup, d, NoSetup)
    /\ UNCHANGED <<suspended, config, attached, sw, pm_qos, work, qos, events>>

\* android_setup under cdev->lock: first contact, or a first configuration.
android_setup_end(d) ==
    /\ setup[d].at \in {"other", "setConfig"}
    /\ LET do_work == IF ~ connected[d] THEN TRUE
                      ELSE setup[d].at = "setConfig" /\ config[d] /\ ~ setup[d].prev
       IN  Set(pending, d, pending[d] \/ do_work)
    /\ Set(connected, d, TRUE)
    /\ Set(setup, d, NoSetup)
    /\ UNCHANGED <<suspended, config, attached, sw, pm_qos, work, qos, events>>

\* Mutant: android_disconnect does not schedule the work.
android_disconnect_silent(d) ==
    /\ Idle(d)
    /\ Set(config, d, FALSE)
    /\ Set(connected, d, FALSE)
    /\ Set(attached, d, TRUE)
    /\ UNCHANGED <<suspended, sw, pm_qos, setup, pending, work, qos, events>>

\* composite_disconnect (external) drops the configuration and calls
\* android_disconnect under the same lock; a bus reset does the same.  The
\* controller reports the end of a session before a new one can begin.
android_disconnect(d) ==
    /\ Idle(d)
    /\ Set(config, d, FALSE)
    /\ Set(connected, d, FALSE)
    /\ Set(attached, d, TRUE)
    /\ Set(pending, d, TRUE)
    /\ UNCHANGED <<suspended, sw, pm_qos, setup, work, qos, events>>

android_suspend(d) ==
    /\ HostSuspends
    /\ Idle(d)
    /\ ~ suspended[d]
    /\ Set(suspended, d, TRUE)
    /\ Set(pending, d, TRUE)
    /\ UNCHANGED <<connected, config, attached, sw, pm_qos, setup, work, qos, events>>

android_resume(d) ==
    /\ Idle(d)
    /\ suspended[d]
    /\ Set(suspended, d, FALSE)
    /\ Set(pending, d, TRUE)
    /\ UNCHANGED <<connected, config, attached, sw, pm_qos, setup, work, qos, events>>

\* android_disable in a sysfs store removes the active configuration at any
\* moment: usb_remove_config resets it under cdev->lock and schedules nothing.
\* Until the session ends there is no configuration to select.
RemoveActiveConfig(d) ==
    /\ config[d]
    /\ Set(config, d, FALSE)
    /\ Set(attached, d, FALSE)
    /\ UNCHANGED <<connected, suspended, sw, pm_qos, setup, pending, work, qos, events>>

\* An enable_store whose android_enable fails resets connected, without
\* cdev->lock and without scheduling the work.
enable_store_fails(d) ==
    /\ ~ attached[d]
    /\ Set(connected, d, FALSE)
    /\ UNCHANGED <<suspended, config, attached, sw, pm_qos, setup, pending, work, qos, events>>

\* pm_qos_store
pm_qos_store(d) ==
    /\ \E v \in Policies : Set(pm_qos, d, v)
    /\ UNCHANGED <<bus, sw, setup, pending, work, qos, events>>

-----------------------------------------------------------------------------
(***************************************************************************)
(* android_work.                                                           *)
(***************************************************************************)
StartWork(d) ==
    /\ pending[d]
    /\ wpc[d] = "idle"
    /\ Set(pending, d, FALSE)
    /\ Set(wpc, d, "sample")
    /\ UNCHANGED <<bus, sw, pm_qos, setup, envp, vote, next_state, last_uevent, qos, events>>

\* What the bus state calls for: a uevent and a pm_qos_vote.
Report(d) ==
    IF suspended[d] # sw_suspended[d] /\ config[d]
    THEN [uevent |-> IF suspended[d] THEN "SUSPENDED" ELSE "RESUMED",
          vote |-> IF pm_qos[d] = "low" THEN "none" ELSE IF suspended[d] THEN "off" ELSE "on"]
    ELSE IF config[d] THEN [uevent |-> "CONFIGURED", vote |-> "none"]
    ELSE IF connected[d] # sw_connected[d]
    THEN [uevent |-> IF connected[d] THEN "CONNECTED" ELSE "DISCONNECTED",
          vote |-> IF connected[d] /\ pm_qos[d] # "low" THEN "on" ELSE "off"]
    ELSE [uevent |-> "none", vote |-> "none"]

\* The section under cdev->lock.
SampleBus(d) ==
    /\ wpc[d] = "sample"
    /\ Set(envp, d, Report(d).uevent)
    /\ Set(vote, d, Report(d).vote)
    /\ next_state' = IF Report(d).uevent = "none" THEN next_state ELSE Report(d).uevent
    /\ Set(sw_connected, d, connected[d])
    /\ Set(sw_suspended, d, suspended[d])
    /\ Set(wpc, d, "vote")
    /\ UNCHANGED <<bus, pm_qos, setup, pending, last_uevent, qos, events>>

\* Mutant: last_vote is not recorded.
UpdateLatencyForgets(d, latency) ==
    /\ IF latency \in {0, last_vote} THEN UNCHANGED active ELSE Set(active, d, latency # DefaultValue)
    /\ UNCHANGED last_vote

\* android_pm_qos_update_latency: a latency of 0 is no vote.
UpdateLatency(d, latency) ==
    IF latency \in {0, last_vote}
    THEN UNCHANGED <<last_vote, active>>
    ELSE /\ last_vote' = latency
         /\ Set(active, d, latency # DefaultValue)

\* The vote; cancel_delayed_work_sync waits for a running android_pm_qos_work,
\* so it and this step do not overlap.
Vote(d) ==
    /\ wpc[d] = "vote"
    /\ \/ /\ vote[d] = "on"
          /\ UpdateLatency(d, Latency["WFI"])
          /\ Set(curr_pm_qos_state, d, "WFI")
          /\ Set(qosPending, d, TRUE)
       \/ /\ vote[d] = "off"
          /\ UpdateLatency(d, DefaultValue)
          /\ Set(curr_pm_qos_state, d, "NO_USB_VOTE")
          /\ Set(qosPending, d, FALSE)
       \/ /\ vote[d] = "none"
          /\ UNCHANGED <<last_vote, active, curr_pm_qos_state, qosPending>>
    /\ Set(wpc, d, IF envp[d] = "none" THEN "idle" ELSE "check")
    /\ UNCHANGED <<bus, sw, pm_qos, setup, pending, envp, vote, next_state, last_uevent,
                   no_int_sample_count, events>>

\* Mutant: only a second CONNECTED counts as missed.
MissedConnectedOnly(d) == envp[d] = "CONNECTED" /\ last_uevent # "DISCONNECTED"

\* Was a DISCONNECT uevent missed?
Missed(d) ==
    \/ envp[d] = "CONNECTED" /\ last_uevent # "DISCONNECTED"
    \/ envp[d] = "CONFIGURED" /\ last_uevent = "CONFIGURED"

CheckMissed(d) ==
    /\ wpc[d] = "check"
    /\ Set(wpc, d, IF Missed(d) THEN "missed" ELSE "send")
    /\ UNCHANGED <<bus, sw, pm_qos, setup, pending, envp, vote, next_state, last_uevent,
                   qos, events>>

SendMissed(d) ==
    /\ wpc[d] = "missed"
    /\ Set(sent, d, "DISCONNECTED")
    /\ Set(owesDisc, d, FALSE)
    /\ Set(wpc, d, "send")
    /\ UNCHANGED <<bus, sw, pm_qos, setup, pending, envp, vote, next_state, last_uevent, qos>>

\* SUSPENDED and RESUMED are not sent.
SendUevent(d) ==
    /\ wpc[d] = "send"
    /\ IF next_state \in {"SUSPENDED", "RESUMED"}
       THEN UNCHANGED <<events, last_uevent>>
       ELSE /\ Set(sent, d, envp[d])
            /\ Set(owesDisc, d, CASE envp[d] = "CONFIGURED" -> TRUE
                                  [] envp[d] = "DISCONNECTED" -> FALSE
                                  [] OTHER -> owesDisc[d])
            /\ last_uevent' = next_state
    /\ Set(wpc, d, "idle")
    /\ UNCHANGED <<bus, sw, pm_qos, setup, pending, envp, vote, next_state, qos>>

-----------------------------------------------------------------------------
(***************************************************************************)
(* android_pm_qos_work: `count' stands for the interrupts of the last      *)
(* sample: none, fewer than up_pm_qos_threshold (70), no more than         *)
(* down_pm_qos_threshold (100), or more.                                   *)
(***************************************************************************)
android_pm_qos_work(d) ==
    /\ qosPending[d]
    /\ wpc[d] # "vote"
    /\ \E count \in {"none", "few", "some", "many"} :
          LET state == curr_pm_qos_state[d]
              silent == IF count # "none" THEN 0 ELSE no_int_sample_count + 1
              next ==
                  CASE state = "WFI" -> IF count = "many" THEN "WFI" ELSE "IDLE_PC"
                    [] state = "IDLE_PC" ->
                          IF count \in {"some", "many"} THEN "WFI"
                          ELSE IF silent >= RpmSamples THEN "IDLE_PC_RPM" ELSE "IDLE_PC"
                    [] state = "IDLE_PC_RPM" -> IF count = "none" THEN "IDLE_PC_RPM" ELSE "WFI"
                    [] OTHER -> state
          IN  /\ no_int_sample_count' =
                    CASE state = "IDLE_PC" -> silent
                      [] state \in QosStates /\ next # state -> 0
                      [] OTHER -> no_int_sample_count
              /\ Set(curr_pm_qos_state, d, next)
              /\ IF next # state
                 THEN UpdateLatency(d, Latency[next])
                 ELSE UNCHANGED <<last_vote, active>>
              /\ Set(qosPending, d, state \in QosStates)
    /\ UNCHANGED <<bus, sw, pm_qos, setup, pending, work, events>>

-----------------------------------------------------------------------------
All(v) == [d \in Devs |-> v]

Init ==
    /\ connected = All(FALSE) /\ sw_connected = All(FALSE)
    /\ suspended = All(FALSE) /\ sw_suspended = All(FALSE)
    /\ pm_qos = All("high") /\ config = All(FALSE) /\ attached = All(TRUE) /\ setup = All(NoSetup)
    /\ pending = All(FALSE) /\ wpc = All("idle") /\ envp = All("none") /\ vote = All("none")
    /\ next_state = "DISCONNECTED" /\ last_uevent = "DISCONNECTED"
    /\ last_vote = DefaultValue /\ active = All(FALSE)
    /\ curr_pm_qos_state = All("NO_USB_VOTE") /\ qosPending = All(FALSE)
    /\ no_int_sample_count = 0
    /\ sent = All("none") /\ owesDisc = All(FALSE)

WorkStep(d) == StartWork(d) \/ SampleBus(d) \/ Vote(d) \/ CheckMissed(d) \/ SendMissed(d) \/ SendUevent(d)

Callback(d) ==
    \/ android_setup(d) \/ composite_setup(d) \/ android_setup_end(d)
    \/ android_disconnect(d) \/ android_suspend(d) \/ android_resume(d)

Next ==
    \E d \in Devs :
        \/ WorkStep(d) \/ Callback(d) \/ android_pm_qos_work(d)
        \/ RemoveActiveConfig(d) \/ enable_store_fails(d) \/ pm_qos_store(d)

Spec == Init /\ [][Next]_vars

\* Queued work is run, and a callback that has begun returns.
Fairness ==
    \A d \in Devs :
        /\ WF_vars(WorkStep(d))
        /\ WF_vars(composite_setup(d) \/ android_setup_end(d))

FairSpec == Spec /\ Fairness

-----------------------------------------------------------------------------
(***************************************************************************)
(* Properties.                                                             *)
(***************************************************************************)
Uevents == {"DISCONNECTED", "CONNECTED", "CONFIGURED"}
States == Uevents \cup {"SUSPENDED", "RESUMED"}

\* The type of every variable.
TypeOK ==
    /\ \A f \in {connected, sw_connected, suspended, sw_suspended, config, attached, pending, active,
                 qosPending, owesDisc} : f \in [Devs -> BOOLEAN]
    /\ pm_qos \in [Devs -> {"high", "low"}]
    /\ setup \in [Devs -> [at : {"none", "begun", "other", "setConfig"}, prev : BOOLEAN]]
    /\ wpc \in [Devs -> {"idle", "sample", "vote", "check", "missed", "send"}]
    /\ envp \in [Devs -> States \cup {"none"}]
    /\ vote \in [Devs -> {"none", "on", "off"}]
    /\ next_state \in States /\ last_uevent \in Uevents
    /\ curr_pm_qos_state \in [Devs -> QosStates \cup {"NO_USB_VOTE"}]
    /\ last_vote \in {Latency[s] : s \in QosStates} \cup {DefaultValue}
    /\ no_int_sample_count \in Nat
    /\ sent \in [Devs -> Uevents \cup {"none"}]

Quiescent(d) == ~ pending[d] /\ wpc[d] = "idle" /\ Idle(d)

\* "CONFIGURED uevent is preceded by DISCONNECT uevent": userspace never gets a
\* second CONFIGURED from a device without a DISCONNECTED in between.
DisconnectPrecedesConfigured ==
    \A d \in Devs :
        wpc[d] = "send" /\ envp[d] = "CONFIGURED" /\ next_state = "CONFIGURED" => ~ owesDisc[d]

\* Once the callbacks and the work have run, a device whose session has ended is
\* one that userspace was told is disconnected and that holds no pm_qos vote.
DisconnectReported ==
    \A d \in Devs :
        Quiescent(d) /\ attached[d] /\ ~ connected[d] => sent[d] \in {"none", "DISCONNECTED"} /\ ~ active[d]

\* Once the callbacks and the work have run, userspace knows of a configured
\* device that it is configured (where the host does not suspend the bus).
ConfiguredReported ==
    \A d \in Devs : Quiescent(d) /\ config[d] => sent[d] = "CONFIGURED"

\* Although last_vote is shared, a device's request is the one its pm_qos state
\* calls for, and an active one when the work is about to remove it.
VoteMatchesState ==
    \A d \in Devs :
        /\ curr_pm_qos_state[d] \in QosStates /\ Latency[curr_pm_qos_state[d]] # 0 =>
              (active[d] <=> Latency[curr_pm_qos_state[d]] # DefaultValue)
        /\ wpc[d] = "vote" /\ vote[d] = "off" /\ last_vote # DefaultValue => active[d]

\* An unplugged device is eventually reported, however the work and the
\* callbacks interleave, unless it is connected again first.
DisconnectEventuallyReported ==
    \A d \in Devs : attached[d] /\ ~ connected[d] ~> connected[d] \/ sent[d] \in {"none", "DISCONNECTED"}

=============================================================================
