--------------------------- MODULE AndroidWorkProofs ---------------------------
(***************************************************************************)
(* Proofs about the bus notifications of one Android gadget, on either     *)
(* platform.  The statics last_uevent, next_state and last_vote are shared *)
(* by all devices; what is proved is proved of a system with one.          *)
(***************************************************************************)
EXTENDS MCAndroidWork, TLAPS

-----------------------------------------------------------------------------
(* The invariant *)

\* The types of the fields that callbacks write, and of the work's.
BusTypes ==
  /\ connected \in [Devs -> BOOLEAN] /\ suspended \in [Devs -> BOOLEAN]
  /\ config \in [Devs -> BOOLEAN] /\ attached \in [Devs -> BOOLEAN]
  /\ pm_qos \in [Devs -> {"high", "low"}] /\ pending \in [Devs -> BOOLEAN]
  /\ setup \in [Devs -> [at : {"none", "begun", "other", "setConfig"}, prev : BOOLEAN]]

WorkTypes ==
  /\ sw_connected \in [Devs -> BOOLEAN] /\ sw_suspended \in [Devs -> BOOLEAN]
  /\ wpc \in [Devs -> {"idle", "sample", "vote", "check", "missed", "send"}]
  /\ envp \in [Devs -> States \cup {"none"}] /\ vote \in [Devs -> {"none", "on", "off"}]
  /\ next_state \in States /\ last_uevent \in Uevents
  /\ sent \in [Devs -> Uevents \cup {"none"}] /\ owesDisc \in [Devs -> BOOLEAN]

QosTypes ==
  /\ active \in [Devs -> BOOLEAN] /\ qosPending \in [Devs -> BOOLEAN]
  /\ curr_pm_qos_state \in [Devs -> QosStates \cup {"NO_USB_VOTE"}]
  /\ last_vote \in {Latency[s] : s \in QosStates} \cup {DefaultValue}
  /\ no_int_sample_count \in Nat

\* The latencies of the platform.
Lat == IF quiet THEN [Latency EXCEPT !["IDLE_PC"] = 0] ELSE Latency

Working(d) == wpc[d] \in {"vote", "check", "missed", "send"}

\* A configuration is selected in a session only.
BusInv(d) == config[d] => attached[d] /\ connected[d]

\* The uevent under way: it is the next state, it was sampled with the bus
\* connected, or tells that it is not, and only it can owe a DISCONNECTED.
EventInv(d) ==
  /\ wpc[d] \in {"check", "missed", "send"} => envp[d] # "none"
  /\ Working(d) /\ envp[d] # "none" => next_state = envp[d]
  /\ Working(d) /\ envp[d] \notin {"none", "DISCONNECTED"} => sw_connected[d]
  /\ owesDisc[d] => last_uevent = "CONFIGURED"
  /\ wpc[d] = "send" /\ envp[d] \in {"CONNECTED", "CONFIGURED"} => ~owesDisc[d]

\* What userspace was told last agrees with what was sampled last, which agrees
\* with the bus unless work is to run.
ToldInv(d) ==
  /\ ~sw_connected[d] => sent[d] \in {"none", "DISCONNECTED"} \/ (Working(d) /\ envp[d] = "DISCONNECTED")
  /\ attached[d] /\ ~connected[d] /\ sw_connected[d] => pending[d] \/ wpc[d] = "sample"

\* The request is active when the last vote was one, the last vote is the one of
\* the pm_qos state, and there is none for a device that is not connected.
VoteInv(d) ==
  /\ active[d] <=> last_vote # DefaultValue
  /\ curr_pm_qos_state[d] = "NO_USB_VOTE" => last_vote = DefaultValue
  /\ curr_pm_qos_state[d] \in QosStates /\ Lat[curr_pm_qos_state[d]] # 0 =>
       last_vote = Lat[curr_pm_qos_state[d]]
  /\ ~sw_connected[d] => curr_pm_qos_state[d] = "NO_USB_VOTE" \/ (wpc[d] = "vote" /\ vote[d] = "off")
  /\ wpc[d] = "vote" /\ vote[d] = "on" => sw_connected[d]

\* Where the host does not suspend the bus, a configuration is known to userspace
\* or about to be.
KnownInv(d) ==
  /\ ~suspended[d] /\ ~sw_suspended[d]
  /\ setup[d].at = "begun" /\ setup[d].prev /\ attached[d] => config[d]
  /\ config[d] =>
       \/ pending[d] \/ wpc[d] = "sample"
       \/ setup[d].at = "setConfig" /\ ~setup[d].prev
       \/ Working(d) /\ envp[d] = "CONFIGURED"
       \/ wpc[d] = "idle" /\ sent[d] = "CONFIGURED"

DevInv(d) ==
  BusInv(d) /\ EventInv(d) /\ ToldInv(d) /\ VoteInv(d) /\ (quiet => KnownInv(d))

WorkInv ==
  BusTypes /\ WorkTypes /\ QosTypes /\ quiet \in BOOLEAN /\ \A d \in Devs : DevInv(d)

-----------------------------------------------------------------------------
(* The steps *)

\* pm_qos_store() with any of the two policies.
StoresPolicy(d) ==
  /\ \E v \in {"high", "low"} : Set(pm_qos, d, v)
  /\ UNCHANGED <<bus, sw, setup, pending, work, qos, events>>

\* android_setup() keeps the invariant.
LEMMA Android_setupStep ==
    ASSUME NEW d, Devs = {d}, WorkInv, android_setup(d), UNCHANGED quiet
    PROVE  WorkInv'
<1> USE DEF Set, bus, sw, work, qos, events, Working, Uevents, States, QosStates
<1>1. BusTypes /\ WorkTypes /\ QosTypes /\ quiet \in BOOLEAN /\ DevInv(d) /\ d \in Devs
  BY DEF WorkInv
<1>2. BusTypes'
  BY <1>1 DEF BusTypes, android_setup, Idle
<1>3. WorkTypes'
  BY <1>1 DEF WorkTypes, android_setup, Idle
<1>4. QosTypes'
  BY <1>1, LatencyAssumption DEF QosTypes, android_setup, Idle
<1> USE DEF BusTypes, WorkTypes
<1>5. BusInv(d)'
  BY <1>1 DEF DevInv, BusInv, android_setup, Idle
<1>6. EventInv(d)'
  BY <1>1 DEF DevInv, BusInv, EventInv, android_setup, Idle
<1>7. ToldInv(d)'
  BY <1>1 DEF DevInv, BusInv, EventInv, ToldInv, android_setup, Idle
<1>8. VoteInv(d)'
  BY <1>1, LatencyAssumption DEF DevInv, BusInv, VoteInv, android_setup, Idle, Lat, QosTypes
<1>9. quiet => KnownInv(d)'
  BY <1>1 DEF DevInv, BusInv, EventInv, ToldInv, KnownInv, android_setup, Idle
<1> QED
  BY <1>1, <1>2, <1>3, <1>4, <1>5, <1>6, <1>7, <1>8, <1>9 DEF WorkInv, DevInv

\* composite_setup() keeps the invariant.
LEMMA Composite_setupStep ==
    ASSUME NEW d, Devs = {d}, WorkInv, composite_setup(d), UNCHANGED quiet
    PROVE  WorkInv'
<1> USE DEF Set, bus, sw, work, qos, events, Working, Uevents, States, QosStates
<1>1. BusTypes /\ WorkTypes /\ QosTypes /\ quiet \in BOOLEAN /\ DevInv(d) /\ d \in Devs
  BY DEF WorkInv
<1>2. BusTypes'
  <2>1. setup' \in [Devs -> [at : {"none", "begun", "other", "setConfig"}, prev : BOOLEAN]]
    BY <1>1 DEF BusTypes, composite_setup
  <2>2. config' \in [Devs -> BOOLEAN]
    BY <1>1 DEF BusTypes, composite_setup
  <2> QED
    BY <1>1, <2>1, <2>2 DEF BusTypes, composite_setup
<1>3. WorkTypes'
  BY <1>1 DEF WorkTypes, composite_setup
<1>4. QosTypes'
  BY <1>1, LatencyAssumption DEF QosTypes, composite_setup
<1> USE DEF BusTypes, WorkTypes
<1>5. BusInv(d)'
  BY <1>1 DEF DevInv, BusInv, composite_setup
<1>6. EventInv(d)'
  BY <1>1 DEF DevInv, BusInv, EventInv, composite_setup
<1>7. ToldInv(d)'
  BY <1>1 DEF DevInv, BusInv, EventInv, ToldInv, composite_setup
<1>8. VoteInv(d)'
  BY <1>1, LatencyAssumption DEF DevInv, BusInv, VoteInv, composite_setup, Lat, QosTypes
<1>9. quiet => KnownInv(d)'
  BY <1>1 DEF DevInv, BusInv, EventInv, ToldInv, KnownInv, composite_setup
<1> QED
  BY <1>1, <1>2, <1>3, <1>4, <1>5, <1>6, <1>7, <1>8, <1>9 DEF WorkInv, DevInv

\* android_setup_end() keeps the invariant.
LEMMA Android_setup_endStep ==
    ASSUME NEW d, Devs = {d}, WorkInv, android_setup_end(d), UNCHANGED quiet
    PROVE  WorkInv'
<1> USE DEF Set, bus, sw, work, qos, events, Working, Uevents, States, QosStates
<1>1. BusTypes /\ WorkTypes /\ QosTypes /\ quiet \in BOOLEAN /\ DevInv(d) /\ d \in Devs
  BY DEF WorkInv
<1>2. BusTypes'
  BY <1>1 DEF BusTypes, android_setup_end, NoSetup
<1>3. WorkTypes'
  BY <1>1 DEF WorkTypes, android_setup_end, NoSetup
<1>4. QosTypes'
  BY <1>1, LatencyAssumption DEF QosTypes, android_setup_end, NoSetup
<1> USE DEF BusTypes, WorkTypes
<1>5. BusInv(d)'
  BY <1>1 DEF DevInv, BusInv, android_setup_end, NoSetup
<1>6. EventInv(d)'
  BY <1>1 DEF DevInv, BusInv, EventInv, android_setup_end, NoSetup
<1>7. ToldInv(d)'
  BY <1>1 DEF DevInv, BusInv, EventInv, ToldInv, android_setup_end, NoSetup
<1>8. VoteInv(d)'
  BY <1>1, LatencyAssumption DEF DevInv, BusInv, VoteInv, android_setup_end, NoSetup, Lat, QosTypes
<1>9. quiet => KnownInv(d)'
  BY <1>1 DEF DevInv, BusInv, EventInv, ToldInv, KnownInv, android_setup_end, NoSetup
<1> QED
  BY <1>1, <1>2, <1>3, <1>4, <1>5, <1>6, <1>7, <1>8, <1>9 DEF WorkInv, DevInv

\* android_disconnect() keeps the invariant.
LEMMA Android_disconnectStep ==
    ASSUME NEW d, Devs = {d}, WorkInv, android_disconnect(d), UNCHANGED quiet
    PROVE  WorkInv'
<1> USE DEF Set, bus, sw, work, qos, events, Working, Uevents, States, QosStates
<1>1. BusTypes /\ WorkTypes /\ QosTypes /\ quiet \in BOOLEAN /\ DevInv(d) /\ d \in Devs
  BY DEF WorkInv
<1>2. BusTypes'
  BY <1>1 DEF BusTypes, android_disconnect, Idle
<1>3. WorkTypes'
  BY <1>1 DEF WorkTypes, android_disconnect, Idle
<1>4. QosTypes'
  BY <1>1, LatencyAssumption DEF QosTypes, android_disconnect, Idle
<1> USE DEF BusTypes, WorkTypes
<1>5. BusInv(d)'
  BY <1>1 DEF DevInv, BusInv, android_disconnect, Idle
<1>6. EventInv(d)'
  BY <1>1 DEF DevInv, BusInv, EventInv, android_disconnect, Idle
<1>7. ToldInv(d)'
  BY <1>1 DEF DevInv, BusInv, EventInv, ToldInv, android_disconnect, Idle
<1>8. VoteInv(d)'
  BY <1>1, LatencyAssumption DEF DevInv, BusInv, VoteInv, android_disconnect, Idle, Lat, QosTypes
<1>9. quiet => KnownInv(d)'
  BY <1>1 DEF DevInv, BusInv, EventInv, ToldInv, KnownInv, android_disconnect, Idle
<1> QED
  BY <1>1, <1>2, <1>3, <1>4, <1>5, <1>6, <1>7, <1>8, <1>9 DEF WorkInv, DevInv

\* android_suspend() keeps the invariant.
LEMMA Android_suspendStep ==
    ASSUME NEW d, Devs = {d}, WorkInv, android_suspend(d), UNCHANGED quiet, ~quiet
    PROVE  WorkInv'
<1> USE DEF Set, bus, sw, work, qos, events, Working, Uevents, States, QosStates
<1>1. BusTypes /\ WorkTypes /\ QosTypes /\ quiet \in BOOLEAN /\ DevInv(d) /\ d \in Devs
  BY DEF WorkInv
<1>2. BusTypes'
  BY <1>1 DEF BusTypes, android_suspend, Idle
<1>3. WorkTypes'
  BY <1>1 DEF WorkTypes, android_suspend, Idle
<1>4. QosTypes'
  BY <1>1, LatencyAssumption DEF QosTypes, android_suspend, Idle
<1> USE DEF BusTypes, WorkTypes
<1>5. BusInv(d)'
  BY <1>1 DEF DevInv, BusInv, android_suspend, Idle
<1>6. EventInv(d)'
  BY <1>1 DEF DevInv, BusInv, EventInv, android_suspend, Idle
<1>7. ToldInv(d)'
  BY <1>1 DEF DevInv, BusInv, EventInv, ToldInv, android_suspend, Idle
<1>8. VoteInv(d)'
  BY <1>1, LatencyAssumption DEF DevInv, BusInv, VoteInv, android_suspend, Idle, Lat, QosTypes
<1>9. quiet => KnownInv(d)'
  BY <1>1 DEF DevInv, BusInv, EventInv, ToldInv, KnownInv, android_suspend, Idle
<1> QED
  BY <1>1, <1>2, <1>3, <1>4, <1>5, <1>6, <1>7, <1>8, <1>9 DEF WorkInv, DevInv

\* android_resume() keeps the invariant.
LEMMA Android_resumeStep ==
    ASSUME NEW d, Devs = {d}, WorkInv, android_resume(d), UNCHANGED quiet
    PROVE  WorkInv'
<1> USE DEF Set, bus, sw, work, qos, events, Working, Uevents, States, QosStates
<1>1. BusTypes /\ WorkTypes /\ QosTypes /\ quiet \in BOOLEAN /\ DevInv(d) /\ d \in Devs
  BY DEF WorkInv
<1>2. BusTypes'
  BY <1>1 DEF BusTypes, android_resume, Idle
<1>3. WorkTypes'
  BY <1>1 DEF WorkTypes, android_resume, Idle
<1>4. QosTypes'
  BY <1>1, LatencyAssumption DEF QosTypes, android_resume, Idle
<1> USE DEF BusTypes, WorkTypes
<1>5. BusInv(d)'
  BY <1>1 DEF DevInv, BusInv, android_resume, Idle
<1>6. EventInv(d)'
  BY <1>1 DEF DevInv, BusInv, EventInv, android_resume, Idle
<1>7. ToldInv(d)'
  BY <1>1 DEF DevInv, BusInv, EventInv, ToldInv, android_resume, Idle
<1>8. VoteInv(d)'
  BY <1>1, LatencyAssumption DEF DevInv, BusInv, VoteInv, android_resume, Idle, Lat, QosTypes
<1>9. quiet => KnownInv(d)'
  BY <1>1 DEF DevInv, BusInv, EventInv, ToldInv, KnownInv, android_resume, Idle
<1> QED
  BY <1>1, <1>2, <1>3, <1>4, <1>5, <1>6, <1>7, <1>8, <1>9 DEF WorkInv, DevInv

\* RemoveActiveConfig() keeps the invariant.
LEMMA RemoveActiveConfigStep ==
    ASSUME NEW d, Devs = {d}, WorkInv, RemoveActiveConfig(d), UNCHANGED quiet
    PROVE  WorkInv'
<1> USE DEF Set, bus, sw, work, qos, events, Working, Uevents, States, QosStates
<1>1. BusTypes /\ WorkTypes /\ QosTypes /\ quiet \in BOOLEAN /\ DevInv(d) /\ d \in Devs
  BY DEF WorkInv
<1>2. BusTypes'
  BY <1>1 DEF BusTypes, RemoveActiveConfig
<1>3. WorkTypes'
  BY <1>1 DEF WorkTypes, RemoveActiveConfig
<1>4. QosTypes'
  BY <1>1, LatencyAssumption DEF QosTypes, RemoveActiveConfig
<1> USE DEF BusTypes, WorkTypes
<1>5. BusInv(d)'
  BY <1>1 DEF DevInv, BusInv, RemoveActiveConfig
<1>6. EventInv(d)'
  BY <1>1 DEF DevInv, BusInv, EventInv, RemoveActiveConfig
<1>7. ToldInv(d)'
  BY <1>1 DEF DevInv, BusInv, EventInv, ToldInv, RemoveActiveConfig
<1>8. VoteInv(d)'
  BY <1>1, LatencyAssumption DEF DevInv, BusInv, VoteInv, RemoveActiveConfig, Lat, QosTypes
<1>9. quiet => KnownInv(d)'
  BY <1>1 DEF DevInv, BusInv, EventInv, ToldInv, KnownInv, RemoveActiveConfig
<1> QED
  BY <1>1, <1>2, <1>3, <1>4, <1>5, <1>6, <1>7, <1>8, <1>9 DEF WorkInv, DevInv

\* enable_store_fails() keeps the invariant.
LEMMA Enable_store_failsStep ==
    ASSUME NEW d, Devs = {d}, WorkInv, enable_store_fails(d), UNCHANGED quiet
    PROVE  WorkInv'
<1> USE DEF Set, bus, sw, work, qos, events, Working, Uevents, States, QosStates
<1>1. BusTypes /\ WorkTypes /\ QosTypes /\ quiet \in BOOLEAN /\ DevInv(d) /\ d \in Devs
  BY DEF WorkInv
<1>2. BusTypes'
  BY <1>1 DEF BusTypes, enable_store_fails
<1>3. WorkTypes'
  BY <1>1 DEF WorkTypes, enable_store_fails
<1>4. QosTypes'
  BY <1>1, LatencyAssumption DEF QosTypes, enable_store_fails
<1> USE DEF BusTypes, WorkTypes
<1>5. BusInv(d)'
  BY <1>1 DEF DevInv, BusInv, enable_store_fails
<1>6. EventInv(d)'
  BY <1>1 DEF DevInv, BusInv, EventInv, enable_store_fails
<1>7. ToldInv(d)'
  BY <1>1 DEF DevInv, BusInv, EventInv, ToldInv, enable_store_fails
<1>8. VoteInv(d)'
  BY <1>1, LatencyAssumption DEF DevInv, BusInv, VoteInv, enable_store_fails, Lat, QosTypes
<1>9. quiet => KnownInv(d)'
  BY <1>1 DEF DevInv, BusInv, EventInv, ToldInv, KnownInv, enable_store_fails
<1> QED
  BY <1>1, <1>2, <1>3, <1>4, <1>5, <1>6, <1>7, <1>8, <1>9 DEF WorkInv, DevInv

\* StoresPolicy() keeps the invariant.
LEMMA StoresPolicyStep ==
    ASSUME NEW d, Devs = {d}, WorkInv, StoresPolicy(d), UNCHANGED quiet
    PROVE  WorkInv'
<1> USE DEF Set, bus, sw, work, qos, events, Working, Uevents, States, QosStates
<1>1. BusTypes /\ WorkTypes /\ QosTypes /\ quiet \in BOOLEAN /\ DevInv(d) /\ d \in Devs
  BY DEF WorkInv
<1>2. BusTypes'
  BY <1>1 DEF BusTypes, StoresPolicy
<1>3. WorkTypes'
  BY <1>1 DEF WorkTypes, StoresPolicy
<1>4. QosTypes'
  BY <1>1, LatencyAssumption DEF QosTypes, StoresPolicy
<1> USE DEF BusTypes, WorkTypes
<1>5. BusInv(d)'
  BY <1>1 DEF DevInv, BusInv, StoresPolicy
<1>6. EventInv(d)'
  BY <1>1 DEF DevInv, BusInv, EventInv, StoresPolicy
<1>7. ToldInv(d)'
  BY <1>1 DEF DevInv, BusInv, EventInv, ToldInv, StoresPolicy
<1>8. VoteInv(d)'
  BY <1>1, LatencyAssumption DEF DevInv, BusInv, VoteInv, StoresPolicy, Lat, QosTypes
<1>9. quiet => KnownInv(d)'
  BY <1>1 DEF DevInv, BusInv, EventInv, ToldInv, KnownInv, StoresPolicy
<1> QED
  BY <1>1, <1>2, <1>3, <1>4, <1>5, <1>6, <1>7, <1>8, <1>9 DEF WorkInv, DevInv

\* StartWork() keeps the invariant.
LEMMA StartWorkStep ==
    ASSUME NEW d, Devs = {d}, WorkInv, StartWork(d), UNCHANGED quiet
    PROVE  WorkInv'
<1> USE DEF Set, bus, sw, work, qos, events, Working, Uevents, States, QosStates
<1>1. BusTypes /\ WorkTypes /\ QosTypes /\ quiet \in BOOLEAN /\ DevInv(d) /\ d \in Devs
  BY DEF WorkInv
<1>2. BusTypes'
  BY <1>1 DEF BusTypes, StartWork
<1>3. WorkTypes'
  BY <1>1 DEF WorkTypes, StartWork
<1>4. QosTypes'
  BY <1>1, LatencyAssumption DEF QosTypes, StartWork
<1> USE DEF BusTypes, WorkTypes
<1>5. BusInv(d)'
  BY <1>1 DEF DevInv, BusInv, StartWork
<1>6. EventInv(d)'
  BY <1>1 DEF DevInv, BusInv, EventInv, StartWork
<1>7. ToldInv(d)'
  BY <1>1 DEF DevInv, BusInv, EventInv, ToldInv, StartWork
<1>8. VoteInv(d)'
  BY <1>1, LatencyAssumption DEF DevInv, BusInv, VoteInv, StartWork, Lat, QosTypes
<1>9. quiet => KnownInv(d)'
  BY <1>1 DEF DevInv, BusInv, EventInv, ToldInv, KnownInv, StartWork
<1> QED
  BY <1>1, <1>2, <1>3, <1>4, <1>5, <1>6, <1>7, <1>8, <1>9 DEF WorkInv, DevInv

\* SampleBus() keeps the invariant.
LEMMA SampleBusStep ==
    ASSUME NEW d, Devs = {d}, WorkInv, SampleBus(d), UNCHANGED quiet
    PROVE  WorkInv'
<1> USE DEF Set, bus, sw, work, qos, events, Working, Uevents, States, QosStates
<1>1. BusTypes /\ WorkTypes /\ QosTypes /\ quiet \in BOOLEAN /\ DevInv(d) /\ d \in Devs
  BY DEF WorkInv
<1>2. BusTypes'
  BY <1>1 DEF BusTypes, SampleBus, Report
<1>3. WorkTypes'
  <2>1. Report(d).uevent \in States \cup {"none"} /\ Report(d).vote \in {"none", "on", "off"}
    BY DEF Report
  <2>2. next_state' \in States
    BY <1>1, <2>1 DEF WorkTypes, SampleBus
  <2> QED
    BY <1>1, <2>1, <2>2 DEF BusTypes, WorkTypes, SampleBus
<1>4. QosTypes'
  BY <1>1, LatencyAssumption DEF QosTypes, SampleBus, Report
<1> USE DEF BusTypes, WorkTypes
<1>5. BusInv(d)'
  BY <1>1 DEF DevInv, BusInv, SampleBus, Report
<1>6. EventInv(d)'
  BY <1>1 DEF DevInv, BusInv, EventInv, SampleBus, Report
<1>7. ToldInv(d)'
  BY <1>1 DEF DevInv, BusInv, EventInv, ToldInv, SampleBus, Report
<1>8. VoteInv(d)'
  BY <1>1, LatencyAssumption DEF DevInv, BusInv, VoteInv, SampleBus, Report, Lat, QosTypes
<1>9. quiet => KnownInv(d)'
  BY <1>1 DEF DevInv, BusInv, EventInv, ToldInv, KnownInv, SampleBus, Report
<1> QED
  BY <1>1, <1>2, <1>3, <1>4, <1>5, <1>6, <1>7, <1>8, <1>9 DEF WorkInv, DevInv

\* CheckMissed() keeps the invariant.
LEMMA CheckMissedStep ==
    ASSUME NEW d, Devs = {d}, WorkInv, CheckMissed(d), UNCHANGED quiet
    PROVE  WorkInv'
<1> USE DEF Set, bus, sw, work, qos, events, Working, Uevents, States, QosStates
<1>1. BusTypes /\ WorkTypes /\ QosTypes /\ quiet \in BOOLEAN /\ DevInv(d) /\ d \in Devs
  BY DEF WorkInv
<1>2. BusTypes'
  BY <1>1 DEF BusTypes, CheckMissed, Missed
<1>3. WorkTypes'
  BY <1>1 DEF WorkTypes, CheckMissed, Missed
<1>4. QosTypes'
  BY <1>1, LatencyAssumption DEF QosTypes, CheckMissed, Missed
<1> USE DEF BusTypes, WorkTypes
<1>5. BusInv(d)'
  BY <1>1 DEF DevInv, BusInv, CheckMissed, Missed
<1>6. EventInv(d)'
  BY <1>1 DEF DevInv, BusInv, EventInv, CheckMissed, Missed
<1>7. ToldInv(d)'
  BY <1>1 DEF DevInv, BusInv, EventInv, ToldInv, CheckMissed, Missed
<1>8. VoteInv(d)'
  BY <1>1, LatencyAssumption DEF DevInv, BusInv, VoteInv, CheckMissed, Missed, Lat, QosTypes
<1>9. quiet => KnownInv(d)'
  BY <1>1 DEF DevInv, BusInv, EventInv, ToldInv, KnownInv, CheckMissed, Missed
<1> QED
  BY <1>1, <1>2, <1>3, <1>4, <1>5, <1>6, <1>7, <1>8, <1>9 DEF WorkInv, DevInv

\* SendMissed() keeps the invariant.
LEMMA SendMissedStep ==
    ASSUME NEW d, Devs = {d}, WorkInv, SendMissed(d), UNCHANGED quiet
    PROVE  WorkInv'
<1> USE DEF Set, bus, sw, work, qos, events, Working, Uevents, States, QosStates
<1>1. BusTypes /\ WorkTypes /\ QosTypes /\ quiet \in BOOLEAN /\ DevInv(d) /\ d \in Devs
  BY DEF WorkInv
<1>2. BusTypes'
  BY <1>1 DEF BusTypes, SendMissed
<1>3. WorkTypes'
  BY <1>1 DEF WorkTypes, SendMissed
<1>4. QosTypes'
  BY <1>1, LatencyAssumption DEF QosTypes, SendMissed
<1> USE DEF BusTypes, WorkTypes
<1>5. BusInv(d)'
  BY <1>1 DEF DevInv, BusInv, SendMissed
<1>6. EventInv(d)'
  BY <1>1 DEF DevInv, BusInv, EventInv, SendMissed
<1>7. ToldInv(d)'
  BY <1>1 DEF DevInv, BusInv, EventInv, ToldInv, SendMissed
<1>8. VoteInv(d)'
  BY <1>1, LatencyAssumption DEF DevInv, BusInv, VoteInv, SendMissed, Lat, QosTypes
<1>9. quiet => KnownInv(d)'
  BY <1>1 DEF DevInv, BusInv, EventInv, ToldInv, KnownInv, SendMissed
<1> QED
  BY <1>1, <1>2, <1>3, <1>4, <1>5, <1>6, <1>7, <1>8, <1>9 DEF WorkInv, DevInv

\* SendUevent() keeps the invariant.
LEMMA SendUeventStep ==
    ASSUME NEW d, Devs = {d}, WorkInv, SendUevent(d), UNCHANGED quiet
    PROVE  WorkInv'
<1> USE DEF Set, bus, sw, work, qos, events, Working, Uevents, States, QosStates
<1>1. BusTypes /\ WorkTypes /\ QosTypes /\ quiet \in BOOLEAN /\ DevInv(d) /\ d \in Devs
  BY DEF WorkInv
<1>2. BusTypes'
  BY <1>1 DEF BusTypes, SendUevent
<1>3. WorkTypes'
  <2>1. CASE next_state \in {"SUSPENDED", "RESUMED"}
    BY <1>1, <2>1 DEF WorkTypes, SendUevent
  <2>2. CASE next_state \notin {"SUSPENDED", "RESUMED"}
    <3>1. envp[d] = next_state /\ next_state \in Uevents
      BY <1>1, <2>2 DEF WorkTypes, DevInv, EventInv, SendUevent
    <3>2. \E b \in BOOLEAN : owesDisc' = [owesDisc EXCEPT ![d] = b]
      BY <1>1, <2>2 DEF WorkTypes, SendUevent
    <3> QED
      BY <1>1, <2>2, <3>1, <3>2 DEF WorkTypes, SendUevent
  <2> QED
    BY <2>1, <2>2
<1>4. QosTypes'
  BY <1>1, LatencyAssumption DEF QosTypes, SendUevent
<1> USE DEF BusTypes, WorkTypes
<1>5. BusInv(d)'
  BY <1>1 DEF DevInv, BusInv, SendUevent
<1>6. EventInv(d)'
  BY <1>1 DEF DevInv, BusInv, EventInv, SendUevent
<1>7. ToldInv(d)'
  BY <1>1 DEF DevInv, BusInv, EventInv, ToldInv, SendUevent
<1>8. VoteInv(d)'
  BY <1>1, LatencyAssumption DEF DevInv, BusInv, VoteInv, SendUevent, Lat, QosTypes
<1>9. quiet => KnownInv(d)'
  BY <1>1 DEF DevInv, BusInv, EventInv, ToldInv, KnownInv, SendUevent
<1> QED
  BY <1>1, <1>2, <1>3, <1>4, <1>5, <1>6, <1>7, <1>8, <1>9 DEF WorkInv, DevInv

\* android_pm_qos_update_latency() with a latency of the platform.
UpdateTo(d, l) ==
  IF l \in {0, last_vote} THEN UNCHANGED <<last_vote, active>>
  ELSE last_vote' = l /\ active' = [active EXCEPT ![d] = l # DefaultValue]

\* What the vote of the work does, on either platform.
Voting(d) ==
  /\ wpc[d] = "vote"
  /\ \/ /\ vote[d] = "on" /\ UpdateTo(d, Lat["WFI"])
        /\ curr_pm_qos_state' = [curr_pm_qos_state EXCEPT ![d] = "WFI"]
        /\ qosPending' = [qosPending EXCEPT ![d] = TRUE]
     \/ /\ vote[d] = "off" /\ UpdateTo(d, DefaultValue)
        /\ curr_pm_qos_state' = [curr_pm_qos_state EXCEPT ![d] = "NO_USB_VOTE"]
        /\ qosPending' = [qosPending EXCEPT ![d] = FALSE]
     \/ vote[d] = "none" /\ UNCHANGED <<last_vote, active, curr_pm_qos_state, qosPending>>
  /\ wpc' = [wpc EXCEPT ![d] = IF envp[d] = "none" THEN "idle" ELSE "check"]
  /\ UNCHANGED <<bus, sw, pm_qos, setup, pending, envp, vote, next_state, last_uevent,
                 no_int_sample_count, events>>

\* What android_pm_qos_work does: it goes from one state to another, and keeps out
\* of the vote.
Governing(d) ==
  /\ wpc[d] # "vote" /\ no_int_sample_count' \in Nat
  /\ \E next \in QosStates \cup {"NO_USB_VOTE"} :
       /\ next = "NO_USB_VOTE" <=> curr_pm_qos_state[d] = "NO_USB_VOTE"
       /\ curr_pm_qos_state' = [curr_pm_qos_state EXCEPT ![d] = next]
       /\ IF next # curr_pm_qos_state[d] THEN UpdateTo(d, Lat[next])
          ELSE UNCHANGED <<last_vote, active>>
  /\ \E b \in BOOLEAN : qosPending' = [qosPending EXCEPT ![d] = b]
  /\ UNCHANGED <<bus, sw, pm_qos, setup, pending, work, events>>

\* The latencies of the quiet platform are those of the other or none.
LEMMA Latencies ==
  /\ Lat["WFI"] = Latency["WFI"]
  /\ \A s \in QosStates : Lat[s] \in {0, Latency[s]}
  /\ Lat["WFI"] \notin {0, DefaultValue}
BY LatencyAssumption DEF Lat, QosStates

\* An update leaves a vote of the platform, and the request is active with it.
LEMMA UpdateKeeps ==
    ASSUME NEW d, Devs = {d}, WorkInv, NEW l \in {Lat[s] : s \in QosStates} \cup {DefaultValue},
           UpdateTo(d, l)
    PROVE  /\ last_vote' \in {Latency[s] : s \in QosStates} \cup {DefaultValue}
           /\ active' \in [Devs -> BOOLEAN]
           /\ active'[d] <=> last_vote' # DefaultValue
           /\ l # 0 => last_vote' = l
<1>1. QosTypes /\ VoteInv(d)
  BY DEF WorkInv, DevInv
<1>2. l \in {Latency[s] : s \in QosStates} \cup {DefaultValue, 0}
  BY Latencies
<1> QED
  BY <1>1, <1>2, LatencyAssumption DEF QosTypes, VoteInv, UpdateTo

\* The vote keeps the invariant.
LEMMA VotingStep ==
    ASSUME NEW d, Devs = {d}, WorkInv, Voting(d), UNCHANGED quiet
    PROVE  WorkInv'
<1> USE DEF bus, sw, events, Working, Uevents, States
<1>1. BusTypes /\ WorkTypes /\ QosTypes /\ quiet \in BOOLEAN /\ DevInv(d) /\ d \in Devs
  BY DEF WorkInv
<1>2. BusTypes'
  BY <1>1 DEF BusTypes, Voting
<1>3. WorkTypes'
  BY <1>1 DEF WorkTypes, Voting
<1>4. /\ last_vote' \in {Latency[s] : s \in QosStates} \cup {DefaultValue}
      /\ active' \in [Devs -> BOOLEAN]
      /\ active'[d] <=> last_vote' # DefaultValue
      /\ vote[d] = "on" => last_vote' = Lat["WFI"]
      /\ vote[d] = "off" => last_vote' = DefaultValue
  <2>1. CASE vote[d] = "on"
    BY <2>1, UpdateKeeps, Latencies DEF Voting, QosStates
  <2>2. CASE vote[d] = "off"
    BY <2>2, UpdateKeeps, LatencyAssumption DEF Voting
  <2>3. CASE vote[d] = "none"
    BY <1>1, <2>3 DEF Voting, QosTypes, DevInv, VoteInv
  <2> QED
    BY <1>1, <2>1, <2>2, <2>3 DEF WorkTypes
<1>5. QosTypes'
  BY <1>1, <1>4 DEF QosTypes, Voting, QosStates
<1>6. Lat' = Lat
  BY DEF Lat
<1>7. VoteInv(d)'
  BY <1>1, <1>4, <1>6, Latencies DEF BusTypes, WorkTypes, QosTypes, DevInv, VoteInv, Voting, QosStates
<1>8. BusInv(d)' /\ EventInv(d)' /\ ToldInv(d)'
  BY <1>1 DEF BusTypes, WorkTypes, DevInv, BusInv, EventInv, ToldInv, Voting
<1>9. quiet => KnownInv(d)'
  BY <1>1 DEF BusTypes, WorkTypes, DevInv, BusInv, KnownInv, Voting
<1> QED
  BY <1>1, <1>2, <1>3, <1>5, <1>7, <1>8, <1>9 DEF WorkInv, DevInv

\* The governor keeps it.
LEMMA GoverningStep ==
    ASSUME NEW d, Devs = {d}, WorkInv, Governing(d), UNCHANGED quiet
    PROVE  WorkInv'
<1> USE DEF bus, sw, work, events, Working
<1>1. BusTypes /\ WorkTypes /\ QosTypes /\ quiet \in BOOLEAN /\ DevInv(d) /\ d \in Devs
  BY DEF WorkInv
<1>2. BusTypes'
  BY <1>1 DEF BusTypes, Governing
<1>3. WorkTypes'
  BY <1>1 DEF WorkTypes, Governing
<1>4. PICK next \in QosStates \cup {"NO_USB_VOTE"} :
       /\ next = "NO_USB_VOTE" <=> curr_pm_qos_state[d] = "NO_USB_VOTE"
       /\ curr_pm_qos_state' = [curr_pm_qos_state EXCEPT ![d] = next]
       /\ IF next # curr_pm_qos_state[d] THEN UpdateTo(d, Lat[next])
          ELSE UNCHANGED <<last_vote, active>>
  BY DEF Governing
<1>5. /\ last_vote' \in {Latency[s] : s \in QosStates} \cup {DefaultValue}
      /\ active' \in [Devs -> BOOLEAN]
      /\ active'[d] <=> last_vote' # DefaultValue
      /\ next \in QosStates /\ Lat[next] # 0 => last_vote' = Lat[next]
      /\ next = "NO_USB_VOTE" => last_vote' = DefaultValue
  <2>1. CASE next # curr_pm_qos_state[d]
    <3>1. next \in QosStates /\ UpdateTo(d, Lat[next])
      BY <1>1, <1>4, <2>1 DEF QosTypes, QosStates
    <3>2. next # "NO_USB_VOTE"
      BY <3>1 DEF QosStates
    <3> QED
      BY <3>1, <3>2, UpdateKeeps
  <2>2. CASE next = curr_pm_qos_state[d]
    BY <1>1, <1>4, <2>2 DEF QosTypes, DevInv, VoteInv
  <2> QED
    BY <2>1, <2>2
<1>6. QosTypes'
  BY <1>1, <1>4, <1>5 DEF QosTypes, Governing
<1>7. Lat' = Lat
  BY DEF Lat
<1>8. VoteInv(d)'
  BY <1>1, <1>4, <1>5, <1>7 DEF BusTypes, WorkTypes, QosTypes, DevInv, VoteInv, Governing, QosStates
<1>9. BusInv(d)' /\ EventInv(d)' /\ ToldInv(d)'
  BY <1>1 DEF BusTypes, WorkTypes, DevInv, BusInv, EventInv, ToldInv, Governing
<1>10. quiet => KnownInv(d)'
  BY <1>1 DEF BusTypes, WorkTypes, DevInv, KnownInv, Governing
<1> QED
  BY <1>1, <1>2, <1>3, <1>6, <1>8, <1>9, <1>10 DEF WorkInv, DevInv

-----------------------------------------------------------------------------
(* Both platforms *)

\* The vote and the governor of the platform with all latencies ...
LEMMA PlatformSteps ==
    ASSUME NEW d, Devs = {d}, WorkInv, ~quiet
    PROVE  /\ Vote(d) => Voting(d)
           /\ android_pm_qos_work(d) => Governing(d)
<1>0. Lat = Latency
  BY DEF Lat
<1>1. Vote(d) => Voting(d)
  BY <1>0 DEF Vote, Voting, UpdateLatency, UpdateTo, Set
<1>2. ASSUME android_pm_qos_work(d) PROVE Governing(d)
  <2> DEFINE state == curr_pm_qos_state[d]
             silent(count) == IF count # "none" THEN 0 ELSE no_int_sample_count + 1
             next(count) ==
               CASE state = "WFI" -> IF count = "many" THEN "WFI" ELSE "IDLE_PC"
                 [] state = "IDLE_PC" ->
                      IF count \in {"some", "many"} THEN "WFI"
                      ELSE IF silent(count) >= RpmSamples THEN "IDLE_PC_RPM" ELSE "IDLE_PC"
                 [] state = "IDLE_PC_RPM" -> IF count = "none" THEN "IDLE_PC_RPM" ELSE "WFI"
                 [] OTHER -> state
  <2>1. PICK count \in {"none", "few", "some", "many"} :
          /\ no_int_sample_count' =
               CASE state = "IDLE_PC" -> silent(count)
                 [] state \in QosStates /\ next(count) # state -> 0
                 [] OTHER -> no_int_sample_count
          /\ curr_pm_qos_state' = [curr_pm_qos_state EXCEPT ![d] = next(count)]
          /\ IF next(count) # state THEN UpdateLatency(d, Latency[next(count)])
             ELSE UNCHANGED <<last_vote, active>>
          /\ qosPending' = [qosPending EXCEPT ![d] = state \in QosStates]
    BY <1>2 DEF android_pm_qos_work, Set
  <2>2. state \in QosStates \cup {"NO_USB_VOTE"} /\ no_int_sample_count \in Nat
    BY DEF WorkInv, QosTypes
  <2>3. /\ next(count) \in QosStates \cup {"NO_USB_VOTE"}
        /\ next(count) = "NO_USB_VOTE" <=> state = "NO_USB_VOTE"
    BY <2>2 DEF QosStates
  <2>4. no_int_sample_count' \in Nat
    BY <2>1, <2>2
  <2>5. IF next(count) # state THEN UpdateTo(d, Lat[next(count)]) ELSE UNCHANGED <<last_vote, active>>
    BY <1>0, <2>1, Zenon DEF UpdateLatency, UpdateTo, Set
  <2>6. wpc[d] # "vote" /\ UNCHANGED <<bus, sw, pm_qos, setup, pending, work, events>>
    BY <1>2 DEF android_pm_qos_work
  <2>7. (state \in QosStates) \in BOOLEAN
    OBVIOUS
  <2> HIDE DEF next, silent
  <2> QED
    BY <2>1, <2>3, <2>4, <2>5, <2>6, <2>7 DEF Governing
<1> QED
  BY <1>1, <1>2

\* ... those of the quiet one, ...
LEMMA QuietSteps ==
    ASSUME NEW d, Devs = {d}, WorkInv, quiet
    PROVE  /\ Quiet!Vote(d) => Voting(d)
           /\ Quiet!android_pm_qos_work(d) => Governing(d)
<1>0. Lat = [Latency EXCEPT !["IDLE_PC"] = 0]
  BY DEF Lat
<1>1. Quiet!Vote(d) => Voting(d)
  BY <1>0 DEF Quiet!Vote, Voting, Quiet!UpdateLatency, UpdateTo, Quiet!Set, Quiet!bus, Quiet!sw, Quiet!events, bus, sw, events
<1>2. ASSUME Quiet!android_pm_qos_work(d) PROVE Governing(d)
  <2> DEFINE state == curr_pm_qos_state[d]
             silent(count) == IF count # "none" THEN 0 ELSE no_int_sample_count + 1
             next(count) ==
               CASE state = "WFI" -> IF count = "many" THEN "WFI" ELSE "IDLE_PC"
                 [] state = "IDLE_PC" ->
                      IF count \in {"some", "many"} THEN "WFI"
                      ELSE IF silent(count) >= RpmSamples THEN "IDLE_PC_RPM" ELSE "IDLE_PC"
                 [] state = "IDLE_PC_RPM" -> IF count = "none" THEN "IDLE_PC_RPM" ELSE "WFI"
                 [] OTHER -> state
  <2>1. PICK count \in {"none", "few", "some", "many"} :
          /\ no_int_sample_count' =
               CASE state = "IDLE_PC" -> silent(count)
                 [] state \in Quiet!QosStates /\ next(count) # state -> 0
                 [] OTHER -> no_int_sample_count
          /\ curr_pm_qos_state' = [curr_pm_qos_state EXCEPT ![d] = next(count)]
          /\ IF next(count) # state THEN Quiet!UpdateLatency(d, [Latency EXCEPT !["IDLE_PC"] = 0][next(count)])
             ELSE UNCHANGED <<last_vote, active>>
          /\ qosPending' = [qosPending EXCEPT ![d] = state \in Quiet!QosStates]
    BY <1>2 DEF Quiet!android_pm_qos_work, Quiet!Set
  <2>2. state \in QosStates \cup {"NO_USB_VOTE"} /\ no_int_sample_count \in Nat
    BY DEF WorkInv, QosTypes
  <2>3. /\ next(count) \in QosStates \cup {"NO_USB_VOTE"}
        /\ next(count) = "NO_USB_VOTE" <=> state = "NO_USB_VOTE"
    BY <2>2 DEF QosStates
  <2>4. no_int_sample_count' \in Nat
    BY <2>1, <2>2
  <2>5. IF next(count) # state THEN UpdateTo(d, Lat[next(count)]) ELSE UNCHANGED <<last_vote, active>>
    BY <1>0, <2>1, Zenon DEF Quiet!UpdateLatency, UpdateTo, Quiet!Set
  <2>6. wpc[d] # "vote" /\ UNCHANGED <<bus, sw, pm_qos, setup, pending, work, events>>
    BY <1>2 DEF Quiet!android_pm_qos_work, Quiet!bus, Quiet!sw, Quiet!work, Quiet!events, bus, sw, work, events
  <2>7. (state \in Quiet!QosStates) \in BOOLEAN
    OBVIOUS
  <2> HIDE DEF next, silent
  <2> QED
    BY <2>1, <2>3, <2>4, <2>5, <2>6, <2>7 DEF Governing
<1> QED
  BY <1>1, <1>2

\* ... and the other steps of the quiet platform, which are those of the first.
LEMMA QuietSame ==
    ASSUME NEW d, Devs = {d}
    PROVE  /\ Quiet!android_setup(d) => android_setup(d)
           /\ Quiet!composite_setup(d) => composite_setup(d)
           /\ Quiet!android_setup_end(d) => android_setup_end(d)
           /\ Quiet!android_disconnect(d) => android_disconnect(d)
           /\ Quiet!android_resume(d) => android_resume(d)
           /\ Quiet!RemoveActiveConfig(d) => RemoveActiveConfig(d)
           /\ Quiet!enable_store_fails(d) => enable_store_fails(d)
           /\ Quiet!pm_qos_store(d) => StoresPolicy(d)
           /\ Quiet!StartWork(d) => StartWork(d)
           /\ Quiet!SampleBus(d) => SampleBus(d)
           /\ Quiet!CheckMissed(d) => CheckMissed(d)
           /\ Quiet!SendMissed(d) => SendMissed(d)
           /\ Quiet!SendUevent(d) => SendUevent(d)
           /\ ~Quiet!android_suspend(d)
<1> USE DEF Set, Quiet!Set, bus, Quiet!bus, sw, Quiet!sw, work, Quiet!work, qos, Quiet!qos, events, Quiet!events
<1>1. Quiet!android_setup(d) => android_setup(d)
  BY DEF android_setup, Quiet!android_setup, Idle, Quiet!Idle
<1>2. Quiet!composite_setup(d) => composite_setup(d)
  BY DEF composite_setup, Quiet!composite_setup
<1>3. Quiet!android_setup_end(d) => android_setup_end(d)
  BY DEF android_setup_end, Quiet!android_setup_end, NoSetup, Quiet!NoSetup
<1>4. Quiet!android_disconnect(d) => android_disconnect(d)
  BY DEF android_disconnect, Quiet!android_disconnect, Idle, Quiet!Idle
<1>5. Quiet!android_resume(d) => android_resume(d)
  BY DEF android_resume, Quiet!android_resume, Idle, Quiet!Idle
<1>6. Quiet!RemoveActiveConfig(d) => RemoveActiveConfig(d)
  BY DEF RemoveActiveConfig, Quiet!RemoveActiveConfig
<1>7. Quiet!enable_store_fails(d) => enable_store_fails(d)
  BY DEF enable_store_fails, Quiet!enable_store_fails
<1>8. Quiet!pm_qos_store(d) => StoresPolicy(d)
  BY DEF StoresPolicy, Quiet!pm_qos_store
<1>9. Quiet!StartWork(d) => StartWork(d)
  BY DEF StartWork, Quiet!StartWork
<1>10. Quiet!SampleBus(d) => SampleBus(d)
  BY DEF SampleBus, Quiet!SampleBus, Report, Quiet!Report
<1>11. Quiet!CheckMissed(d) => CheckMissed(d)
  BY DEF CheckMissed, Quiet!CheckMissed, Missed, Quiet!Missed
<1>12. Quiet!SendMissed(d) => SendMissed(d)
  BY DEF SendMissed, Quiet!SendMissed
<1>13. Quiet!SendUevent(d) => SendUevent(d)
  BY DEF SendUevent, Quiet!SendUevent
<1>14. ~Quiet!android_suspend(d)
  BY DEF Quiet!android_suspend
<1> QED
  BY <1>1, <1>2, <1>3, <1>4, <1>5, <1>6, <1>7, <1>8, <1>9, <1>10, <1>11, <1>12, <1>13, <1>14

\* Every step of either platform keeps the invariant.
LEMMA WorkInvStep ==
    ASSUME NEW d, Devs = {d}, WorkInv, [MCNext]_<<vars, quiet>>
    PROVE  WorkInv'
<1>0. quiet \in BOOLEAN
  BY DEF WorkInv
<1>1. CASE ~quiet /\ Next /\ UNCHANGED quiet
  <2>1. \/ WorkStep(d) \/ Callback(d) \/ android_pm_qos_work(d)
        \/ RemoveActiveConfig(d) \/ enable_store_fails(d) \/ pm_qos_store(d)
    BY <1>1 DEF Next
  <2>2. pm_qos_store(d) => StoresPolicy(d)
    BY BoundsAssumption DEF pm_qos_store, StoresPolicy
  <2> QED
    BY <1>1, <2>1, <2>2, PlatformSteps, VotingStep, GoverningStep, StartWorkStep, SampleBusStep,
       CheckMissedStep, SendMissedStep, SendUeventStep, Android_setupStep, Composite_setupStep,
       Android_setup_endStep, Android_disconnectStep, Android_suspendStep, Android_resumeStep,
       RemoveActiveConfigStep, Enable_store_failsStep, StoresPolicyStep
       DEF WorkStep, Callback
<1>2. CASE quiet /\ Quiet!Next /\ UNCHANGED quiet
  <2>1. \/ Quiet!WorkStep(d) \/ Quiet!Callback(d) \/ Quiet!android_pm_qos_work(d)
        \/ Quiet!RemoveActiveConfig(d) \/ Quiet!enable_store_fails(d) \/ Quiet!pm_qos_store(d)
    BY <1>2 DEF Quiet!Next
  <2> QED
    BY <1>2, <2>1, QuietSteps, QuietSame, VotingStep, GoverningStep, StartWorkStep, SampleBusStep,
       CheckMissedStep, SendMissedStep, SendUeventStep, Android_setupStep, Composite_setupStep,
       Android_setup_endStep, Android_disconnectStep, Android_resumeStep,
       RemoveActiveConfigStep, Enable_store_failsStep, StoresPolicyStep
       DEF Quiet!WorkStep, Quiet!Callback
<1>3. CASE UNCHANGED <<vars, quiet>>
  <2>1. UNCHANGED <<connected, suspended, config, attached, sw_connected, sw_suspended, pm_qos, setup,
                    pending, wpc, envp, vote, next_state, last_uevent, last_vote, active,
                    curr_pm_qos_state, qosPending, no_int_sample_count, sent, owesDisc, quiet>>
    BY <1>3 DEF vars, bus, sw, work, qos, events
  <2>2. BusTypes' /\ WorkTypes' /\ QosTypes' /\ quiet' \in BOOLEAN
    BY <2>1 DEF WorkInv, BusTypes, WorkTypes, QosTypes
  <2>3. ASSUME NEW e \in Devs PROVE DevInv(e)'
    <3>1. DevInv(e)
      BY DEF WorkInv
    <3> QED
      BY <2>1, <3>1 DEF DevInv, BusInv, EventInv, ToldInv, VoteInv, KnownInv, Working, Lat
  <2> QED
    BY <2>2, <2>3 DEF WorkInv
<1> QED
  BY <1>0, <1>1, <1>2, <1>3 DEF MCNext

\* It holds at the start.
LEMMA WorkInvInit ==
    ASSUME MCInit
    PROVE  WorkInv
<1> USE DEF MCInit, Init, All
<1>1. BusTypes /\ WorkTypes /\ QosTypes /\ quiet \in BOOLEAN
  <2>1. BusTypes
    BY DEF BusTypes, NoSetup
  <2>2. WorkTypes
    BY DEF WorkTypes, States, Uevents
  <2>3. QosTypes
    BY DEF QosTypes
  <2> QED
    BY <2>1, <2>2, <2>3
<1>2. ASSUME NEW d \in Devs PROVE DevInv(d)
  BY DEF DevInv, BusInv, EventInv, ToldInv, VoteInv, KnownInv, Working, NoSetup, QosStates
<1> QED
  BY <1>1, <1>2 DEF WorkInv

\* The invariant of one device, on either platform.
LEMMA WorkInvariance ==
    ASSUME NEW d, Devs = {d}
    PROVE  MCSpec => []WorkInv
<1>1. MCInit => WorkInv
  BY WorkInvInit
<1>2. WorkInv /\ [MCNext]_<<vars, quiet>> => WorkInv'
  BY WorkInvStep
<1> QED
  BY <1>1, <1>2, PTL DEF MCSpec

\* With one device, however callbacks and work interleave: no second CONFIGURED is
\* sent without a DISCONNECTED in between; and once android_work has run, a device
\* whose session has ended was reported and holds no vote.
THEOREM DisconnectsAreReported ==
    ASSUME NEW d, Devs = {d}
    PROVE  MCSpec => []DisconnectsReported
<1>1. ASSUME WorkInv PROVE DisconnectsReported
  <2>1. BusTypes /\ WorkTypes /\ QosTypes /\ DevInv(d)
    BY <1>1 DEF WorkInv
  <2>2. TypeOK
    BY <2>1 DEF BusTypes, WorkTypes, QosTypes, TypeOK
  <2>3. DisconnectPrecedesConfigured
    BY <2>1 DEF DisconnectPrecedesConfigured, DevInv, EventInv
  <2>4. DisconnectReported
    BY <2>1 DEF DisconnectReported, Quiescent, Idle, DevInv, ToldInv, VoteInv, BusTypes, WorkTypes,
       QosTypes, Working
  <2> QED
    BY <2>2, <2>3, <2>4 DEF DisconnectsReported
<1>2. WorkInv => DisconnectsReported
  BY <1>1
<1> QED
  BY <1>2, WorkInvariance, PTL

\* With one device, its pm_qos request is the one that curr_pm_qos_state calls for,
\* whatever the latencies and whoever updated it last, the work or the governor.
THEOREM VoteMatchesItsState ==
    ASSUME NEW d, Devs = {d}
    PROVE  MCSpec => []VoteMatches
<1>1. ASSUME WorkInv PROVE VoteMatches
  <2>1. QosTypes /\ VoteInv(d) /\ quiet \in BOOLEAN
    BY <1>1 DEF WorkInv, DevInv
  <2>2. CASE ~quiet
    BY <2>1, <2>2 DEF VoteMatches, VoteMatchesState, VoteInv, QosTypes, Lat
  <2>3. CASE quiet
    BY <2>1, <2>3 DEF VoteMatches, Quiet!VoteMatchesState, VoteInv, QosTypes, Lat, QosStates, Quiet!QosStates
  <2> QED
    BY <2>1, <2>2, <2>3
<1>2. WorkInv => VoteMatches
  BY <1>1
<1> QED
  BY <1>2, WorkInvariance, PTL

\* With one device whose host does not suspend the bus, userspace knows of a
\* configured device that it is, once android_work has run.
THEOREM ConfiguredIsKnown ==
    ASSUME NEW d, Devs = {d}
    PROVE  MCSpec => []ConfiguredKnown
<1>1. ASSUME WorkInv PROVE ConfiguredKnown
  BY <1>1 DEF WorkInv, BusTypes, WorkTypes, DevInv, KnownInv, ConfiguredKnown, ConfiguredReported,
     Quiescent, Idle, Working
<1>2. WorkInv => ConfiguredKnown
  BY <1>1
<1> QED
  BY <1>2, WorkInvariance, PTL
=============================================================================
