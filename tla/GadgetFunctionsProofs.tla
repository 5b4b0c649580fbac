-------------------------- MODULE GadgetFunctionsProofs --------------------------
(***************************************************************************)
(* Proofs about the function drivers of the Android gadget, the life of    *)
(* its platform devices and the loopback function.                         *)
(***************************************************************************)
EXTENDS MCGadgetFunctions, FiniteSetTheorems, TLAPS

-----------------------------------------------------------------------------
(* The serial function *)

SerialTypes == TypeOK

\* A call of bind_config is under way only between init and cleanup; the slots
\* got so far, and once all are got those counted, hold live functions.
SlotInv ==
  /\ pc # "idle" => config
  /\ pc = "add" => serial_initialized /\ ports <= instances_on
  /\ pc \in {"setup", "get"} => ~serial_initialized /\ ports <= instances_on
  /\ pc = "setup" => i = 0
  /\ pc = "get" => i <= instances_on
  /\ pc = "get" /\ ~corrupt => i <= MAX_SERIAL_INSTANCES /\ \A j \in Slots : j < i => fn[j] = "live"
  /\ serial_initialized /\ config /\ ~corrupt =>
       instances_on <= MAX_SERIAL_INSTANCES /\ \A j \in Slots : j < instances_on => fn[j] = "live"

\* As long as the first initialisation has not failed, and cleanup has not undone
\* it, the ports counted are open and exactly the slots got are live.
Live(n) == \A j \in Slots : (inst[j] = "live" <=> j < n) /\ (fn[j] = "live" <=> j < n)
FirstInv ==
  ~retry =>
    /\ ~corrupt
    /\ ~serial_initialized =>
         /\ pc = "idle" => instances_on = 0
         /\ pc = "names" => instances_on = ports /\ ports < MAX_SERIAL_INSTANCES
         /\ config => Live(IF pc = "get" THEN i ELSE 0)
    /\ serial_initialized /\ config => Live(instances_on)
    /\ config => \A j \in 0..(instances_on - 1) : j \in gports
    /\ instances_on <= MAX_SERIAL_INSTANCES

SerialInv == SerialTypes /\ SlotInv /\ FirstInv

\* serial_transports_store keeps the invariant of the serial function.
LEMMA SerialTransports_store ==
    ASSUME SerialInv, serial_transports_store
    PROVE  SerialInv'
<1> USE BoundsAssumption DEF SerialInv, SerialTypes, objs, locals, Slots
<1>1. SerialTypes'
  BY DEF TypeOK, Objects, serial_transports_store
<1>2. SlotInv'
  BY DEF TypeOK, SlotInv, serial_transports_store
<1>3. FirstInv'
  BY DEF TypeOK, SlotInv, FirstInv, Live, serial_transports_store
<1> QED
  BY <1>1, <1>2, <1>3

\* serial_function_bind_config keeps the invariant of the serial function.
LEMMA SerialBind_config ==
    ASSUME SerialInv, serial_function_bind_config
    PROVE  SerialInv'
<1> USE BoundsAssumption DEF SerialInv, SerialTypes, objs, locals, Slots
<1>1. SerialTypes'
  BY DEF TypeOK, Objects, serial_function_bind_config
<1>2. SlotInv'
  BY DEF TypeOK, SlotInv, serial_function_bind_config
<1>3. FirstInv'
  BY DEF TypeOK, SlotInv, FirstInv, Live, serial_function_bind_config
<1> QED
  BY <1>1, <1>2, <1>3

\* NextName keeps the invariant of the serial function.
LEMMA SerialNextName ==
    ASSUME SerialInv, NextName
    PROVE  SerialInv'
<1> USE BoundsAssumption DEF SerialInv, SerialTypes, objs, locals, Slots
<1>1. SerialTypes'
  <2>1. gports' \subseteq Nat /\ instances_on' \in Nat /\ ports' \in Nat
    <3>1. ports' \in Nat
      BY DEF TypeOK, NextName
    <3>2. instances_on' \in Nat
      BY DEF TypeOK, NextName
    <3>3. gports' \in {gports, gports \cup {ports}}
      BY DEF NextName
    <3> QED
      BY <3>1, <3>2, <3>3 DEF TypeOK
  <2>2. pc' \in {"idle", "names"} /\ retry' \in BOOLEAN
    BY DEF TypeOK, NextName, Leave
  <2> QED
    BY <2>1, <2>2 DEF TypeOK, Objects, NextName
<1>2. SlotInv'
  BY DEF TypeOK, SlotInv, NextName, Leave
<1>3. FirstInv'
  <2>1. CASE serial_initialized
    BY <2>1 DEF TypeOK, SlotInv, FirstInv, Live, NextName, Leave
  <2>2. CASE ~serial_initialized
    <3>1. ports + 1 >= MAX_SERIAL_INSTANCES => retry'
      BY <2>2 DEF TypeOK, NextName, Leave
    <3>2. CASE ports + 1 < MAX_SERIAL_INSTANCES /\ ~retry
      <4>1. /\ pc = "names" /\ instances_on = ports /\ UNCHANGED <<pc, retry, objs, config, corrupt, serial_initialized>>
            /\ gports' = gports \cup {ports} /\ instances_on' = instances_on + 1 /\ ports' = ports + 1
        BY <2>2, <3>2 DEF TypeOK, FirstInv, NextName
      <4> QED
        BY <2>2, <3>2, <4>1 DEF TypeOK, FirstInv, Live
    <3>3. CASE retry
      BY <3>3 DEF TypeOK, NextName, Leave, FirstInv
    <3> QED
      BY <3>1, <3>2, <3>3 DEF TypeOK, FirstInv
  <2> QED
    BY <2>1, <2>2
<1> QED
  BY <1>1, <1>2, <1>3

\* NextNameFails keeps the invariant of the serial function.
LEMMA SerialNextNameFails ==
    ASSUME SerialInv, NextNameFails
    PROVE  SerialInv'
<1> USE BoundsAssumption DEF SerialInv, SerialTypes, objs, locals, Slots
<1>1. SerialTypes'
  BY DEF TypeOK, Objects, NextNameFails, Leave
<1>2. SlotInv'
  BY DEF TypeOK, SlotInv, NextNameFails, Leave
<1>3. FirstInv'
  BY DEF TypeOK, SlotInv, FirstInv, Live, NextNameFails, Leave
<1> QED
  BY <1>1, <1>2, <1>3

\* SecondPort keeps the invariant of the serial function.
LEMMA SerialSecondPort ==
    ASSUME SerialInv, SecondPort
    PROVE  SerialInv'
<1> USE BoundsAssumption DEF SerialInv, SerialTypes, objs, locals, Slots
<1>1. SerialTypes'
  BY DEF TypeOK, Objects, SecondPort
<1>2. SlotInv'
  BY DEF TypeOK, SlotInv, SecondPort
<1>3. FirstInv'
  BY DEF TypeOK, SlotInv, FirstInv, Live, SecondPort
<1> QED
  BY <1>1, <1>2, <1>3

\* SecondPortFails keeps the invariant of the serial function.
LEMMA SerialSecondPortFails ==
    ASSUME SerialInv, SecondPortFails
    PROVE  SerialInv'
<1> USE BoundsAssumption DEF SerialInv, SerialTypes, objs, locals, Slots
<1>1. SerialTypes'
  BY DEF TypeOK, Objects, SecondPortFails, Leave
<1>2. SlotInv'
  BY DEF TypeOK, SlotInv, SecondPortFails, Leave
<1>3. FirstInv'
  BY DEF TypeOK, SlotInv, FirstInv, Live, SecondPortFails, Leave
<1> QED
  BY <1>1, <1>2, <1>3

\* PortSetup keeps the invariant of the serial function.
LEMMA SerialPortSetup ==
    ASSUME SerialInv, PortSetup
    PROVE  SerialInv'
<1> USE BoundsAssumption DEF SerialInv, SerialTypes, objs, locals, Slots
<1>1. SerialTypes'
  BY DEF TypeOK, Objects, PortSetup
<1>2. SlotInv'
  BY DEF TypeOK, SlotInv, PortSetup
<1>3. FirstInv'
  BY DEF TypeOK, SlotInv, FirstInv, Live, PortSetup
<1> QED
  BY <1>1, <1>2, <1>3

\* PortSetupFails keeps the invariant of the serial function.
LEMMA SerialPortSetupFails ==
    ASSUME SerialInv, PortSetupFails
    PROVE  SerialInv'
<1> USE BoundsAssumption DEF SerialInv, SerialTypes, objs, locals, Slots
<1>1. SerialTypes'
  BY DEF TypeOK, Objects, PortSetupFails, Leave
<1>2. SlotInv'
  BY DEF TypeOK, SlotInv, PortSetupFails, Leave
<1>3. FirstInv'
  BY DEF TypeOK, SlotInv, FirstInv, Live, PortSetupFails, Leave
<1> QED
  BY <1>1, <1>2, <1>3

\* GetFunction keeps the invariant of the serial function.
LEMMA SerialGetFunction ==
    ASSUME SerialInv, GetFunction
    PROVE  SerialInv'
<1> USE BoundsAssumption DEF SerialInv, SerialTypes, objs, locals, Slots
<1>1. SerialTypes'
  <2>1. inst' \in [Slots -> Objects] /\ fn' \in [Slots -> Objects] /\ corrupt' \in BOOLEAN
    BY DEF TypeOK, Objects, GetFunction
  <2> QED
    BY <2>1 DEF TypeOK, GetFunction
<1>2. SlotInv'
  BY DEF TypeOK, SlotInv, GetFunction
<1>3. FirstInv'
  BY DEF TypeOK, SlotInv, FirstInv, Live, GetFunction
<1> QED
  BY <1>1, <1>2, <1>3

\* GetFunctionFails keeps the invariant of the serial function.
LEMMA SerialGetFunctionFails ==
    ASSUME SerialInv, GetFunctionFails
    PROVE  SerialInv'
<1> USE BoundsAssumption DEF SerialInv, SerialTypes, objs, locals, Slots
<1>1. SerialTypes'
  BY DEF TypeOK, Objects, GetFunctionFails, Leave
<1>2. SlotInv'
  BY DEF TypeOK, SlotInv, GetFunctionFails, Leave
<1>3. FirstInv'
  BY DEF TypeOK, SlotInv, FirstInv, Live, GetFunctionFails, Leave
<1> QED
  BY <1>1, <1>2, <1>3

\* Initialized keeps the invariant of the serial function.
LEMMA SerialInitialized ==
    ASSUME SerialInv, Initialized
    PROVE  SerialInv'
<1> USE BoundsAssumption DEF SerialInv, SerialTypes, objs, locals, Slots
<1>1. SerialTypes'
  BY DEF TypeOK, Objects, Initialized
<1>2. SlotInv'
  BY DEF TypeOK, SlotInv, Initialized
<1>3. FirstInv'
  BY DEF TypeOK, SlotInv, FirstInv, Live, Initialized
<1> QED
  BY <1>1, <1>2, <1>3

\* AddFunction keeps the invariant of the serial function.
LEMMA SerialAddFunction ==
    ASSUME SerialInv, AddFunction
    PROVE  SerialInv'
<1> USE BoundsAssumption DEF SerialInv, SerialTypes, objs, locals, Slots
<1>1. SerialTypes'
  BY DEF TypeOK, Objects, AddFunction
<1>2. SlotInv'
  BY DEF TypeOK, SlotInv, AddFunction
<1>3. FirstInv'
  BY DEF TypeOK, SlotInv, FirstInv, Live, AddFunction
<1> QED
  BY <1>1, <1>2, <1>3

\* AddFunctionFails keeps the invariant of the serial function.
LEMMA SerialAddFunctionFails ==
    ASSUME SerialInv, AddFunctionFails
    PROVE  SerialInv'
<1> USE BoundsAssumption DEF SerialInv, SerialTypes, objs, locals, Slots
<1>1. SerialTypes'
  BY DEF TypeOK, Objects, AddFunctionFails
<1>2. SlotInv'
  BY DEF TypeOK, SlotInv, AddFunctionFails
<1>3. FirstInv'
  BY DEF TypeOK, SlotInv, FirstInv, Live, AddFunctionFails
<1> QED
  BY <1>1, <1>2, <1>3

\* BindReturns keeps the invariant of the serial function.
LEMMA SerialBindReturns ==
    ASSUME SerialInv, BindReturns
    PROVE  SerialInv'
<1> USE BoundsAssumption DEF SerialInv, SerialTypes, objs, locals, Slots
<1>1. SerialTypes'
  BY DEF TypeOK, Objects, BindReturns
<1>2. SlotInv'
  BY DEF TypeOK, SlotInv, BindReturns
<1>3. FirstInv'
  BY DEF TypeOK, SlotInv, FirstInv, Live, BindReturns
<1> QED
  BY <1>1, <1>2, <1>3

\* UnbindConfig keeps the invariant of the serial function.
LEMMA SerialUnbindConfig ==
    ASSUME SerialInv, UnbindConfig
    PROVE  SerialInv'
<1> USE BoundsAssumption DEF SerialInv, SerialTypes, objs, locals, Slots
<1>1. SerialTypes'
  BY DEF TypeOK, Objects, UnbindConfig
<1>2. SlotInv'
  BY DEF TypeOK, SlotInv, UnbindConfig
<1>3. FirstInv'
  BY DEF TypeOK, SlotInv, FirstInv, Live, UnbindConfig
<1> QED
  BY <1>1, <1>2, <1>3

\* serial_function_cleanup keeps the invariant of the serial function.
LEMMA SerialCleanup ==
    ASSUME SerialInv, serial_function_cleanup
    PROVE  SerialInv'
<1> USE BoundsAssumption DEF SerialInv, SerialTypes, objs, locals, Slots
<1>1. SerialTypes'
  <2>1. inst' \in [Slots -> Objects] /\ fn' \in [Slots -> Objects]
    BY DEF TypeOK, Objects, serial_function_cleanup
  <2>2. corrupt' \in BOOLEAN
    BY DEF serial_function_cleanup
  <2> QED
    BY <2>1, <2>2 DEF TypeOK, serial_function_cleanup
<1>2. SlotInv'
  BY DEF TypeOK, SlotInv, serial_function_cleanup
<1>3. FirstInv'
  BY DEF TypeOK, SlotInv, FirstInv, Live, serial_function_cleanup
<1> QED
  BY <1>1, <1>2, <1>3

\* serial_function_init keeps the invariant of the serial function.
LEMMA SerialInit ==
    ASSUME SerialInv, serial_function_init
    PROVE  SerialInv'
<1> USE BoundsAssumption DEF SerialInv, SerialTypes, objs, locals, Slots
<1>1. SerialTypes'
  BY DEF TypeOK, Objects, serial_function_init
<1>2. SlotInv'
  BY DEF TypeOK, SlotInv, serial_function_init
<1>3. FirstInv'
  BY DEF TypeOK, SlotInv, FirstInv, Live, serial_function_init
<1> QED
  BY <1>1, <1>2, <1>3

\* ... and so does every step of the serial function.
LEMMA SerialStep ==
    ASSUME SerialInv, [Next]_vars
    PROVE  SerialInv'
<1>1. CASE UNCHANGED vars
  BY <1>1 DEF vars, objs, locals, SerialInv, SerialTypes, TypeOK, SlotInv, FirstInv, Live, Slots, Objects
<1>2. CASE Next
  BY <1>2, SerialTransports_store, SerialBind_config, SerialNextName, SerialNextNameFails,
     SerialSecondPort, SerialSecondPortFails, SerialPortSetup, SerialPortSetupFails,
     SerialGetFunction, SerialGetFunctionFails, SerialInitialized, SerialAddFunction,
     SerialAddFunctionFails, SerialBindReturns, SerialUnbindConfig, SerialCleanup, SerialInit
     DEF Next, BindStep
<1> QED
  BY <1>1, <1>2

\* At boot no port is open.
LEMMA SerialAtBoot ==
    ASSUME Init
    PROVE  SerialInv
<1> USE BoundsAssumption DEF Init, SerialInv, Slots
<1>1. SerialTypes
  <2>1. inst \in [Slots -> Objects] /\ fn \in [Slots -> Objects]
    BY DEF Objects
  <2>2. transports \in 1..MaxNames
    OBVIOUS
  <2> QED
    BY <2>1, <2>2 DEF SerialTypes, TypeOK
<1>2. SlotInv
  BY DEF SlotInv
<1>3. FirstInv
  BY DEF FirstInv, Live
<1> QED
  BY <1>1, <1>2, <1>3

-----------------------------------------------------------------------------
(* The life of the platform devices *)

\* Functions none of which was cleaned up without an init, and which are
\* initialised where they have a device.
Sound(fs) ==
  /\ fs \in [Lifecycle!Functions -> [dev : {"null", "live", "stale"}, init : BOOLEAN, over : BOOLEAN]]
  /\ \A f \in Lifecycle!Functions : ~fs[f].over /\ (fs[f].dev = "live" => fs[f].init)

\* The counter counts the list; as long as nobody has cleaned the functions up
\* under a device, they are initialised from the first device to the last.
LifeInv ==
  /\ Lifecycle!TypeOK
  /\ count = (IF 0 \in list THEN 1 ELSE 0) + (IF 1 \in list THEN 1 ELSE 0)
  /\ list = {} => udcs = {}
  /\ (class = "live") = (list # {})
  /\ Sound(fns)
  /\ list # {} /\ ~shared => \A f \in Lifecycle!Functions : fns[f].init

\* android_cleanup_functions() leaves sound functions sound,
LEMMA CleanedSound ==
    ASSUME NEW fs, Sound(fs)
    PROVE  Sound(Lifecycle!CleanupFunctions(fs))
BY DEF Sound, Lifecycle!CleanupFunctions

\* android_init_functions() initialises them all,
LEMMA InitialisedSound ==
    ASSUME NEW fs, Sound(fs)
    PROVE  /\ Sound(Lifecycle!InitFunctions(fs))
           /\ \A f \in Lifecycle!Functions : Lifecycle!InitFunctions(fs)[f].init
BY DEF Sound, Lifecycle!InitFunctions, Lifecycle!Initialised

\* and where it fails cleans up the ones before.
LEMMA InitFailedSound ==
    ASSUME NEW fs, Sound(fs), NEW k \in Lifecycle!Functions
    PROVE  Sound(Lifecycle!InitFails(fs, k))
<1> DEFINE gs == [f \in Lifecycle!Functions |->
                    IF f < k THEN Lifecycle!Initialised(fs[f])
                    ELSE IF f = k THEN [fs[f] EXCEPT !.dev = "null", !.init = FALSE] ELSE fs[f]]
<1>1. Sound(gs)
  BY DEF Sound, Lifecycle!Initialised
<1> QED
  BY <1>1, CleanedSound DEF Lifecycle!InitFails

\* The counter tells whether there is a device.
LEMMA CountZero ==
    ASSUME LifeInv
    PROVE  count \in 0..2 /\ (count = 0 <=> list = {})
<1>1. list \subseteq {0, 1} /\ count = (IF 0 \in list THEN 1 ELSE 0) + (IF 1 \in list THEN 1 ELSE 0)
  BY DEF LifeInv, Lifecycle!TypeOK, Lifecycle!Cores
<1>2. CASE 0 \in list /\ 1 \in list
  BY <1>1, <1>2
<1>3. CASE 0 \in list /\ 1 \notin list
  BY <1>1, <1>3
<1>4. CASE 0 \notin list /\ 1 \in list
  BY <1>1, <1>4
<1>5. CASE 0 \notin list /\ 1 \notin list
  BY <1>1, <1>5
<1> QED
  BY <1>2, <1>3, <1>4, <1>5

\* ProbeEarlyFails keeps the invariant of the devices.
LEMMA LifeProbeEarlyFails ==
    ASSUME LifeInv, NEW d \in Lifecycle!Cores, Lifecycle!ProbeEarlyFails(d)
    PROVE  LifeInv'
<1> USE GroupAssumption DEF Lifecycle!TypeOK, Lifecycle!Cores
<1>1. Sound(fns')
  BY DEF LifeInv, Lifecycle!ProbeEarlyFails, Lifecycle!Probing
<1>2. /\ count' = (IF 0 \in list' THEN 1 ELSE 0) + (IF 1 \in list' THEN 1 ELSE 0)
      /\ list' = {} => udcs' = {}
      /\ (class' = "live") = (list' # {})
  BY DEF LifeInv, Lifecycle!ProbeEarlyFails, Lifecycle!Probing
<1>3. list' # {} /\ ~shared' => \A f \in Lifecycle!Functions : fns'[f].init
  BY CountZero DEF LifeInv, Lifecycle!ProbeEarlyFails, Lifecycle!Probing
<1>4. Lifecycle!TypeOK'
  BY <1>1, <1>2 DEF LifeInv, Sound, Lifecycle!ProbeEarlyFails, Lifecycle!Probing
<1> QED
  BY <1>1, <1>2, <1>3, <1>4 DEF LifeInv, Sound

\* ProbeFails keeps the invariant of the devices.
LEMMA LifeProbeFails ==
    ASSUME LifeInv, NEW d \in Lifecycle!Cores, Lifecycle!ProbeFails(d)
    PROVE  LifeInv'
<1> USE GroupAssumption DEF Lifecycle!TypeOK, Lifecycle!Cores
<1>1. Sound(fns')
  BY DEF LifeInv, Lifecycle!ProbeFails, Lifecycle!Probing, Lifecycle!ClassForProbe, Lifecycle!ClassAfter
<1>2. /\ count' = (IF 0 \in list' THEN 1 ELSE 0) + (IF 1 \in list' THEN 1 ELSE 0)
      /\ list' = {} => udcs' = {}
      /\ (class' = "live") = (list' # {})
  BY DEF LifeInv, Lifecycle!ProbeFails, Lifecycle!Probing, Lifecycle!ClassForProbe, Lifecycle!ClassAfter
<1>3. list' # {} /\ ~shared' => \A f \in Lifecycle!Functions : fns'[f].init
  BY CountZero DEF LifeInv, Lifecycle!ProbeFails, Lifecycle!Probing, Lifecycle!ClassForProbe, Lifecycle!ClassAfter
<1>4. Lifecycle!TypeOK'
  BY <1>1, <1>2 DEF LifeInv, Sound, Lifecycle!ProbeFails, Lifecycle!Probing, Lifecycle!ClassForProbe, Lifecycle!ClassAfter
<1> QED
  BY <1>1, <1>2, <1>3, <1>4 DEF LifeInv, Sound

\* ProbeBindFails keeps the invariant of the devices.
LEMMA LifeProbeBindFails ==
    ASSUME LifeInv, NEW d \in Lifecycle!Cores, Lifecycle!ProbeBindFails(d)
    PROVE  LifeInv'
<1> USE GroupAssumption DEF Lifecycle!TypeOK, Lifecycle!Cores
<1>1. Sound(fns')
  BY InitFailedSound DEF LifeInv, Lifecycle!ProbeBindFails, Lifecycle!Probing, Lifecycle!ClassForProbe, Lifecycle!ClassAfter
<1>2. /\ count' = (IF 0 \in list' THEN 1 ELSE 0) + (IF 1 \in list' THEN 1 ELSE 0)
      /\ list' = {} => udcs' = {}
      /\ (class' = "live") = (list' # {})
  BY DEF LifeInv, Lifecycle!ProbeBindFails, Lifecycle!Probing, Lifecycle!ClassForProbe, Lifecycle!ClassAfter
<1>3. list' # {} /\ ~shared' => \A f \in Lifecycle!Functions : fns'[f].init
  <2>1. fns' = fns \/ list = {}
    BY CountZero DEF Lifecycle!ProbeBindFails
  <2>2. UNCHANGED <<list, shared>>
    BY DEF Lifecycle!ProbeBindFails
  <2> QED
    BY <2>1, <2>2 DEF LifeInv
<1>4. Lifecycle!TypeOK'
  BY <1>1, <1>2 DEF LifeInv, Sound, Lifecycle!ProbeBindFails, Lifecycle!Probing, Lifecycle!ClassForProbe, Lifecycle!ClassAfter
<1> QED
  BY <1>1, <1>2, <1>3, <1>4 DEF LifeInv, Sound

\* Probe keeps the invariant of the devices.
LEMMA LifeProbe ==
    ASSUME LifeInv, NEW d \in Lifecycle!Cores, Lifecycle!Probe(d)
    PROVE  LifeInv'
<1> USE GroupAssumption DEF Lifecycle!TypeOK, Lifecycle!Cores
<1>1. Sound(fns')
  BY InitialisedSound DEF LifeInv, Lifecycle!Probe, Lifecycle!Probing, Lifecycle!ClassForProbe
<1>2. /\ count' = (IF 0 \in list' THEN 1 ELSE 0) + (IF 1 \in list' THEN 1 ELSE 0)
      /\ list' = {} => udcs' = {}
      /\ (class' = "live") = (list' # {})
  BY DEF LifeInv, Lifecycle!Probe, Lifecycle!Probing, Lifecycle!ClassForProbe
<1>3. list' # {} /\ ~shared' => \A f \in Lifecycle!Functions : fns'[f].init
  <2>1. CASE list = {}
    <3>1. fns' = Lifecycle!InitFunctions(fns)
      BY <2>1, CountZero DEF Lifecycle!Probe
    <3> QED
      BY <3>1, InitialisedSound DEF LifeInv
  <2>2. CASE list # {}
    <3>1. fns' = fns /\ shared' = shared
      BY <2>2, CountZero DEF Lifecycle!Probe
    <3> QED
      BY <2>2, <3>1 DEF LifeInv
  <2> QED
    BY <2>1, <2>2
<1>4. Lifecycle!TypeOK'
  BY <1>1, <1>2 DEF LifeInv, Sound, Lifecycle!Probe, Lifecycle!Probing, Lifecycle!ClassForProbe
<1> QED
  BY <1>1, <1>2, <1>3, <1>4 DEF LifeInv, Sound

\* ProbeStartFails keeps the invariant of the devices.
LEMMA LifeProbeStartFails ==
    ASSUME LifeInv, NEW d \in Lifecycle!Cores, Lifecycle!ProbeStartFails(d)
    PROVE  LifeInv'
<1> USE GroupAssumption DEF Lifecycle!TypeOK, Lifecycle!Cores
<1>1. Sound(fns')
  BY InitialisedSound, CleanedSound DEF LifeInv, Lifecycle!ProbeStartFails, Lifecycle!Probing, Lifecycle!ClassForProbe, Lifecycle!ClassAfter
<1>2. /\ count' = (IF 0 \in list' THEN 1 ELSE 0) + (IF 1 \in list' THEN 1 ELSE 0)
      /\ list' = {} => udcs' = {}
      /\ (class' = "live") = (list' # {})
  BY DEF LifeInv, Lifecycle!ProbeStartFails, Lifecycle!Probing, Lifecycle!ClassForProbe, Lifecycle!ClassAfter
<1>3. list' # {} /\ ~shared' => \A f \in Lifecycle!Functions : fns'[f].init
  BY CountZero, InitialisedSound, CleanedSound DEF LifeInv, Lifecycle!ProbeStartFails, Lifecycle!Probing, Lifecycle!ClassForProbe, Lifecycle!ClassAfter
<1>4. Lifecycle!TypeOK'
  BY <1>1, <1>2 DEF LifeInv, Sound, Lifecycle!ProbeStartFails, Lifecycle!Probing, Lifecycle!ClassForProbe, Lifecycle!ClassAfter
<1> QED
  BY <1>1, <1>2, <1>3, <1>4 DEF LifeInv, Sound

\* RemoveDevice keeps the invariant of the devices.
LEMMA LifeRemoveDevice ==
    ASSUME LifeInv, NEW d \in Lifecycle!Cores, Lifecycle!RemoveDevice(d)
    PROVE  LifeInv'
<1> USE GroupAssumption DEF Lifecycle!TypeOK, Lifecycle!Cores
<1>1. Sound(fns')
  BY CleanedSound DEF LifeInv, Lifecycle!RemoveDevice, Lifecycle!Target
<1>2. /\ count' = (IF 0 \in list' THEN 1 ELSE 0) + (IF 1 \in list' THEN 1 ELSE 0)
      /\ list' = {} => udcs' = {}
      /\ (class' = "live") = (list' # {})
  BY DEF LifeInv, Lifecycle!RemoveDevice, Lifecycle!Target
<1>3. list' # {} /\ ~shared' => \A f \in Lifecycle!Functions : fns'[f].init
  BY CountZero, CleanedSound DEF LifeInv, Lifecycle!RemoveDevice, Lifecycle!Target
<1>4. Lifecycle!TypeOK'
  <2>1. list' \subseteq Lifecycle!Cores /\ udcs' \subseteq Lifecycle!Cores
    BY DEF LifeInv, Lifecycle!RemoveDevice
  <2>2. count' \in 0..2
    BY <1>2, <2>1
  <2>3. {shared', wild'} \subseteq BOOLEAN /\ class' \in {"null", "live", "err"}
    BY DEF LifeInv, Lifecycle!RemoveDevice
  <2> QED
    BY <1>1, <2>1, <2>2, <2>3 DEF LifeInv, Sound, Lifecycle!RemoveDevice
<1> QED
  BY <1>1, <1>2, <1>3, <1>4 DEF LifeInv, Sound

\* ControllerGoes keeps the invariant of the devices.
LEMMA LifeControllerGoes ==
    ASSUME LifeInv, NEW d \in Lifecycle!Cores, Lifecycle!ControllerGoes(d)
    PROVE  LifeInv'
<1> USE GroupAssumption DEF Lifecycle!TypeOK, Lifecycle!Cores
<1>1. Sound(fns')
  BY CleanedSound DEF LifeInv, Lifecycle!ControllerGoes
<1>2. /\ count' = (IF 0 \in list' THEN 1 ELSE 0) + (IF 1 \in list' THEN 1 ELSE 0)
      /\ list' = {} => udcs' = {}
      /\ (class' = "live") = (list' # {})
  BY DEF LifeInv, Lifecycle!ControllerGoes
<1>3. list' # {} /\ ~shared' => \A f \in Lifecycle!Functions : fns'[f].init
  BY CountZero, CleanedSound DEF LifeInv, Lifecycle!ControllerGoes
<1>4. Lifecycle!TypeOK'
  BY <1>1, <1>2 DEF LifeInv, Sound, Lifecycle!ControllerGoes
<1> QED
  BY <1>1, <1>2, <1>3, <1>4 DEF LifeInv, Sound

\* ... and so does every step.
LEMMA LifeStep ==
    ASSUME LifeInv, [Lifecycle!Next]_lifeVars
    PROVE  LifeInv'
<1>1. CASE UNCHANGED lifeVars
  BY <1>1 DEF lifeVars, LifeInv, Sound, Lifecycle!TypeOK, Lifecycle!Functions
<1>2. CASE Lifecycle!Next
  BY <1>2, LifeProbeEarlyFails, LifeProbeFails, LifeProbeBindFails, LifeProbe, LifeProbeStartFails,
     LifeRemoveDevice, LifeControllerGoes DEF Lifecycle!Next
<1> QED
  BY <1>1, <1>2

\* Before the first probe there is nothing.
LEMMA LifeAtBoot ==
    ASSUME Lifecycle!Init
    PROVE  LifeInv
<1>1. Sound(fns)
  BY DEF Lifecycle!Init, Lifecycle!New, Sound
<1>2. 0 \in 0..2 /\ 0 \in 0..MaxProbes
  BY GroupAssumption
<1>3. Lifecycle!TypeOK
  BY <1>1, <1>2 DEF Lifecycle!Init, Lifecycle!TypeOK, Sound
<1> QED
  BY <1>1, <1>3 DEF Lifecycle!Init, LifeInv, Sound

-----------------------------------------------------------------------------
(* The loopback function *)

Eps == {"in", "out"}
LoopTypes ==
  /\ lbBound \in BOOLEAN /\ enabled \subseteq Eps /\ data \in [Eps -> {"null", "cdev", "loop"}]
  /\ work \in {"none", "disable", "disabled", "enable", "enable out", "queue in", "queue out"}
OptionTypes == refcnt \in 0..MaxFunctions /\ qlen \in {0, 1} /\ used \in {0, 1}

\* The requests are numbered in the order they were made.
Request == [ep : Eps, at : {"queue", "lost"}, done : BOOLEAN]
Numbered(rs, n) == rs \in [1..n -> Request]
RequestInv == \E n \in 0..MaxRequests : Numbered(req, n)

\* The requests in the queue of each endpoint.
Q == [e \in Eps |-> Loopback!Queued(e)]
In(e) == e \in enabled /\ data[e] = "loop"

\* An endpoint has one request, while it is enabled; what each place in set_alt
\* finds.
QueueInv ==
  /\ \A e \in Eps : (\A r, p \in Q[e] : r = p) /\ (Q[e] # {} => In(e))
  /\ ~lbBound => work = "none" /\ enabled = {}
  /\ work \notin {"disable", "disabled"} /\ data["in"] = "null" => data["out"] = "null"
  /\ work = "enable" => data["in"] = "null"
  /\ work = "enable out" => In("in") /\ Q["in"] = {} /\ data["out"] = "null"
  /\ work = "queue in" => In("in") /\ In("out") /\ Q["in"] = {} /\ Q["out"] = {}
  /\ work = "queue out" => In("out") /\ Q["out"] = {}

LoopInv == LoopTypes /\ OptionTypes /\ RequestInv /\ QueueInv /\ Loopback!OptionsFrozen

\* usb_ep_disable() leaves no request of its endpoints in a queue.
LEMMA FlushedRequests ==
    ASSUME NEW n \in Nat, NEW rs, Numbered(rs, n), NEW es
    PROVE  /\ Numbered(Loopback!Flushed(rs, es), n)
           /\ \A r \in 1..n : /\ Loopback!Flushed(rs, es)[r].ep = rs[r].ep
                              /\ Loopback!Flushed(rs, es)[r].at =
                                   IF rs[r].ep \in es THEN "lost" ELSE rs[r].at
BY DEF Numbered, Request, Loopback!Flushed

\* There are as many as the last one's number.
LEMMA HowMany ==
    ASSUME NEW n \in Nat, Numbered(req, n)
    PROVE  Loopback!Cardinality(DOMAIN req) = n
<1>1. DOMAIN req = 1..n
  BY DEF Numbered
<1>2. Cardinality(1..n) = n
  BY FS_Interval
<1> QED
  BY <1>1, <1>2 DEF Loopback!Cardinality, Cardinality

\* alloc_ep_req() makes one request more.
LEMMA OneMore ==
    ASSUME NEW n \in Nat, Numbered(req, n), NEW e \in Eps, NEW at \in {"queue", "lost"}
    PROVE  /\ Numbered(Loopback!With(e, at), n + 1)
           /\ \A r \in 1..n : Loopback!With(e, at)[r] = req[r]
           /\ Loopback!With(e, at)[n + 1].ep = e /\ Loopback!With(e, at)[n + 1].at = at
<1>1. DOMAIN req = 1..n
  BY DEF Numbered
<1>2. Loopback!Cardinality(DOMAIN req) = n /\ DOMAIN req \cup {n + 1} = 1..(n + 1)
  BY <1>1, HowMany
<1>3. Loopback!With(e, at) = [r \in 1..(n + 1) |-> IF r \in 1..n THEN req[r]
                                                  ELSE [ep |-> e, at |-> at, done |-> FALSE]]
  BY <1>1, <1>2, Zenon DEF Loopback!With
<1> QED
  BY <1>1, <1>3 DEF Numbered, Request

\* AllocFunction keeps the invariant of the loopback function.
LEMMA LoopAllocFunction ==
    ASSUME LoopInv, Loopback!AllocFunction
    PROVE  LoopInv'
<1> USE GroupAssumption DEF LoopInv, Eps
<1>1. LoopTypes' /\ OptionTypes'
  <2>1. LoopTypes'
    BY DEF LoopTypes, Loopback!AllocFunction
  <2>2. OptionTypes'
    BY DEF OptionTypes, Loopback!AllocFunction
  <2> QED
    BY <2>1, <2>2
<1>2. RequestInv' /\ \A e \in Eps : Q'[e] = Q[e]
  BY DEF RequestInv, Q, Loopback!Queued, Loopback!AllocFunction
<1>3. QueueInv'
  BY <1>2 DEF In, QueueInv, Loopback!AllocFunction
<1>4. Loopback!OptionsFrozen'
  BY DEF OptionTypes, Loopback!OptionsFrozen, Loopback!AllocFunction
<1> QED
  BY <1>1, <1>2, <1>3, <1>4

\* FreeFunction keeps the invariant of the loopback function.
LEMMA LoopFreeFunction ==
    ASSUME LoopInv, Loopback!FreeFunction
    PROVE  LoopInv'
<1> USE GroupAssumption DEF LoopInv, Eps
<1>1. LoopTypes' /\ OptionTypes'
  <2>1. LoopTypes'
    BY DEF LoopTypes, Loopback!FreeFunction
  <2>2. OptionTypes'
    BY DEF OptionTypes, Loopback!FreeFunction
  <2> QED
    BY <2>1, <2>2
<1>2. RequestInv' /\ \A e \in Eps : Q'[e] = Q[e]
  BY DEF RequestInv, Q, Loopback!Queued, Loopback!FreeFunction
<1>3. QueueInv'
  BY <1>2 DEF In, QueueInv, Loopback!FreeFunction
<1>4. Loopback!OptionsFrozen'
  BY DEF OptionTypes, Loopback!OptionsFrozen, Loopback!FreeFunction
<1> QED
  BY <1>1, <1>2, <1>3, <1>4

\* OptsStore keeps the invariant of the loopback function.
LEMMA LoopOptsStore ==
    ASSUME LoopInv, Loopback!OptsStore
    PROVE  LoopInv'
<1> USE GroupAssumption DEF LoopInv, Eps
<1>1. LoopTypes' /\ OptionTypes'
  <2>1. LoopTypes'
    BY DEF LoopTypes, Loopback!OptsStore
  <2>2. OptionTypes'
    BY DEF OptionTypes, Loopback!OptsStore
  <2> QED
    BY <2>1, <2>2
<1>2. RequestInv' /\ \A e \in Eps : Q'[e] = Q[e]
  BY DEF RequestInv, Q, Loopback!Queued, Loopback!OptsStore
<1>3. QueueInv'
  BY <1>2 DEF In, QueueInv, Loopback!OptsStore
<1>4. Loopback!OptionsFrozen'
  BY DEF OptionTypes, Loopback!OptionsFrozen, Loopback!OptsStore
<1> QED
  BY <1>1, <1>2, <1>3, <1>4

\* Bind keeps the invariant of the loopback function.
LEMMA LoopBind ==
    ASSUME LoopInv, Loopback!Bind
    PROVE  LoopInv'
<1> USE GroupAssumption DEF LoopInv, Loopback!Options, Eps, Loopback!Eps
<1>1. LoopTypes' /\ OptionTypes'
  BY DEF LoopTypes, OptionTypes, Loopback!Bind
<1>2. RequestInv' /\ \A e \in Eps : Q'[e] = Q[e]
  BY DEF RequestInv, Q, Loopback!Queued, Loopback!Bind
<1>3. QueueInv'
  BY <1>2 DEF LoopTypes, In, QueueInv, Loopback!Bind
<1>4. Loopback!OptionsFrozen'
  BY DEF Loopback!OptionsFrozen, Loopback!Bind
<1> QED
  BY <1>1, <1>2, <1>3, <1>4

\* Unbind keeps the invariant of the loopback function.
LEMMA LoopUnbind ==
    ASSUME LoopInv, Loopback!Unbind
    PROVE  LoopInv'
<1> USE GroupAssumption DEF LoopInv, Loopback!Options, Eps, Loopback!Eps
<1>1. LoopTypes' /\ OptionTypes'
  BY DEF LoopTypes, OptionTypes, Loopback!Unbind
<1>2. RequestInv' /\ \A e \in Eps : Q'[e] = Q[e]
  BY DEF RequestInv, Q, Loopback!Queued, Loopback!Unbind
<1>3. QueueInv'
  BY <1>2 DEF LoopTypes, In, QueueInv, Loopback!Unbind
<1>4. Loopback!OptionsFrozen'
  BY DEF Loopback!OptionsFrozen, Loopback!Unbind
<1> QED
  BY <1>1, <1>2, <1>3, <1>4

\* SetAlt keeps the invariant of the loopback function.
LEMMA LoopSetAlt ==
    ASSUME LoopInv, Loopback!SetAlt
    PROVE  LoopInv'
<1> USE GroupAssumption DEF LoopInv, Loopback!Options, Eps, Loopback!Eps
<1>1. LoopTypes' /\ OptionTypes'
  BY DEF LoopTypes, OptionTypes, Loopback!SetAlt
<1>2. RequestInv' /\ \A e \in Eps : Q'[e] = Q[e]
  BY DEF RequestInv, Q, Loopback!Queued, Loopback!SetAlt
<1>3. QueueInv'
  BY <1>2 DEF LoopTypes, In, QueueInv, Loopback!SetAlt
<1>4. Loopback!OptionsFrozen'
  BY DEF Loopback!OptionsFrozen, Loopback!SetAlt
<1> QED
  BY <1>1, <1>2, <1>3, <1>4

\* Disable keeps the invariant of the loopback function.
LEMMA LoopDisable ==
    ASSUME LoopInv, Loopback!Disable
    PROVE  LoopInv'
<1> USE GroupAssumption DEF LoopInv, Loopback!Options, Eps, Loopback!Eps
<1>1. LoopTypes' /\ OptionTypes'
  BY DEF LoopTypes, OptionTypes, Loopback!Disable
<1>2. RequestInv' /\ \A e \in Eps : Q'[e] = Q[e]
  BY DEF RequestInv, Q, Loopback!Queued, Loopback!Disable
<1>3. QueueInv'
  BY <1>2 DEF LoopTypes, In, QueueInv, Loopback!Disable
<1>4. Loopback!OptionsFrozen'
  BY DEF Loopback!OptionsFrozen, Loopback!Disable
<1> QED
  BY <1>1, <1>2, <1>3, <1>4

\* Disabled keeps the invariant of the loopback function.
LEMMA LoopDisabled ==
    ASSUME LoopInv, Loopback!Disabled
    PROVE  LoopInv'
<1> USE GroupAssumption DEF LoopInv, Loopback!Options, Eps, Loopback!Eps
<1>1. LoopTypes' /\ OptionTypes'
  BY DEF LoopTypes, OptionTypes, Loopback!Disabled
<1>2. RequestInv' /\ \A e \in Eps : Q'[e] = Q[e]
  BY DEF RequestInv, Q, Loopback!Queued, Loopback!Disabled
<1>3. QueueInv'
  BY <1>2 DEF LoopTypes, In, QueueInv, Loopback!Disabled
<1>4. Loopback!OptionsFrozen'
  BY DEF Loopback!OptionsFrozen, Loopback!Disabled
<1> QED
  BY <1>1, <1>2, <1>3, <1>4

\* EnableIn keeps the invariant of the loopback function.
LEMMA LoopEnableIn ==
    ASSUME LoopInv, Loopback!EnableIn
    PROVE  LoopInv'
<1> USE GroupAssumption DEF LoopInv, Loopback!Options, Eps, Loopback!Eps
<1>1. LoopTypes' /\ OptionTypes'
  BY DEF LoopTypes, OptionTypes, Loopback!EnableIn
<1>2. RequestInv' /\ \A e \in Eps : Q'[e] = Q[e]
  BY DEF RequestInv, Q, Loopback!Queued, Loopback!EnableIn
<1>3. QueueInv'
  BY <1>2 DEF LoopTypes, In, QueueInv, Loopback!EnableIn
<1>4. Loopback!OptionsFrozen'
  BY DEF Loopback!OptionsFrozen, Loopback!EnableIn
<1> QED
  BY <1>1, <1>2, <1>3, <1>4

\* EnableOut keeps the invariant of the loopback function.
LEMMA LoopEnableOut ==
    ASSUME LoopInv, Loopback!EnableOut
    PROVE  LoopInv'
<1> USE GroupAssumption DEF LoopInv, Loopback!Options, Eps, Loopback!Eps
<1>1. LoopTypes' /\ OptionTypes'
  BY DEF LoopTypes, OptionTypes, Loopback!EnableOut
<1>2. RequestInv' /\ \A e \in Eps : Q'[e] = Q[e]
  BY DEF RequestInv, Q, Loopback!Queued, Loopback!EnableOut
<1>3. QueueInv'
  BY <1>2 DEF LoopTypes, In, QueueInv, Loopback!EnableOut
<1>4. Loopback!OptionsFrozen'
  BY DEF Loopback!OptionsFrozen, Loopback!EnableOut
<1> QED
  BY <1>1, <1>2, <1>3, <1>4

\* DisableEndpoint keeps the invariant of the loopback function.
LEMMA LoopDisableEndpoint ==
    ASSUME LoopInv, NEW x \in Eps, Loopback!DisableEndpoint(x)
    PROVE  LoopInv'
<1> USE GroupAssumption DEF LoopInv, Loopback!Options, Eps, Loopback!Eps
<1>1. PICK n \in 0..MaxRequests : Numbered(req, n)
  BY DEF RequestInv
<1>2. LoopTypes' /\ OptionTypes'
  BY DEF LoopTypes, OptionTypes, Loopback!DisableEndpoint
<1>3. RequestInv'
  BY <1>1, FlushedRequests DEF RequestInv, Loopback!DisableEndpoint
<1>4. \A e \in Eps : Q'[e] = IF e = x THEN {} ELSE Q[e]
  BY <1>1, FlushedRequests DEF Q, Loopback!Queued, Numbered, Loopback!DisableEndpoint
<1>5. QueueInv'
  BY <1>4 DEF LoopTypes, In, QueueInv, Loopback!DisableEndpoint
<1>6. Loopback!OptionsFrozen'
  BY DEF Loopback!OptionsFrozen, Loopback!DisableEndpoint
<1> QED
  BY <1>2, <1>3, <1>5, <1>6

\* QueueIn keeps the invariant of the loopback function.
LEMMA LoopQueueIn ==
    ASSUME LoopInv, Loopback!QueueIn
    PROVE  LoopInv'
<1> USE GroupAssumption DEF LoopInv, Loopback!Options, Eps, Loopback!Eps
<1>1. PICK n \in 0..MaxRequests : Numbered(req, n)
  BY DEF RequestInv
<1>2. LoopTypes' /\ OptionTypes'
  BY DEF LoopTypes, OptionTypes, Loopback!QueueIn
<1>0. PICK at \in {"queue", "lost"} : req' = Loopback!With("in", at)
  BY DEF Loopback!QueueIn
<1>n. n \in Nat /\ Loopback!Cardinality(DOMAIN req) = n /\ n + 1 \in 0..MaxRequests
  <2>1. n \in Nat
    OBVIOUS
  <2>2. Loopback!Cardinality(DOMAIN req) = n
    BY <1>1, <2>1, HowMany
  <2>3. Loopback!Cardinality(DOMAIN req) < MaxRequests
    BY DEF Loopback!QueueIn
  <2> QED
    BY <2>1, <2>2, <2>3
<1>3. RequestInv'
  BY <1>0, <1>1, <1>n, OneMore DEF RequestInv
<1>4. Q'["out"] = Q["out"] /\ Q'["in"] \subseteq Q["in"] \cup {n + 1}
  <2>1. DOMAIN req = 1..n /\ DOMAIN req' = 1..(n + 1)
    BY <1>0, <1>1, <1>n, OneMore DEF Numbered
  <2>2. (\A r \in 1..n : req'[r] = req[r]) /\ req'[n + 1].ep = "in"
    BY <1>0, <1>1, <1>n, OneMore
  <2> QED
    BY <1>n, <2>1, <2>2 DEF Q, Loopback!Queued
<1>5. QueueInv'
  <2>1. Q["in"] = {} /\ Q["out"] = {} /\ In("in") /\ In("out") /\ work' = "queue out" /\ lbBound
    BY DEF QueueInv, Loopback!QueueIn
  <2>2. UNCHANGED <<enabled, data, lbBound>>
    BY DEF Loopback!QueueIn
  <2>3. In("in")' /\ In("out")'
    BY <2>1, <2>2 DEF In
  <2>4. \A e \in Eps : (\A r, p \in Q'[e] : r = p) /\ In(e)'
    <3>1. (\A r, p \in Q'["in"] : r = p) /\ \A r, p \in Q'["out"] : r = p
      BY <1>4, <2>1
    <3> QED
      BY <2>3, <3>1 DEF In
  <2> QED
    BY <1>4, <2>1, <2>2, <2>3, <2>4 DEF QueueInv, In
<1>6. Loopback!OptionsFrozen'
  BY DEF Loopback!OptionsFrozen, Loopback!QueueIn
<1> QED
  BY <1>2, <1>3, <1>5, <1>6

\* QueueOut keeps the invariant of the loopback function.
LEMMA LoopQueueOut ==
    ASSUME LoopInv, Loopback!QueueOut
    PROVE  LoopInv'
<1> USE GroupAssumption DEF LoopInv, Loopback!Options, Eps, Loopback!Eps
<1>1. PICK n \in 0..MaxRequests : Numbered(req, n)
  BY DEF RequestInv
<1>2. LoopTypes' /\ OptionTypes'
  BY DEF LoopTypes, OptionTypes, Loopback!QueueOut
<1>0. \/ req' = Loopback!With("out", "queue") /\ UNCHANGED enabled
      \/ req' = Loopback!Flushed(Loopback!With("out", "lost"), Eps) /\ enabled' = {}
  BY DEF Loopback!QueueOut
<1>n. n \in Nat /\ Loopback!Cardinality(DOMAIN req) = n /\ n + 1 \in 0..MaxRequests
  <2>1. n \in Nat
    OBVIOUS
  <2>2. Loopback!Cardinality(DOMAIN req) = n
    BY <1>1, <2>1, HowMany
  <2>3. Loopback!Cardinality(DOMAIN req) < MaxRequests
    BY DEF Loopback!QueueOut
  <2> QED
    BY <2>1, <2>2, <2>3
<1>m. n + 1 \in Nat /\ Numbered(Loopback!With("out", "queue"), n + 1) /\ Numbered(Loopback!With("out", "lost"), n + 1)
  BY <1>1, <1>n, OneMore
<1>3. RequestInv'
  <2>1. Numbered(req', n + 1)
    BY <1>0, <1>m, FlushedRequests
  <2> QED
    BY <2>1, <1>n DEF RequestInv
<1>4. \/ Q'["in"] = Q["in"] /\ Q'["out"] \subseteq Q["out"] \cup {n + 1} /\ UNCHANGED enabled
      \/ Q'["in"] = {} /\ Q'["out"] = {} /\ enabled' = {}
  <2>1. CASE req' = Loopback!With("out", "queue") /\ UNCHANGED enabled
    <3>1. DOMAIN req = 1..n /\ DOMAIN req' = 1..(n + 1)
      BY <1>1, <1>m, <2>1 DEF Numbered
    <3>2. (\A r \in 1..n : req'[r] = req[r]) /\ req'[n + 1].ep = "out"
      BY <1>1, <1>n, <2>1, OneMore
    <3> QED
      BY <1>n, <2>1, <3>1, <3>2 DEF Q, Loopback!Queued
  <2>2. CASE req' = Loopback!Flushed(Loopback!With("out", "lost"), Eps) /\ enabled' = {}
    <3>1. DOMAIN req' = 1..(n + 1)
      BY <1>m, <2>2, FlushedRequests DEF Numbered
    <3>2. \A r \in 1..(n + 1) : req'[r].at = "lost"
      <4> DEFINE w == Loopback!With("out", "lost")
      <4>1. Numbered(w, n + 1)
        BY <1>m
      <4>2. \A r \in 1..(n + 1) : w[r].ep \in Eps
        BY <4>1 DEF Numbered, Request
      <4> HIDE DEF w
      <4> QED
        BY <1>m, <2>2, <4>1, <4>2, FlushedRequests DEF w
    <3> QED
      BY <2>2, <3>1, <3>2 DEF Q, Loopback!Queued
  <2> QED
    BY <1>0, <2>1, <2>2
<1>5. QueueInv'
  <2>1. Q["out"] = {} /\ In("out") /\ work' = "none" /\ lbBound
    BY DEF QueueInv, Loopback!QueueOut
  <2>2. UNCHANGED <<data, lbBound>>
    BY DEF Loopback!QueueOut
  <2>3. \A r, p \in Q["in"] : r = p
    BY DEF QueueInv
  <2>4. \A e \in Eps : (\A r, p \in Q'[e] : r = p) /\ (Q'[e] # {} => In(e)')
    <3>1. (\A r, p \in Q'["in"] : r = p) /\ \A r, p \in Q'["out"] : r = p
      BY <1>4, <2>1, <2>3
    <3>2. Q'["out"] # {} => In("out")'
      BY <1>4, <2>1, <2>2 DEF In
    <3>3. Q'["in"] # {} => In("in")'
      BY <1>4, <2>1, <2>2 DEF In, QueueInv
    <3> QED
      BY <3>1, <3>2, <3>3 DEF In
  <2>5. data["in"] = "null" => data["out"] = "null"
    BY DEF QueueInv, Loopback!QueueOut
  <2> QED
    BY <2>1, <2>2, <2>4, <2>5 DEF QueueInv
<1>6. Loopback!OptionsFrozen'
  BY DEF Loopback!OptionsFrozen, Loopback!QueueOut
<1> QED
  BY <1>2, <1>3, <1>5, <1>6

\* Complete keeps the invariant of the loopback function.
LEMMA LoopComplete ==
    ASSUME LoopInv, NEW x \in Loopback!Requests, Loopback!Complete(x)
    PROVE  LoopInv'
<1> USE GroupAssumption DEF LoopInv, Loopback!Options, Eps, Loopback!Eps
<1>1. PICK n \in 0..MaxRequests : Numbered(req, n)
  BY DEF RequestInv
<1>2. LoopTypes' /\ OptionTypes'
  BY DEF LoopTypes, OptionTypes, Loopback!Complete
<1>0. x \in 1..n /\ req[x] \in Request /\ req[x].at = "queue"
  BY <1>1 DEF Numbered, Loopback!Complete
<1>n. PICK y \in Request : req' = [req EXCEPT ![x] = y] /\ y.ep = req[x].ep
  <2>1. CASE req' = [req EXCEPT ![x].done = TRUE]
    <3>1. [req[x] EXCEPT !.done = TRUE] \in Request
      BY <1>0 DEF Request
    <3> QED
      BY <1>0, <2>1, <3>1 DEF Request
  <2>2. CASE req' = [req EXCEPT ![x].at = "lost", ![x].done = TRUE]
    <3>1. [req[x] EXCEPT !.at = "lost", !.done = TRUE] \in Request
      BY <1>0 DEF Request
    <3>2. req' = [req EXCEPT ![x] = [req[x] EXCEPT !.at = "lost", !.done = TRUE]]
      BY <1>0, <1>1, <2>2 DEF Numbered
    <3> QED
      BY <1>0, <3>1, <3>2 DEF Request
  <2> QED
    BY <2>1, <2>2 DEF Loopback!Complete
<1>3. Numbered(req', n)
  BY <1>1, <1>n DEF Numbered
<1>4. \A e \in Eps : Q'[e] \subseteq Q[e]
  BY <1>0, <1>1, <1>n DEF Q, Loopback!Queued, Numbered
<1>5. QueueInv'
  BY <1>4 DEF LoopTypes, In, QueueInv, Loopback!Complete
<1>6. Loopback!OptionsFrozen'
  BY DEF Loopback!OptionsFrozen, Loopback!Complete
<1> QED
  BY <1>1, <1>2, <1>3, <1>5, <1>6 DEF RequestInv

\* ... and so does every step.
LEMMA LoopStep ==
    ASSUME LoopInv, [Loopback!Next]_loopVars
    PROVE  LoopInv'
<1>1. CASE UNCHANGED loopVars
  <2>1. \A e \in Eps : Q'[e] = Q[e]
    BY <1>1 DEF loopVars, Q, Loopback!Queued
  <2> QED
    BY <1>1, <2>1 DEF loopVars, LoopInv, LoopTypes, OptionTypes, RequestInv, Loopback!OptionsFrozen,
       In, QueueInv, Eps
<1>2. CASE Loopback!Next
  BY <1>2, LoopAllocFunction, LoopFreeFunction, LoopOptsStore, LoopBind, LoopUnbind, LoopSetAlt,
     LoopDisable, LoopDisabled, LoopEnableIn, LoopEnableOut, LoopDisableEndpoint, LoopQueueIn,
     LoopQueueOut, LoopComplete DEF Loopback!Next, Loopback!Eps, Eps
<1> QED
  BY <1>1, <1>2

\* At first there is no request.
LEMMA LoopAtBoot ==
    ASSUME Loopback!Init
    PROVE  LoopInv
<1> USE GroupAssumption DEF Loopback!Init, Loopback!Eps, Eps
<1>1. DOMAIN req = {} /\ Numbered(req, 0)
  BY DEF Numbered
<1>2. LoopTypes /\ OptionTypes
  <2>1. LoopTypes
    BY DEF LoopTypes
  <2>2. OptionTypes
    BY DEF OptionTypes
  <2> QED
    BY <2>1, <2>2
<1>3. \A e \in Eps : Q[e] = {}
  BY <1>1 DEF Q, Loopback!Queued
<1>4. QueueInv
  BY <1>3 DEF In, QueueInv
<1> QED
  BY <1>1, <1>2, <1>4 DEF LoopInv, RequestInv, Loopback!OptionsFrozen

-----------------------------------------------------------------------------
(* The other function drivers: what they are made of *)

State ==
  [drv : Drivers!Drivers, cfg : {"null", "live", "freed"}, fi : Drivers!Handles,
   fn : Drivers!Handles, inC : BOOLEAN, net : BOOLEAN, init : BOOLEAN,
   ports : 0..MaxTransports, leak : 0..2, fault : {"none", "put", "add", "net"},
   lives : 0..2, ill : BOOLEAN, odd : BOOLEAN]

\* The fields that no primitive writes.
Kept(t, u) ==
  /\ u \in State /\ u.drv = t.drv /\ u.init = t.init /\ u.ports = t.ports
  /\ u.lives = t.lives /\ u.ill = t.ill /\ u.odd = t.odd /\ u.inC = t.inC

\* What the smaller of two numbers is.
LEMMA MinOfTwo ==
    ASSUME NEW a \in Nat, NEW b \in Nat
    PROVE  Drivers!Min({a, b}) = IF a < b THEN a ELSE b
<1> DEFINE m == IF a < b THEN a ELSE b
<1>1. m \in {a, b} /\ \A y \in {a, b} : m <= y
  OBVIOUS
<1>2. \A x \in {a, b} : (\A y \in {a, b} : x <= y) => x = m
  OBVIOUS
<1> QED
  BY <1>1, <1>2 DEF Drivers!Min

\* A leak changes only the count of leaks.
LEMMA LeakingIs ==
    ASSUME NEW t \in State, NEW n \in Nat
    PROVE  \E k \in 0..2 : Drivers!Leaking(t, n) = [t EXCEPT !.leak = k] /\ (n = 0 => k = t.leak)
<1>1. t.leak \in 0..2
  BY DEF State
<1>2. Drivers!Min({2, t.leak + n}) \in 0..2 /\ (n = 0 => Drivers!Min({2, t.leak + n}) = t.leak)
  BY <1>1, MinOfTwo
<1> QED
  BY <1>2 DEF Drivers!Leaking

\* A misuse is recorded unless there was one.
LEMMA MisusedIs ==
    ASSUME NEW t \in State, NEW how \in {"put", "add", "net"}
    PROVE  LET u == Drivers!Misused(t, how)
           IN Kept(t, u) /\ u.cfg = t.cfg /\ u.fi = t.fi /\ u.fn = t.fn /\ u.net = t.net
              /\ u.leak = t.leak /\ u.fault = IF t.fault = "none" THEN how ELSE t.fault
BY DEF State, Kept, Drivers!Misused

\* usb_get_function_instance()
LEMMA GotInstance ==
    ASSUME NEW t \in State, NEW h \in Drivers!Handles
    PROVE  LET u == Drivers!Got(t, "fi", h)
           IN Kept(t, u) /\ u.cfg = t.cfg /\ u.fi = h /\ u.fn = t.fn /\ u.net = t.net
              /\ u.fault = t.fault /\ (t.fi # "live" => u.leak = t.leak)
<1>1. PICK k \in 0..2 : /\ Drivers!Leaking(t, Drivers!One(t.fi = "live")) = [t EXCEPT !.leak = k]
                        /\ t.fi # "live" => k = t.leak
  BY LeakingIs DEF Drivers!One
<1>2. Drivers!Got(t, "fi", h) = [[t EXCEPT !.leak = k] EXCEPT !.fi = h]
  BY <1>1 DEF Drivers!Got
<1> QED
  BY <1>1, <1>2 DEF State, Kept

\* usb_get_function()
LEMMA GotFunction ==
    ASSUME NEW t \in State, NEW h \in Drivers!Handles
    PROVE  LET u == Drivers!Got(t, "fn", h)
           IN Kept(t, u) /\ u.cfg = t.cfg /\ u.fn = h /\ u.fi = t.fi /\ u.net = t.net
              /\ u.fault = t.fault /\ (t.fn # "live" => u.leak = t.leak)
<1>1. PICK k \in 0..2 : /\ Drivers!Leaking(t, Drivers!One(t.fn = "live")) = [t EXCEPT !.leak = k]
                        /\ t.fn # "live" => k = t.leak
  BY LeakingIs DEF Drivers!One
<1>2. Drivers!Got(t, "fn", h) = [[t EXCEPT !.leak = k] EXCEPT !.fn = h]
  BY <1>1 DEF Drivers!Got
<1> QED
  BY <1>1, <1>2 DEF State, Kept

\* usb_put_function_instance()
LEMMA PutInstance ==
    ASSUME NEW t \in State
    PROVE  LET u == Drivers!Put(t, "fi")
           IN Kept(t, u) /\ u.cfg = t.cfg /\ u.fn = t.fn /\ u.net = t.net /\ u.leak = t.leak
              /\ u.fi = (IF t.fi = "live" THEN "freed" ELSE t.fi)
              /\ u.fault \in {t.fault, "put"} /\ (t.fi \in {"live", "null"} => u.fault = t.fault)
<1>1. CASE t.fi = "live"
  BY <1>1 DEF State, Kept, Drivers!Put, Drivers!Handles
<1>2. CASE t.fi = "null"
  BY <1>2 DEF State, Kept, Drivers!Put
<1>3. CASE t.fi \notin {"live", "null"}
  <2>1. Drivers!Put(t, "fi") = Drivers!Misused(t, "put")
    BY <1>3 DEF Drivers!Put
  <2> QED
    BY <1>3, <2>1, MisusedIs
<1> QED
  BY <1>1, <1>2, <1>3

\* usb_put_function()
LEMMA PutFunction ==
    ASSUME NEW t \in State
    PROVE  LET u == Drivers!Put(t, "fn")
           IN Kept(t, u) /\ u.cfg = t.cfg /\ u.fi = t.fi /\ u.net = t.net /\ u.leak = t.leak
              /\ u.fn = (IF t.fn = "live" THEN "freed" ELSE t.fn)
              /\ u.fault \in {t.fault, "put"} /\ (t.fn \in {"live", "null"} => u.fault = t.fault)
<1>1. CASE t.fn = "live"
  BY <1>1 DEF State, Kept, Drivers!Put, Drivers!Handles
<1>2. CASE t.fn = "null"
  BY <1>2 DEF State, Kept, Drivers!Put
<1>3. CASE t.fn \notin {"live", "null"}
  <2>1. Drivers!Put(t, "fn") = Drivers!Misused(t, "put")
    BY <1>3 DEF Drivers!Put
  <2> QED
    BY <1>3, <2>1, MisusedIs
<1> QED
  BY <1>1, <1>2, <1>3

\* f->config = kzalloc()
LEMMA NewConfigIs ==
    ASSUME NEW t \in State
    PROVE  LET u == Drivers!NewConfig(t)
           IN Kept(t, u) /\ u.cfg = "live" /\ u.fi = "null" /\ u.fn = "null" /\ u.net = t.net
              /\ u.fault = t.fault
              /\ ("live" \notin {t.cfg, t.fi, t.fn} => u.leak = t.leak)
<1> DEFINE n == Drivers!One(t.cfg = "live") + Drivers!One(t.fi = "live") + Drivers!One(t.fn = "live")
<1>1. n \in Nat /\ ("live" \notin {t.cfg, t.fi, t.fn} => n = 0)
  BY DEF Drivers!One
<1>2. PICK k \in 0..2 : Drivers!Leaking(t, n) = [t EXCEPT !.leak = k] /\ (n = 0 => k = t.leak)
  BY <1>1, LeakingIs
<1>3. Drivers!NewConfig(t) = [[t EXCEPT !.leak = k] EXCEPT !.cfg = "live", !.fi = "null", !.fn = "null"]
  BY <1>2 DEF Drivers!NewConfig
<1> HIDE DEF n
<1> QED
  BY <1>1, <1>2, <1>3 DEF State, Kept, Drivers!Handles

\* kfree(f->config)
LEMMA FreeConfigIs ==
    ASSUME NEW t \in State, NEW h \in {"null", "freed"}
    PROVE  LET u == Drivers!FreeConfig(t, h)
           IN Kept(t, u) /\ u.cfg = (IF t.cfg = "null" THEN "null" ELSE h)
              /\ u.fi = "null" /\ u.fn = "null" /\ u.net = t.net
              /\ u.fault \in {t.fault, "put"} /\ (t.cfg # "freed" => u.fault = t.fault)
              /\ ("live" \notin {t.fi, t.fn} => u.leak = t.leak)
<1> DEFINE v == IF t.cfg = "freed" THEN Drivers!Misused(t, "put") ELSE t
           n == Drivers!One(t.fi = "live") + Drivers!One(t.fn = "live")
<1>1. n \in Nat /\ ("live" \notin {t.fi, t.fn} => n = 0)
  BY DEF Drivers!One
<1>2. /\ Kept(t, v) /\ v.cfg = t.cfg /\ v.fi = t.fi /\ v.fn = t.fn /\ v.net = t.net /\ v.leak = t.leak
      /\ v.fault \in {t.fault, "put"} /\ (t.cfg # "freed" => v.fault = t.fault)
  <2>1. CASE t.cfg = "freed"
    BY <2>1, MisusedIs
  <2>2. CASE t.cfg # "freed"
    BY <2>2 DEF Kept
  <2> QED
    BY <2>1, <2>2
<1> HIDE DEF v
<1>3. PICK k \in 0..2 : Drivers!Leaking(v, n) = [v EXCEPT !.leak = k] /\ (n = 0 => k = v.leak)
  BY <1>1, <1>2, LeakingIs DEF Kept
<1>4. Drivers!FreeConfig(t, h) =
        [[v EXCEPT !.leak = k] EXCEPT !.cfg = IF @ = "null" THEN @ ELSE h, !.fi = "null", !.fn = "null"]
  BY <1>3 DEF Drivers!FreeConfig, v
<1> DEFINE w == [v EXCEPT !.leak = k]
<1>5. /\ Kept(t, w) /\ w.cfg = t.cfg /\ w.net = t.net /\ w.leak = k /\ w.fault = v.fault
  BY <1>2 DEF State, Kept
<1> HIDE DEF n, w
<1>6. Drivers!FreeConfig(t, h) =
        [w EXCEPT !.cfg = IF w.cfg = "null" THEN w.cfg ELSE h, !.fi = "null", !.fn = "null"]
  BY <1>4 DEF w
<1> DEFINE c == IF w.cfg = "null" THEN w.cfg ELSE h
           u == [w EXCEPT !.cfg = c, !.fi = "null", !.fn = "null"]
<1>7. c \in {"null", "live", "freed"} /\ c = IF t.cfg = "null" THEN "null" ELSE h
  BY <1>5
<1> HIDE DEF c
<1>8. /\ Kept(t, u) /\ u.cfg = c /\ u.fi = "null" /\ u.fn = "null" /\ u.net = t.net
      /\ u.fault = v.fault /\ u.leak = k
  BY <1>5, <1>7 DEF State, Kept, Drivers!Handles
<1>9. Drivers!FreeConfig(t, h) = u
  BY <1>6 DEF c
<1> HIDE DEF u
<1> QED
  BY <1>1, <1>2, <1>3, <1>7, <1>8, <1>9

\* gether_setup_name(), gether_qc_setup_name()
LEMMA NetUpIs ==
    ASSUME NEW t \in State
    PROVE  LET u == Drivers!NetUp(t)
           IN Kept(t, u) /\ u.cfg = t.cfg /\ u.fi = t.fi /\ u.fn = t.fn /\ u.net /\ u.fault = t.fault
<1>1. PICK k \in 0..2 : Drivers!Leaking(t, Drivers!One(t.net)) = [t EXCEPT !.leak = k]
  BY LeakingIs DEF Drivers!One, State
<1>2. Drivers!NetUp(t) = [[t EXCEPT !.leak = k] EXCEPT !.net = TRUE]
  BY <1>1 DEF Drivers!NetUp
<1> QED
  BY <1>1, <1>2 DEF State, Kept

\* gether_cleanup(), gether_qc_cleanup_name()
LEMMA NetDownIs ==
    ASSUME NEW t \in State
    PROVE  LET u == Drivers!NetDown(t)
           IN Kept(t, u) /\ u.cfg = t.cfg /\ u.fi = t.fi /\ u.fn = t.fn /\ ~u.net
              /\ u.fault \in {t.fault, "net"} /\ (t.net => u.fault = t.fault)
<1>1. CASE t.net
  BY <1>1 DEF State, Kept, Drivers!NetDown
<1>2. CASE ~t.net
  BY <1>2, MisusedIs DEF State, Drivers!NetDown
<1> QED
  BY <1>1, <1>2 DEF State

\* usb_add_function()
LEMMA AddIs ==
    ASSUME NEW t \in State, NEW o \in Drivers!Add(t)
    PROVE  /\ o.err \in BOOLEAN /\ o.s \in State /\ (t.fn # "live" => o.err)
           /\ o.s.drv = t.drv /\ o.s.init = t.init /\ o.s.ports = t.ports /\ o.s.lives = t.lives
           /\ o.s.ill = t.ill /\ o.s.odd = t.odd /\ o.s.cfg = t.cfg /\ o.s.fi = t.fi
           /\ o.s.fn = t.fn /\ o.s.net = t.net /\ o.s.leak = t.leak
           /\ o.s.inC = (t.inC \/ ~o.err)
           /\ o.s.fault \in {t.fault, "add"} /\ (t.fn = "live" => o.s.fault = t.fault)
<1>1. CASE t.fn = "live"
  <2>1. \/ o = [err |-> FALSE, s |-> [t EXCEPT !.inC = TRUE]]
        \/ o = [err |-> TRUE, s |-> t]
    BY <1>1 DEF Drivers!Add, Drivers!Ok, Drivers!Fails
  <2>2. CASE o = [err |-> FALSE, s |-> [t EXCEPT !.inC = TRUE]]
    <3>1. [t EXCEPT !.inC = TRUE] \in State
      BY DEF State
    <3>2. o.s = [t EXCEPT !.inC = TRUE] /\ o.err = FALSE
      BY <2>2
    <3> QED
      BY <1>1, <3>1, <3>2 DEF State
  <2>3. CASE o = [err |-> TRUE, s |-> t]
    <3>1. o.s = t /\ o.err = TRUE /\ t.inC \in BOOLEAN
      BY <2>3 DEF State
    <3> QED
      BY <1>1, <3>1
  <2> QED
    BY <2>1, <2>2, <2>3
<1>2. CASE t.fn # "live"
  <2>1. o = [err |-> TRUE, s |-> Drivers!Misused(t, "add")]
    BY <1>2 DEF Drivers!Add, Drivers!Fails
  <2> DEFINE u == Drivers!Misused(t, "add")
  <2>2. /\ Kept(t, u) /\ u.cfg = t.cfg /\ u.fi = t.fi /\ u.fn = t.fn /\ u.net = t.net
        /\ u.leak = t.leak /\ u.fault \in {t.fault, "add"}
    BY MisusedIs
  <2>3. o.s = u /\ o.err = TRUE /\ t.inC \in BOOLEAN
    BY <2>1 DEF State
  <2> HIDE DEF u
  <2> QED
    BY <1>2, <2>2, <2>3 DEF Kept
<1> QED
  BY <1>1, <1>2

-----------------------------------------------------------------------------
(* The invariant of the other drivers *)

Externals == {"mbim", "ccid", "accessory", "gsi", "mtp", "diag"}
Helds == {"audio", "uac2", "video", "audio_source"}

\* What a driver that holds nothing across failures holds in a stage.
HoldInv(t, st) ==
  /\ t.drv \in Externals =>
       t.fi = "null" /\ t.leak = 0 /\ t.fn = (IF st = "off" THEN "null" ELSE "live")
  /\ t.drv \in Helds \cup {"mass_storage"} =>
       /\ st # "off" => t.cfg = "live" /\ t.fi = "live"
       /\ ~t.ill => t.leak = 0 /\ (st = "off" => t.cfg = "null" /\ t.fi = "null" /\ t.fn = "null")
  /\ t.drv \in Helds /\ st # "off" => t.fn = "live"
  /\ t.drv = "mass_storage" => (t.fn = "live") = (st = "bound")
  /\ t.drv \in {"acm", "ecm_qc", "rndis_qc", "rndis", "midi"} /\ st # "off" => t.cfg = "live"

\* What is added is live, rmnet's ports as long as the gadget was bound once only.
LiveInv(t, st) ==
  /\ t.inC => st = "bound"
  /\ t.drv \notin {"acm", "gps", "qdss", "rmnet"} => (t.inC => t.fn = "live")
  /\ t.drv = "rmnet" /\ t.lives < 2 =>
       /\ t.inC \/ (t.init /\ st # "off") => t.fn = "live"
       /\ t.lives = 0 => ~t.init /\ st = "off"

\* The misuses each driver is capable of.
FaultInv(t) ==
  t.fault \in {"none"}
    \cup (IF t.drv \in {"acm", "gps", "qdss"} \/ (t.drv = "rmnet" /\ t.lives = 2) THEN {"add"} ELSE {})
    \cup (IF t.drv \in {"ncm", "ecm", "loopback"} THEN {"put"} ELSE {})
    \cup (IF t.drv \in {"rndis", "rndis_qc", "ecm_qc"} /\ t.odd THEN {"net"} ELSE {})

\* A network device is up while the driver is bound, unless the transport changed.
NetOf(d, bam) == d = "rndis" \/ (d \in {"ecm_qc", "rndis_qc"} /\ ~bam)
NetInv(t, st, bam) == t.odd \/ t.net = (st = "bound" /\ NetOf(t.drv, bam))

DrvInv(t, st, bam) == t \in State /\ HoldInv(t, st) /\ LiveInv(t, st) /\ FaultInv(t) /\ NetInv(t, st, bam)

DriverInv ==
  /\ DrvInv(s, stage, ipa) /\ stage \in {"off", "ready", "bound"}
  /\ ipa \in BOOLEAN /\ driverNames \in 1..MaxTransports

\* What the gadget makes of the outcome of a call.
InitEnds(o) ==
  IF o.err THEN DrvInv([o.s EXCEPT !.ill = TRUE], "off", ipa)
  ELSE DrvInv([o.s EXCEPT !.lives = @ + 1], "ready", ipa)
BindEnds(o) ==
  IF o.err THEN DrvInv([o.s EXCEPT !.inC = FALSE, !.odd = @ \/ o.s.net], "ready", ipa)
  ELSE DrvInv(o.s, "bound", ipa)
UnbindEnds(o) == DrvInv([o.s EXCEPT !.inC = FALSE], "ready", ipa)
CleanupEnds(o) == DrvInv(o.s, "off", ipa)

-----------------------------------------------------------------------------
(* What the outcome of a call has to satisfy *)

\* The fields that a call does not change.
Mine(t) == t \in State /\ t.drv = s.drv /\ t.lives = s.lives /\ t.odd = s.odd

\* rmnet's functions are there once its ports are set up.
RmnetLive(t) == t.drv = "rmnet" /\ t.lives < 2 /\ t.init => t.fn = "live"

\* init fails: the driver is not cleaned up.
LEMMA InitFailed ==
    ASSUME DriverInv, stage = "off", NEW t, Kept(s, t), t.net = s.net, t.fault = s.fault,
           t.drv \in Externals => t.fi = s.fi /\ t.fn = s.fn /\ t.leak = s.leak,
           t.drv = "mass_storage" => t.fn # "live"
    PROVE  DrvInv([t EXCEPT !.ill = TRUE], "off", ipa)
<1> DEFINE u == [t EXCEPT !.ill = TRUE]
<1>1. /\ u \in State /\ u.drv = t.drv /\ u.cfg = t.cfg /\ u.fi = t.fi /\ u.fn = t.fn /\ u.inC = t.inC
      /\ u.net = t.net /\ u.init = t.init /\ u.leak = t.leak /\ u.fault = t.fault
      /\ u.lives = t.lives /\ u.odd = t.odd /\ u.ill = TRUE
  BY DEF State, Kept
<1> HIDE DEF u
<1>2. HoldInv(u, "off")
  BY <1>1 DEF DriverInv, DrvInv, HoldInv, Kept, Externals, Helds
<1>3. LiveInv(u, "off")
  BY <1>1 DEF DriverInv, DrvInv, LiveInv, Kept
<1>4. FaultInv(u)
  BY <1>1 DEF DriverInv, DrvInv, FaultInv, Kept
<1>5. NetInv(u, "off", ipa)
  BY <1>1 DEF DriverInv, DrvInv, NetInv, Kept
<1> QED
  BY <1>1, <1>2, <1>3, <1>4, <1>5 DEF DrvInv, u

\* init succeeds.
LEMMA InitDone ==
    ASSUME DriverInv, stage = "off", s.lives < 2, NEW t, Kept(s, t), t.net = s.net,
           t.fault = s.fault, HoldInv(t, "ready")
    PROVE  DrvInv([t EXCEPT !.lives = @ + 1], "ready", ipa)
<1> DEFINE u == [t EXCEPT !.lives = @ + 1]
<1>1. /\ u \in State /\ u.drv = t.drv /\ u.cfg = t.cfg /\ u.fi = t.fi /\ u.fn = t.fn /\ u.inC = t.inC
      /\ u.net = t.net /\ u.init = t.init /\ u.leak = t.leak /\ u.fault = t.fault
      /\ u.lives = t.lives + 1 /\ u.odd = t.odd /\ u.ill = t.ill
  BY DEF State, Kept
<1>2. t.lives \in 0..2 /\ t.lives < 2
  BY DEF State, Kept
<1> HIDE DEF u
<1>3. HoldInv(u, "ready")
  BY <1>1 DEF HoldInv
<1>4. LiveInv(u, "ready")
  BY <1>1, <1>2 DEF DriverInv, DrvInv, LiveInv, Kept
<1>5. FaultInv(u)
  BY <1>1, <1>2 DEF DriverInv, DrvInv, FaultInv, Kept
<1>6. NetInv(u, "ready", ipa)
  BY <1>1 DEF DriverInv, DrvInv, NetInv, Kept
<1> QED
  BY <1>1, <1>3, <1>4, <1>5, <1>6 DEF DrvInv, u

\* bind_config fails: what was added is taken out.
LEMMA BindFailed ==
    ASSUME DriverInv, stage = "ready", NEW t, Mine(t), HoldInv(t, "ready"), FaultInv(t), RmnetLive(t)
    PROVE  DrvInv([t EXCEPT !.inC = FALSE, !.odd = @ \/ t.net], "ready", ipa)
<1> DEFINE u == [t EXCEPT !.inC = FALSE, !.odd = @ \/ t.net]
<1>1. /\ u \in State /\ u.drv = t.drv /\ u.cfg = t.cfg /\ u.fi = t.fi /\ u.fn = t.fn /\ u.inC = FALSE
      /\ u.net = t.net /\ u.init = t.init /\ u.leak = t.leak /\ u.fault = t.fault
      /\ u.lives = t.lives /\ u.odd = (t.odd \/ t.net) /\ u.ill = t.ill
  BY DEF State, Mine
<1> HIDE DEF u
<1>2. HoldInv(u, "ready")
  BY <1>1 DEF HoldInv
<1>3. LiveInv(u, "ready")
  BY <1>1 DEF DriverInv, DrvInv, LiveInv, Mine, RmnetLive
<1>4. FaultInv(u)
  BY <1>1 DEF FaultInv
<1>5. NetInv(u, "ready", ipa)
  BY <1>1 DEF NetInv, Mine, State
<1> QED
  BY <1>1, <1>2, <1>3, <1>4, <1>5 DEF DrvInv, u

\* bind_config succeeds.
LEMMA BindDone ==
    ASSUME DriverInv, stage = "ready", NEW t, Mine(t), HoldInv(t, "bound"), FaultInv(t), RmnetLive(t),
           t.inC /\ t.drv \notin {"acm", "gps", "qdss", "rmnet"} => t.fn = "live",
           t.inC /\ t.drv = "rmnet" /\ t.lives < 2 => t.fn = "live",
           t.odd \/ t.net = NetOf(t.drv, ipa)
    PROVE  DrvInv(t, "bound", ipa)
<1>1. LiveInv(t, "bound")
  BY DEF DriverInv, DrvInv, LiveInv, Mine, RmnetLive
<1>2. NetInv(t, "bound", ipa)
  BY DEF NetInv, NetOf
<1> QED
  BY <1>1, <1>2 DEF DrvInv, Mine

\* unbind_config, after the functions were taken out.
LEMMA UnbindDone ==
    ASSUME DriverInv, stage = "bound", NEW t, Mine(t), HoldInv(t, "ready"), FaultInv(t), RmnetLive(t),
           t.odd \/ ~t.net
    PROVE  DrvInv([t EXCEPT !.inC = FALSE], "ready", ipa)
<1> DEFINE u == [t EXCEPT !.inC = FALSE]
<1>1. /\ u \in State /\ u.drv = t.drv /\ u.cfg = t.cfg /\ u.fi = t.fi /\ u.fn = t.fn /\ u.inC = FALSE
      /\ u.net = t.net /\ u.init = t.init /\ u.leak = t.leak /\ u.fault = t.fault
      /\ u.lives = t.lives /\ u.odd = t.odd /\ u.ill = t.ill
  BY DEF State, Mine
<1> HIDE DEF u
<1>2. HoldInv(u, "ready")
  BY <1>1 DEF HoldInv
<1>3. LiveInv(u, "ready")
  BY <1>1 DEF DriverInv, DrvInv, LiveInv, Mine, RmnetLive
<1>4. FaultInv(u)
  BY <1>1 DEF FaultInv
<1>5. NetInv(u, "ready", ipa)
  BY <1>1 DEF NetInv, Mine, State
<1> QED
  BY <1>1, <1>2, <1>3, <1>4, <1>5 DEF DrvInv, u

\* cleanup.
LEMMA CleanupDone ==
    ASSUME DriverInv, stage = "ready", NEW t, Kept(s, t), t.net = s.net, HoldInv(t, "off"), FaultInv(t)
    PROVE  DrvInv(t, "off", ipa)
<1>1. LiveInv(t, "off")
  BY DEF DriverInv, DrvInv, LiveInv, Kept
<1>2. NetInv(t, "off", ipa)
  BY DEF DriverInv, DrvInv, NetInv, Kept
<1> QED
  BY <1>1, <1>2 DEF DrvInv, Kept


-----------------------------------------------------------------------------
(* Which driver a call reaches *)

LEMMA CallIs ==
    ASSUME DriverInv, NEW op \in {"init", "bind", "unbind", "cleanup"}
    PROVE  /\ s.drv \in Externals \ {"diag"} => Drivers!Call(op) = Drivers!External(op, s)
           /\ s.drv \in Helds \ {"audio_source"} => Drivers!Call(op) = Drivers!Held(op, s)
           /\ s.drv \in {"charger", "ptp"} => Drivers!Call(op) = Drivers!BindOnly(op, s)
           /\ s.drv = "acm" => Drivers!Call(op) = Drivers!Acm(op, s)
           /\ s.drv = "rmnet" => Drivers!Call(op) = Drivers!Rmnet(op, s)
           /\ s.drv = "gps" => Drivers!Call(op) = Drivers!Gps(op, s)
           /\ s.drv = "qdss" => Drivers!Call(op) = Drivers!Qdss(op, s)
           /\ s.drv = "diag" => Drivers!Call(op) = Drivers!Diag(op, s)
           /\ s.drv = "ncm" => Drivers!Call(op) = Drivers!Ncm(op, s)
           /\ s.drv = "ecm" => Drivers!Call(op) = Drivers!Ecm(op, s)
           /\ s.drv = "ecm_qc" => Drivers!Call(op) = Drivers!EcmQc(op, s)
           /\ s.drv = "rndis_qc" => Drivers!Call(op) = Drivers!RndisQc(op, s)
           /\ s.drv = "rndis" => Drivers!Call(op) = Drivers!Rndis(op, s)
           /\ s.drv = "mass_storage" => Drivers!Call(op) = Drivers!MassStorage(op, s)
           /\ s.drv = "audio_source" => Drivers!Call(op) = Drivers!AudioSource(op, s)
           /\ s.drv = "midi" => Drivers!Call(op) = Drivers!Midi(op, s)
           /\ s.drv = "loopback" => Drivers!Call(op) = Drivers!Loopback(op, s)
BY DEF Drivers!Call, Externals, Helds, Drivers!Audio, Drivers!Uac2, Drivers!Video, Drivers!Mbim,
       Drivers!Ccid, Drivers!Accessory, Drivers!Gsi, Drivers!Mtp, Drivers!Charger, Drivers!Ptp

\* The drivers, by what they hold.
LEMMA DriverIs ==
    ASSUME DriverInv
    PROVE  \/ s.drv \in Externals \ {"diag"} \/ s.drv \in Helds \ {"audio_source"}
           \/ s.drv \in {"charger", "ptp"} \/ s.drv = "acm" \/ s.drv = "rmnet" \/ s.drv = "gps"
           \/ s.drv = "qdss" \/ s.drv = "diag" \/ s.drv = "ncm" \/ s.drv = "ecm"
           \/ s.drv = "ecm_qc" \/ s.drv = "rndis_qc" \/ s.drv = "rndis" \/ s.drv = "mass_storage"
           \/ s.drv = "audio_source" \/ s.drv = "midi" \/ s.drv = "loopback"
BY DEF DriverInv, DrvInv, State, Drivers!Drivers, Externals, Helds

-----------------------------------------------------------------------------
(* init *)

LEMMA InitFails ==
    ASSUME DriverInv, stage = "off", NEW t, Kept(s, t), t.net = s.net, t.fault = s.fault,
           t.drv \in Externals => t.fi = s.fi /\ t.fn = s.fn /\ t.leak = s.leak,
           t.drv = "mass_storage" => t.fn # "live",
           NEW o \in Drivers!Fails(t)
    PROVE  InitEnds(o)
<1>1. o.err = TRUE /\ o.s = t
  BY DEF Drivers!Fails
<1> QED
  BY <1>1, InitFailed DEF InitEnds

LEMMA InitWorks ==
    ASSUME DriverInv, stage = "off", s.lives < 2, NEW t, Kept(s, t), t.net = s.net,
           t.fault = s.fault, HoldInv(t, "ready"), NEW o \in Drivers!Ok(t)
    PROVE  InitEnds(o)
<1>1. o.err = FALSE /\ o.s = t
  BY DEF Drivers!Ok
<1> QED
  BY <1>1, InitDone DEF InitEnds

LEMMA InitCall ==
    ASSUME DriverInv, stage = "off", s.lives < 2, NEW o \in Drivers!Call("init")
    PROVE  InitEnds(o)
<1> USE DEF Externals, Helds
<1>1. s \in State /\ Kept(s, s) /\ HoldInv(s, "off")
  BY DEF DriverInv, DrvInv, Kept
<1>f. ASSUME o \in Drivers!Fails(s)
      PROVE  InitEnds(o)
  <2>1. s.drv = "mass_storage" => s.fn # "live"
    BY <1>1 DEF HoldInv
  <2> QED
    BY <1>f, <1>1, <2>1, InitFails
<1> DEFINE c == Drivers!NewConfig(s)
<1>c. /\ Kept(s, c) /\ c.cfg = "live" /\ c.fi = "null" /\ c.fn = "null" /\ c.net = s.net
      /\ c.fault = s.fault /\ ("live" \notin {s.cfg, s.fi, s.fn} => c.leak = s.leak)
  BY <1>1, NewConfigIs
<1> HIDE DEF c
<1> DEFINE q == Drivers!Got(c, "fi", "live")
           e == Drivers!Got(c, "fi", "err")
<1>i. /\ Kept(s, q) /\ q.cfg = "live" /\ q.fi = "live" /\ q.fn = "null" /\ q.net = s.net
      /\ q.fault = s.fault /\ ("live" \notin {s.cfg, s.fi, s.fn} => q.leak = s.leak)
  <2>1. c \in State /\ "live" \in Drivers!Handles
    BY <1>c DEF Kept, Drivers!Handles
  <2> QED
    BY <1>c, <2>1, GotInstance DEF Kept
<1>e. Kept(s, e) /\ e.fn = "null" /\ e.net = s.net /\ e.fault = s.fault
  <2>1. c \in State /\ "err" \in Drivers!Handles
    BY <1>c DEF Kept, Drivers!Handles
  <2> QED
    BY <1>c, <2>1, GotInstance DEF Kept
<1> HIDE DEF q, e
<1> DEFINE p == Drivers!Put(q, "fi")
           w == Drivers!Got(q, "fn", "live")
<1>p. Kept(s, p) /\ p.fn = "null" /\ p.net = s.net /\ p.fault = s.fault
  <2>1. q \in State
    BY <1>i DEF Kept
  <2> QED
    BY <1>i, <2>1, PutInstance DEF Kept
<1>w. /\ Kept(s, w) /\ w.cfg = "live" /\ w.fi = "live" /\ w.fn = "live" /\ w.net = s.net
      /\ w.fault = s.fault /\ ("live" \notin {s.cfg, s.fi, s.fn} => w.leak = s.leak)
  <2>1. q \in State /\ "live" \in Drivers!Handles
    BY <1>i DEF Kept, Drivers!Handles
  <2> QED
    BY <1>i, <2>1, GotFunction DEF Kept
<1> HIDE DEF p, w
<1>2. CASE s.drv \in Externals
  <2>1. o \in Drivers!Ok(Drivers!Got(s, "fn", "live")) \/ o \in Drivers!Fails(s)
    BY <1>2, CallIs DEF Drivers!External, Drivers!Diag
  <2> DEFINE g == Drivers!Got(s, "fn", "live")
  <2>2. s.fn = "null" /\ s.fi = "null" /\ s.leak = 0
    BY <1>1, <1>2 DEF HoldInv
  <2>3. Kept(s, g) /\ g.fi = "null" /\ g.fn = "live" /\ g.net = s.net /\ g.fault = s.fault /\ g.leak = 0
    BY <1>1, <2>2, GotFunction DEF Drivers!Handles
  <2> HIDE DEF g
  <2>4. HoldInv(g, "ready")
    BY <1>2, <2>3 DEF HoldInv, Kept
  <2>5. ASSUME o \in Drivers!Ok(g)
        PROVE  InitEnds(o)
    BY <2>5, <2>3, <2>4, InitWorks
  <2> QED
    BY <2>1, <2>5, <1>f DEF g
<1>3. CASE s.drv \in Helds \ {"audio_source"}
  <2>1. \/ o \in Drivers!Fails(s) \/ o \in Drivers!Fails(e)
        \/ o \in Drivers!Fails(Drivers!Got(p, "fn", "err")) \/ o \in Drivers!Ok(w)
    BY <1>3, CallIs DEF Drivers!Held, c, q, e, p, w
  <2> DEFINE g == Drivers!Got(p, "fn", "err")
  <2>2. Kept(s, g) /\ g.net = s.net /\ g.fault = s.fault
    <3>1. p \in State /\ "err" \in Drivers!Handles
      BY <1>p DEF Kept, Drivers!Handles
    <3> QED
      BY <1>p, <3>1, GotFunction DEF Kept
  <2> HIDE DEF g
  <2>3. ASSUME o \in Drivers!Fails(e) PROVE InitEnds(o)
    BY <2>3, <1>3, <1>e, InitFails DEF Kept
  <2>4. ASSUME o \in Drivers!Fails(g) PROVE InitEnds(o)
    BY <2>4, <1>3, <2>2, InitFails DEF Kept
  <2>5. HoldInv(w, "ready")
    BY <1>1, <1>3, <1>w DEF HoldInv, Kept
  <2>6. ASSUME o \in Drivers!Ok(w) PROVE InitEnds(o)
    BY <2>6, <1>w, <2>5, InitWorks
  <2> QED
    BY <1>f, <2>1, <2>3, <2>4, <2>6 DEF g
<1>4. CASE s.drv = "audio_source"
  <2>1. o \in Drivers!Fails(s) \/ o \in Drivers!Fails(Drivers!Leaking(s, 1)) \/ o \in Drivers!Ok(w)
    BY <1>4, CallIs DEF Drivers!AudioSource, c, q, w
  <2> DEFINE g == Drivers!Leaking(s, 1)
  <2>2. PICK k \in 0..2 : g = [s EXCEPT !.leak = k]
    BY <1>1, LeakingIs
  <2>3. Kept(s, g) /\ g.net = s.net /\ g.fault = s.fault
    BY <1>1, <2>2 DEF Kept, State
  <2> HIDE DEF g
  <2>4. ASSUME o \in Drivers!Fails(g) PROVE InitEnds(o)
    BY <2>4, <1>4, <2>3, InitFails DEF Kept
  <2>5. HoldInv(w, "ready")
    BY <1>1, <1>4, <1>w DEF HoldInv, Kept
  <2>6. ASSUME o \in Drivers!Ok(w) PROVE InitEnds(o)
    BY <2>6, <1>w, <2>5, InitWorks
  <2> QED
    BY <1>f, <2>1, <2>4, <2>6 DEF g
<1>5. CASE s.drv \in {"acm", "ncm", "ecm", "rndis", "midi", "ecm_qc", "rndis_qc"}
  <2>1. o \in Drivers!Fails(s) \/ o \in Drivers!Fails(c) \/ o \in Drivers!Ok(c)
    BY <1>5, CallIs DEF Drivers!Acm, Drivers!Ncm, Drivers!Ecm, Drivers!Rndis, Drivers!Midi,
       Drivers!EcmQc, Drivers!RndisQc, c
  <2>2. ASSUME o \in Drivers!Fails(c) PROVE InitEnds(o)
    BY <2>2, <1>5, <1>c, InitFails DEF Kept
  <2>3. HoldInv(c, "ready")
    BY <1>1, <1>5, <1>c DEF HoldInv, Kept
  <2>4. ASSUME o \in Drivers!Ok(c) PROVE InitEnds(o)
    BY <2>4, <1>c, <2>3, InitWorks
  <2> QED
    BY <1>f, <2>1, <2>2, <2>4
<1>6. CASE s.drv = "mass_storage"
  <2>1. o \in Drivers!Fails(s) \/ o \in Drivers!Fails(e) \/ o \in Drivers!Fails(p) \/ o \in Drivers!Ok(q)
    BY <1>6, CallIs DEF Drivers!MassStorage, c, q, e, p
  <2>2. ASSUME o \in Drivers!Fails(e) PROVE InitEnds(o)
    BY <2>2, <1>6, <1>e, InitFails DEF Kept
  <2>3. ASSUME o \in Drivers!Fails(p) PROVE InitEnds(o)
    BY <2>3, <1>6, <1>p, InitFails DEF Kept
  <2>4. HoldInv(q, "ready")
    BY <1>1, <1>6, <1>i DEF HoldInv, Kept
  <2>5. ASSUME o \in Drivers!Ok(q) PROVE InitEnds(o)
    BY <2>5, <1>i, <2>4, InitWorks
  <2> QED
    BY <1>f, <2>1, <2>2, <2>3, <2>5
<1>7. CASE s.drv \in {"rmnet", "qdss", "gps", "loopback", "charger", "ptp"}
  <2>1. o \in Drivers!Fails(s) \/ o \in Drivers!Ok(s)
    BY <1>7, CallIs DEF Drivers!Rmnet, Drivers!Qdss, Drivers!Gps, Drivers!Loopback, Drivers!BindOnly,
       Drivers!MayFail
  <2>2. HoldInv(s, "ready")
    BY <1>7 DEF HoldInv
  <2>3. ASSUME o \in Drivers!Ok(s) PROVE InitEnds(o)
    BY <2>3, <1>1, <2>2, InitWorks
  <2> QED
    BY <1>f, <2>1, <2>3
<1> QED
  BY <1>2, <1>3, <1>4, <1>5, <1>6, <1>7, DriverIs

-----------------------------------------------------------------------------
(* cleanup *)

LEMMA CleanupCall ==
    ASSUME DriverInv, stage = "ready", NEW o \in Drivers!Call("cleanup")
    PROVE  CleanupEnds(o)
<1> USE DEF Externals, Helds
<1>1. s \in State /\ Kept(s, s) /\ HoldInv(s, "ready") /\ FaultInv(s)
  BY DEF DriverInv, DrvInv, Kept
<1>d. ASSUME NEW t, Kept(s, t), t.net = s.net, HoldInv(t, "off"), FaultInv(t), o \in Drivers!Ok(t)
      PROVE  CleanupEnds(o)
  <2>1. o.s = t
    BY <1>d DEF Drivers!Ok
  <2> QED
    BY <1>d, <2>1, CleanupDone DEF CleanupEnds
<1>2. CASE s.drv \in Externals
  <2> DEFINE g == Drivers!Put(s, "fn")
             u == [g EXCEPT !.fn = "null"]
  <2>1. o \in Drivers!Ok(u)
    BY <1>2, CallIs DEF Drivers!External, Drivers!Diag
  <2>2. s.fn = "live" /\ s.fi = "null" /\ s.leak = 0
    BY <1>1, <1>2 DEF HoldInv
  <2>3. Kept(s, g) /\ g.fi = "null" /\ g.net = s.net /\ g.fault = s.fault /\ g.leak = 0
    BY <1>1, <2>2, PutFunction
  <2> HIDE DEF g
  <2>4. /\ Kept(s, u) /\ u.fi = "null" /\ u.fn = "null" /\ u.net = s.net /\ u.fault = s.fault
        /\ u.leak = 0
    BY <2>3 DEF Kept, State, Drivers!Handles
  <2> HIDE DEF u
  <2>5. HoldInv(u, "off") /\ FaultInv(u)
    BY <1>1, <1>2, <2>4 DEF HoldInv, FaultInv, Kept
  <2> QED
    BY <1>d, <2>1, <2>4, <2>5
<1>3. CASE s.drv \in Helds
  <2> DEFINE g == Drivers!Put(s, "fn")
             h == Drivers!Put(g, "fi")
             u == Drivers!FreeConfig(h, "null")
  <2>1. o \in Drivers!Ok(u)
    BY <1>3, CallIs DEF Drivers!Held, Drivers!AudioSource
  <2>2. s.fn = "live" /\ s.fi = "live" /\ s.cfg = "live"
    BY <1>1, <1>3 DEF HoldInv
  <2>3. /\ Kept(s, g) /\ g.cfg = "live" /\ g.fi = "live" /\ g.fn = "freed" /\ g.net = s.net
        /\ g.fault = s.fault /\ g.leak = s.leak
    BY <1>1, <2>2, PutFunction
  <2> HIDE DEF g
  <2>4. /\ Kept(s, h) /\ h.cfg = "live" /\ h.fi = "freed" /\ h.fn = "freed" /\ h.net = s.net
        /\ h.fault = s.fault /\ h.leak = s.leak
    <3>1. g \in State
      BY <2>3 DEF Kept
    <3> QED
      BY <2>3, <3>1, PutInstance DEF Kept
  <2> HIDE DEF h
  <2>5. /\ Kept(s, u) /\ u.cfg = "null" /\ u.fi = "null" /\ u.fn = "null" /\ u.net = s.net
        /\ u.fault = s.fault /\ u.leak = s.leak
    <3>1. h \in State
      BY <2>4 DEF Kept
    <3> QED
      BY <2>4, <3>1, FreeConfigIs DEF Kept
  <2> HIDE DEF u
  <2>6. HoldInv(u, "off") /\ FaultInv(u)
    BY <1>1, <1>3, <2>5 DEF HoldInv, FaultInv, Kept
  <2> QED
    BY <1>d, <2>1, <2>5, <2>6
<1>4. CASE s.drv = "mass_storage"
  <2> DEFINE h == Drivers!Put(s, "fi")
             u == Drivers!FreeConfig(h, "null")
  <2>1. o \in Drivers!Ok(u)
    BY <1>4, CallIs DEF Drivers!MassStorage
  <2>2. s.fn # "live" /\ s.fi = "live" /\ s.cfg = "live"
    BY <1>1, <1>4 DEF HoldInv
  <2>4. /\ Kept(s, h) /\ h.cfg = "live" /\ h.fi = "freed" /\ h.fn # "live" /\ h.net = s.net
        /\ h.fault = s.fault /\ h.leak = s.leak
    BY <1>1, <2>2, PutInstance
  <2> HIDE DEF h
  <2>5. /\ Kept(s, u) /\ u.cfg = "null" /\ u.fi = "null" /\ u.fn = "null" /\ u.net = s.net
        /\ u.fault = s.fault /\ u.leak = s.leak
    <3>1. h \in State
      BY <2>4 DEF Kept
    <3> QED
      BY <2>4, <3>1, FreeConfigIs DEF Kept
  <2> HIDE DEF u
  <2>6. HoldInv(u, "off") /\ FaultInv(u)
    BY <1>1, <1>4, <2>5 DEF HoldInv, FaultInv, Kept
  <2> QED
    BY <1>d, <2>1, <2>5, <2>6
<1>5. CASE s.drv \in {"acm", "ecm_qc", "rndis_qc", "rndis", "midi"}
  <2>1. PICK h \in {"null", "freed"} : o \in Drivers!Ok(Drivers!FreeConfig(s, h))
    BY <1>5, CallIs DEF Drivers!Acm, Drivers!EcmQc, Drivers!RndisQc, Drivers!Rndis, Drivers!Midi
  <2> DEFINE u == Drivers!FreeConfig(s, h)
  <2>2. s.cfg = "live"
    BY <1>1, <1>5 DEF HoldInv
  <2>3. Kept(s, u) /\ u.net = s.net /\ u.fault = s.fault
    BY <1>1, <2>2, FreeConfigIs
  <2> HIDE DEF u
  <2>4. HoldInv(u, "off") /\ FaultInv(u)
    BY <1>1, <1>5, <2>3 DEF HoldInv, FaultInv, Kept
  <2> QED
    BY <1>d, <2>1, <2>3, <2>4 DEF u
<1>6. CASE s.drv \in {"ncm", "ecm", "loopback"}
  <2>1. \E t \in {s, Drivers!Put(s, "fi"), Drivers!Put(Drivers!Put(s, "fn"), "fi")}, h \in {"null", "freed"} :
          o \in Drivers!Ok(Drivers!FreeConfig(t, h))
    BY <1>6, CallIs DEF Drivers!Ncm, Drivers!Ecm, Drivers!Loopback, Drivers!EthernetCleanup
  <2>2. PICK t \in {s, Drivers!Put(s, "fi"), Drivers!Put(Drivers!Put(s, "fn"), "fi")}, h \in {"null", "freed"} :
          o \in Drivers!Ok(Drivers!FreeConfig(t, h))
    BY <2>1
  <2>3. Kept(s, t) /\ t.net = s.net /\ t.fault \in {s.fault, "put"}
    <3>1. CASE t = s
      BY <1>1, <3>1
    <3>2. CASE t = Drivers!Put(s, "fi")
      BY <1>1, <3>2, PutInstance
    <3>3. CASE t = Drivers!Put(Drivers!Put(s, "fn"), "fi")
      <4> DEFINE g == Drivers!Put(s, "fn")
      <4>1. Kept(s, g) /\ g.net = s.net /\ g.fault \in {s.fault, "put"}
        BY <1>1, PutFunction
      <4> HIDE DEF g
      <4>2. t = Drivers!Put(g, "fi")
        BY <3>3 DEF g
      <4>3. g \in State
        BY <4>1 DEF Kept
      <4>4. Kept(g, t) /\ t.net = g.net /\ t.fault \in {g.fault, "put"}
        BY <4>2, <4>3, PutInstance
      <4> QED
        BY <4>1, <4>4 DEF Kept
    <3> QED
      BY <3>1, <3>2, <3>3
  <2> DEFINE u == Drivers!FreeConfig(t, h)
  <2>4. Kept(s, u) /\ u.net = s.net /\ u.fault \in {s.fault, "put"}
    <3>1. t \in State
      BY <2>3 DEF Kept
    <3>2. Kept(t, u) /\ u.net = t.net /\ u.fault \in {t.fault, "put"}
      BY <3>1, FreeConfigIs
    <3> HIDE DEF u
    <3> QED
      BY <2>3, <3>2 DEF Kept
  <2> HIDE DEF u
  <2>5. HoldInv(u, "off") /\ FaultInv(u)
    BY <1>1, <1>6, <2>4 DEF HoldInv, FaultInv, Kept
  <2> QED
    BY <1>d, <2>2, <2>4, <2>5 DEF u
<1>7. CASE s.drv \in {"rmnet", "gps", "qdss", "charger", "ptp"}
  <2>1. \E u \in {s, [s EXCEPT !.fn = "null"]} : o \in Drivers!Ok(u)
    BY <1>7, CallIs DEF Drivers!Rmnet, Drivers!Gps, Drivers!Qdss, Drivers!BindOnly
  <2>2. PICK u \in {s, [s EXCEPT !.fn = "null"]} : o \in Drivers!Ok(u)
    BY <2>1
  <2>3. Kept(s, u) /\ u.net = s.net /\ u.fault = s.fault
    BY <1>1 DEF Kept, State, Drivers!Handles
  <2>4. HoldInv(u, "off") /\ FaultInv(u)
    BY <1>1, <1>7, <2>3 DEF HoldInv, FaultInv, Kept
  <2> QED
    BY <1>d, <2>2, <2>3, <2>4
<1> QED
  BY <1>2, <1>3, <1>4, <1>5, <1>6, <1>7, DriverIs

-----------------------------------------------------------------------------
(* unbind_config *)

LEMMA UnbindCall ==
    ASSUME DriverInv, stage = "bound", NEW o \in Drivers!Call("unbind")
    PROVE  UnbindEnds(o)
<1> USE DEF Externals, Helds
<1>1. /\ s \in State /\ Kept(s, s) /\ HoldInv(s, "bound") /\ FaultInv(s)
      /\ s.odd \/ s.net = NetOf(s.drv, ipa)
      /\ s.drv = "rmnet" /\ s.lives < 2 /\ s.init => s.fn = "live"
      /\ ipa \in BOOLEAN
  <2>1. s \in State /\ HoldInv(s, "bound") /\ FaultInv(s) /\ LiveInv(s, "bound") /\ NetInv(s, "bound", ipa)
    BY DEF DriverInv, DrvInv
  <2>2. s.odd \/ s.net = NetOf(s.drv, ipa)
    <3>1. NetOf(s.drv, ipa) \in BOOLEAN
      BY DEF DriverInv, NetOf
    <3> QED
      BY <2>1, <3>1 DEF NetInv
  <2> QED
    BY <2>1, <2>2 DEF DriverInv, Kept, LiveInv
<1>d. ASSUME NEW t, Kept(s, t), HoldInv(t, "ready"), FaultInv(t), RmnetLive(t), t.odd \/ ~t.net,
             o \in Drivers!Ok(t)
      PROVE  UnbindEnds(o)
  <2>1. o.s = t
    BY <1>d DEF Drivers!Ok
  <2>2. Mine(t)
    BY <1>d DEF Mine, Kept
  <2> QED
    BY <1>d, <2>1, <2>2, UnbindDone DEF UnbindEnds
<1>2. CASE s.drv \in Externals \cup Helds \cup {"acm", "rmnet", "gps", "qdss", "loopback", "charger", "ptp"}
  <2>1. o \in Drivers!Ok(s)
    BY <1>2, CallIs DEF Drivers!External, Drivers!Diag, Drivers!Held, Drivers!AudioSource, Drivers!Acm,
       Drivers!Rmnet, Drivers!Gps, Drivers!Qdss, Drivers!Loopback, Drivers!BindOnly
  <2>2. HoldInv(s, "ready")
    BY <1>1, <1>2 DEF HoldInv
  <2>3. RmnetLive(s) /\ (s.odd \/ ~s.net)
    BY <1>1, <1>2 DEF RmnetLive, NetOf
  <2> QED
    BY <1>1, <1>d, <2>1, <2>2, <2>3
<1>3. CASE s.drv \in {"ncm", "ecm"}
  <2> DEFINE u == Drivers!Put(s, "fi")
  <2>1. o \in Drivers!Ok(u)
    BY <1>3, CallIs DEF Drivers!Ncm, Drivers!Ecm
  <2>2. Kept(s, u) /\ u.net = s.net /\ u.fault \in {s.fault, "put"}
    BY <1>1, PutInstance
  <2> HIDE DEF u
  <2>3. HoldInv(u, "ready") /\ FaultInv(u) /\ RmnetLive(u)
    BY <1>1, <1>3, <2>2 DEF HoldInv, FaultInv, Kept, RmnetLive
  <2>4. u.odd \/ ~u.net
    BY <1>1, <1>3, <2>2 DEF NetOf, Kept
  <2> QED
    BY <1>d, <2>1, <2>2, <2>3, <2>4
<1>4. CASE s.drv = "mass_storage"
  <2> DEFINE u == Drivers!Put(s, "fn")
  <2>1. o \in Drivers!Ok(u)
    BY <1>4, CallIs DEF Drivers!MassStorage
  <2>2. s.fn = "live" /\ s.fi = "live" /\ s.cfg = "live"
    BY <1>1, <1>4 DEF HoldInv
  <2>3. /\ Kept(s, u) /\ u.cfg = s.cfg /\ u.fi = s.fi /\ u.fn = "freed" /\ u.net = s.net
        /\ u.leak = s.leak /\ u.fault = s.fault
    BY <1>1, <2>2, PutFunction
  <2> HIDE DEF u
  <2>4. HoldInv(u, "ready") /\ FaultInv(u) /\ RmnetLive(u)
    BY <1>1, <1>4, <2>2, <2>3 DEF HoldInv, FaultInv, Kept, RmnetLive
  <2>5. u.odd \/ ~u.net
    BY <1>1, <1>4, <2>3 DEF NetOf, Kept
  <2> QED
    BY <1>d, <2>1, <2>3, <2>4, <2>5
<1>n. ASSUME NEW v, v = [s EXCEPT !.fn = "null"]
      PROVE  /\ Kept(s, v) /\ v.cfg = s.cfg /\ v.fi = s.fi /\ v.fn = "null" /\ v.net = s.net
             /\ v.leak = s.leak /\ v.fault = s.fault
  BY <1>1, <1>n DEF Kept, State, Drivers!Handles
<1>5. CASE s.drv = "midi"
  <2> DEFINE v == [s EXCEPT !.fn = "null"]
  <2>1. o \in Drivers!Ok(v)
    BY <1>5, CallIs DEF Drivers!Midi
  <2>2. /\ Kept(s, v) /\ v.cfg = s.cfg /\ v.net = s.net /\ v.fault = s.fault
    BY <1>n
  <2> HIDE DEF v
  <2>3. HoldInv(v, "ready") /\ FaultInv(v) /\ RmnetLive(v)
    BY <1>1, <1>5, <2>2 DEF HoldInv, FaultInv, Kept, RmnetLive
  <2>4. v.odd \/ ~v.net
    BY <1>1, <1>5, <2>2 DEF NetOf, Kept
  <2> QED
    BY <1>d, <2>1, <2>2, <2>3, <2>4
<1>6. CASE s.drv \in {"ecm_qc", "rndis_qc", "rndis"}
  <2> DEFINE v == [s EXCEPT !.fn = "null"]
             u == IF s.drv # "rndis" /\ ipa THEN v ELSE Drivers!NetDown(v)
  <2>1. o \in Drivers!Ok(u)
    BY <1>6, CallIs DEF Drivers!EcmQc, Drivers!RndisQc, Drivers!Rndis, Drivers!QcUnbind
  <2>2. Kept(s, v) /\ v.cfg = s.cfg /\ v.net = s.net /\ v.fault = s.fault
    BY <1>n
  <2> HIDE DEF v
  <2>3. v \in State
    BY <2>2 DEF Kept
  <2>4. CASE s.drv # "rndis" /\ ipa
    <3>1. HoldInv(v, "ready") /\ FaultInv(v) /\ RmnetLive(v)
      BY <1>1, <1>6, <2>2 DEF HoldInv, FaultInv, Kept, RmnetLive
    <3>2. v.odd \/ ~v.net
      BY <1>1, <1>6, <2>2, <2>4 DEF NetOf, Kept
    <3> QED
      BY <1>d, <2>1, <2>2, <2>4, <3>1, <3>2
  <2>5. CASE ~(s.drv # "rndis" /\ ipa)
    <3> DEFINE w == Drivers!NetDown(v)
    <3>1. Kept(v, w) /\ w.cfg = v.cfg /\ ~w.net /\ w.fault \in {v.fault, "net"} /\ (v.net => w.fault = v.fault)
      BY <2>3, NetDownIs
    <3>2. o \in Drivers!Ok(w)
      BY <2>1, <2>5
    <3> HIDE DEF w
    <3>3. Kept(s, w) /\ w.cfg = s.cfg
      BY <2>2, <3>1 DEF Kept
    <3>4. s.odd \/ s.net
      BY <1>1, <1>6, <2>5 DEF NetOf
    <3>5. HoldInv(w, "ready") /\ RmnetLive(w)
      BY <1>1, <1>6, <3>3 DEF HoldInv, Kept, RmnetLive
    <3>6. FaultInv(w)
      BY <1>1, <1>6, <2>2, <3>1, <3>3, <3>4 DEF FaultInv, Kept
    <3> QED
      BY <1>d, <3>1, <3>2, <3>3, <3>5, <3>6
  <2> QED
    BY <2>4, <2>5
<1> QED
  BY <1>2, <1>3, <1>4, <1>5, <1>6, DriverIs

-----------------------------------------------------------------------------
(* bind_config *)

\* Fields alone decide what a driver holds.
LEMMA SameHold ==
    ASSUME NEW t, NEW u, NEW st, HoldInv(t, st), u.drv = t.drv, u.cfg = t.cfg, u.fi = t.fi,
           u.fn = t.fn, u.leak = t.leak, u.ill = t.ill
    PROVE  HoldInv(u, st)
BY DEF HoldInv

\* A bind_config that fails.
LEMMA BindFails ==
    ASSUME DriverInv, stage = "ready", NEW t, Mine(t), HoldInv(t, "ready"), FaultInv(t), RmnetLive(t),
           NEW o, o.err = TRUE, o.s = t
    PROVE  BindEnds(o)
BY BindFailed DEF BindEnds

\* A bind_config that ends with usb_add_function().
LEMMA BindAdds ==
    ASSUME DriverInv, stage = "ready", NEW t, Mine(t), ~t.inC, HoldInv(t, "ready"), HoldInv(t, "bound"),
           FaultInv(t), RmnetLive(t),
           t.fn # "live" => t.drv \in {"acm", "gps", "qdss"} \/ (t.drv = "rmnet" /\ t.lives = 2),
           t.odd \/ t.net = NetOf(t.drv, ipa), NEW o \in Drivers!Add(t)
    PROVE  BindEnds(o)
<1>0. t \in State
  BY DEF Mine
<1> DEFINE u == o.s
<1>1. /\ o.err \in BOOLEAN /\ u \in State /\ (t.fn # "live" => o.err)
      /\ u.drv = t.drv /\ u.init = t.init /\ u.ports = t.ports /\ u.lives = t.lives
      /\ u.ill = t.ill /\ u.odd = t.odd /\ u.cfg = t.cfg /\ u.fi = t.fi
      /\ u.fn = t.fn /\ u.net = t.net /\ u.leak = t.leak
      /\ u.inC = (t.inC \/ ~o.err)
      /\ u.fault \in {t.fault, "add"} /\ (t.fn = "live" => u.fault = t.fault)
  BY <1>0, AddIs
<1> HIDE DEF u
<1>2. Mine(u) /\ HoldInv(u, "ready") /\ HoldInv(u, "bound") /\ RmnetLive(u)
  BY <1>1, SameHold DEF Mine, RmnetLive
<1>3. FaultInv(u)
  BY <1>1 DEF FaultInv
<1>4. CASE o.err
  BY <1>1, <1>2, <1>3, <1>4, BindFails DEF u
<1>5. CASE ~o.err
  <2>1. DrvInv(u, "bound", ipa)
    BY <1>1, <1>2, <1>3, <1>5, BindDone
  <2> QED
    BY <1>1, <1>5, <2>1 DEF BindEnds, u
<1> QED
  BY <1>4, <1>5

\* The fields that bind_config of a driver with ports leaves alone.
PortsOnly(t) ==
  /\ t \in State /\ t.drv = s.drv /\ t.cfg = s.cfg /\ t.lives = s.lives /\ t.odd = s.odd
  /\ t.ill = s.ill /\ t.inC = s.inC /\ t.net = s.net /\ t.fault = s.fault

\* What a driver is like before bind_config.
LEMMA ReadyIs ==
    ASSUME DriverInv, stage = "ready"
    PROVE  /\ s \in State /\ Kept(s, s) /\ Mine(s) /\ ~s.inC /\ HoldInv(s, "ready") /\ FaultInv(s)
           /\ RmnetLive(s) /\ (s.odd \/ ~s.net) /\ (s.drv = "rmnet" => s.lives > 0)
           /\ driverNames \in 1..MaxTransports /\ ipa \in BOOLEAN
<1>1. s \in State /\ HoldInv(s, "ready") /\ FaultInv(s) /\ LiveInv(s, "ready") /\ NetInv(s, "ready", ipa)
  BY DEF DriverInv, DrvInv
<1>2. ~s.inC /\ RmnetLive(s)
  BY <1>1 DEF LiveInv, RmnetLive
<1>3. s.odd \/ ~s.net
  BY <1>1 DEF NetInv
<1>4. s.drv = "rmnet" => s.lives > 0
  BY <1>1 DEF LiveInv, State
<1> QED
  BY <1>1, <1>2, <1>3, <1>4 DEF DriverInv, Kept, Mine

\* The ways in which bind_config of a driver with ports ends.
LEMMA PortsEnd ==
    ASSUME DriverInv, stage = "ready", s.drv \in {"acm", "gps", "qdss", "rmnet"},
           NEW t, PortsOnly(t), RmnetLive(t), NEW o,
           \/ o \in Drivers!Fails(t) \/ o \in Drivers!Ok(t) \/ (o \in Drivers!Add(t) /\ (t.drv = "rmnet" => t.init))
    PROVE  BindEnds(o)
<1>1. Mine(t) /\ ~t.inC /\ (t.odd \/ ~t.net)
  BY ReadyIs DEF PortsOnly, Mine
<1>2. HoldInv(t, "ready") /\ HoldInv(t, "bound") /\ FaultInv(t)
  BY ReadyIs DEF PortsOnly, HoldInv, FaultInv, Externals, Helds
<1>3. NetOf(t.drv, ipa) = FALSE /\ t.net \in BOOLEAN
  BY DEF NetOf, PortsOnly, State
<1>4. CASE o \in Drivers!Fails(t)
  BY <1>1, <1>2, <1>4, BindFails DEF Drivers!Fails
<1>5. CASE o \in Drivers!Ok(t)
  <2>1. o.err = FALSE /\ o.s = t
    BY <1>5 DEF Drivers!Ok
  <2>2. DrvInv(t, "bound", ipa)
    BY <1>1, <1>2, <1>3, BindDone
  <2> QED
    BY <2>1, <2>2 DEF BindEnds
<1>6. CASE (o \in Drivers!Add(t) /\ (t.drv = "rmnet" => t.init))
  <2>1. t.lives \in 0..2 /\ t.drv \in {"acm", "gps", "qdss", "rmnet"}
    BY DEF PortsOnly, State
  <2>2. t.fn # "live" => t.drv \in {"acm", "gps", "qdss"} \/ (t.drv = "rmnet" /\ t.lives = 2)
    BY <1>6, <2>1 DEF RmnetLive
  <2> QED
    BY <1>1, <1>2, <1>3, <1>6, <2>2, BindAdds
<1> QED
  BY <1>4, <1>5, <1>6

\* bind_config of acm, rmnet, gps and qdss.
LEMMA PortsBind ==
    ASSUME DriverInv, stage = "ready", s.drv \in {"acm", "gps", "qdss", "rmnet"},
           NEW o \in Drivers!Call("bind")
    PROVE  BindEnds(o)
<1>1. /\ s \in State /\ RmnetLive(s) /\ driverNames \in 1..MaxTransports /\ MaxTransports \in Nat
      /\ s.ports \in 0..MaxTransports /\ PortsOnly(s)
  BY ReadyIs, GroupAssumption DEF State, PortsOnly
<1>h. {"null", "live", "mixed", s.fi, s.fn} \subseteq Drivers!Handles
  BY <1>1 DEF State, Drivers!Handles
<1>3. CASE s.drv = "acm"
  <2>1. o \in Drivers!Acm("bind", s)
    BY <1>3, CallIs
  <2>2. CASE s.init
    <3>1. o \in Drivers!Ok(s) \/ o \in Drivers!Add(s)
      BY <2>1, <2>2 DEF Drivers!Acm
    <3> QED
      BY <1>1, <1>3, <3>1, PortsEnd
  <2>3. CASE ~s.init
    <3> DEFINE T(k, q, f) == [s EXCEPT !.init = TRUE, !.ports = k, !.fi = q, !.fn = f]
    <3>1. Drivers!Min({driverNames, 4}) - 1 \in 0..MaxTransports
      BY <1>1, MinOfTwo
    <3>2. \E k \in 0..MaxTransports, q \in Drivers!Handles, f \in Drivers!Handles :
            \/ o \in Drivers!Fails(T(k, q, f)) \/ o \in Drivers!Ok(T(k, q, f))
            \/ o \in Drivers!Add(T(k, q, f))
      <4>1. o \in Drivers!AcmSetup(s)
        BY <2>1, <2>3 DEF Drivers!Acm
      <4> DEFINE u == [s EXCEPT !.init = TRUE]
                 all == [u EXCEPT !.ports = driverNames]
      <4>2. \A k : [u EXCEPT !.ports = k] = T(k, s.fi, s.fn)
        BY <1>1 DEF State
      <4>3. all = T(driverNames, s.fi, s.fn)
        BY <4>2
      <4>4. [all EXCEPT !.fi = "mixed", !.fn = "mixed"] = T(driverNames, "mixed", "mixed")
        BY <1>1 DEF State
      <4>5. [all EXCEPT !.fi = "live", !.fn = "live"] = T(driverNames, "live", "live")
        BY <1>1 DEF State
      <4>6. \/ \E k \in 0..(Drivers!Min({driverNames, 4}) - 1) : o = [err |-> TRUE, s |-> [u EXCEPT !.ports = k]]
            \/ driverNames >= 4 /\ o \in Drivers!Ok([u EXCEPT !.ports = 4])
            \/ o \in Drivers!Fails(all)
            \/ o \in Drivers!Fails([all EXCEPT !.fi = "mixed", !.fn = "mixed"])
            \/ o \in Drivers!Add([all EXCEPT !.fi = "live", !.fn = "live"])
        BY <4>1 DEF Drivers!AcmSetup
      <4>7. CASE \E k \in 0..(Drivers!Min({driverNames, 4}) - 1) : o = [err |-> TRUE, s |-> [u EXCEPT !.ports = k]]
        <5>1. PICK k \in 0..(Drivers!Min({driverNames, 4}) - 1) : o = [err |-> TRUE, s |-> [u EXCEPT !.ports = k]]
          BY <4>7
        <5>2. k \in 0..MaxTransports
          BY <1>1, <3>1
        <5>3. o \in Drivers!Fails(T(k, s.fi, s.fn))
          BY <4>2, <5>1 DEF Drivers!Fails
        <5> HIDE DEF T
        <5> QED
          BY <1>h, <5>2, <5>3
      <4>8. CASE driverNames >= 4 /\ o \in Drivers!Ok([u EXCEPT !.ports = 4])
        <5>1. 4 \in 0..MaxTransports
          BY <1>1, <4>8
        <5>2. o \in Drivers!Ok(T(4, s.fi, s.fn))
          BY <4>2, <4>8
        <5> HIDE DEF T
        <5> QED
          BY <1>h, <5>1, <5>2
      <4>9. driverNames \in 0..MaxTransports
        BY <1>1
      <4>a. CASE o \in Drivers!Fails(all)
        <5>1. o \in Drivers!Fails(T(driverNames, s.fi, s.fn))
          BY <4>3, <4>a
        <5> HIDE DEF T
        <5> QED
          BY <1>h, <4>9, <5>1
      <4>b. CASE o \in Drivers!Fails([all EXCEPT !.fi = "mixed", !.fn = "mixed"])
        <5>1. o \in Drivers!Fails(T(driverNames, "mixed", "mixed"))
          BY <4>4, <4>b
        <5> HIDE DEF T
        <5> QED
          BY <1>h, <4>9, <5>1
      <4>c. CASE o \in Drivers!Add([all EXCEPT !.fi = "live", !.fn = "live"])
        <5>1. o \in Drivers!Add(T(driverNames, "live", "live"))
          BY <4>5, <4>c
        <5> HIDE DEF T
        <5> QED
          BY <1>h, <4>9, <5>1
      <4> HIDE DEF T, u, all
      <4> QED
        BY <4>6, <4>7, <4>8, <4>a, <4>b, <4>c
    <3>3. PICK k \in 0..MaxTransports, q \in Drivers!Handles, f \in Drivers!Handles :
            \/ o \in Drivers!Fails(T(k, q, f)) \/ o \in Drivers!Ok(T(k, q, f))
            \/ o \in Drivers!Add(T(k, q, f))
      BY <3>2
    <3>4. PICK t : t = T(k, q, f)
      OBVIOUS
    <3>5. PortsOnly(t) /\ RmnetLive(t)
      <4>1. PortsOnly(t)
        BY <1>1, <3>4 DEF PortsOnly, State
      <4> QED
        BY <1>3, <4>1 DEF RmnetLive, PortsOnly
    <3>6. o \in Drivers!Fails(t) \/ o \in Drivers!Ok(t) \/ o \in Drivers!Add(t)
      BY <3>3, <3>4
    <3> QED
      BY <1>3, <3>5, <3>6, PortsEnd DEF PortsOnly
  <2> QED
    BY <2>2, <2>3
<1>4. CASE s.drv = "rmnet"
  <2>1. o \in Drivers!Rmnet("bind", s)
    BY <1>4, CallIs
  <2>2. CASE s.init
    <3>1. o \in Drivers!Ok(s) \/ o \in Drivers!Add(s)
      BY <2>1, <2>2 DEF Drivers!Rmnet
    <3> QED
      BY <1>1, <1>4, <2>2, <3>1, PortsEnd
  <2>3. CASE ~s.init
    <3>1. \A n \in Nat : Drivers!Min({MaxTransports, s.ports + n}) \in 0..MaxTransports
      BY <1>1, MinOfTwo
    <3> DEFINE all == [s EXCEPT !.ports = Drivers!Min({MaxTransports, s.ports + driverNames})]
               At(k) == [s EXCEPT !.ports = k]
    <3>2. \/ \E k \in 0..(driverNames - 1) : o = [err |-> TRUE, s |-> At(Drivers!Min({MaxTransports, s.ports + k}))]
          \/ o \in Drivers!Fails(At(0))
          \/ o \in Drivers!Add([all EXCEPT !.init = TRUE, !.fn = "live"])
      BY <2>1, <2>3 DEF Drivers!Rmnet
    <3>3. ASSUME NEW k \in 0..MaxTransports, o \in Drivers!Fails(At(k))
          PROVE  BindEnds(o)
      <4>1. PICK t : t = At(k)
        OBVIOUS
      <4>3. PortsOnly(t) /\ t.init = s.init
        BY <1>1, <4>1 DEF PortsOnly, State
      <4>4. RmnetLive(t)
        BY <2>3, <4>3 DEF RmnetLive
      <4>5. o \in Drivers!Fails(t)
        BY <3>3, <4>1
      <4>6. o \in Drivers!Fails(t) \/ o \in Drivers!Ok(t) \/ (o \in Drivers!Add(t) /\ (t.drv = "rmnet" => t.init))
        BY <4>5
      <4> HIDE DEF At
      <4> QED
        BY <1>4, <4>3, <4>4, <4>6, PortsEnd
    <3>4. CASE \E k \in 0..(driverNames - 1) : o = [err |-> TRUE, s |-> At(Drivers!Min({MaxTransports, s.ports + k}))]
      <4>1. PICK k \in 0..(driverNames - 1) : o = [err |-> TRUE, s |-> At(Drivers!Min({MaxTransports, s.ports + k}))]
        BY <3>4
      <4>2. Drivers!Min({MaxTransports, s.ports + k}) \in 0..MaxTransports
        BY <1>1, <3>1
      <4>3. o \in Drivers!Fails(At(Drivers!Min({MaxTransports, s.ports + k})))
        BY <4>1 DEF Drivers!Fails
      <4> QED
        BY <3>3, <4>2, <4>3
    <3>5. CASE o \in Drivers!Fails(At(0))
      <4>1. 0 \in 0..MaxTransports
        BY <1>1
      <4> QED
        BY <3>3, <3>5, <4>1
    <3>6. CASE o \in Drivers!Add([all EXCEPT !.init = TRUE, !.fn = "live"])
      <4>1. PICK m \in 0..MaxTransports : m = Drivers!Min({MaxTransports, s.ports + driverNames})
        BY <1>1, <3>1
      <4>2. PICK t : t = [all EXCEPT !.init = TRUE, !.fn = "live"]
        OBVIOUS
      <4>3. all = [s EXCEPT !.ports = m]
        BY <4>1
      <4>4. PortsOnly(t) /\ t.init = TRUE /\ t.fn = "live"
        BY <1>1, <1>h, <4>2, <4>3 DEF PortsOnly, State
      <4>5. RmnetLive(t) /\ o \in Drivers!Add(t)
        BY <3>6, <4>2, <4>4 DEF RmnetLive
      <4> QED
        BY <1>4, <4>4, <4>5, PortsEnd
    <3> QED
      BY <3>2, <3>4, <3>5, <3>6
  <2> QED
    BY <2>2, <2>3
<1>5. CASE s.drv = "gps"
  <2>1. o \in Drivers!Gps("bind", s)
    BY <1>5, CallIs
  <2>2. \E t \in {s, [s EXCEPT !.init = TRUE], [s EXCEPT !.init = TRUE, !.fn = "live"]} :
          o \in Drivers!Fails(t) \/ o \in Drivers!Add(t)
    BY <2>1 DEF Drivers!Gps
  <2>3. PICK t \in {s, [s EXCEPT !.init = TRUE], [s EXCEPT !.init = TRUE, !.fn = "live"]} :
          o \in Drivers!Fails(t) \/ o \in Drivers!Add(t)
    BY <2>2
  <2>4. PortsOnly(t)
    BY <1>1 DEF PortsOnly, State, Drivers!Handles
  <2>5. RmnetLive(t) /\ t.drv # "rmnet"
    BY <1>5, <2>4 DEF PortsOnly, RmnetLive
  <2> QED
    BY <1>5, <2>3, <2>4, <2>5, PortsEnd
<1>6. CASE s.drv = "qdss"
  <2>1. o \in Drivers!Qdss("bind", s)
    BY <1>6, CallIs
  <2>2. CASE s.init
    <3>1. o \in Drivers!Ok(s) \/ o \in Drivers!Add(s)
      BY <2>1, <2>2 DEF Drivers!Qdss
    <3> QED
      BY <1>1, <1>6, <3>1, PortsEnd
  <2>3. CASE ~s.init
    <3> DEFINE u == [s EXCEPT !.init = TRUE]
               pairs == (driverNames + 1) \div 2
    <3>1. pairs \in 0..MaxTransports
      BY <1>1
    <3>2. \/ o \in {[err |-> TRUE, s |-> [u EXCEPT !.ports = k]] : k \in 0..pairs}
          \/ o \in Drivers!Add([u EXCEPT !.ports = pairs, !.fn = "live"])
      BY <2>1, <2>3 DEF Drivers!Qdss
    <3> HIDE DEF pairs
    <3>3. CASE o \in {[err |-> TRUE, s |-> [u EXCEPT !.ports = k]] : k \in 0..pairs}
      <4>1. PICK k \in 0..pairs : o = [err |-> TRUE, s |-> [u EXCEPT !.ports = k]]
        BY <3>3
      <4>2. PICK t : t = [u EXCEPT !.ports = k]
        OBVIOUS
      <4>3. k \in 0..MaxTransports
        BY <1>1, <3>1
      <4>4. PortsOnly(t)
        BY <1>1, <4>2, <4>3 DEF PortsOnly, State
      <4>5. RmnetLive(t) /\ o \in Drivers!Fails(t)
        BY <1>6, <4>1, <4>2, <4>4 DEF PortsOnly, RmnetLive, Drivers!Fails
      <4>6. o \in Drivers!Fails(t) \/ o \in Drivers!Ok(t) \/ (o \in Drivers!Add(t) /\ (t.drv = "rmnet" => t.init))
        BY <4>5
      <4> QED
        BY <1>6, <4>4, <4>5, <4>6, PortsEnd
    <3>4. CASE o \in Drivers!Add([u EXCEPT !.ports = pairs, !.fn = "live"])
      <4>1. PICK t : t = [u EXCEPT !.ports = pairs, !.fn = "live"]
        OBVIOUS
      <4>2. PortsOnly(t)
        BY <1>1, <3>1, <4>1 DEF PortsOnly, State, Drivers!Handles
      <4>3. RmnetLive(t) /\ t.drv # "rmnet" /\ o \in Drivers!Add(t)
        BY <1>6, <3>4, <4>1, <4>2 DEF PortsOnly, RmnetLive
      <4> QED
        BY <1>6, <4>2, <4>3, PortsEnd
    <3> QED
      BY <3>2, <3>3, <3>4
  <2> QED
    BY <2>2, <2>3
<1> QED
  BY <1>3, <1>4, <1>5, <1>6

\* bind_config of ncm and ecm.
LEMMA EthernetBinds ==
    ASSUME DriverInv, stage = "ready", s.drv \in {"ncm", "ecm"}, NEW o \in Drivers!Call("bind")
    PROVE  BindEnds(o)
<1>1. /\ s \in State /\ Kept(s, s) /\ Mine(s) /\ ~s.inC /\ FaultInv(s) /\ (s.odd \/ ~s.net)
  BY ReadyIs
<1>2. {"live", "err"} \subseteq Drivers!Handles
  BY DEF Drivers!Handles
<1> DEFINE q == Drivers!Got(s, "fi", "live")
           e == Drivers!Got(s, "fi", "err")
<1>3. o \in Drivers!EthernetBind(s)
  BY CallIs DEF Drivers!Ncm, Drivers!Ecm
<1>4. \/ o \in Drivers!Fails(s) \/ o \in Drivers!Fails(e) \/ o \in Drivers!Fails(q)
      \/ o \in Drivers!Fails(Drivers!Got(q, "fn", "err"))
      \/ o \in Drivers!Add(Drivers!Got(q, "fn", "live"))
  BY <1>3 DEF Drivers!EthernetBind
<1>5. Kept(s, q) /\ q.net = s.net /\ q.fault = s.fault
  BY <1>1, <1>2, GotInstance
<1>6. Kept(s, e) /\ e.net = s.net /\ e.fault = s.fault
  BY <1>1, <1>2, GotInstance
<1> HIDE DEF q, e
<1> DEFINE n == Drivers!Got(q, "fn", "err")
           w == Drivers!Got(q, "fn", "live")
<1>7. q \in State
  BY <1>5 DEF Kept
<1>8. Kept(s, n) /\ n.net = s.net /\ n.fault = s.fault
  BY <1>2, <1>5, <1>7, GotFunction DEF Kept
<1>9. Kept(s, w) /\ w.net = s.net /\ w.fault = s.fault /\ w.fn = "live"
  BY <1>2, <1>5, <1>7, GotFunction DEF Kept
<1> HIDE DEF n, w
<1>10. ASSUME NEW t, Kept(s, t), t.net = s.net, t.fault = s.fault
       PROVE  /\ Mine(t) /\ ~t.inC /\ HoldInv(t, "ready") /\ HoldInv(t, "bound") /\ FaultInv(t)
              /\ RmnetLive(t) /\ (t.odd \/ t.net = NetOf(t.drv, ipa))
  <2>1. Mine(t) /\ ~t.inC /\ t.drv = s.drv /\ t.net \in BOOLEAN
    BY <1>1, <1>10 DEF Mine, Kept, State
  <2>2. HoldInv(t, "ready") /\ HoldInv(t, "bound") /\ RmnetLive(t)
    BY <2>1 DEF HoldInv, RmnetLive, Externals, Helds
  <2>3. FaultInv(t)
    BY <1>1, <1>10, <2>1 DEF FaultInv
  <2>4. NetOf(t.drv, ipa) = FALSE
    BY <2>1 DEF NetOf
  <2> QED
    BY <1>1, <1>10, <2>1, <2>2, <2>3, <2>4 DEF Kept
<1>11. ASSUME NEW t, Kept(s, t), t.net = s.net, t.fault = s.fault, o \in Drivers!Fails(t)
       PROVE  BindEnds(o)
  BY <1>10, <1>11, BindFails DEF Drivers!Fails
<1>12. ASSUME o \in Drivers!Add(w)
       PROVE  BindEnds(o)
  BY <1>9, <1>10, <1>12, BindAdds
<1>13. Kept(s, s)
  BY <1>1
<1> QED
  BY <1>4, <1>5, <1>6, <1>8, <1>11, <1>12, <1>13 DEF n, w

\* bind_config of ecm_qc, rndis_qc and rndis.
LEMMA NetworkBinds ==
    ASSUME DriverInv, stage = "ready", s.drv \in {"ecm_qc", "rndis_qc", "rndis"},
           NEW o \in Drivers!Call("bind")
    PROVE  BindEnds(o)
<1>1. /\ s \in State /\ Mine(s) /\ ~s.inC /\ HoldInv(s, "ready") /\ FaultInv(s) /\ RmnetLive(s)
      /\ (s.odd \/ ~s.net) /\ ipa \in BOOLEAN
  BY ReadyIs
<1>2. s.cfg = "live"
  BY <1>1 DEF HoldInv
<1> DEFINE bam == s.drv # "rndis" /\ ipa
           v == IF bam THEN s ELSE Drivers!NetUp(s)
           w == [v EXCEPT !.fn = "live"]
<1>3. o \in Drivers!Fails(s) \/ o \in Drivers!Add(w)
  BY <1>2, CallIs DEF Drivers!EcmQc, Drivers!RndisQc, Drivers!Rndis, Drivers!QcBind
<1>4. /\ Kept(s, v) /\ v.cfg = s.cfg /\ v.net = (s.net \/ ~bam) /\ v.fault = s.fault
  <2>1. CASE bam
    BY <1>1, <2>1 DEF Kept, State
  <2>2. CASE ~bam
    BY <1>1, <2>2, NetUpIs
  <2> QED
    BY <2>1, <2>2
<1>5. bam \in BOOLEAN /\ NetOf(s.drv, ipa) = ~bam
  BY <1>1 DEF NetOf
<1> HIDE DEF bam, v
<1>6. Kept(s, w) /\ w.cfg = s.cfg /\ w.net = (s.net \/ ~bam) /\ w.fault = s.fault /\ w.fn = "live"
  BY <1>4 DEF Kept, State, Drivers!Handles
<1> HIDE DEF w
<1>7. Mine(w) /\ ~w.inC /\ RmnetLive(w)
  BY <1>1, <1>6 DEF Mine, Kept, RmnetLive
<1>8. HoldInv(w, "ready") /\ HoldInv(w, "bound") /\ FaultInv(w)
  BY <1>1, <1>2, <1>6 DEF HoldInv, FaultInv, Kept, Externals, Helds
<1>9. w.odd \/ w.net = NetOf(w.drv, ipa)
  BY <1>1, <1>5, <1>6 DEF Kept
<1>10. ASSUME o \in Drivers!Fails(s)
       PROVE  BindEnds(o)
  BY <1>1, <1>10, BindFails DEF Drivers!Fails
<1>11. ASSUME o \in Drivers!Add(w)
       PROVE  BindEnds(o)
  BY <1>6, <1>7, <1>8, <1>9, <1>11, BindAdds
<1> QED
  BY <1>3, <1>10, <1>11

\* bind_config of the drivers that add what they have or what the call makes.
LEMMA SimpleBinds ==
    ASSUME DriverInv, stage = "ready", s.drv \in Externals \cup Helds \cup {"midi", "charger", "ptp"},
           NEW o \in Drivers!Call("bind")
    PROVE  BindEnds(o)
<1>1. /\ s \in State /\ Mine(s) /\ ~s.inC /\ HoldInv(s, "ready") /\ FaultInv(s) /\ RmnetLive(s)
      /\ (s.odd \/ ~s.net)
  BY ReadyIs
<1>2. s.drv \in Externals \cup Helds => s.fn = "live"
  BY <1>1 DEF HoldInv
<1>3. PICK w : w = [s EXCEPT !.fn = "live"]
  OBVIOUS
<1>4. /\ Kept(s, w) /\ w.cfg = s.cfg /\ w.fi = s.fi /\ w.fn = "live" /\ w.net = s.net
      /\ w.leak = s.leak /\ w.fault = s.fault
  BY <1>1, <1>3 DEF Kept, State, Drivers!Handles
<1>5. s.drv \in Externals \cup Helds => w = s
  BY <1>1, <1>2, <1>3 DEF State
<1>6. HoldInv(w, "ready") /\ HoldInv(w, "bound")
  BY <1>1, <1>4 DEF HoldInv, Kept, Externals, Helds
<1>7. Mine(w) /\ ~w.inC /\ RmnetLive(w) /\ FaultInv(w)
  BY <1>1, <1>4 DEF Mine, Kept, RmnetLive, FaultInv, Externals, Helds
<1>8. w.odd \/ w.net = NetOf(w.drv, ipa)
  <2>1. NetOf(w.drv, ipa) = FALSE /\ w.net \in BOOLEAN
    BY <1>4 DEF NetOf, Kept, State, Externals, Helds
  <2> QED
    BY <1>1, <1>4, <2>1 DEF Kept
<1>9. ASSUME o \in Drivers!Add(w)
      PROVE  BindEnds(o)
  BY <1>4, <1>6, <1>7, <1>8, <1>9, BindAdds
<1>10. CASE s.drv # "diag"
  <2>1. (o \in Drivers!Add(s) /\ s.drv \in Externals \cup Helds) \/ o \in Drivers!Add([s EXCEPT !.fn = "live"])
    BY <1>10, CallIs DEF Drivers!External, Drivers!Held, Drivers!AudioSource, Drivers!Midi,
       Drivers!BindOnly, Externals, Helds
  <2> QED
    BY <1>3, <1>5, <1>9, <2>1
<1>11. CASE s.drv = "diag"
  <2>1. o \in Drivers!Add(s) \/ o \in Drivers!Fails([s EXCEPT !.inC = TRUE])
    BY <1>11, CallIs DEF Drivers!Diag
  <2>2. PICK t : t = [s EXCEPT !.inC = TRUE]
    OBVIOUS
  <2>3. /\ t \in State /\ t.drv = s.drv /\ t.cfg = s.cfg /\ t.fi = s.fi /\ t.fn = s.fn
        /\ t.leak = s.leak /\ t.ill = s.ill /\ t.fault = s.fault /\ t.lives = s.lives /\ t.odd = s.odd
    BY <1>1, <2>2 DEF State
  <2>4. Mine(t) /\ HoldInv(t, "ready") /\ FaultInv(t) /\ RmnetLive(t)
    BY <1>1, <1>11, <2>3 DEF Mine, HoldInv, FaultInv, RmnetLive
  <2>5. ASSUME o \in Drivers!Fails(t)
        PROVE  BindEnds(o)
    BY <2>4, <2>5, BindFails DEF Drivers!Fails
  <2>6. s.drv \in Externals
    BY <1>11 DEF Externals
  <2> QED
    BY <1>5, <1>9, <2>1, <2>2, <2>5, <2>6
<1> QED
  BY <1>10, <1>11

\* bind_config of mass_storage: the function is put again when it cannot be added.
LEMMA StorageBinds ==
    ASSUME DriverInv, stage = "ready", s.drv = "mass_storage", NEW o \in Drivers!Call("bind")
    PROVE  BindEnds(o)
<1>1. /\ s \in State /\ Mine(s) /\ ~s.inC /\ HoldInv(s, "ready") /\ FaultInv(s) /\ (s.odd \/ ~s.net)
  BY ReadyIs
<1>2. s.cfg = "live" /\ s.fi = "live" /\ s.fn # "live" /\ (~s.ill => s.leak = 0)
  BY <1>1 DEF HoldInv
<1>3. {"live", "err"} \subseteq Drivers!Handles
  BY DEF Drivers!Handles
<1> DEFINE e == Drivers!Got(s, "fn", "err")
           w == Drivers!Got(s, "fn", "live")
<1>4. \/ o \in Drivers!Fails(e)
      \/ \E r \in Drivers!Add(w) : o = IF r.err THEN [r EXCEPT !.s = Drivers!Put(@, "fn")] ELSE r
  BY CallIs DEF Drivers!MassStorage
<1>5. /\ Kept(s, e) /\ e.cfg = s.cfg /\ e.fi = s.fi /\ e.fn = "err" /\ e.net = s.net
      /\ e.fault = s.fault /\ e.leak = s.leak
  BY <1>1, <1>2, <1>3, GotFunction
<1>6. /\ Kept(s, w) /\ w.cfg = s.cfg /\ w.fi = s.fi /\ w.fn = "live" /\ w.net = s.net
      /\ w.fault = s.fault /\ w.leak = s.leak
  BY <1>1, <1>2, <1>3, GotFunction
<1> HIDE DEF e, w
<1>7. ASSUME NEW t \in State, t.drv = s.drv, t.lives = s.lives, t.odd = s.odd, t.ill = s.ill,
             t.cfg = s.cfg, t.fi = s.fi, t.leak = s.leak, t.fault = s.fault
      PROVE  /\ Mine(t) /\ FaultInv(t) /\ RmnetLive(t)
             /\ t.fn # "live" => HoldInv(t, "ready")
             /\ t.fn = "live" => HoldInv(t, "bound")
  BY <1>1, <1>2, <1>7 DEF Mine, FaultInv, RmnetLive, HoldInv, Externals, Helds
<1>8. CASE o \in Drivers!Fails(e)
  <2>1. Mine(e) /\ FaultInv(e) /\ RmnetLive(e) /\ HoldInv(e, "ready")
    BY <1>5, <1>7 DEF Kept
  <2> QED
    BY <1>8, <2>1, BindFails DEF Drivers!Fails
<1>9. ASSUME NEW r \in Drivers!Add(w), o = IF r.err THEN [r EXCEPT !.s = Drivers!Put(@, "fn")] ELSE r
      PROVE  BindEnds(o)
  <2>0. w \in State
    BY <1>6 DEF Kept
  <2> DEFINE x == r.s
  <2>1. /\ r.err \in BOOLEAN /\ x \in State /\ x.drv = s.drv /\ x.lives = s.lives /\ x.ill = s.ill
        /\ x.odd = s.odd /\ x.cfg = s.cfg /\ x.fi = s.fi /\ x.fn = "live" /\ x.net = s.net
        /\ x.leak = s.leak /\ x.fault = s.fault
    BY <1>6, <2>0, AddIs DEF Kept
  <2>2. r = [err |-> r.err, s |-> x]
    BY <1>6, <1>9 DEF Drivers!Add, Drivers!Ok, Drivers!Fails
  <2> HIDE DEF x
  <2>3. CASE ~r.err
    <3>1. o.err = FALSE /\ o.s = x
      BY <1>9, <2>1, <2>2, <2>3 DEF x
    <3>2. Mine(x) /\ FaultInv(x) /\ RmnetLive(x) /\ HoldInv(x, "bound")
      BY <1>7, <2>1
    <3>3. x.odd \/ x.net = NetOf(x.drv, ipa)
      BY <1>1, <2>1 DEF NetOf, State
    <3>4. DrvInv(x, "bound", ipa)
      BY <2>1, <3>2, <3>3, BindDone
    <3> QED
      BY <3>1, <3>4 DEF BindEnds
  <2>4. CASE r.err
    <3> DEFINE y == Drivers!Put(x, "fn")
    <3>1. o = [[err |-> r.err, s |-> x] EXCEPT !.s = y]
      BY <1>9, <2>2, <2>4 DEF x
    <3>2. /\ Kept(x, y) /\ y.cfg = x.cfg /\ y.fi = x.fi /\ y.leak = x.leak /\ y.fn = "freed"
          /\ y.fault = x.fault
      BY <2>1, PutFunction
    <3> HIDE DEF y
    <3>3. o.err = TRUE /\ o.s = y
      BY <2>1, <2>4, <3>1
    <3>4. Mine(y) /\ FaultInv(y) /\ RmnetLive(y) /\ HoldInv(y, "ready")
      BY <1>7, <2>1, <3>2 DEF Kept
    <3> QED
      BY <3>3, <3>4, BindFails
  <2> QED
    BY <2>1, <2>3, <2>4
<1> QED
  BY <1>4, <1>8, <1>9

\* bind_config of loopback.
LEMMA LoopbackBinds ==
    ASSUME DriverInv, stage = "ready", s.drv = "loopback", NEW o \in Drivers!Call("bind")
    PROVE  BindEnds(o)
<1>1. /\ s \in State /\ Mine(s) /\ ~s.inC /\ FaultInv(s) /\ (s.odd \/ ~s.net)
  BY ReadyIs
<1>2. {"live", "err"} \subseteq Drivers!Handles
  BY DEF Drivers!Handles
<1> DEFINE c == Drivers!NewConfig(s)
<1>3. Kept(s, c) /\ c.net = s.net /\ c.fault = s.fault
  BY <1>1, NewConfigIs
<1> HIDE DEF c
<1> DEFINE q == Drivers!Got(c, "fi", "live")
           e == Drivers!Got(c, "fi", "err")
<1>4. c \in State
  BY <1>3 DEF Kept
<1>5. Kept(s, q) /\ q.net = s.net /\ q.fault = s.fault
  BY <1>2, <1>3, <1>4, GotInstance DEF Kept
<1>6. Kept(s, e) /\ e.net = s.net /\ e.fault = s.fault
  BY <1>2, <1>3, <1>4, GotInstance DEF Kept
<1> HIDE DEF q, e
<1> DEFINE n == Drivers!Got(q, "fn", "err")
           w == Drivers!Got(q, "fn", "live")
<1>7. q \in State
  BY <1>5 DEF Kept
<1>8. Kept(s, n) /\ n.net = s.net /\ n.fault = s.fault
  BY <1>2, <1>5, <1>7, GotFunction DEF Kept
<1>9. Kept(s, w) /\ w.net = s.net /\ w.fault = s.fault /\ w.fn = "live"
  BY <1>2, <1>5, <1>7, GotFunction DEF Kept
<1>10. \/ o \in Drivers!Fails(s) \/ o \in Drivers!Fails(e) \/ o \in Drivers!Fails(n)
       \/ \E r \in Drivers!Add(w) :
            o = IF r.err THEN [r EXCEPT !.s = [Drivers!Put(@, "fn") EXCEPT !.fn = "null"]] ELSE r
  BY CallIs DEF Drivers!Loopback, c, q, e, n, w
<1> HIDE DEF n, w
<1>11. ASSUME NEW t \in State, t.drv = s.drv, t.lives = s.lives, t.odd = s.odd, t.fault = s.fault
       PROVE  Mine(t) /\ FaultInv(t) /\ RmnetLive(t) /\ HoldInv(t, "ready") /\ HoldInv(t, "bound")
  BY <1>1, <1>11 DEF Mine, FaultInv, RmnetLive, HoldInv, Externals, Helds
<1>12. ASSUME NEW t, Kept(s, t), t.fault = s.fault, o \in Drivers!Fails(t)
       PROVE  BindEnds(o)
  <2>1. Mine(t) /\ FaultInv(t) /\ RmnetLive(t) /\ HoldInv(t, "ready")
    BY <1>11, <1>12 DEF Kept
  <2> QED
    BY <1>12, <2>1, BindFails DEF Drivers!Fails
<1>13. ASSUME NEW r \in Drivers!Add(w),
              o = IF r.err THEN [r EXCEPT !.s = [Drivers!Put(@, "fn") EXCEPT !.fn = "null"]] ELSE r
       PROVE  BindEnds(o)
  <2>0. w \in State
    BY <1>9 DEF Kept
  <2> DEFINE x == r.s
  <2>1. /\ r.err \in BOOLEAN /\ x \in State /\ x.drv = s.drv /\ x.lives = s.lives
        /\ x.odd = s.odd /\ x.fn = "live" /\ x.net = s.net /\ x.fault = s.fault
    BY <1>9, <2>0, AddIs DEF Kept
  <2>2. r = [err |-> r.err, s |-> x]
    BY <1>9, <1>13 DEF Drivers!Add, Drivers!Ok, Drivers!Fails
  <2> HIDE DEF x
  <2>3. CASE ~r.err
    <3>1. o.err = FALSE /\ o.s = x
      BY <1>13, <2>1, <2>2, <2>3 DEF x
    <3>2. Mine(x) /\ FaultInv(x) /\ RmnetLive(x) /\ HoldInv(x, "bound")
      BY <1>11, <2>1
    <3>3. x.odd \/ x.net = NetOf(x.drv, ipa)
      BY <1>1, <2>1 DEF NetOf, State
    <3>4. DrvInv(x, "bound", ipa)
      BY <2>1, <3>2, <3>3, BindDone
    <3> QED
      BY <3>1, <3>4 DEF BindEnds
  <2>4. CASE r.err
    <3> DEFINE y == Drivers!Put(x, "fn")
               z == [y EXCEPT !.fn = "null"]
    <3>1. o = [[err |-> r.err, s |-> x] EXCEPT !.s = z]
      BY <1>13, <2>2, <2>4 DEF x
    <3>2. Kept(x, y) /\ y.fault = x.fault
      BY <2>1, PutFunction
    <3> HIDE DEF y
    <3>3. Kept(x, z) /\ z.fault = x.fault
      BY <3>2 DEF Kept, State, Drivers!Handles
    <3> HIDE DEF z
    <3>4. o.err = TRUE /\ o.s = z
      BY <2>1, <2>4, <3>1
    <3>5. Mine(z) /\ FaultInv(z) /\ RmnetLive(z) /\ HoldInv(z, "ready")
      BY <1>11, <2>1, <3>3 DEF Kept
    <3> QED
      BY <3>4, <3>5, BindFails
  <2> QED
    BY <2>1, <2>3, <2>4
<1>14. Kept(s, s)
  BY <1>1 DEF Kept
<1> QED
  BY <1>6, <1>8, <1>10, <1>12, <1>13, <1>14

LEMMA BindCall ==
    ASSUME DriverInv, stage = "ready", NEW o \in Drivers!Call("bind")
    PROVE  BindEnds(o)
<1>1. CASE s.drv \in {"acm", "gps", "qdss", "rmnet"}
  BY <1>1, PortsBind
<1>2. CASE s.drv \in {"ncm", "ecm"}
  BY <1>2, EthernetBinds
<1>3. CASE s.drv \in {"ecm_qc", "rndis_qc", "rndis"}
  BY <1>3, NetworkBinds
<1>4. CASE s.drv \in Externals \cup Helds \cup {"midi", "charger", "ptp"}
  BY <1>4, SimpleBinds
<1>5. CASE s.drv = "mass_storage"
  BY <1>5, StorageBinds
<1>6. CASE s.drv = "loopback"
  BY <1>6, LoopbackBinds
<1> QED
  BY <1>1, <1>2, <1>3, <1>4, <1>5, <1>6, DriverIs DEF Externals, Helds

-----------------------------------------------------------------------------
(* Every step keeps the invariant of the drivers *)

LEMMA DriversAtBoot == Drivers!Init => DriverInv
<1> SUFFICES ASSUME Drivers!Init
             PROVE  DriverInv
  OBVIOUS
<1>1. PICK d \in Drivers!Drivers : s = Drivers!Fresh(d)
  BY DEF Drivers!Init
<1>2. /\ s \in State /\ s.drv = d /\ s.cfg = "null" /\ s.fi = "null" /\ s.fn = "null"
      /\ s.inC = FALSE /\ s.net = FALSE /\ s.init = FALSE /\ s.leak = 0 /\ s.fault = "none"
      /\ s.lives = 0
  BY <1>1, GroupAssumption DEF Drivers!Fresh, State, Drivers!Handles
<1>3. stage = "off" /\ ipa \in BOOLEAN /\ driverNames \in 1..MaxTransports
  BY GroupAssumption DEF Drivers!Init
<1>4. HoldInv(s, "off") /\ LiveInv(s, "off") /\ FaultInv(s) /\ NetInv(s, "off", ipa)
  BY <1>2 DEF HoldInv, LiveInv, FaultInv, NetInv, Externals, Helds
<1> QED
  BY <1>2, <1>3, <1>4 DEF DriverInv, DrvInv

LEMMA DriversKeep == DriverInv /\ [Drivers!Next]_driverVars => DriverInv'
<1> SUFFICES ASSUME DriverInv, [Drivers!Next]_driverVars
             PROVE  DriverInv'
  OBVIOUS
<1> SUFFICES /\ DrvInv(s', stage', ipa') /\ stage' \in {"off", "ready", "bound"}
             /\ ipa' \in BOOLEAN /\ driverNames' \in 1..MaxTransports
  BY DEF DriverInv, DrvInv, State, HoldInv, LiveInv, FaultInv, NetInv, NetOf
<1>1. CASE Drivers!InitFunction
  <2>1. PICK o \in Drivers!Call("init") :
          /\ s' = IF o.err THEN [o.s EXCEPT !.ill = TRUE] ELSE [o.s EXCEPT !.lives = @ + 1]
          /\ stage' = IF o.err THEN "off" ELSE "ready"
    BY <1>1 DEF Drivers!InitFunction
  <2>2. stage = "off" /\ s.lives < 2 /\ ipa' = ipa /\ driverNames' = driverNames
    BY <1>1 DEF Drivers!InitFunction
  <2>3. InitEnds(o)
    BY <2>2, InitCall
  <2> QED
    BY <2>1, <2>2, <2>3 DEF InitEnds, DriverInv
<1>2. CASE Drivers!BindConfig
  <2>1. PICK o \in Drivers!Call("bind") :
          /\ s' = IF o.err THEN [o.s EXCEPT !.inC = FALSE, !.odd = @ \/ o.s.net] ELSE o.s
          /\ stage' = IF o.err THEN "ready" ELSE "bound"
    BY <1>2 DEF Drivers!BindConfig
  <2>2. stage = "ready" /\ ipa' = ipa /\ driverNames' = driverNames
    BY <1>2 DEF Drivers!BindConfig
  <2>3. BindEnds(o)
    BY <2>2, BindCall
  <2> QED
    BY <2>1, <2>2, <2>3 DEF BindEnds, DriverInv
<1>3. CASE Drivers!UnbindConfig
  <2>1. PICK o \in Drivers!Call("unbind") : s' = [o.s EXCEPT !.inC = FALSE]
    BY <1>3 DEF Drivers!UnbindConfig
  <2>2. stage = "bound" /\ stage' = "ready" /\ ipa' = ipa /\ driverNames' = driverNames
    BY <1>3 DEF Drivers!UnbindConfig
  <2>3. UnbindEnds(o)
    BY <2>2, UnbindCall
  <2> QED
    BY <2>1, <2>2, <2>3 DEF UnbindEnds, DriverInv
<1>4. CASE Drivers!CleanupFunction
  <2>1. PICK o \in Drivers!Call("cleanup") : s' = o.s
    BY <1>4 DEF Drivers!CleanupFunction
  <2>2. stage = "ready" /\ stage' = "off" /\ ipa' = ipa /\ driverNames' = driverNames
    BY <1>4 DEF Drivers!CleanupFunction
  <2>3. CleanupEnds(o)
    BY <2>2, CleanupCall
  <2> QED
    BY <2>1, <2>2, <2>3 DEF CleanupEnds, DriverInv
<1>5. CASE Drivers!TransportsStore
  <2>1. /\ driverNames' \in 1..MaxTransports /\ ipa' \in BOOLEAN /\ stage' = stage
        /\ s' = [s EXCEPT !.odd = @ \/ (stage = "bound" /\ ipa' # ipa)]
    BY <1>5 DEF Drivers!TransportsStore
  <2>2. s \in State /\ HoldInv(s, stage) /\ LiveInv(s, stage) /\ FaultInv(s) /\ NetInv(s, stage, ipa)
    BY DEF DriverInv, DrvInv
  <2> DEFINE b == s.odd \/ (stage = "bound" /\ ipa' # ipa)
  <2>3. b \in BOOLEAN /\ s' = [s EXCEPT !.odd = b] /\ (s.odd => b)
    BY <2>1, <2>2 DEF State
  <2>4. /\ s' \in State /\ s'.drv = s.drv /\ s'.cfg = s.cfg /\ s'.fi = s.fi /\ s'.fn = s.fn
        /\ s'.inC = s.inC /\ s'.net = s.net /\ s'.init = s.init /\ s'.leak = s.leak
        /\ s'.fault = s.fault /\ s'.lives = s.lives /\ s'.ill = s.ill /\ s'.odd = b
    BY <2>2, <2>3 DEF State
  <2>5. stage \in {"off", "ready", "bound"}
    BY DEF DriverInv
  <2>6. b \/ stage # "bound" \/ ipa' = ipa
    BY <2>3
  <2> HIDE DEF b
  <2>7. HoldInv(s', stage) /\ LiveInv(s', stage)
    BY <2>2, <2>4 DEF HoldInv, LiveInv
  <2>8. FaultInv(s')
    BY <2>2, <2>3, <2>4 DEF FaultInv
  <2>9. NetInv(s', stage, ipa')
    BY <2>2, <2>3, <2>4, <2>6 DEF NetInv
  <2> QED
    BY <2>1, <2>4, <2>5, <2>7, <2>8, <2>9 DEF DrvInv
<1>6. CASE UNCHANGED driverVars
  BY <1>6 DEF driverVars, DriverInv
<1> QED
  BY <1>1, <1>2, <1>3, <1>4, <1>5, <1>6 DEF Drivers!Next

\* What the invariant says of the properties.
LEMMA DriverProperties ==
    DriverInv => /\ Drivers!TypeOK /\ Drivers!AddsOnlyLive
                 /\ Drivers!PutsOnce /\ Drivers!NetPaired /\ Drivers!CleanupFreesAll
<1> SUFFICES ASSUME DriverInv
             PROVE  /\ Drivers!TypeOK /\ Drivers!AddsOnlyLive
                    /\ Drivers!PutsOnce /\ Drivers!NetPaired /\ Drivers!CleanupFreesAll
  OBVIOUS
<1>1. /\ s \in State /\ HoldInv(s, stage) /\ LiveInv(s, stage) /\ FaultInv(s) /\ NetInv(s, stage, ipa)
      /\ stage \in {"off", "ready", "bound"}
  BY DEF DriverInv, DrvInv
<1>2. Drivers!TypeOK
  BY <1>1 DEF Drivers!TypeOK, State, DriverInv
<1>3. Drivers!AddsOnlyLive
  BY <1>1 DEF Drivers!AddsOnlyLive, LiveInv, FaultInv, State
<1>4. Drivers!PutsOnce
  BY <1>1 DEF Drivers!PutsOnce, FaultInv
<1>5. Drivers!NetPaired
  BY <1>1 DEF Drivers!NetPaired, FaultInv, NetInv
<1>6. Drivers!CleanupFreesAll
  BY <1>1 DEF Drivers!CleanupFreesAll, Drivers!Tidy, HoldInv, Externals, Helds
<1> QED
  BY <1>2, <1>3, <1>4, <1>5, <1>6

-----------------------------------------------------------------------------
(* The theorems *)

\* The invariants of the parts; each part's steps leave the other
\* parts alone.
GroupInv == SerialInv /\ DriverInv /\ LifeInv /\ LoopInv

\* Every step keeps it.
LEMMA GroupStep ==
    ASSUME GroupInv, [GroupNext]_allVars
    PROVE  GroupInv'
<1>1. [Next]_vars
  BY DEF GroupNext, SerialNext, DriversNext, LifecycleNext, LoopbackNext, allVars
<1>2. [Lifecycle!Next]_lifeVars
  BY DEF GroupNext, SerialNext, DriversNext, LifecycleNext, LoopbackNext, allVars
<1>3. [Loopback!Next]_loopVars
  BY DEF GroupNext, SerialNext, DriversNext, LifecycleNext, LoopbackNext, allVars
<1>4. [Drivers!Next]_driverVars
  BY DEF GroupNext, SerialNext, DriversNext, LifecycleNext, LoopbackNext, allVars
<1> QED
  BY <1>1, <1>2, <1>3, <1>4, SerialStep, DriversKeep, LifeStep, LoopStep DEF GroupInv

\* The invariant of the group.
LEMMA GroupInvariance == GroupSpec => []GroupInv
<1>1. GroupInit => GroupInv
  BY SerialAtBoot, DriversAtBoot, LifeAtBoot, LoopAtBoot DEF GroupInit, GroupInv
<1> QED
  BY <1>1, GroupStep, PTL DEF GroupSpec

\* Whatever fails, is retried or is written to the transports attributes, the
\* serial function and the other drivers hand only live functions to a
\* configuration, and every variable stays in its type; for any number of names,
\* ports, functions, probes and requests.
THEOREM OnlyLiveIsAdded == GroupSpec => []AddsLive
<1>1. ASSUME SerialInv PROVE TypeOK /\ AddsOnlyLive /\ CountedObjectsLive
  <2>1. TypeOK
    BY <1>1 DEF SerialInv, SerialTypes
  <2>2. AddsOnlyLive
    <3> SUFFICES ASSUME pc = "add", ~corrupt, NEW j \in 0 .. (ports - 1)
                 PROVE  fn[j] = "live" /\ (~retry => j \in gports)
      BY DEF AddsOnlyLive
    <3>1. /\ serial_initialized /\ config /\ ports <= instances_on /\ instances_on <= MAX_SERIAL_INSTANCES
          /\ \A k \in Slots : k < instances_on => fn[k] = "live"
      BY <1>1 DEF SerialInv, SlotInv
    <3>2. /\ ports \in Nat /\ instances_on \in Nat /\ MAX_SERIAL_INSTANCES \in Nat
      BY <2>1, BoundsAssumption DEF TypeOK
    <3>3. j \in Slots /\ j < instances_on /\ j \in 0..(instances_on - 1)
      BY <3>1, <3>2 DEF Slots
    <3>4. ~retry => j \in gports
      BY <1>1, <3>1, <3>3 DEF SerialInv, FirstInv
    <3> QED
      BY <3>1, <3>3, <3>4
  <2>3. CountedObjectsLive
    <3> SUFFICES ASSUME pc = "idle", config, ~retry, NEW j \in Slots
                 PROVE  (inst[j] = "live" <=> j < instances_on) /\ (fn[j] = "live" <=> j < instances_on)
      BY DEF CountedObjectsLive
    <3>1. Live(instances_on)
      BY <1>1, <2>1 DEF SerialInv, FirstInv, TypeOK
    <3> QED
      BY <3>1 DEF Live
  <2> QED
    BY <2>1, <2>2, <2>3
<1>2. ASSUME LoopInv PROVE Loopback!TypeOK
  <2>1. PICK n \in 0..MaxRequests : Numbered(req, n)
    BY <1>2 DEF LoopInv, RequestInv
  <2>2. DOMAIN req \subseteq Loopback!Requests
    BY <2>1, GroupAssumption DEF Numbered, Loopback!Requests
  <2>3. \A r \in DOMAIN req : req[r] \in [ep : Loopback!Eps, at : {"queue", "lost"}, done : BOOLEAN]
    BY <2>1 DEF Numbered, Request, Eps, Loopback!Eps
  <2> QED
    BY <1>2, <2>2, <2>3 DEF LoopInv, LoopTypes, OptionTypes, Eps, Loopback!Eps, Loopback!TypeOK
<1>3. GroupInv => AddsLive
  BY <1>1, <1>2, DriverProperties DEF GroupInv, LifeInv, AddsLive
<1> QED
  BY <1>3, GroupInvariance, PTL

\* Whichever calls fail, every driver but ncm, ecm and loopback puts an object
\* once, a network device is cleaned up by the unbind_config of the bind_config that
\* set it up (unless the transport was rewritten or bind_config failed in between),
\* and the drivers that hold their objects from init to cleanup leave nothing
\* behind when no init failed; for any number of names.
THEOREM UsesArePaired == GroupSpec => []UsesPaired
<1>1. GroupInv => UsesPaired
  BY DriverProperties DEF GroupInv, UsesPaired
<1> QED
  BY <1>1, GroupInvariance, PTL

\* However probes fail and devices and controllers go, a function is cleaned up
\* only if it was initialised, a bound controller finds the functions initialised
\* and the class is there exactly as long as a device is; for any number of
\* functions.
THEOREM LifecycleIsExact == GroupSpec => []LifecycleExact
<1>1. ASSUME LifeInv PROVE LifecycleExact
  BY <1>1 DEF LifeInv, Sound, LifecycleExact, Lifecycle!CleanedOnce, Lifecycle!BoundHasFunctions,
     Lifecycle!ClassMatchesList
<1>2. GroupInv => LifecycleExact
  BY <1>1 DEF GroupInv
<1> QED
  BY <1>2, GroupInvariance, PTL

\* However often the host sets the interface, an endpoint of the loopback function
\* has one request at most, while it is enabled, and the options stay as they were
\* when its functions were made.
THEOREM LoopbackHasOneRequest == GroupSpec => []OneRequestEach
<1>1. ASSUME LoopInv PROVE OneRequestEach
  <2>1. ASSUME NEW e \in Loopback!Eps
        PROVE  /\ Loopback!Cardinality(Loopback!Queued(e)) <= 1
               /\ Loopback!Queued(e) # {} => e \in enabled /\ data[e] = "loop"
    <3>1. Q[e] = Loopback!Queued(e) /\ e \in Eps
      BY DEF Q, Eps, Loopback!Eps
    <3>2. (\A r, p \in Loopback!Queued(e) : r = p) /\ (Loopback!Queued(e) # {} => In(e))
      BY <1>1, <3>1 DEF LoopInv, QueueInv
    <3>3. CASE Loopback!Queued(e) = {}
      BY <3>3, FS_EmptySet DEF Loopback!Cardinality, Cardinality
    <3>4. ASSUME NEW r \in Loopback!Queued(e)
          PROVE  Loopback!Cardinality(Loopback!Queued(e)) <= 1
      <4>1. Loopback!Queued(e) = {r}
        BY <3>2
      <4>2. Cardinality({r}) = 1
        BY FS_Singleton
      <4> QED
        BY <4>1, <4>2 DEF Loopback!Cardinality, Cardinality
    <3> QED
      BY <3>2, <3>3, <3>4 DEF In
  <2> QED
    BY <1>1, <2>1 DEF LoopInv, OneRequestEach, Loopback!OneRequestEach
<1>2. GroupInv => OneRequestEach
  BY <1>1 DEF GroupInv
<1> QED
  BY <1>2, GroupInvariance, PTL
=============================================================================
