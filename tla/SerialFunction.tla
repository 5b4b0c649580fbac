--------------------------- MODULE SerialFunction ---------------------------
(***************************************************************************)
(* The "serial" function of the Android gadget (usb/gadget/android.c): the *)
(* life of its ports and function objects over any sequence of bind_config *)
(* calls, the partial failures of bind_config included, and of gadget      *)
(* unbind/bind (cleanup and init).  Calls into u_serial and the function   *)
(* core (gserial_*, gport_setup, usb_get_function...) may fail; whatever   *)
(* bind_config did before the failure and does not undo stays.             *)
(***************************************************************************)
EXTENDS Naturals

CONSTANTS
    MAX_SERIAL_INSTANCES,
    MaxNames,       \* bound: most names userspace writes to `transports'
    MaxInstances    \* bound: a bind_config that finds more ports counted is not
                    \* explored (only failed initialisations make them grow)

ASSUME BoundsAssumption ==
    /\ MAX_SERIAL_INSTANCES \in Nat \ {0, 1}
    /\ MaxNames \in Nat \ {0}
    /\ MaxInstances \in Nat

VARIABLES
    transports,         \* number of names in serial_transports
    serial_initialized, \* the static of serial_function_bind_config
    instances_on,       \* config->instances_on
    inst, fn,           \* config->f_serial_inst, config->f_serial
    gports,             \* ports u_serial has been told about
    bound,              \* functions that are in the configuration
    config,             \* f->config # NULL
    pc, names, ports, i,    \* bind_config: place, names copied, locals
    retry,              \* history: an initialisation ended before its end, or
                        \* cleanup ran after one
    corrupt             \* f_serial[] or f_serial_inst[] was accessed past its end

objs == <<inst, fn>>
locals == <<names, ports, i>>
vars == <<transports, serial_initialized, instances_on, objs, gports, bound, config,
          pc, locals, retry, corrupt>>

Slots == 0 .. (MAX_SERIAL_INSTANCES - 1)

-----------------------------------------------------------------------------
\* serial_transports_store, at any time.
serial_transports_store ==
    /\ transports' \in 1 .. MaxNames
    /\ UNCHANGED <<serial_initialized, instances_on, objs, gports, bound, config, pc, locals,
                   retry, corrupt>>

\* serial_function_bind_config: the strings are copied.
serial_function_bind_config ==
    /\ pc = "idle" /\ config /\ bound = {} /\ ~ corrupt
    /\ instances_on <= MaxInstances
    /\ pc' = "names"
    /\ names' = transports
    /\ ports' = 0
    /\ UNCHANGED <<transports, serial_initialized, instances_on, objs, gports, bound, config, i,
                   retry, corrupt>>

\* `goto out' (or past it): an initialisation that did not finish is recorded.
Leave == pc' = "idle" /\ retry' = (retry \/ ~ serial_initialized)

\* One name: its port is opened unless that was done at boot.
NextName ==
    /\ pc = "names" /\ ports < names
    /\ IF serial_initialized
       THEN UNCHANGED <<gports, instances_on>>
       ELSE gports' = gports \cup {ports} /\ instances_on' = instances_on + 1
    /\ ports' = ports + 1
    /\ IF ports + 1 >= MAX_SERIAL_INSTANCES
       THEN Leave
       ELSE UNCHANGED <<pc, retry>>
    /\ UNCHANGED <<transports, serial_initialized, objs, bound, config, names, i, corrupt>>

NextNameFails ==
    /\ pc = "names" /\ ports < names
    /\ ~ serial_initialized
    /\ Leave
    /\ UNCHANGED <<transports, serial_initialized, instances_on, objs, gports, bound, config,
                   locals, corrupt>>

\* Mutants of SecondPort: ports is not limited, or to one too few.
SecondPortWith(limit(_, _)) ==
    /\ pc = "names" /\ ports = names
    /\ LET second == instances_on = 1 /\ ~ serial_initialized
           on == IF second THEN 2 ELSE instances_on
       IN  /\ gports' = IF second THEN gports \cup {ports} ELSE gports
           /\ instances_on' = on
           /\ ports' = limit(ports, on)
    /\ pc' = IF serial_initialized THEN "add" ELSE "setup"
    /\ i' = 0
    /\ UNCHANGED <<transports, serial_initialized, objs, bound, config, names, retry, corrupt>>

SecondPortNoLimit == SecondPortWith(LAMBDA p, on : p)
SecondPortOffByOne == SecondPortWith(LAMBDA p, on : IF p > on - 1 THEN on - 1 ELSE p)

\* The second port, if there is only one so far; fewer ports than asked for are
\* bound if fewer were opened at boot.
SecondPort ==
    /\ pc = "names" /\ ports = names
    /\ LET second == instances_on = 1 /\ ~ serial_initialized
           on == IF second THEN 2 ELSE instances_on
       IN  /\ gports' = IF second THEN gports \cup {ports} ELSE gports
           /\ instances_on' = on
           /\ ports' = IF ports > on THEN on ELSE ports
    /\ pc' = IF serial_initialized THEN "add" ELSE "setup"
    /\ i' = 0
    /\ UNCHANGED <<transports, serial_initialized, objs, bound, config, names, retry, corrupt>>

SecondPortFails ==
    /\ pc = "names" /\ ports = names
    /\ instances_on = 1 /\ ~ serial_initialized
    /\ Leave
    /\ UNCHANGED <<transports, serial_initialized, instances_on, objs, gports, bound, config,
                   locals, corrupt>>

PortSetup ==
    /\ pc = "setup"
    /\ pc' = "get"
    /\ UNCHANGED <<transports, serial_initialized, instances_on, objs, gports, bound, config,
                   locals, retry, corrupt>>

\* gport_setup fails: gserial_deinit_port, but instances_on stays.
PortSetupFails ==
    /\ pc = "setup"
    /\ gports' = {}
    /\ Leave
    /\ UNCHANGED <<transports, serial_initialized, instances_on, objs, bound, config, locals, corrupt>>

\* usb_get_function_instance and usb_get_function for slot i.
GetFunction ==
    /\ pc = "get" /\ i < instances_on
    /\ IF i \in Slots
       THEN /\ inst' = [inst EXCEPT ![i] = "live"]
            /\ fn' = [fn EXCEPT ![i] = "live"]
            /\ UNCHANGED corrupt
       ELSE corrupt' = TRUE /\ UNCHANGED objs
    /\ i' = i + 1
    /\ UNCHANGED <<transports, serial_initialized, instances_on, gports, bound, config, pc,
                   names, ports, retry>>

\* One of the two fails: what the earlier slots got is put.
GetFunctionFails ==
    /\ pc = "get" /\ i < instances_on /\ i \in Slots
    /\ \E first \in BOOLEAN :
          /\ inst' = [j \in Slots |-> IF j < i THEN "put"
                                      ELSE IF j > i THEN inst[j]
                                      ELSE IF first THEN "err" ELSE "put"]
          /\ fn' = [j \in Slots |-> IF j < i THEN "put"
                                    ELSE IF j = i /\ ~ first THEN "err" ELSE fn[j]]
    /\ Leave
    /\ UNCHANGED <<transports, serial_initialized, instances_on, gports, bound, config, locals, corrupt>>

Initialized ==
    /\ pc = "get" /\ i >= instances_on
    /\ serial_initialized' = TRUE
    /\ pc' = "add"
    /\ i' = 0
    /\ UNCHANGED <<transports, instances_on, objs, gports, bound, config, names, ports, retry, corrupt>>

\* usb_add_function
AddFunction ==
    /\ pc = "add" /\ i < ports
    /\ bound' = bound \cup {i}
    /\ i' = i + 1
    /\ UNCHANGED <<transports, serial_initialized, instances_on, objs, gports, config, pc, names,
                   ports, retry, corrupt>>

\* usb_add_function fails: the functions added so far are removed.
AddFunctionFails ==
    /\ pc = "add" /\ i < ports
    /\ bound' = {}
    /\ pc' = "idle"
    /\ UNCHANGED <<transports, serial_initialized, instances_on, objs, gports, config, locals,
                   retry, corrupt>>

BindReturns ==
    /\ pc = "add" /\ i >= ports
    /\ pc' = "idle"
    /\ UNCHANGED <<transports, serial_initialized, instances_on, objs, gports, bound, config,
                   locals, retry, corrupt>>

\* usb_remove_config unbinds the functions; serial has no unbind_config.
UnbindConfig ==
    /\ pc = "idle" /\ bound # {}
    /\ bound' = {}
    /\ UNCHANGED <<transports, serial_initialized, instances_on, objs, gports, config, pc, locals,
                   retry, corrupt>>

\* serial_function_cleanup, when the gadget is unbound from its controller.
serial_function_cleanup ==
    /\ pc = "idle" /\ config /\ bound = {} /\ ~ corrupt
    /\ gports' = {}
    /\ inst' = [j \in Slots |-> IF j < instances_on THEN "put" ELSE inst[j]]
    /\ fn' = [j \in Slots |-> IF j < instances_on THEN "put" ELSE fn[j]]
    /\ config' = FALSE
    /\ corrupt' = (instances_on > MAX_SERIAL_INSTANCES)
    /\ UNCHANGED <<transports, serial_initialized, instances_on, bound, pc, locals, retry>>

\* serial_function_init: a zeroed config; the static survives.
serial_function_init ==
    /\ ~ config /\ ~ corrupt
    /\ config' = TRUE
    /\ instances_on' = 0
    /\ inst' = [j \in Slots |-> "none"]
    /\ fn' = [j \in Slots |-> "none"]
    /\ retry' = (retry \/ serial_initialized)
    /\ UNCHANGED <<transports, serial_initialized, gports, bound, pc, locals, corrupt>>

-----------------------------------------------------------------------------
Init ==
    /\ transports = 1 /\ serial_initialized = FALSE /\ instances_on = 0
    /\ inst = [j \in Slots |-> "none"] /\ fn = [j \in Slots |-> "none"]
    /\ gports = {} /\ bound = {} /\ config = TRUE
    /\ pc = "idle" /\ names = 0 /\ ports = 0 /\ i = 0
    /\ retry = FALSE /\ corrupt = FALSE

BindStep ==
    \/ NextName \/ NextNameFails \/ SecondPort \/ SecondPortFails \/ PortSetup \/ PortSetupFails
    \/ GetFunction \/ GetFunctionFails \/ Initialized \/ AddFunction \/ AddFunctionFails \/ BindReturns

Next ==
    \/ serial_transports_store \/ serial_function_bind_config \/ BindStep
    \/ UnbindConfig \/ serial_function_cleanup \/ serial_function_init

Spec == Init /\ [][Next]_vars

-----------------------------------------------------------------------------
(***************************************************************************)
(* Properties.  `retry' says that bind_config initialises a second time,   *)
(* or that it believes it did although cleanup undid it.                   *)
(***************************************************************************)
Objects == {"none", "live", "put", "err"}

\* The type of every variable.
TypeOK ==
    /\ transports \in 1 .. MaxNames /\ serial_initialized \in BOOLEAN /\ instances_on \in Nat
    /\ inst \in [Slots -> Objects] /\ fn \in [Slots -> Objects]
    /\ gports \subseteq Nat /\ bound \subseteq Nat /\ config \in BOOLEAN
    /\ pc \in {"idle", "names", "setup", "get", "add"}
    /\ names \in Nat /\ ports \in Nat /\ i \in Nat
    /\ retry \in BOOLEAN /\ corrupt \in BOOLEAN

\* What bind_config hands to usb_add_function is a live object, also when
\* `transports' was rewritten since boot and after failures and retries; without
\* those its port is open too.
AddsOnlyLive ==
    pc = "add" /\ ~ corrupt =>
        \A j \in 0 .. (ports - 1) : fn[j] = "live" /\ (~ retry => j \in gports)

\* While the gadget is bound, the objects counted by instances_on, the ones
\* that cleanup puts, are live, and no other is.
CountedObjectsLive ==
    pc = "idle" /\ config /\ ~ retry =>
        \A j \in Slots : (inst[j] = "live" <=> j < instances_on) /\ (fn[j] = "live" <=> j < instances_on)

=============================================================================
