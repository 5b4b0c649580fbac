-------------------------- MODULE AndroidLifecycle --------------------------
(***************************************************************************)
(* Probing and removing the Android gadget's platform devices, binding its *)
(* composite driver to their controllers, and initialising and cleaning up *)
(* its functions (usb/gadget/android.c).  The driver core probes and       *)
(* removes one device at a time and probes again what was deferred.        *)
(***************************************************************************)
EXTENDS Integers

CONSTANTS
  NumFunctions,  \* functions in dev->functions
  MaxProbes      \* bound on calls of android_probe

VARIABLES
  dt,      \* the devices come from a device tree, without platform_data
  list,    \* the devices on android_dev_list, by usb_core_id
  count,   \* android_dev_count
  class,   \* android_class
  bound,   \* controllers the composite driver is bound to
  fns,     \* the functions: f->dev, initialised, cleaned up without an init
  probes,  \* calls of android_probe
  shared,  \* the functions were cleaned up under a device on the list (history)
  wild     \* android_remove() used what is not a device (history)

vars == <<dt, list, count, class, bound, fns, probes, shared, wild>>

Cores == {0, 1}
Functions == 1..NumFunctions
New == [dev |-> "null", init |-> FALSE, over |-> FALSE]

TypeOK ==
  /\ dt \in BOOLEAN /\ list \subseteq Cores /\ count \in 0..2
  /\ class \in {"null", "live", "err"} /\ bound \subseteq Cores
  /\ fns \in [Functions -> [dev : {"null", "live", "stale"},
                            init : BOOLEAN, over : BOOLEAN]]
  /\ probes \in 0..MaxProbes
  /\ {shared, wild} \subseteq BOOLEAN

Init ==
  /\ dt \in BOOLEAN /\ list = {} /\ count = 0 /\ class = "null" /\ bound = {}
  /\ fns = [f \in Functions |-> New] /\ probes = 0
  /\ shared = FALSE /\ wild = FALSE

-----------------------------------------------------------------------------
(* Functions *)

\* android_cleanup_functions(): every function that has a device, which stays
\* in f->dev.
CleanupFunctions(fs) ==
  [f \in Functions |->
     IF fs[f].dev = "null" THEN fs[f]
     ELSE [dev |-> "stale", init |-> FALSE,
           over |-> fs[f].over \/ (fs[f].dev = "live" /\ ~fs[f].init)]]

Initialised(f) == [f EXCEPT !.dev = "live", !.init = TRUE]

\* Mutant: f->dev stays set when the function fails.
InitFailsMutant(fs, k) ==
  CleanupFunctions([f \in Functions |->
    IF f < k THEN Initialised(fs[f])
    ELSE IF f = k THEN [fs[f] EXCEPT !.dev = "live", !.init = FALSE] ELSE fs[f]])

\* android_init_functions() fails at function k: its name, its device, its
\* init or an attribute, after which it is cleaned up alone; then the others.
InitFails(fs, k) ==
  CleanupFunctions([f \in Functions |->
    IF f < k THEN Initialised(fs[f])
    ELSE IF f = k THEN [fs[f] EXCEPT !.dev = "null", !.init = FALSE] ELSE fs[f]])

InitFunctions(fs) == [f \in Functions |-> Initialised(fs[f])]

-----------------------------------------------------------------------------
(* android_probe() *)

Probing(d) ==
  /\ d \notin list /\ ~wild
  /\ probes < MaxProbes /\ probes' = probes + 1
  /\ UNCHANGED <<dt, wild>>

\* No platform data, no memory for the list of functions or a name that is
\* unknown; or no class: its error stays in android_class.
ProbeEarlyFails(d) ==
  /\ Probing(d)
  /\ \/ UNCHANGED class
     \/ class = "null" /\ class' = "err"
  /\ UNCHANGED <<list, count, bound, fns, shared>>

\* With an error for a class nothing can be created in it.
ClassForProbe == IF class = "null" THEN "live" ELSE class

\* err_alloc: the class goes with the last device; an error pointer is used as
\* a class by class_destroy(), which lets it pass.
ClassAfter(l, c) == IF l = {} THEN "null" ELSE c

\* No memory for the device, no mapping, no device node, or no controller: put
\* on the list and taken off again.
ProbeFails(d) ==
  /\ Probing(d)
  /\ class' = ClassAfter(list, ClassForProbe)
  /\ UNCHANGED <<list, count, bound, fns, shared>>

\* The controller is there and android_bind() fails: for want of string
\* descriptors, or in android_init_functions(), on the first device only.
ProbeBindFails(d) ==
  /\ Probing(d) /\ ClassForProbe = "live"
  /\ \/ UNCHANGED fns
     \/ /\ count + 1 = 1
        /\ \E k \in Functions : fns' = InitFails(fns, k)
  /\ class' = ClassAfter(list, ClassForProbe)
  /\ UNCHANGED <<list, count, bound, shared>>

\* Everything works, android_bind() included.
Probe(d) ==
  /\ Probing(d) /\ ClassForProbe = "live"
  /\ class' = "live"
  /\ list' = list \cup {d} /\ count' = count + 1 /\ bound' = bound \cup {d}
  /\ fns' = IF count' = 1 THEN InitFunctions(fns) ELSE fns
  /\ UNCHANGED shared

\* android_usb_unbind(), also called when the controller cannot be started
\* after android_bind(): the functions are cleaned up whoever uses them.
ProbeStartFails(d) ==
  /\ Probing(d) /\ ClassForProbe = "live"
  /\ class' = ClassAfter(list, ClassForProbe)
  /\ fns' = CleanupFunctions(IF count + 1 = 1 THEN InitFunctions(fns) ELSE fns)
  /\ shared' = (shared \/ list # {})
  /\ UNCHANGED <<list, count, bound>>

-----------------------------------------------------------------------------
(* android_remove() *)

\* The device it looks for: with a device tree that of core 0, whichever
\* device is removed.
Target(d) == IF dt THEN 0 ELSE d

\* The device is taken off the list and freed; with the last one the class is
\* destroyed and the driver unregistered, which unbinds it from the
\* controllers.  When no device is found the list head is taken for one.
RemoveDevice(d) ==
  /\ d \in list /\ ~wild
  /\ IF Target(d) \notin list
       THEN wild' = TRUE /\ UNCHANGED <<list, count, class, bound, fns, shared>>
       ELSE /\ list' = list \ {Target(d)} /\ count' = count - 1
            /\ IF list' # {} THEN UNCHANGED <<class, bound, fns, shared>>
               ELSE /\ class' = "null" /\ bound' = {} /\ shared' = FALSE
                    /\ fns' = CleanupFunctions(fns)
            /\ UNCHANGED wild
  /\ UNCHANGED <<dt, probes>>

\* A controller goes: its composite device is unbound alone.
ControllerGoes(d) ==
  /\ d \in bound /\ d \in list
  /\ bound' = bound \ {d}
  /\ fns' = CleanupFunctions(fns) /\ shared' = TRUE
  /\ UNCHANGED <<dt, list, count, class, probes, wild>>

Next ==
  \E d \in Cores :
    \/ ProbeEarlyFails(d) \/ ProbeFails(d) \/ ProbeBindFails(d)
    \/ ProbeStartFails(d) \/ Probe(d) \/ RemoveDevice(d) \/ ControllerGoes(d)

Spec == Init /\ [][Next]_vars

-----------------------------------------------------------------------------
\* A function is cleaned up only if it was initialised, whichever function or
\* attribute fails in android_init_functions(); the ones that keep the device
\* of an earlier life in f->dev are cleaned up again (android.c:3401).
CleanedOnce == \A f \in Functions : ~fns[f].over

\* A controller the driver is bound to finds the functions initialised: the
\* device that is the first on the list initialises them for all, and the
\* counter says which one that is after any failed probe - unless a controller
\* that went or did not start has cleaned them up for all.
BoundHasFunctions ==
  bound # {} /\ ~shared => \A f \in Functions : fns[f].init

\* The class exists exactly as long as there is a device, failed probes and
\* removals included.
ClassMatchesList == (class = "live") = (list # {})
=============================================================================
