--------------------------- MODULE DarwinHandles ---------------------------
(***************************************************************************)
(* A device of libusb's Darwin backend: how its descriptor is read before  *)
(* it is listed (darwin_cache_device_descriptor()), and how handles open   *)
(* and close it (darwin_open(), darwin_close()).                           *)
(*                                                                         *)
(* Calls that open and close one device do not overlap: open_count has no  *)
(* lock.                                                                   *)
(***************************************************************************)
EXTENDS Naturals, FiniteSets

CONSTANTS Handles, MaxOpens   \* bound on calls of libusb_open()

VARIABLES
  probe,       \* darwin_cache_device_descriptor()
  seized,      \* the device is open for exclusive access by this process
  suspended,   \* the device is suspended
  before,      \* ... and was before the probe
  awake,       \* a device that was not suspended was woken (history)
  open_count,
  h,           \* is_open and cfSource of each handle
  sources,     \* event sources of the device on the run loop
  leaked,      \* handles that opened it and closed before others (history)
  opens

vars == <<probe, seized, suspended, before, awake, open_count, h, sources, leaked, opens>>

Closed == [is_open |-> FALSE, cfSource |-> FALSE, there |-> FALSE]
Start == [at |-> "start", open |-> FALSE, retries |-> 1, reconf |-> TRUE, unsuspend |-> TRUE, woken |-> FALSE, ok |-> FALSE]

TypeOK ==
  /\ probe.at \in {"start", "request", "end", "cached", "skipped"} /\ probe.retries \in 0..1
  /\ {seized, suspended, before, awake} \subseteq BOOLEAN
  /\ open_count \in 0..Cardinality(Handles) /\ opens \in 0..MaxOpens
  /\ h \in [Handles -> [is_open : BOOLEAN, cfSource : BOOLEAN, there : BOOLEAN]]
  /\ sources \in 0..MaxOpens /\ leaked \in 0..MaxOpens

Init ==
  /\ probe = Start /\ seized = FALSE /\ suspended \in BOOLEAN /\ before = suspended /\ awake = FALSE
  /\ open_count = 0 /\ h = [i \in Handles |-> Closed] /\ sources = 0 /\ leaked = 0 /\ opens = 0

handleVars == <<open_count, h, sources, leaked, opens>>

-----------------------------------------------------------------------------
(* darwin_cache_device_descriptor() *)

\* USBDeviceOpenSeize() may fail.
ProbeOpens ==
  /\ probe.at = "start"
  /\ \E ok \in BOOLEAN : seized' = ok /\ probe' = [probe EXCEPT !.at = "request", !.open = ok]
  /\ UNCHANGED <<suspended, before, awake, handleVars>>

\* The device answers, and its answer makes sense or it is Apple's.
RequestWorks ==
  /\ probe.at = "request" /\ ~suspended
  /\ probe' = [probe EXCEPT !.at = "end", !.ok = TRUE]
  /\ UNCHANGED <<seized, suspended, before, awake, handleVars>>

\* No request of an Apple device is repeated.
AppleFails ==
  /\ probe.at = "request" /\ probe' = [probe EXCEPT !.at = "end"]
  /\ UNCHANGED <<seized, suspended, before, awake, handleVars>>

\* try_unsuspend is set from the start: a device that is not suspended is "woken" too.
Wakes == probe.open /\ probe.unsuspend

\* It fails, or the answer makes no sense and the first configuration is set;
\* the device is woken and there is another try.
RequestFails ==
  /\ probe.at = "request"
  /\ \E reset, woken \in BOOLEAN :
       /\ reset => probe.open /\ probe.reconf
       /\ woken => Wakes
       /\ suspended' = (suspended /\ ~woken)
       /\ awake' = (awake \/ (woken /\ ~suspended))
       /\ probe' = [probe EXCEPT !.reconf = @ /\ ~reset, !.woken = @ \/ woken,
                                 !.unsuspend = @ /\ ~Wakes,
                                 !.at = IF probe.retries = 0 THEN "end" ELSE "request",
                                 !.retries = 0]
  /\ UNCHANGED <<seized, before, handleVars>>

\* USBDeviceClose() if it was opened here.
SeizedAfter == seized /\ ~probe.open

\* It is suspended again and closed, and cached if the last answer was good and
\* names the product that the registry names.
ProbeEnds ==
  /\ probe.at = "end"
  /\ suspended' = (suspended \/ probe.woken)
  /\ seized' = SeizedAfter
  /\ \E at \in {"cached", "skipped"} : (at = "cached" => probe.ok) /\ probe' = [probe EXCEPT !.at = at]
  /\ UNCHANGED <<before, awake, handleVars>>

-----------------------------------------------------------------------------
(* darwin_open(), darwin_close() *)

\* The first handle opens the device, if no other process has it, and puts its
\* event source on the run loop.
Open(i) ==
  /\ probe.at = "cached" /\ ~h[i].there /\ opens < MaxOpens /\ opens' = opens + 1
  /\ open_count' = open_count + 1
  /\ IF open_count = 0
     THEN \E ok \in BOOLEAN :
            /\ h' = [h EXCEPT ![i] = [is_open |-> ok, cfSource |-> TRUE, there |-> TRUE]]
            /\ seized' = (seized \/ ok) /\ sources' = sources + 1
     ELSE h' = [h EXCEPT ![i] = [Closed EXCEPT !.there = TRUE]] /\ UNCHANGED <<seized, sources>>
  /\ UNCHANGED <<probe, suspended, before, awake, leaked>>

\* It cannot be opened, or has no event source: what was opened is closed.
OpenFails(i) ==
  /\ probe.at = "cached" /\ ~h[i].there /\ opens < MaxOpens /\ opens' = opens + 1
  /\ open_count = 0
  /\ UNCHANGED <<probe, seized, suspended, before, awake, open_count, h, sources, leaked>>

\* Mutant: the device is closed with every handle.
LastCloseMutant == TRUE

LastClose == open_count = 1

\* The last handle takes down what it put up itself; the first one's, if it is
\* another, stays.
Close(i) ==
  /\ h[i].there /\ h' = [h EXCEPT ![i] = Closed]
  /\ open_count' = open_count - 1
  /\ IF LastClose
     THEN /\ seized' = (seized /\ ~h[i].is_open)
          /\ sources' = IF h[i].cfSource THEN sources - 1 ELSE sources
          /\ UNCHANGED leaked
     ELSE leaked' = (IF h[i].cfSource THEN leaked + 1 ELSE leaked) /\ UNCHANGED <<seized, sources>>
  /\ UNCHANGED <<probe, suspended, before, awake, opens>>

Next ==
  \/ ProbeOpens \/ RequestWorks \/ AppleFails \/ RequestFails \/ ProbeEnds
  \/ \E i \in Handles : Open(i) \/ OpenFails(i) \/ Close(i)

Spec == Init /\ [][Next]_vars

-----------------------------------------------------------------------------
\* When the probe is over it has left the device as it found it: closed, and
\* suspended or not as before, one that was woken without need apart.
ProbeRestores ==
  probe.at \in {"cached", "skipped"} /\ opens = 0 => ~seized /\ (suspended = before \/ awake)

\* While a handle is open the device has its event source on the run loop; with
\* the last one the device is closed and the source taken down, unless the
\* handle that opened it was closed before another.
OpenedForHandles ==
  /\ open_count = Cardinality({i \in Handles : h[i].there})
  /\ open_count > 0 => sources > 0
  /\ open_count = 0 => sources = leaked /\ (leaked = 0 /\ probe.at = "cached" => ~seized)
  /\ (\E i \in Handles : h[i].is_open) => seized
=============================================================================
