---------------------------- MODULE DarwinProofs ----------------------------
(***************************************************************************)
(* Proofs about libusb's Darwin backend: the probe of a device and its     *)
(* handles, an interface and its transfers, and the cache of devices.      *)
(***************************************************************************)
EXTENDS DarwinBackend, FiniteSetTheorems, TLAPS

-----------------------------------------------------------------------------
(* Darwin: the probe of a device and its handles *)

Handle == [is_open : BOOLEAN, cfSource : BOOLEAN, there : BOOLEAN]
Probe ==
  [at : {"start", "request", "end", "cached", "skipped"}, open : BOOLEAN, retries : 0..1,
   reconf : BOOLEAN, unsuspend : BOOLEAN, woken : BOOLEAN, ok : BOOLEAN]

ProbeTypes ==
  /\ probe \in Probe /\ seized \in BOOLEAN /\ suspended \in BOOLEAN
  /\ before \in BOOLEAN /\ awake \in BOOLEAN
HandleTypes ==
  /\ h \in [Handles -> Handle] /\ open_count \in Nat /\ sources \in Nat /\ stuck \in Nat
  /\ opens \in 0..MaxOpens

There == {i \in Handles : h[i].there}
Sourced == {i \in Handles : h[i].cfSource}

\* The probe alone has the device until it is cached, and what it woke it knows,
\* unless that was not suspended.
ProbeInv ==
  /\ probe.at # "cached" => opens = 0
  /\ probe.at \in {"start", "skipped"} => ~seized
  /\ probe.at \in {"request", "end"} => seized = probe.open
  /\ probe.at = "start" => suspended = before /\ ~probe.woken
  /\ ~awake /\ probe.at \in {"start", "request", "end"} =>
       (suspended => before) /\ (before => suspended \/ probe.woken) /\ (probe.woken => before)
  /\ probe.at \in {"cached", "skipped"} => suspended = before \/ awake

\* One handle at most has the event source; every source beyond its own was left
\* by a handle that was closed too early, and so is a device that is open without it.
SourceInv ==
  /\ open_count = Cardinality(There)
  /\ \A i \in Handles : h[i].is_open => h[i].cfSource /\ seized
  /\ \A i \in Sourced : i \in There /\ sources = stuck + 1
  /\ \A i, j \in Sourced : i = j
  /\ Sourced = {} => sources = stuck
  /\ There # {} => Sourced # {} \/ stuck > 0
  /\ sources <= opens
  /\ probe.at = "cached" /\ stuck = 0 /\ seized => \E i \in Handles : h[i].is_open

DHandlesInv == ProbeTypes /\ HandleTypes /\ ProbeInv /\ SourceInv

\* The handles that are there are finitely many.
LEMMA ThereFinite ==
    /\ IsFiniteSet(There) /\ Cardinality(There) \in 0..Cardinality(Handles)
    /\ (Cardinality(There) = 0) = (There = {})
    /\ DHandles!Cardinality(There) = Cardinality(There)
    /\ DHandles!Cardinality(Handles) = Cardinality(Handles)
<1>1. There \subseteq Handles /\ IsFiniteSet(Handles)
  BY DarwinAssumption DEF There
<1>2. IsFiniteSet(There) /\ Cardinality(There) <= Cardinality(Handles)
  BY <1>1, FS_Subset
<1>3. Cardinality(There) \in Nat /\ Cardinality(Handles) \in Nat
  BY <1>1, <1>2, FS_CardinalityType
<1>4. (Cardinality(There) = 0) = (There = {})
  BY <1>2, FS_EmptySet
<1> QED
  BY <1>2, <1>3, <1>4 DEF DHandles!Cardinality, Cardinality

LEMMA DHandlesAtBoot == DHandles!Init => DHandlesInv
<1> SUFFICES ASSUME DHandles!Init
             PROVE  DHandlesInv
  OBVIOUS
<1>1. /\ h = [i \in Handles |-> DHandles!Closed] /\ probe = DHandles!Start /\ opens = 0 /\ sources = 0
      /\ stuck = 0 /\ open_count = 0 /\ seized = FALSE /\ awake = FALSE /\ before = suspended
      /\ suspended \in BOOLEAN
  BY DEF DHandles!Init
<1>2. There = {} /\ Sourced = {}
  BY <1>1 DEF There, Sourced, DHandles!Closed
<1>3. Cardinality(There) = 0
  BY <1>2, FS_EmptySet
<1>4. ProbeTypes /\ HandleTypes
  <2>1. DHandles!Start \in Probe
    BY DEF DHandles!Start, Probe
  <2>2. DHandles!Closed \in Handle
    BY DEF DHandles!Closed, Handle
  <2>3. MaxOpens \in Nat
    BY DarwinAssumption
  <2>4. h \in [Handles -> Handle] /\ opens \in 0..MaxOpens
    BY <1>1, <2>2, <2>3
  <2> QED
    BY <1>1, <2>1, <2>4 DEF ProbeTypes, HandleTypes
<1>5. ProbeInv
  BY <1>1 DEF ProbeInv, DHandles!Start
<1>6. SourceInv
  BY <1>1, <1>2, <1>3 DEF SourceInv, DHandles!Closed
<1> QED
  BY <1>4, <1>5, <1>6 DEF DHandlesInv

LEMMA ProbeChanged ==
    ASSUME NEW p \in Probe, NEW a \in {"end", "request"},
           NEW b \in BOOLEAN, NEW c \in BOOLEAN, NEW d \in BOOLEAN
    PROVE  [p EXCEPT !.reconf = b, !.woken = c, !.unsuspend = d, !.at = a, !.retries = 0] \in Probe
<1>1. [p EXCEPT !.reconf = b] \in Probe
  BY DEF Probe
<1>2. [p EXCEPT !.reconf = b, !.woken = c] \in Probe
  BY <1>1 DEF Probe
<1>3. [p EXCEPT !.reconf = b, !.woken = c, !.unsuspend = d] \in Probe
  BY <1>2 DEF Probe
<1>4. \A q \in Probe : [q EXCEPT !.at = a] \in Probe
  BY DEF Probe
<1>5. \A q \in Probe : [q EXCEPT !.retries = 0] \in Probe
  BY DEF Probe
<1> QED
  BY <1>3, <1>4, <1>5

\* The steps of the probe leave the handles alone.
LEMMA ProbeSteps ==
    ASSUME DHandlesInv,
           \/ DHandles!ProbeOpens \/ DHandles!RequestWorks \/ DHandles!AppleFails
           \/ DHandles!RequestFails \/ DHandles!ProbeEnds
    PROVE  DHandlesInv'
<1>0. /\ ProbeTypes /\ HandleTypes /\ ProbeInv /\ SourceInv
      /\ UNCHANGED <<h, open_count, sources, stuck, opens, before>>
      /\ probe.at \in {"start", "request", "end"}
  BY DEF DHandlesInv, DHandles!ProbeOpens, DHandles!RequestWorks, DHandles!AppleFails,
     DHandles!RequestFails, DHandles!ProbeEnds, DHandles!handleVars
<1>1. ProbeTypes'
  <2> USE <1>0 DEF ProbeTypes, Probe
  <2>1. CASE DHandles!ProbeOpens
    BY <2>1 DEF DHandles!ProbeOpens
  <2>2. CASE DHandles!RequestWorks \/ DHandles!AppleFails
    BY <2>2 DEF DHandles!RequestWorks, DHandles!AppleFails
  <2>3. CASE DHandles!RequestFails
    <3>1. PICK r, w \in BOOLEAN :
            /\ suspended' = (suspended /\ ~w) /\ awake' = (awake \/ (w /\ ~suspended))
            /\ probe' = [probe EXCEPT !.reconf = @ /\ ~r, !.woken = @ \/ w,
                                 !.unsuspend = @ /\ ~DHandles!Wakes,
                                 !.at = IF probe.retries = 0 THEN "end" ELSE "request",
                                 !.retries = 0]
            /\ seized' = seized
      BY <2>3 DEF DHandles!RequestFails
    <3>2. probe' \in Probe
      <4>2. /\ (probe.reconf /\ ~r) \in BOOLEAN /\ (probe.woken \/ w) \in BOOLEAN
            /\ (probe.unsuspend /\ ~DHandles!Wakes) \in BOOLEAN
            /\ (IF probe.retries = 0 THEN "end" ELSE "request") \in {"end", "request"}
            /\ probe \in Probe
        OBVIOUS
      <4>3. [probe EXCEPT !.reconf = probe.reconf /\ ~r, !.woken = probe.woken \/ w,
                         !.unsuspend = probe.unsuspend /\ ~DHandles!Wakes,
                         !.at = IF probe.retries = 0 THEN "end" ELSE "request", !.retries = 0] \in Probe
        <5> HIDE DEF Probe
        <5> QED
          BY <4>2, ProbeChanged, Zenon
      <4> QED
        BY <3>1, <4>3, Zenon
    <3>3. suspended' \in BOOLEAN /\ awake' \in BOOLEAN
      BY <3>1
    <3> QED
      BY <3>1, <3>2, <3>3
  <2>4. CASE DHandles!ProbeEnds
    BY <2>4 DEF DHandles!ProbeEnds, DHandles!SeizedAfter
  <2> QED
    BY <2>1, <2>2, <2>3, <2>4
<1>2. HandleTypes'
  BY <1>0 DEF HandleTypes
<1>3. ProbeInv'
  <2> USE <1>0 DEF ProbeInv, ProbeTypes, Probe
  <2>1. CASE DHandles!ProbeOpens
    <3>1. /\ probe.at = "start" /\ probe'.at = "request" /\ probe'.open = seized'
          /\ probe'.woken = probe.woken /\ UNCHANGED <<suspended, before, awake>>
      BY <2>1 DEF DHandles!ProbeOpens
    <3> QED
      BY <3>1
  <2>2. CASE DHandles!RequestWorks
    BY <2>2 DEF DHandles!RequestWorks
  <2>3. CASE DHandles!AppleFails
    BY <2>3 DEF DHandles!AppleFails
  <2>4. CASE DHandles!RequestFails
    <3>1. PICK woken \in BOOLEAN, u, r \in BOOLEAN :
            /\ suspended' = (suspended /\ ~woken) /\ awake' = (awake \/ (woken /\ ~suspended))
            /\ probe' = [probe EXCEPT !.reconf = r, !.woken = @ \/ woken, !.unsuspend = u,
                                 !.at = IF probe.retries = 0 THEN "end" ELSE "request",
                                 !.retries = 0]
            /\ seized' = seized /\ probe.at = "request"
      BY <2>4 DEF DHandles!RequestFails
    <3>2. /\ probe'.at \in {"end", "request"} /\ probe'.open = probe.open
          /\ probe'.woken = (probe.woken \/ woken)
      BY <3>1
    <3> QED
      BY <3>1, <3>2
  <2>5. CASE DHandles!ProbeEnds
    BY <2>5 DEF DHandles!ProbeEnds, DHandles!SeizedAfter
  <2> QED
    BY <2>1, <2>2, <2>3, <2>4, <2>5
<1>4. opens = 0 /\ sources = 0 /\ stuck = 0 /\ Sourced = {} /\ There = {}
  BY <1>0 DEF ProbeInv, SourceInv, HandleTypes
<1>5. There' = There /\ Sourced' = Sourced
  BY <1>0 DEF There, Sourced
<1>6. \A i \in Handles : ~h[i].is_open
  BY <1>0, <1>4 DEF SourceInv, Sourced
<1>7. probe'.at = "cached" => ~seized'
  <2>1. CASE DHandles!ProbeEnds
    BY <2>1, <1>0 DEF DHandles!ProbeEnds, DHandles!SeizedAfter, ProbeInv, ProbeTypes, Probe
  <2>2. CASE ~DHandles!ProbeEnds
    BY <2>2, <1>0 DEF ProbeTypes, Probe, DHandles!ProbeOpens, DHandles!RequestWorks, DHandles!AppleFails,
       DHandles!RequestFails
  <2> QED
    BY <2>1, <2>2
<1>8. SourceInv'
  BY <1>0, <1>4, <1>5, <1>6, <1>7 DEF SourceInv
<1> QED
  BY <1>1, <1>2, <1>3, <1>8 DEF DHandlesInv

LEMMA OpenStep ==
    ASSUME DHandlesInv, NEW i \in Handles, DHandles!Open(i)
    PROVE  DHandlesInv'
<1>0. /\ ProbeTypes /\ HandleTypes /\ ProbeInv /\ SourceInv
      /\ probe.at = "cached" /\ ~h[i].there /\ opens < MaxOpens /\ opens' = opens + 1
      /\ open_count' = open_count + 1 /\ UNCHANGED <<probe, suspended, before, awake, stuck>>
  BY DEF DHandlesInv, DHandles!Open
<1>1. /\ opens \in Nat /\ MaxOpens \in Nat /\ sources \in Nat /\ stuck \in Nat
  BY <1>0, DarwinAssumption DEF HandleTypes
<1>2. PICK o \in Handle :
        /\ h' = [h EXCEPT ![i] = o] /\ o.there
        /\ o.is_open => o.cfSource /\ seized'
        /\ o.cfSource <=> open_count = 0
        /\ seized' = (seized \/ o.is_open) /\ sources' = IF open_count = 0 THEN sources + 1 ELSE sources
  <2>1. CASE open_count = 0
    <3>1. PICK ok \in BOOLEAN : /\ h' = [h EXCEPT ![i] = [is_open |-> ok, cfSource |-> TRUE, there |-> TRUE]]
                                /\ seized' = (seized \/ ok) /\ sources' = sources + 1
      BY <2>1 DEF DHandles!Open
    <3>2. [is_open |-> ok, cfSource |-> TRUE, there |-> TRUE] \in Handle
      BY DEF Handle
    <3> QED
      BY <2>1, <3>1, <3>2
  <2>2. CASE open_count # 0
    <3>1. h' = [h EXCEPT ![i] = [DHandles!Closed EXCEPT !.there = TRUE]] /\ UNCHANGED <<seized, sources>>
      BY <2>2 DEF DHandles!Open
    <3>2. /\ ~[DHandles!Closed EXCEPT !.there = TRUE].is_open /\ ~[DHandles!Closed EXCEPT !.there = TRUE].cfSource
          /\ [DHandles!Closed EXCEPT !.there = TRUE].there
      BY DEF DHandles!Closed
    <3>3. [DHandles!Closed EXCEPT !.there = TRUE] \in Handle
      BY DEF Handle, DHandles!Closed
    <3> QED
      BY <1>0, <2>2, <3>1, <3>2, <3>3 DEF ProbeTypes
  <2> QED
    BY <2>1, <2>2
<1>3. /\ h \in [Handles -> Handle] /\ h'[i] = o /\ \A j \in Handles \ {i} : h'[j] = h[j]
  BY <1>0, <1>2 DEF HandleTypes
<1>4. HandleTypes'
  BY <1>0, <1>1, <1>2 DEF HandleTypes
<1>5. ProbeTypes' /\ ProbeInv'
  BY <1>0, <1>2 DEF ProbeTypes, ProbeInv, Handle
<1>6. There' = There \cup {i} /\ i \notin There
  BY <1>0, <1>2, <1>3 DEF There
<1>7. Cardinality(There') = open_count + 1
  <2>1. Cardinality(There \cup {i}) = Cardinality(There) + 1
    BY <1>6, ThereFinite, FS_AddElement
  <2> QED
    BY <1>0, <1>6, <2>1 DEF SourceInv
<1>8. open_count = 0 <=> There = {}
  BY <1>0, ThereFinite DEF SourceInv
<1>9. Sourced' = IF open_count = 0 THEN {i} ELSE Sourced
  <2>1. open_count = 0 => Sourced = {}
    BY <1>0, <1>8 DEF SourceInv
  <2>2. i \notin Sourced
    BY <1>0, <1>6 DEF SourceInv
  <2>3. \A j \in Handles : j \in Sourced' <=> IF j = i THEN open_count = 0 ELSE j \in Sourced
    BY <1>2, <1>3 DEF Sourced
  <2>4. Sourced \subseteq Handles /\ Sourced' \subseteq Handles
    BY DEF Sourced
  <2> QED
    BY <2>1, <2>2, <2>3, <2>4
<1>10. SourceInv'
  <2>1. (\A j \in Handles : h[j].is_open => h[j].cfSource /\ seized)'
    BY <1>0, <1>2, <1>3 DEF SourceInv
  <2>2. CASE open_count = 0
    <3>1. Sourced = {} /\ sources = stuck
      BY <1>0, <1>8, <2>2 DEF SourceInv
    <3>2. sources' <= opens'
      BY <1>0, <1>1, <1>2, <2>2 DEF SourceInv
    <3>3. (probe.at = "cached" /\ stuck = 0 /\ seized => \E j \in Handles : h[j].is_open)'
      <4>1. \A j \in Handles : h[j].is_open => h'[j].is_open
        BY <1>0, <1>3, <3>1 DEF SourceInv, Sourced
      <4> QED
        BY <1>0, <1>2, <1>3, <4>1 DEF SourceInv
    <3> QED
      BY <1>0, <1>1, <1>2, <1>6, <1>7, <1>9, <2>1, <2>2, <3>1, <3>2, <3>3 DEF SourceInv
  <2>3. CASE open_count # 0
    <3>1. sources' = sources /\ sources' <= opens'
      BY <1>0, <1>1, <1>2, <2>3 DEF SourceInv
    <3>2. (probe.at = "cached" /\ stuck = 0 /\ seized => \E j \in Handles : h[j].is_open)'
      <4>1. \A j \in Handles : h[j].is_open => h'[j].is_open
        BY <1>0, <1>3, <1>6 DEF SourceInv, Sourced, There
      <4> QED
        BY <1>0, <1>2, <1>3, <4>1 DEF SourceInv
    <3>3. There # {} /\ Sourced' = Sourced
      BY <1>8, <1>9, <2>3
    <3> QED
      BY <1>0, <1>1, <1>2, <1>6, <1>7, <2>1, <3>1, <3>2, <3>3 DEF SourceInv
  <2> QED
    BY <2>2, <2>3
<1> QED
  BY <1>4, <1>5, <1>10 DEF DHandlesInv

LEMMA CloseStep ==
    ASSUME DHandlesInv, NEW i \in Handles, DHandles!Close(i)
    PROVE  DHandlesInv'
<1>0. /\ ProbeTypes /\ HandleTypes /\ ProbeInv /\ SourceInv
      /\ h[i].there /\ h' = [h EXCEPT ![i] = DHandles!Closed] /\ open_count' = open_count - 1
      /\ UNCHANGED <<probe, suspended, before, awake, opens>>
  BY DEF DHandlesInv, DHandles!Close
<1>1. /\ opens \in Nat /\ MaxOpens \in Nat /\ sources \in Nat /\ stuck \in Nat /\ open_count \in Nat
      /\ h[i] \in Handle
  BY <1>0, DarwinAssumption DEF HandleTypes
<1>2. IF open_count = 1
      THEN /\ seized' = (seized /\ ~h[i].is_open)
           /\ sources' = (IF h[i].cfSource THEN sources - 1 ELSE sources) /\ stuck' = stuck
      ELSE /\ stuck' = (IF h[i].cfSource THEN stuck + 1 ELSE stuck) /\ UNCHANGED <<seized, sources>>
  BY DEF DHandles!Close, DHandles!LastClose
<1>3. /\ h \in [Handles -> Handle] /\ h'[i] = DHandles!Closed /\ \A j \in Handles \ {i} : h'[j] = h[j]
      /\ DHandles!Closed \in Handle
      /\ ~DHandles!Closed.is_open /\ ~DHandles!Closed.cfSource /\ ~DHandles!Closed.there
  BY <1>0 DEF HandleTypes, Handle, DHandles!Closed
<1>4. There' = There \ {i} /\ Sourced' = Sourced \ {i} /\ i \in There
  BY <1>0, <1>3 DEF There, Sourced
<1>5. Cardinality(There') = open_count - 1 /\ open_count > 0
  <2>1. Cardinality(There \ {i}) = Cardinality(There) - 1
    BY <1>4, ThereFinite, FS_RemoveElement
  <2>2. Cardinality(There) # 0
    BY <1>4, ThereFinite
  <2> QED
    BY <1>0, <1>1, <1>4, <2>1, <2>2 DEF SourceInv
<1>6. i \in Sourced <=> h[i].cfSource
  BY DEF Sourced
<1>7. h[i].cfSource => Sourced' = {} /\ sources = stuck + 1
  BY <1>0, <1>4, <1>6 DEF SourceInv
<1>8. ~h[i].cfSource => Sourced' = Sourced
  BY <1>4, <1>6
<1>9. open_count = 1 => There' = {}
  <2>1. IsFiniteSet(There')
    BY <1>4, ThereFinite, FS_RemoveElement
  <2> QED
    BY <1>1, <1>5, <2>1, FS_EmptySet
<1>10. HandleTypes'
  BY <1>0, <1>1, <1>2, <1>3, <1>5, <1>7 DEF HandleTypes
<1>11. ProbeTypes' /\ ProbeInv'
  <2>1. probe.at = "cached"
    <3>1. opens # 0
      <4>1. There # {}
        BY <1>4
      <4>2. sources > 0
        BY <4>1, <1>0, <1>1 DEF SourceInv
      <4> QED
        BY <4>2, <1>0, <1>1 DEF SourceInv
    <3> QED
      BY <1>0, <3>1 DEF ProbeInv
  <2>2. seized' \in BOOLEAN
    BY <1>0, <1>2 DEF ProbeTypes
  <2> QED
    BY <1>0, <2>1, <2>2 DEF ProbeTypes, ProbeInv
<1>12. SourceInv'
  <2>1. CASE open_count = 1
    <3>1. \A j \in Handles \ {i} : ~h[j].is_open /\ ~h[j].cfSource
      BY <1>0, <1>4, <1>9, <2>1 DEF SourceInv, Sourced
    <3>2. Sourced' = {}
      BY <1>0, <1>4, <1>9, <2>1 DEF SourceInv
    <3>3. sources' = stuck' /\ sources' <= opens'
      BY <1>0, <1>1, <1>2, <1>7, <1>8, <2>1, <3>2 DEF SourceInv
    <3>4. \A j \in Handles : ~h'[j].is_open
      BY <1>3, <3>1
    <3>5. (probe.at = "cached" /\ stuck = 0 /\ seized)' => FALSE
      BY <1>0, <1>2, <2>1, <3>1 DEF SourceInv, ProbeTypes
    <3> QED
      BY <1>0, <1>1, <1>2, <1>5, <1>9, <2>1, <3>2, <3>3, <3>4, <3>5 DEF SourceInv
  <2>2. CASE open_count # 1
    <3>1. (\A j \in Handles : h[j].is_open => h[j].cfSource /\ seized)'
      BY <1>0, <1>2, <1>3, <2>2 DEF SourceInv
    <3>2. (probe.at = "cached" /\ stuck = 0 /\ seized => \E j \in Handles : h[j].is_open)'
      <4>1. CASE h[i].cfSource
        BY <4>1, <1>1, <1>2, <2>2
      <4>2. CASE ~h[i].cfSource
        BY <4>2, <1>0, <1>2, <1>3, <2>2 DEF SourceInv
      <4> QED
        BY <4>1, <4>2
    <3>3. CASE h[i].cfSource
      <4>1. stuck' = sources /\ sources' = sources /\ Sourced' = {} /\ stuck' > 0
        BY <1>1, <1>2, <1>7, <2>2, <3>3
      <4> QED
        BY <1>0, <1>5, <3>1, <3>2, <4>1 DEF SourceInv
    <3>4. CASE ~h[i].cfSource
      <4>1. stuck' = stuck /\ sources' = sources /\ Sourced' = Sourced
        BY <1>2, <1>8, <2>2, <3>4
      <4>2. \A j \in Sourced : j \in There'
        BY <1>0, <1>4, <1>6, <3>4 DEF SourceInv
      <4>3. Sourced # {} \/ stuck > 0
        BY <1>0, <1>4 DEF SourceInv
      <4> QED
        BY <1>0, <1>5, <3>1, <3>2, <4>1, <4>2, <4>3 DEF SourceInv
    <3> QED
      BY <3>3, <3>4
  <2> QED
    BY <2>1, <2>2
<1> QED
  BY <1>10, <1>11, <1>12 DEF DHandlesInv

LEMMA DHandlesStep == DHandlesInv /\ [DHandles!Next]_dHandlesVars => DHandlesInv'
<1> SUFFICES ASSUME DHandlesInv, [DHandles!Next]_dHandlesVars
             PROVE  DHandlesInv'
  OBVIOUS
<1>1. ASSUME NEW i \in Handles, DHandles!OpenFails(i)
      PROVE  DHandlesInv'
  <2>1. /\ opens' = opens + 1 /\ opens < MaxOpens /\ opens \in Nat /\ MaxOpens \in Nat /\ sources \in Nat
        /\ probe.at = "cached"
    BY <1>1, DarwinAssumption DEF DHandles!OpenFails, DHandlesInv, HandleTypes
  <2>2. UNCHANGED <<probe, seized, suspended, before, awake, open_count, h, sources, stuck, There, Sourced>>
    BY <1>1 DEF DHandles!OpenFails, There, Sourced
  <2>3. ProbeTypes' /\ HandleTypes' /\ ProbeInv'
    BY <2>1, <2>2 DEF DHandlesInv, ProbeTypes, HandleTypes, ProbeInv
  <2>4. SourceInv'
    BY <2>1, <2>2 DEF DHandlesInv, SourceInv
  <2> QED
    BY <2>3, <2>4 DEF DHandlesInv
<1>2. CASE UNCHANGED dHandlesVars
  BY <1>2 DEF dHandlesVars, DHandlesInv, ProbeTypes, HandleTypes, ProbeInv, SourceInv, There, Sourced
<1> QED
  BY <1>1, <1>2, ProbeSteps, OpenStep, CloseStep DEF DHandles!Next

-----------------------------------------------------------------------------
(* Darwin: interfaces and transfers *)

Interface == [obj : BOOLEAN, open : BOOLEAN, eps : 0..1, source : {"null", "live", "freed"}]
Statuses == {"none", "TIMED_OUT", "COMPLETED", "CANCELLED", "STALL", "OVERFLOW", "ERROR"}
Transfer ==
  [at : {"idle", "flying", "posted", "stuck"}, kind : DTransfers!Kinds, pipe : DTransfers!Pipes,
   res : DTransfers!Results, timed : BOOLEAN, wanted : BOOLEAN, shared : BOOLEAN,
   frames : 0..2, packets : 0..2, status : Statuses]

DTypes ==
  /\ configured \in BOOLEAN /\ dclaimed \subseteq Interfaces /\ ifc \in [Interfaces -> Interface]
  /\ dx \in [Transfers -> Transfer] /\ twice \in BOOLEAN /\ silent \in BOOLEAN /\ dcalls \in 0..(MaxIfCalls + 2)

\* What can be reached is open, and what is open is complete.
Sound(f) == (f.eps > 0 => f.open) /\ (f.open => f.obj /\ f.source = "live")
InterfacesInv ==
  /\ \A i \in Interfaces : Sound(ifc[i]) /\ (ifc[i].open => i \in dclaimed)
  /\ ~configured => dclaimed = {}

\* What a transfer has come to so far, and why.
Explained(y) ==
  /\ y.at = "flying" /\ y.kind = "iso" => y.frames = y.packets
  /\ y.at # "idle" => y.status = "none"
  /\ y.at \in {"flying", "posted"} /\ y.res = "aborted" => y.wanted \/ y.shared \/ y.timed
  /\ y.at \in {"flying", "posted"} /\ y.res = "timeout" => y.kind \notin {"interrupt", "iso"}
  /\ y.status = "CANCELLED" => y.wanted \/ y.shared
  /\ y.status = "TIMED_OUT" => y.timed \/ y.kind \notin {"interrupt", "iso"}
  /\ y.status = "COMPLETED" => ~y.timed
Carried(y) ==
  y.at = "flying" /\ y.pipe # DTransfers!Control => y.pipe \in dclaimed /\ ifc[y.pipe].eps > 0
TransfersInv == \A t \in Transfers : Explained(dx[t]) /\ Carried(dx[t])

DTransfersInv == DTypes /\ InterfacesInv /\ TransfersInv

LEMMA DTransfersAtBoot == DTransfers!Init => DTransfersInv
<1> SUFFICES ASSUME DTransfers!Init
             PROVE  DTransfersInv
  OBVIOUS
<1>1. /\ configured \in BOOLEAN /\ dclaimed = {} /\ ifc = [i \in Interfaces |-> DTransfers!Unused]
      /\ dx = [t \in Transfers |-> DTransfers!Idle] /\ twice = FALSE /\ silent = FALSE /\ dcalls = 0
  BY DEF DTransfers!Init
<1>2. DTransfers!Unused \in Interface /\ ~DTransfers!Unused.open /\ Sound(DTransfers!Unused)
  BY DEF DTransfers!Unused, Interface, Sound
<1>3. DTransfers!Idle \in Transfer
  BY DEF DTransfers!Idle, Transfer, DTransfers!Kinds, DTransfers!Pipes, DTransfers!Results, Statuses
<1>4. Explained(DTransfers!Idle) /\ DTransfers!Idle.at = "idle"
  BY DEF DTransfers!Idle, Explained
<1>5. dcalls \in 0..(MaxIfCalls + 2)
  BY <1>1, DarwinAssumption
<1>6. DTypes
  BY <1>1, <1>2, <1>3, <1>5 DEF DTypes
<1>7. InterfacesInv
  BY <1>1, <1>2 DEF InterfacesInv
<1>8. TransfersInv
  BY <1>1, <1>4 DEF TransfersInv, Carried
<1> QED
  BY <1>6, <1>7, <1>8 DEF DTransfersInv

LEMMA CallCounted ==
    ASSUME DTransfersInv, DTransfers!Counted \/ DTransfers!Calls
    PROVE  dcalls' \in 0..(MaxIfCalls + 2)
BY DarwinAssumption DEF DTransfersInv, DTypes, DTransfers!Counted, DTransfers!Calls

\* Once nothing flies on an interface it is free to change.
LEMMA NothingFlies ==
    ASSUME DTransfersInv, NEW i \in Interfaces, DTransfers!Flying(i) = {}, NEW t \in Transfers,
           dx[t].at = "flying"
    PROVE  dx[t].pipe # i
BY DEF DTransfers!Flying

-----------------------------------------------------------------------------
(* Interfaces *)

LEMMA ReleaseIsClean ==
    ASSUME NEW f \in Interface, Sound(f)
    PROVE  /\ DTransfers!Released(f) \in Interface /\ Sound(DTransfers!Released(f))
           /\ ~DTransfers!Released(f).open /\ DTransfers!Released(f).eps = 0
<1>1. CASE f.obj
  <2>1. DTransfers!Released(f) = [obj |-> FALSE, open |-> FALSE, eps |-> 0,
                                  source |-> IF f.source = "null" THEN "null" ELSE "freed"]
    BY <1>1 DEF DTransfers!Released
  <2> QED
    BY <2>1 DEF Interface, Sound
<1>2. CASE ~f.obj
  BY <1>2 DEF DTransfers!Released, Interface, Sound
<1> QED
  BY <1>1, <1>2

LEMMA ClaimIsClean ==
    ASSUME NEW f \in Interface, Sound(f), ~f.open, NEW o \in DTransfers!ClaimOutcomes(f)
    PROVE  /\ o.f \in Interface /\ Sound(o.f) /\ o.ok \in BOOLEAN /\ o.twice \in BOOLEAN
           /\ o.f.open => o.ok
<1>0. DTransfers!Opened(f) \in Interface /\ DTransfers!Opened(f).obj /\ f.eps = 0
      /\ DTransfers!ReleasesTwice(DTransfers!Opened(f)) \in BOOLEAN
  <2>1. DTransfers!Opened(f) \in Interface /\ DTransfers!Opened(f).obj
    BY DEF DTransfers!Opened, Interface
  <2>2. f.eps = 0
    BY DEF Interface, Sound
  <2>3. DTransfers!ReleasesTwice(DTransfers!Opened(f)) \in BOOLEAN
    <3> HIDE DEF DTransfers!Opened
    <3> QED
      BY <2>1, Zenon DEF DTransfers!ReleasesTwice
  <2> QED
    BY <2>1, <2>2, <2>3
<1>1. CASE o = [f |-> f, ok |-> FALSE, twice |-> FALSE]
  BY <1>1
<1>2. CASE o = [f |-> [f EXCEPT !.obj = TRUE], ok |-> FALSE, twice |-> FALSE]
  <2>1. [f EXCEPT !.obj = TRUE] \in Interface /\ ~[f EXCEPT !.obj = TRUE].open /\ [f EXCEPT !.obj = TRUE].eps = 0
    BY <1>0 DEF Interface
  <2>2. Sound([f EXCEPT !.obj = TRUE])
    BY <2>1 DEF Sound
  <2>3. o.f = [f EXCEPT !.obj = TRUE] /\ o.ok = FALSE /\ o.twice = FALSE
    BY <1>2
  <2> QED
    BY <2>1, <2>2, <2>3
<1>3. ASSUME NEW g \in Interface, g.obj
      PROVE  /\ DTransfers!Released(g) \in Interface /\ Sound(DTransfers!Released(g))
             /\ ~DTransfers!Released(g).open
  <2>1. DTransfers!Released(g) = [obj |-> FALSE, open |-> FALSE, eps |-> 0,
                                  source |-> IF g.source = "null" THEN "null" ELSE "freed"]
    BY <1>3 DEF DTransfers!Released
  <2> QED
    BY <2>1 DEF Interface, Sound
<1>4. CASE o = [f |-> DTransfers!Released(DTransfers!Opened(f)), ok |-> FALSE,
                twice |-> DTransfers!ReleasesTwice(DTransfers!Opened(f))]
  BY <1>0, <1>3, <1>4
<1>5. CASE o = [f |-> DTransfers!Released([DTransfers!Opened(f) EXCEPT !.source = "null"]), ok |-> FALSE,
                twice |-> FALSE]
  <2>1. /\ [DTransfers!Opened(f) EXCEPT !.source = "null"] \in Interface
        /\ [DTransfers!Opened(f) EXCEPT !.source = "null"].obj
    BY <1>0 DEF Interface
  <2> QED
    BY <1>3, <1>5, <2>1
<1>6. CASE o = [f |-> [obj |-> TRUE, open |-> TRUE, eps |-> 1, source |-> "live"], ok |-> TRUE, twice |-> FALSE]
  BY <1>6 DEF Interface, Sound
<1> QED
  BY <1>1, <1>2, <1>4, <1>5, <1>6 DEF DTransfers!ClaimOutcomes

LEMMA SetConfigurationStep ==
    ASSUME DTransfersInv, DTransfers!SetConfiguration
    PROVE  DTransfersInv'
<1>0. /\ DTypes /\ InterfacesInv /\ TransfersInv /\ UNCHANGED <<dclaimed, dx, silent>>
      /\ dcalls' \in 0..(MaxIfCalls + 2)
      /\ \A i \in Interfaces : DTransfers!Flying(i) = {}
  BY CallCounted DEF DTransfersInv, DTransfers!SetConfiguration
<1>1. \A i \in Interfaces : /\ DTransfers!ReleasedAll[i] \in Interface /\ Sound(DTransfers!ReleasedAll[i])
                            /\ ~DTransfers!ReleasedAll[i].open
  <2> SUFFICES ASSUME NEW i \in Interfaces
               PROVE  /\ DTransfers!ReleasedAll[i] \in Interface /\ Sound(DTransfers!ReleasedAll[i])
                      /\ ~DTransfers!ReleasedAll[i].open
    OBVIOUS
  <2>1. ifc[i] \in Interface /\ Sound(ifc[i]) /\ (ifc[i].open => i \in dclaimed)
    BY <1>0 DEF DTypes, InterfacesInv
  <2>2. DTransfers!ReleasedAll[i] = IF i \in dclaimed THEN DTransfers!Released(ifc[i]) ELSE ifc[i]
    BY DEF DTransfers!ReleasedAll
  <2> QED
    BY <2>1, <2>2, ReleaseIsClean
<1>2. /\ ifc' \in [Interfaces -> Interface] /\ configured' \in BOOLEAN /\ twice' \in BOOLEAN
      /\ configured => configured'
      /\ \A i \in Interfaces : Sound(ifc'[i]) /\ (ifc'[i].open => i \in dclaimed)
  <2>1. CASE ifc' = DTransfers!ReleasedAll /\ twice' = (twice \/ DTransfers!TwiceAll) /\ UNCHANGED configured
    <3>1. ifc' \in [Interfaces -> Interface]
      BY <1>1, <2>1 DEF DTransfers!ReleasedAll
    <3>2. twice' \in BOOLEAN /\ configured' \in BOOLEAN
      BY <1>0, <2>1 DEF DTypes
    <3> QED
      BY <1>1, <2>1, <3>1, <3>2
  <2>2. ASSUME NEW o \in DTransfers!ReclaimOutcomes, ifc' = DTransfers!Reclaimed(o), configured' = TRUE,
               twice' = (twice \/ DTransfers!TwiceAll \/ \E i \in dclaimed : o[i].twice)
        PROVE  /\ ifc' \in [Interfaces -> Interface] /\ configured' \in BOOLEAN /\ twice' \in BOOLEAN
               /\ configured => configured'
               /\ \A i \in Interfaces : Sound(ifc'[i]) /\ (ifc'[i].open => i \in dclaimed)
    <3>1. \A i \in dclaimed : o[i].f \in Interface /\ Sound(o[i].f)
      <4> SUFFICES ASSUME NEW i \in dclaimed PROVE o[i].f \in Interface /\ Sound(o[i].f)
        OBVIOUS
      <4>1. o[i] \in DTransfers!ClaimOutcomes(DTransfers!ReleasedAll[i]) /\ i \in Interfaces
        BY <1>0 DEF DTransfers!ReclaimOutcomes, DTypes
      <4> QED
        BY <1>1, <4>1, ClaimIsClean
    <3>2. ifc' = [i \in Interfaces |-> IF i \in dclaimed THEN o[i].f ELSE ifc[i]]
      BY <2>2 DEF DTransfers!Reclaimed
    <3>3. ASSUME NEW i \in Interfaces
          PROVE  ifc'[i] \in Interface /\ Sound(ifc'[i]) /\ (ifc'[i].open => i \in dclaimed)
      <4>1. ifc[i] \in Interface /\ Sound(ifc[i]) /\ (ifc[i].open => i \in dclaimed)
        BY <1>0 DEF DTypes, InterfacesInv
      <4> QED
        BY <3>1, <3>2, <4>1
    <3>4. ifc' \in [Interfaces -> Interface]
      BY <3>2, <3>3
    <3>5. twice' \in BOOLEAN
      BY <2>2
    <3> QED
      BY <2>2, <3>3, <3>4, <3>5
  <2> QED
    BY <2>1, <2>2 DEF DTransfers!SetConfiguration
<1>3. DTypes'
  BY <1>0, <1>2 DEF DTypes
<1>4. InterfacesInv'
  BY <1>0, <1>2 DEF InterfacesInv, DTypes
<1>5. TransfersInv'
  <2>1. \A t \in Transfers : dx[t].at = "flying" => dx[t].pipe = DTransfers!Control
    <3> SUFFICES ASSUME NEW t \in Transfers, dx[t].at = "flying", dx[t].pipe # DTransfers!Control
                 PROVE  FALSE
      OBVIOUS
    <3>1. dx[t].pipe \in Interfaces
      BY <1>0 DEF DTypes, Transfer, DTransfers!Pipes
    <3> QED
      BY <1>0, <3>1, NothingFlies
  <2> QED
    BY <1>0, <2>1 DEF TransfersInv, Carried, Explained
<1> QED
  BY <1>3, <1>4, <1>5 DEF DTransfersInv

\* One interface changes, and no transfer uses it unless it stays reachable.
LEMMA InterfaceStep ==
    ASSUME DTransfersInv, NEW i \in Interfaces, NEW f \in Interface, Sound(f),
           ifc' = [ifc EXCEPT ![i] = f], UNCHANGED dx,
           dclaimed' \subseteq Interfaces, \A j \in Interfaces \ {i} : j \in dclaimed => j \in dclaimed',
           f.open => i \in dclaimed', ~configured' => dclaimed' = {},
           \/ i \notin dclaimed
           \/ DTransfers!Flying(i) = {}
           \/ f.eps > 0,
           configured' \in BOOLEAN, twice' \in BOOLEAN, silent' \in BOOLEAN, dcalls' \in 0..(MaxIfCalls + 2)
    PROVE  DTransfersInv'
<1>0. DTypes /\ InterfacesInv /\ TransfersInv
  BY DEF DTransfersInv
<1>1. DTypes'
  BY <1>0 DEF DTypes
<1>2. \A j \in Interfaces : ifc'[j] = IF j = i THEN f ELSE ifc[j]
  BY <1>0 DEF DTypes
<1>3. InterfacesInv'
  BY <1>0, <1>2 DEF InterfacesInv
<1>4. TransfersInv'
  <2> SUFFICES ASSUME NEW t \in Transfers, dx[t].at = "flying", dx[t].pipe # DTransfers!Control
               PROVE  dx[t].pipe \in dclaimed' /\ ifc'[dx[t].pipe].eps > 0
    BY <1>0 DEF TransfersInv, Carried, Explained
  <2>1. dx[t].pipe \in Interfaces /\ dx[t].pipe \in dclaimed /\ ifc[dx[t].pipe].eps > 0
    BY <1>0 DEF DTypes, TransfersInv, Carried
  <2>2. CASE dx[t].pipe # i
    BY <1>2, <2>1, <2>2
  <2>3. CASE dx[t].pipe = i
    <3>1. DTransfers!Flying(i) # {}
      BY <2>3 DEF DTransfers!Flying
    <3>2. f.eps > 0
      BY <2>1, <2>3, <3>1
    <3> QED
      BY <1>2, <2>1, <2>3, <3>2 DEF Sound
  <2> QED
    BY <2>2, <2>3
<1> QED
  BY <1>1, <1>3, <1>4 DEF DTransfersInv

LEMMA ClaimInterfaceStep ==
    ASSUME DTransfersInv, NEW i \in Interfaces, DTransfers!ClaimInterface(i)
    PROVE  DTransfersInv'
<1>0. /\ DTypes /\ InterfacesInv /\ TransfersInv /\ UNCHANGED <<dx, silent>> /\ i \notin dclaimed
      /\ dcalls' \in 0..(MaxIfCalls + 2)
      /\ ifc[i] \in Interface /\ Sound(ifc[i]) /\ ~ifc[i].open
  BY CallCounted DEF DTransfersInv, DTransfers!ClaimInterface, DTypes, InterfacesInv
<1>1. ASSUME NEW o \in DTransfers!ClaimOutcomes(ifc[i]), ifc' = [ifc EXCEPT ![i] = o.f],
             twice' = (twice \/ o.twice),
             dclaimed' = IF o.ok THEN dclaimed \cup {i} ELSE dclaimed, configured' = TRUE
      PROVE  DTransfersInv'
  <2>1. /\ o.f \in Interface /\ Sound(o.f) /\ o.ok \in BOOLEAN /\ (o.f.open => o.ok)
    BY <1>0, ClaimIsClean
  <2>2. twice' \in BOOLEAN /\ silent' \in BOOLEAN
    BY <1>0, <1>1 DEF DTypes
  <2>3. dclaimed' \subseteq Interfaces /\ dclaimed \subseteq dclaimed'
    BY <1>0, <1>1 DEF DTypes
  <2>4. o.f.open => i \in dclaimed'
    BY <1>1, <2>1
  <2> QED
    BY <1>0, <1>1, <2>1, <2>2, <2>3, <2>4, InterfaceStep
<1>2. CASE /\ DTransfers!Found
           /\ \E o \in DTransfers!ClaimOutcomes(ifc[i]) :
                /\ ifc' = [ifc EXCEPT ![i] = o.f] /\ twice' = (twice \/ o.twice)
                /\ dclaimed' = IF o.ok THEN dclaimed \cup {i} ELSE dclaimed
           /\ UNCHANGED configured
  BY <1>0, <1>1, <1>2 DEF DTransfers!Found, DTypes
<1>3. CASE /\ ~DTransfers!Found /\ ifc' = DTransfers!ReleasedAll /\ twice' = (twice \/ DTransfers!TwiceAll)
           /\ UNCHANGED <<dclaimed, configured>>
  <2>1. dclaimed = {}
    BY <1>0, <1>3 DEF DTransfers!Found, InterfacesInv
  <2>2. ifc' = ifc
    BY <1>0, <1>3, <2>1 DEF DTransfers!ReleasedAll, DTypes
  <2>3. twice' \in BOOLEAN
    BY <1>3
  <2>4. DTypes' /\ InterfacesInv' /\ TransfersInv'
    BY <1>0, <1>3, <2>2, <2>3 DEF DTypes, InterfacesInv, TransfersInv, Carried, Explained, Sound
  <2> QED
    BY <2>4 DEF DTransfersInv
<1>4. CASE /\ ~DTransfers!Found
           /\ \E o \in DTransfers!ClaimOutcomes(ifc[i]) :
                /\ ifc' = [ifc EXCEPT ![i] = o.f] /\ twice' = (twice \/ o.twice)
                /\ dclaimed' = (IF o.ok THEN dclaimed \cup {i} ELSE dclaimed) /\ configured' = TRUE
  BY <1>1, <1>4
<1> QED
  BY <1>2, <1>3, <1>4 DEF DTransfers!ClaimInterface

LEMMA ReleaseInterfaceStep ==
    ASSUME DTransfersInv, NEW i \in Interfaces, DTransfers!ReleaseInterface(i)
    PROVE  DTransfersInv'
<1>0. /\ DTypes /\ InterfacesInv /\ UNCHANGED <<dx, silent, configured>> /\ i \in dclaimed
      /\ dcalls' \in 0..(MaxIfCalls + 2) /\ DTransfers!Flying(i) = {}
      /\ ifc[i] \in Interface /\ Sound(ifc[i])
      /\ ifc' = [ifc EXCEPT ![i] = DTransfers!Released(ifc[i])]
      /\ twice' = (twice \/ DTransfers!ReleasesTwice(ifc[i]))
      /\ dclaimed' = dclaimed \/ dclaimed' = dclaimed \ {i}
  BY CallCounted DEF DTransfersInv, DTransfers!ReleaseInterface, DTypes, InterfacesInv
<1>1. /\ DTransfers!Released(ifc[i]) \in Interface /\ Sound(DTransfers!Released(ifc[i]))
      /\ ~DTransfers!Released(ifc[i]).open
  BY <1>0, ReleaseIsClean
<1>2. twice' \in BOOLEAN /\ silent' \in BOOLEAN /\ configured' \in BOOLEAN
  BY <1>0 DEF DTypes
<1>3. dclaimed' \subseteq Interfaces /\ (~configured' => dclaimed' = {})
      /\ \A j \in Interfaces \ {i} : j \in dclaimed => j \in dclaimed'
  BY <1>0 DEF DTypes, InterfacesInv
<1> QED
  BY <1>0, <1>1, <1>2, <1>3, InterfaceStep

LEMMA SetAltSettingStep ==
    ASSUME DTransfersInv, NEW i \in Interfaces, DTransfers!SetAltSetting(i)
    PROVE  DTransfersInv'
<1>0. /\ DTypes /\ InterfacesInv /\ UNCHANGED <<dx, dclaimed, configured>> /\ i \in dclaimed
      /\ dcalls' \in 0..(MaxIfCalls + 2) /\ DTransfers!Flying(i) = {}
      /\ ifc[i] \in Interface /\ Sound(ifc[i])
  BY CallCounted DEF DTransfersInv, DTransfers!SetAltSetting, DTypes, InterfacesInv
<1>1. PICK worked, endpoints \in DTransfers!GetEndpoints(ifc[i]) :
        /\ silent' = (silent \/ (~worked /\ endpoints))
        /\ ifc' = [ifc EXCEPT ![i] = IF endpoints THEN [ifc[i] EXCEPT !.eps = 1] ELSE DTransfers!Released(ifc[i])]
        /\ twice' = (twice \/ (~endpoints /\ DTransfers!ReleasesTwice(ifc[i])))
  BY <1>0 DEF DTransfers!SetAltSetting, DTypes
<1>2. endpoints \in BOOLEAN /\ (endpoints => ifc[i].open)
  BY DEF DTransfers!GetEndpoints
<1> DEFINE f == IF endpoints THEN [ifc[i] EXCEPT !.eps = 1] ELSE DTransfers!Released(ifc[i])
<1>3. f \in Interface /\ Sound(f)
  <2>1. CASE endpoints
    BY <1>0, <1>2, <2>1 DEF Interface, Sound
  <2>2. CASE ~endpoints
    BY <1>0, <2>2, ReleaseIsClean
  <2> QED
    BY <2>1, <2>2
<1>4. twice' \in BOOLEAN /\ silent' \in BOOLEAN /\ configured' \in BOOLEAN
  BY <1>0, <1>1 DEF DTypes
<1>5. dclaimed' \subseteq Interfaces /\ (~configured' => dclaimed' = {}) /\ i \in dclaimed'
      /\ \A j \in Interfaces \ {i} : j \in dclaimed => j \in dclaimed'
  BY <1>0 DEF DTypes, InterfacesInv
<1>6. ifc' = [ifc EXCEPT ![i] = f]
  BY <1>1
<1> HIDE DEF f
<1> QED
  BY <1>0, <1>3, <1>4, <1>5, <1>6, InterfaceStep

-----------------------------------------------------------------------------
(* Transfers *)

\* One transfer changes and no interface.
LEMMA TransferStep ==
    ASSUME DTransfersInv, NEW t \in Transfers, NEW y \in Transfer, Explained(y), Carried(y),
           dx' = [dx EXCEPT ![t] = y], UNCHANGED <<configured, dclaimed, ifc, twice, silent>>,
           dcalls' \in 0..(MaxIfCalls + 2)
    PROVE  DTransfersInv'
<1>0. DTypes /\ InterfacesInv /\ TransfersInv
  BY DEF DTransfersInv
<1>1. DTypes'
  BY <1>0 DEF DTypes
<1>2. InterfacesInv'
  BY <1>0 DEF InterfacesInv
<1>3. \A u \in Transfers : dx'[u] = IF u = t THEN y ELSE dx[u]
  BY <1>0 DEF DTypes
<1>4. TransfersInv'
  BY <1>0, <1>3 DEF TransfersInv, Carried, Explained
<1> QED
  BY <1>1, <1>2, <1>4 DEF DTransfersInv

LEMMA FlyStep ==
    ASSUME DTransfersInv, NEW t \in Transfers, NEW k \in DTransfers!Kinds, NEW p \in DTransfers!Pipes,
           NEW n \in 0..2, NEW m \in 0..2, DTransfers!Fly(t, k, p, n, m),
           k = "iso" => n = m, p = DTransfers!Control \/ DTransfers!EpToPipeRef(p)
    PROVE  DTransfersInv'
<1> DEFINE y == [DTransfers!Idle EXCEPT !.at = "flying", !.kind = k, !.pipe = p, !.packets = n, !.frames = m]
<1>1. /\ dx' = [dx EXCEPT ![t] = y] /\ UNCHANGED <<configured, dclaimed, ifc, twice, silent>>
      /\ dcalls' \in 0..(MaxIfCalls + 2)
  BY CallCounted DEF DTransfers!Fly
<1>2. /\ y.at = "flying" /\ y.kind = k /\ y.pipe = p /\ y.res = "ok" /\ y.frames = m /\ y.packets = n
      /\ y.status = "none"
  BY DEF DTransfers!Idle
<1>3. y \in Transfer
  BY DEF DTransfers!Idle, Transfer, DTransfers!Results, Statuses
<1> HIDE DEF y
<1>4. Explained(y)
  BY <1>2 DEF Explained
<1>5. Carried(y)
  BY <1>2 DEF Carried, DTransfers!EpToPipeRef
<1> QED
  BY <1>1, <1>3, <1>4, <1>5, TransferStep

LEMMA SubmitStep ==
    ASSUME DTransfersInv, NEW t \in Transfers, DTransfers!Submit(t)
    PROVE  DTransfersInv'
<1>0. dx[t].frames \in 0..2 /\ \A n \in 1..2 : DTransfers!Framelist(t, n) = n
  BY DEF DTransfersInv, DTypes, Transfer, DTransfers!Framelist
<1>1. /\ Interfaces \subseteq DTransfers!Pipes /\ DTransfers!Control \in DTransfers!Pipes
      /\ {"bulk", "interrupt", "iso", "control", "stream"} \subseteq DTransfers!Kinds
  BY DEF DTransfers!Pipes, DTransfers!Kinds
<1>2. ASSUME NEW p \in Interfaces, NEW k \in DTransfers!Kinds, DTransfers!SubmitBulk(t, k, p)
      PROVE  DTransfersInv'
  <2>1. k # "iso" /\ DTransfers!EpToPipeRef(p) /\ DTransfers!Fly(t, k, p, 0, dx[t].frames)
    BY <1>2 DEF DTransfers!SubmitBulk
  <2> QED
    BY <1>0, <1>1, <2>1, FlyStep
<1>3. ASSUME NEW p \in Interfaces, DTransfers!SubmitStream(t, p)
      PROVE  DTransfersInv'
  <2>1. DTransfers!EpToPipeRef(p) /\ DTransfers!Fly(t, "stream", p, 0, dx[t].frames)
    BY <1>3 DEF DTransfers!SubmitStream
  <2> QED
    BY <1>0, <1>1, <2>1, FlyStep
<1>4. ASSUME NEW p \in Interfaces, NEW n \in 1..2, DTransfers!SubmitIso(t, p, n)
      PROVE  DTransfersInv'
  <2>1. DTransfers!EpToPipeRef(p) /\ DTransfers!Fly(t, "iso", p, n, n)
    BY <1>0, <1>4 DEF DTransfers!SubmitIso
  <2> QED
    BY <1>1, <2>1, FlyStep
<1>5. CASE DTransfers!SubmitControl(t)
  <2>1. DTransfers!Fly(t, "control", DTransfers!Control, 0, dx[t].frames)
    BY <1>5 DEF DTransfers!SubmitControl
  <2> QED
    BY <1>0, <1>1, <2>1, FlyStep
<1> QED
  BY <1>2, <1>3, <1>4, <1>5 DEF DTransfers!Submit

LEMMA SubmitFailsStep ==
    ASSUME DTransfersInv, NEW t \in Transfers, DTransfers!SubmitFails(t)
    PROVE  DTransfersInv'
<1>0. /\ dx \in [Transfers -> Transfer] /\ dx[t] \in Transfer /\ Explained(dx[t]) /\ dx[t].at = "idle"
      /\ dcalls' \in 0..(MaxIfCalls + 2) /\ UNCHANGED <<configured, dclaimed, ifc, twice, silent>>
  BY CallCounted DEF DTransfersInv, DTypes, TransfersInv, DTransfers!SubmitFails
<1>1. PICK n \in 0..2 : dx' = [dx EXCEPT ![t] = [dx[t] EXCEPT !.frames = n]]
  <2>1. dx[t].frames \in 0..2 /\ \A n \in 1..2 : DTransfers!Framelist(t, n) = n
    BY <1>0 DEF Transfer, DTransfers!Framelist
  <2>2. PICK n \in {dx[t].frames, 0} \cup {DTransfers!Framelist(t, q) : q \in 1..2} :
          dx' = [dx EXCEPT ![t].frames = n]
    BY DEF DTransfers!SubmitFails
  <2>3. n \in 0..2
    BY <2>1, <2>2
  <2>4. dx' = [dx EXCEPT ![t] = [dx[t] EXCEPT !.frames = n]]
    BY <1>0, <2>2
  <2> QED
    BY <2>3, <2>4
<1> DEFINE y == [dx[t] EXCEPT !.frames = n]
<1>2. y \in Transfer /\ y.at = "idle" /\ y.kind = dx[t].kind /\ y.res = dx[t].res /\ y.timed = dx[t].timed
      /\ y.wanted = dx[t].wanted /\ y.shared = dx[t].shared /\ y.status = dx[t].status
  BY <1>0 DEF Transfer
<1>3. Explained(y) /\ Carried(y)
  <2> HIDE DEF y
  <2> QED
    BY <1>0, <1>2 DEF Explained, Carried
<1>4. dx' = [dx EXCEPT ![t] = y]
  BY <1>1
<1> HIDE DEF y
<1> QED
  BY <1>0, <1>2, <1>3, <1>4, TransferStep

\* Transfers that keep where they are, or are aborted with a reason.
LEMMA AbortingStep ==
    ASSUME DTransfersInv, dx' \in [Transfers -> Transfer],
           UNCHANGED <<configured, dclaimed, ifc, twice, silent>>, dcalls' \in 0..(MaxIfCalls + 2),
           \A u \in Transfers :
             \/ dx'[u] = dx[u]
             \/ /\ dx[u].at = "flying" /\ dx'[u].at = "flying"
                /\ dx'[u].kind = dx[u].kind /\ dx'[u].pipe = dx[u].pipe
                /\ dx'[u].frames = dx[u].frames /\ dx'[u].packets = dx[u].packets
                /\ dx'[u].status = dx[u].status
                /\ \/ dx'[u].wanted \/ dx'[u].shared \/ dx'[u].timed
                   \/ dx'[u].res # "aborted"
                /\ dx'[u].res = "timeout" => dx[u].res = "timeout"
    PROVE  DTransfersInv'
<1>0. DTypes /\ InterfacesInv /\ TransfersInv
  BY DEF DTransfersInv
<1>1. DTypes' /\ InterfacesInv'
  BY <1>0 DEF DTypes, InterfacesInv
<1>2. TransfersInv'
  <2> SUFFICES ASSUME NEW u \in Transfers
               PROVE  Explained(dx'[u]) /\ Carried(dx[u])'
    BY DEF TransfersInv, Explained
  <2>1. Explained(dx[u]) /\ Carried(dx[u])
    BY <1>0 DEF TransfersInv
  <2>2. CASE dx'[u] = dx[u]
    BY <2>1, <2>2 DEF Explained, Carried
  <2>3. CASE dx'[u] # dx[u]
    BY <2>1, <2>3 DEF Explained, Carried
  <2> QED
    BY <2>2, <2>3
<1> QED
  BY <1>1, <1>2 DEF DTransfersInv

LEMMA AbortWithStep ==
    ASSUME DTransfersInv, NEW t \in Transfers, dx[t].at = "flying", NEW b \in BOOLEAN,
           DTransfers!AbortWith(t, b),
           UNCHANGED <<configured, dclaimed, ifc, twice, silent, dcalls>>
    PROVE  DTransfersInv'
<1>0. /\ dx \in [Transfers -> Transfer] /\ dcalls' \in 0..(MaxIfCalls + 2) /\ TransfersInv
  BY DEF DTransfersInv, DTypes
<1> DEFINE Y(u) == IF u \in DTransfers!Aborted(t)
                   THEN [dx[u] EXCEPT !.res = "aborted", !.shared = (u # t)] ELSE dx[u]
<1>1. dx' = [u \in Transfers |->
               IF u = t THEN [Y(u) EXCEPT !.wanted = Y(u).wanted \/ ~b, !.timed = Y(u).timed \/ b] ELSE Y(u)]
  BY DEF DTransfers!AbortWith
<1>2. ASSUME NEW u \in Transfers
      PROVE  /\ Y(u) \in Transfer /\ Y(u).at = dx[u].at /\ Y(u).kind = dx[u].kind /\ Y(u).pipe = dx[u].pipe
             /\ Y(u).frames = dx[u].frames /\ Y(u).packets = dx[u].packets /\ Y(u).status = dx[u].status
             /\ Y(u).res \in {dx[u].res, "aborted"}
             /\ Y(u) # dx[u] => dx[u].at = "flying"
             /\ Y(u) # dx[u] /\ u # t => Y(u).shared
  <2>0. dx[u] \in Transfer
    BY <1>0
  <2>1. CASE u \in DTransfers!Aborted(t)
    <3>1. dx[u].at = "flying"
      BY <2>1 DEF DTransfers!Aborted, DTransfers!Flying
    <3> QED
      BY <2>0, <2>1, <3>1 DEF Transfer, DTransfers!Results
  <2>2. CASE u \notin DTransfers!Aborted(t)
    BY <2>0, <2>2
  <2> QED
    BY <2>1, <2>2
<1> HIDE DEF Y
<1>3. ASSUME NEW u \in Transfers
      PROVE  /\ dx'[u] \in Transfer
             /\ \/ dx'[u] = dx[u]
                \/ /\ dx[u].at = "flying" /\ dx'[u].at = "flying"
                   /\ dx'[u].kind = dx[u].kind /\ dx'[u].pipe = dx[u].pipe
                   /\ dx'[u].frames = dx[u].frames /\ dx'[u].packets = dx[u].packets
                   /\ dx'[u].status = dx[u].status
                   /\ \/ dx'[u].wanted \/ dx'[u].shared \/ dx'[u].timed
                      \/ dx'[u].res # "aborted"
                   /\ dx'[u].res = "timeout" => dx[u].res = "timeout"
  <2>1. CASE u # t
    BY <1>1, <1>2, <2>1
  <2>2. CASE u = t
    <3>1. Y(t) \in Transfer
      BY <1>2
    <3>2. PICK c \in BOOLEAN : c = (Y(t).wanted \/ ~b)
      BY <3>1
    <3>3. PICK d \in BOOLEAN : d = (Y(t).timed \/ b)
      BY <3>1
    <3> DEFINE z == dx'[t]
    <3>6. z = [Y(t) EXCEPT !.wanted = c, !.timed = d]
      BY <1>1, <3>2, <3>3
    <3> HIDE DEF z
    <3>4. /\ z \in Transfer /\ z.wanted = c /\ z.timed = d
          /\ z.at = Y(t).at /\ z.kind = Y(t).kind /\ z.pipe = Y(t).pipe /\ z.res = Y(t).res
          /\ z.frames = Y(t).frames /\ z.packets = Y(t).packets /\ z.status = Y(t).status
      <4>1. PICK v \in Transfer : v = Y(t)
        BY <3>1
      <4>2. z = [v EXCEPT !.wanted = c, !.timed = d]
        BY <3>6, <4>1
      <4>3. z.wanted = c /\ z.timed = d
        BY <4>2 DEF Transfer
      <4>4. /\ z.at = v.at /\ z.kind = v.kind /\ z.pipe = v.pipe /\ z.res = v.res
            /\ z.frames = v.frames /\ z.packets = v.packets /\ z.status = v.status
        BY <4>2 DEF Transfer
      <4>5. \A w \in Transfer : [w EXCEPT !.wanted = c] \in Transfer
        BY DEF Transfer
      <4>6. \A w \in Transfer : [w EXCEPT !.timed = d] \in Transfer
        BY DEF Transfer
      <4>7. z \in Transfer
        BY <4>2, <4>5, <4>6
      <4> QED
        BY <4>1, <4>3, <4>4, <4>7
    <3>5. z.wanted \/ z.timed
      BY <3>2, <3>3, <3>4
    <3> QED
      BY <1>2, <2>2, <3>4, <3>5 DEF z
  <2> QED
    BY <2>1, <2>2
<1>4. dx' \in [Transfers -> Transfer]
  BY <1>1, <1>3
<1> QED
  BY <1>0, <1>3, <1>4, AbortingStep

LEMMA ResetDeviceStep ==
    ASSUME DTransfersInv, DTransfers!ResetDevice
    PROVE  DTransfersInv'
<1>0. /\ dx \in [Transfers -> Transfer] /\ dcalls' \in 0..(MaxIfCalls + 2)
      /\ dx' = [t \in Transfers |-> IF dx[t].at = "flying" /\ dx[t].res = "ok"
                                    THEN [dx[t] EXCEPT !.res = "aborted", !.shared = TRUE] ELSE dx[t]]
      /\ UNCHANGED <<configured, dclaimed, ifc, twice, silent>>
  BY CallCounted DEF DTransfersInv, DTypes, DTransfers!ResetDevice
<1>3. ASSUME NEW u \in Transfers
      PROVE  /\ dx'[u] \in Transfer
             /\ \/ dx'[u] = dx[u]
                \/ /\ dx[u].at = "flying" /\ dx'[u].at = "flying"
                   /\ dx'[u].kind = dx[u].kind /\ dx'[u].pipe = dx[u].pipe
                   /\ dx'[u].frames = dx[u].frames /\ dx'[u].packets = dx[u].packets
                   /\ dx'[u].status = dx[u].status
                   /\ \/ dx'[u].wanted \/ dx'[u].shared \/ dx'[u].timed
                      \/ dx'[u].res # "aborted"
                   /\ dx'[u].res = "timeout" => dx[u].res = "timeout"
  <2>1. dx[u] \in Transfer
    BY <1>0
  <2>2. CASE dx[u].at = "flying" /\ dx[u].res = "ok"
    BY <1>0, <2>1, <2>2 DEF Transfer, DTransfers!Results
  <2>3. CASE ~(dx[u].at = "flying" /\ dx[u].res = "ok")
    BY <1>0, <2>1, <2>3
  <2> QED
    BY <2>2, <2>3
<1>4. dx' \in [Transfers -> Transfer]
  BY <1>0, <1>3
<1> QED
  BY <1>0, <1>3, <1>4, AbortingStep

LEMMA CallbackSteps ==
    ASSUME DTransfersInv, NEW t \in Transfers, DTransfers!CallbackStep(t)
    PROVE  DTransfersInv'
<1>0. /\ dx \in [Transfers -> Transfer] /\ dx[t] \in Transfer /\ Explained(dx[t])
      /\ dcalls' \in 0..(MaxIfCalls + 2) /\ UNCHANGED <<configured, dclaimed, ifc, twice, silent>>
  BY DEF DTransfersInv, DTypes, TransfersInv, DTransfers!CallbackStep, DTransfers!AsyncIoCallback,
     DTransfers!HandleCompletion
<1>1. CASE DTransfers!AsyncIoCallback(t)
  <2>1. PICK r \in DTransfers!Results :
          /\ dx' = [dx EXCEPT ![t] = [dx[t] EXCEPT !.at = "posted", !.res = r]]
          /\ r = "aborted" => dx[t].res = "aborted" /\ dx[t].at = "flying"
          /\ r = "timeout" => dx[t].kind \notin {"interrupt", "iso"}
          /\ dx[t].at = "flying"
    <3>1. dx[t].res = "aborted" => "aborted" \in DTransfers!Results
      BY DEF DTransfers!Results
    <3> QED
      BY <1>0, <1>1, <3>1 DEF DTransfers!AsyncIoCallback, DTransfers!TimesOut
  <2> DEFINE y == [dx[t] EXCEPT !.at = "posted", !.res = r]
  <2>2. /\ y \in Transfer /\ y.at = "posted" /\ y.res = r /\ y.kind = dx[t].kind /\ y.timed = dx[t].timed
        /\ y.wanted = dx[t].wanted /\ y.shared = dx[t].shared /\ y.status = dx[t].status
    BY <1>0 DEF Transfer
  <2>3. dx' = [dx EXCEPT ![t] = y]
    BY <2>1
  <2> HIDE DEF y
  <2>4. Explained(y) /\ Carried(y)
    BY <1>0, <2>1, <2>2 DEF Explained, Carried
  <2> QED
    BY <1>0, <2>2, <2>3, <2>4, TransferStep
<1>2. CASE DTransfers!HandleCompletion(t)
  <2>1. /\ dx[t].at = "posted"
        /\ dx' = [dx EXCEPT ![t] = IF dx[t].kind = "stream" THEN [dx[t] EXCEPT !.at = "stuck"]
                                   ELSE [dx[t] EXCEPT !.at = "idle", !.status = DTransfers!Status(t)]]
    BY <1>0, <1>2 DEF DTransfers!HandleCompletion
  <2>2. CASE dx[t].kind = "stream"
    <3> DEFINE y == [dx[t] EXCEPT !.at = "stuck"]
    <3>1. y \in Transfer /\ y.at = "stuck" /\ y.status = dx[t].status
      BY <1>0 DEF Transfer
    <3>2. dx' = [dx EXCEPT ![t] = y]
      BY <2>1, <2>2
    <3> HIDE DEF y
    <3>3. y.status = "none"
      BY <1>0, <2>1, <3>1 DEF Explained
    <3>4. Explained(y) /\ Carried(y)
      BY <3>1, <3>3 DEF Explained, Carried
    <3> QED
      BY <1>0, <3>1, <3>2, <3>4, TransferStep
  <2>3. CASE dx[t].kind # "stream"
    <3> DEFINE y == [dx[t] EXCEPT !.at = "idle", !.status = DTransfers!Status(t)]
    <3>0. dx[t].timed \in BOOLEAN
      BY <1>0 DEF Transfer
    <3>1. /\ DTransfers!Status(t) \in Statuses \ {"none"}
          /\ DTransfers!Status(t) = "TIMED_OUT" => dx[t].timed \/ dx[t].res = "timeout"
          /\ DTransfers!Status(t) = "COMPLETED" => ~dx[t].timed
          /\ DTransfers!Status(t) = "CANCELLED" => ~dx[t].timed /\ dx[t].res = "aborted"
      BY <3>0 DEF DTransfers!Status, Statuses
    <3>2. /\ y \in Transfer /\ y.at = "idle" /\ y.status = DTransfers!Status(t) /\ y.kind = dx[t].kind
          /\ y.timed = dx[t].timed /\ y.wanted = dx[t].wanted /\ y.shared = dx[t].shared
      BY <1>0, <3>1 DEF Transfer
    <3>3. dx' = [dx EXCEPT ![t] = y]
      BY <2>1, <2>3
    <3> HIDE DEF y
    <3>4. Explained(y) /\ Carried(y)
      BY <1>0, <2>1, <3>1, <3>2 DEF Explained, Carried
    <3> QED
      BY <1>0, <3>2, <3>3, <3>4, TransferStep
  <2> QED
    BY <2>2, <2>3
<1> QED
  BY <1>1, <1>2 DEF DTransfers!CallbackStep

LEMMA FreeTransferStep ==
    ASSUME DTransfersInv, NEW t \in Transfers, DTransfers!FreeTransfer(t)
    PROVE  DTransfersInv'
<1>1. /\ dx' = [dx EXCEPT ![t] = DTransfers!Idle] /\ dcalls' \in 0..(MaxIfCalls + 2)
      /\ UNCHANGED <<configured, dclaimed, ifc, twice, silent>>
  BY DEF DTransfers!FreeTransfer, DTransfersInv, DTypes
<1>2. DTransfers!Idle \in Transfer
  BY DEF DTransfers!Idle, Transfer, DTransfers!Kinds, DTransfers!Pipes, DTransfers!Results, Statuses
<1>3. Explained(DTransfers!Idle) /\ Carried(DTransfers!Idle)
  BY DEF DTransfers!Idle, Explained, Carried
<1> QED
  BY <1>1, <1>2, <1>3, TransferStep

LEMMA DTransfersStep == DTransfersInv /\ [DTransfers!Next]_dTransfersVars => DTransfersInv'
<1> SUFFICES ASSUME DTransfersInv, [DTransfers!Next]_dTransfersVars
             PROVE  DTransfersInv'
  OBVIOUS
<1>1. ASSUME NEW t \in Transfers, DTransfers!Cancel(t) \/ DTransfers!Timeout(t)
      PROVE  DTransfersInv'
  <2>1. /\ dx[t].at = "flying" /\ UNCHANGED <<configured, dclaimed, ifc, twice, silent, dcalls>>
        /\ DTransfers!AbortWith(t, FALSE) \/ DTransfers!AbortWith(t, TRUE)
    BY <1>1 DEF DTransfers!Cancel, DTransfers!CancelControl, DTransfers!AbortTransfers, DTransfers!Timeout
  <2> QED
    BY <2>1, AbortWithStep
<1>2. CASE UNCHANGED dTransfersVars
  BY <1>2 DEF dTransfersVars, DTransfersInv, DTypes, InterfacesInv, TransfersInv, Sound, Explained, Carried
<1> QED
  BY <1>1, <1>2, SetConfigurationStep, ResetDeviceStep, ClaimInterfaceStep, ReleaseInterfaceStep,
     SetAltSettingStep, SubmitStep, SubmitFailsStep, CallbackSteps, FreeTransferStep DEF DTransfers!Next

-----------------------------------------------------------------------------
(* Darwin: the cache of devices *)

Sess == 1..MaxSessions
Ev == "event thread"
Acts == DContexts \cup {Ev}

\* What a context's call is at while it has the lock, and has libusb initialised.
Locking == {"scan", "processing", "connect", "wait"}
Adding == {"add", "processing", "connect"}
Scanning == {"scan", "processing", "connect"}
Finding == {"processing", "connect"}
Places == {"idle", "in", "scan", "wait", "unlist", "out", "join", "add", "disconnect",
           "processing", "connect"}

\* Sessions still to be scanned, contexts to be told, or both.
Todos == SUBSET (Sess \cup DContexts \cup (Sess \X DContexts))
DPlace == [at : Places, todo : Todos, s : 0..MaxSessions, c : DContexts \cup {"free"}]

DBusTypes ==
  /\ bus \subseteq Sess /\ dplugs \in 0..MaxSessions /\ added \subseteq Sess
  /\ removed \subseteq Sess /\ good \subseteq Sess
  /\ unseen \subseteq Sess /\ missed \subseteq Sess /\ dfailed \subseteq Sess /\ odd \subseteq Sess
DContextTypes ==
  /\ count \in Nat /\ thread \in {"none", "arming", "failed", "loop", "stopping"}
  /\ active \subseteq DContexts /\ inits \in 0..MaxInits /\ lock \in DContexts \cup {"free"}
  /\ at \in [Acts -> DPlace]
DListTypes ==
  /\ rc \in [Sess -> Nat] /\ listed \in [DContexts -> [Sess -> 0..2]]
  /\ dheld \in [DContexts -> SUBSET Sess] /\ gone \in [DContexts -> SUBSET Sess]
CacheTypes == DBusTypes /\ DContextTypes /\ DListTypes

\* A session ends once, and its removal is handled or dropped once.
SessionInv ==
  /\ bus \subseteq 1..dplugs /\ added \subseteq 1..dplugs
  /\ removed \subseteq 1..dplugs /\ missed \subseteq 1..dplugs
  /\ bus \cap removed = {} /\ missed \cap (bus \cup removed) = {}
  /\ at[Ev].at = "disconnect" => at[Ev].s \in 1..dplugs /\ at[Ev].s \notin bus
  /\ \A s \in Sess : rc[s] > 0 => s <= dplugs

\* What each context's call may be at, and what it then has: the lock, a place in
\* the list of contexts, devices.
ContextInv ==
  \A c \in DContexts :
    /\ at[c].at \notin {"add", "disconnect"}
    /\ at[c].at \in Scanning => at[c].todo \subseteq Sess
    /\ at[c].at \in Finding => at[c].s \in Sess /\ at[c].c = c
    /\ lock = c <=> at[c].at \in Locking
    /\ c \in active <=> at[c].at \in Locking \cup {"in"}
    /\ at[c].at \in {"idle", "out", "join"} => \A s \in Sess : listed[c][s] = 0
    /\ dheld[c] # {} \/ gone[c] # {} => at[c].at = "in"
    /\ at[c].at = "in" => thread = "loop"

\* The event thread is at one notification, for contexts that stay.
EvInv ==
  /\ at[Ev].at \in {"idle", "add", "processing", "connect", "disconnect"}
  /\ at[Ev].at \in Adding => at[Ev].todo \subseteq Sess \X active
  /\ at[Ev].at \in Finding => at[Ev].s \in Sess /\ at[Ev].c \in active
  /\ at[Ev].at = "disconnect" => at[Ev].todo \subseteq active /\ at[Ev].s \in Sess

\* initCount counts the contexts between darwin_init() and darwin_exit(), and a
\* thread that is not up yet has one waiting for it.
Counted == {c \in DContexts : at[c].at \in {"wait", "in", "unlist", "out"}}
ThreadInv ==
  /\ count = Cardinality(Counted) /\ (count = 0 <=> thread \in {"none", "stopping"})
  /\ thread \in {"arming", "failed"} => lock \in DContexts /\ at[lock].at = "wait"

\* Every reference is a device's, but for the one that removal drops.
Kept(s) == IF rc[s] > 0 /\ s \in bus \cup removed \cup missed THEN 1 ELSE 0
NMade(s) == Cardinality(DDevices!Made(s))
NLeft(s) == Cardinality(DDevices!Left(s))
NConnecting(s) == Cardinality(DDevices!Connecting(s))
CountInv == \A s \in Sess : rc[s] = NMade(s) + NLeft(s) + NConnecting(s) + Kept(s)

\* The event thread, or the context's scan, is still to list session s for c.
EvPending(c, s) ==
  \/ at[Ev].at \in Adding /\ <<s, c>> \in at[Ev].todo
  \/ at[Ev].at \in Finding /\ at[Ev].s = s /\ at[Ev].c = c
OwnPending(c, s) ==
  \/ at[c].at \in Scanning /\ s \in at[c].todo
  \/ at[c].at \in Finding /\ at[c].s = s

\* A context lists a session's device once; one on the bus is listed or about to
\* be, and one that is listed is on the bus or about to be unlisted.
OnceInv ==
  /\ \A c \in DContexts, s \in Sess : listed[c][s] \in 0..1
  /\ \A c \in DContexts : dheld[c] \cap gone[c] = {}
  /\ \A s \in Sess : rc[s] > 0 /\ s \notin good => s \in dfailed
ArrivalInv ==
  \A c \in DContexts, s \in Sess :
    c \in active /\ s \in bus /\ s \notin unseen /\ s \notin dfailed =>
      listed[c][s] = 1 \/ s \in added \/ EvPending(c, s) \/ OwnPending(c, s)
RemovalInv ==
  \A c \in DContexts, s \in Sess :
    c \in active /\ listed[c][s] > 0 =>
      \/ s \in bus \/ s \in removed \/ s \in missed
      \/ at[Ev].at = "disconnect" /\ at[Ev].s = s /\ c \in at[Ev].todo

\* Until one of the races.
ExactInv == CountInv /\ OnceInv /\ ArrivalInv /\ RemovalInv
DDevicesInv ==
  /\ CacheTypes /\ SessionInv /\ ContextInv /\ EvInv /\ ThreadInv
  /\ odd = {} => ExactInv


LEMMA ActsDiffer == Ev \notin DContexts /\ "free" \notin DContexts
BY DarwinDevicesAssumption DEF Ev

LEMMA BoundsAreNumbers == MaxSessions \in Nat /\ MaxInits \in Nat
BY Zenon, DarwinDevicesAssumption

\* What a record of a place has in it.
LEMMA PlaceMade ==
    ASSUME NEW p \in Places, NEW t \in Todos, NEW u \in 0..MaxSessions,
           NEW c \in DContexts \cup {"free"}
    PROVE  /\ [at |-> p, todo |-> t, s |-> u, c |-> c] \in DPlace
           /\ [at |-> p, todo |-> t, s |-> u, c |-> c].at = p
           /\ [at |-> p, todo |-> t, s |-> u, c |-> c].todo = t
           /\ [at |-> p, todo |-> t, s |-> u, c |-> c].s = u
           /\ [at |-> p, todo |-> t, s |-> u, c |-> c].c = c
BY DEF DPlace

LEMMA IdleRead ==
    \A a : at[a] = [at |-> "idle", todo |-> {}, s |-> 0, c |-> "free"] => at[a].at = "idle"
OBVIOUS

LEMMA PlaceMoves ==
    ASSUME at \in [Acts -> DPlace], NEW a \in Acts, NEW r \in DPlace,
           at' = [at EXCEPT ![a] = r]
    PROVE  /\ at' \in [Acts -> DPlace] /\ at'[a] = r
           /\ \A b \in Acts \ {a} : at'[b] = at[b]
OBVIOUS

LEMMA PlaceRead ==
    ASSUME at \in [Acts -> DPlace], NEW a \in Acts
    PROVE  /\ at[a] \in DPlace /\ at[a].at \in Places /\ at[a].todo \in Todos
           /\ at[a].s \in 0..MaxSessions /\ at[a].c \in DContexts \cup {"free"}
           /\ \A p : [at[a] EXCEPT !.at = p] = [at |-> p, todo |-> at[a].todo, s |-> at[a].s, c |-> at[a].c]
           /\ \A t : [at[a] EXCEPT !.todo = t] = [at |-> at[a].at, todo |-> t, s |-> at[a].s, c |-> at[a].c]
BY DEF DPlace

LEMMA PlaceTodo ==
    ASSUME at \in [Acts -> DPlace], NEW a \in Acts, NEW t
    PROVE  [at[a] EXCEPT !.todo = t] = [at |-> at[a].at, todo |-> t, s |-> at[a].s, c |-> at[a].c]
BY DEF DPlace

LEMMA TodosMade ==
    /\ {} \in Todos /\ active \in SUBSET DContexts => active \in Todos
    /\ \A t \in SUBSET Sess : t \in Todos
    /\ \A t \in SUBSET (Sess \X DContexts) : t \in Todos
    /\ \A t \in Todos : \A y : t \ {y} \in Todos
BY Zenon DEF Todos

\* A set with an element more or less, if a condition holds.
LEMMA OneMore ==
    ASSUME NEW A, IsFiniteSet(A), NEW y, NEW p \in BOOLEAN, p => y \notin A,
           NEW B, B = IF p THEN A \cup {y} ELSE A
    PROVE  Cardinality(B) = Cardinality(A) + (IF p THEN 1 ELSE 0)
<1>1. Cardinality(A) \in Nat
  BY FS_CardinalityType
<1>2. CASE p
  BY <1>2, FS_AddElement
<1>3. CASE ~p
  BY <1>1, <1>3
<1>. QED  BY <1>2, <1>3

LEMMA OneLess ==
    ASSUME NEW A, IsFiniteSet(A), NEW y, NEW p \in BOOLEAN, p => y \in A,
           NEW B, B = IF p THEN A \ {y} ELSE A
    PROVE  Cardinality(B) = Cardinality(A) - (IF p THEN 1 ELSE 0)
<1>1. Cardinality(A) \in Nat
  BY FS_CardinalityType
<1>2. CASE p
  BY <1>2, FS_RemoveElement
<1>3. CASE ~p
  BY <1>1, <1>3
<1>. QED  BY <1>2, <1>3

LEMMA MadeFinite ==
    ASSUME NEW s \in Sess
    PROVE  /\ IsFiniteSet(DDevices!Made(s)) /\ IsFiniteSet(DDevices!Left(s))
           /\ IsFiniteSet(DDevices!Connecting(s))
           /\ NMade(s) \in Nat /\ NLeft(s) \in Nat /\ NConnecting(s) \in Nat
<1>1. IsFiniteSet(1..2)
  <2>1. 1..2 = {1} \cup {2}
    OBVIOUS
  <2>2. IsFiniteSet({1})
    BY FS_Singleton
  <2>. QED  BY <2>1, <2>2, FS_AddElement
<1>2. IsFiniteSet(DContexts \X (1..2)) /\ IsFiniteSet(DContexts) /\ IsFiniteSet(DContexts \cup {Ev})
  BY <1>1, FS_Product, FS_AddElement, DarwinDevicesAssumption
<1>3. /\ DDevices!Made(s) \subseteq DContexts \X (1..2) /\ DDevices!Left(s) \subseteq DContexts
      /\ DDevices!Connecting(s) \subseteq DContexts \cup {Ev}
  BY DEF DDevices!Made, DDevices!Left, DDevices!Connecting, DDevices!Actors, DDevices!Ev, Ev
<1>4. IsFiniteSet(DDevices!Made(s)) /\ IsFiniteSet(DDevices!Left(s)) /\ IsFiniteSet(DDevices!Connecting(s))
  BY <1>2, <1>3, FS_Subset
<1>. QED  BY <1>4, FS_CardinalityType DEF NMade, NLeft, NConnecting

LEMMA MadeFiniteNext ==
    ASSUME NEW s \in Sess
    PROVE  NMade(s)' \in Nat /\ NLeft(s)' \in Nat /\ NConnecting(s)' \in Nat
<1>1. IsFiniteSet(1..2)
  <2>1. 1..2 = {1} \cup {2}
    OBVIOUS
  <2>2. IsFiniteSet({1})
    BY FS_Singleton
  <2>. QED  BY <2>1, <2>2, FS_AddElement
<1>2. IsFiniteSet(DContexts \X (1..2)) /\ IsFiniteSet(DContexts) /\ IsFiniteSet(DContexts \cup {Ev})
  BY <1>1, FS_Product, FS_AddElement, DarwinDevicesAssumption
<1>3. /\ DDevices!Made(s)' \subseteq DContexts \X (1..2) /\ DDevices!Left(s)' \subseteq DContexts
      /\ DDevices!Connecting(s)' \subseteq DContexts \cup {Ev}
  BY DEF DDevices!Made, DDevices!Left, DDevices!Connecting, DDevices!Actors, DDevices!Ev, Ev
<1>4. /\ IsFiniteSet(DDevices!Made(s)') /\ IsFiniteSet(DDevices!Left(s)')
      /\ IsFiniteSet(DDevices!Connecting(s)')
  BY <1>2, <1>3, FS_Subset
<1>. QED  BY <1>4, FS_CardinalityType DEF NMade, NLeft, NConnecting

LEMMA ConnectingMoves ==
    ASSUME CacheTypes, NEW a \in Acts, NEW r \in DPlace, at' = [at EXCEPT ![a] = r], NEW s \in Sess
    PROVE  /\ at[a].at # "connect" /\ r.at # "connect" => NConnecting(s)' = NConnecting(s)
           /\ at[a].at # "connect" /\ r.at = "connect" =>
                NConnecting(s)' = NConnecting(s) + (IF r.s = s THEN 1 ELSE 0)
           /\ at[a].at = "connect" /\ r.at # "connect" =>
                NConnecting(s)' = NConnecting(s) - (IF at[a].s = s THEN 1 ELSE 0)
<1>1. DDevices!Actors = Acts
  BY DEF DDevices!Actors, DDevices!Ev, Acts, Ev
<1>2. at'[a] = r /\ \A b \in Acts \ {a} : at'[b] = at[b]
  BY PlaceMoves DEF CacheTypes, DContextTypes
<1>3. DDevices!Connecting(s)' = {b \in Acts : at'[b].at = "connect" /\ at'[b].s = s}
  BY <1>1 DEF DDevices!Connecting
<1>4. DDevices!Connecting(s) = {b \in Acts : at[b].at = "connect" /\ at[b].s = s}
  BY <1>1 DEF DDevices!Connecting
<1>5. IsFiniteSet(DDevices!Connecting(s)) /\ NConnecting(s) \in Nat
  BY MadeFinite
<1>6. ASSUME at[a].at # "connect", r.at # "connect"
      PROVE  NConnecting(s)' = NConnecting(s)
  <2>1. DDevices!Connecting(s)' = DDevices!Connecting(s)
    BY <1>2, <1>3, <1>4, <1>6
  <2>. QED  BY <2>1 DEF NConnecting
<1>7. ASSUME at[a].at # "connect", r.at = "connect"
      PROVE  NConnecting(s)' = NConnecting(s) + (IF r.s = s THEN 1 ELSE 0)
  <2>1. DDevices!Connecting(s)' =
          IF r.s = s THEN DDevices!Connecting(s) \cup {a} ELSE DDevices!Connecting(s)
    BY <1>2, <1>3, <1>4, <1>7
  <2>2. a \notin DDevices!Connecting(s)
    BY <1>4, <1>7
  <2>. QED  BY <2>1, <2>2, <1>5, OneMore DEF NConnecting
<1>8. ASSUME at[a].at = "connect", r.at # "connect"
      PROVE  NConnecting(s)' = NConnecting(s) - (IF at[a].s = s THEN 1 ELSE 0)
  <2>1. DDevices!Connecting(s)' =
          IF at[a].s = s THEN DDevices!Connecting(s) \ {a} ELSE DDevices!Connecting(s)
    BY <1>2, <1>3, <1>4, <1>8
  <2>2. at[a].s = s => a \in DDevices!Connecting(s)
    BY <1>4, <1>8
  <2>3. CASE at[a].s = s
    BY <2>1, <2>2, <2>3, <1>5, FS_RemoveElement DEF NConnecting
  <2>4. CASE at[a].s # s
    BY <2>1, <2>4, <1>5 DEF NConnecting
  <2>. QED  BY <2>3, <2>4
<1>. QED  BY <1>6, <1>7, <1>8

\* A device is listed, or unlisted.
LEMMA MadeUp ==
    ASSUME CacheTypes, NEW c \in DContexts, NEW u \in Sess, listed[c][u] = 0,
           listed' = [listed EXCEPT ![c][u] = @ + 1], NEW s \in Sess
    PROVE  NMade(s)' = NMade(s) + (IF s = u THEN 1 ELSE 0)
<1>1. \A b \in DContexts, t \in Sess :
        /\ listed[b][t] \in 0..2
        /\ listed'[b][t] = IF b = c /\ t = u THEN 1 ELSE listed[b][t]
  BY DEF CacheTypes, DListTypes
<1>2. DDevices!Made(s)' = IF s = u THEN DDevices!Made(s) \cup {<<c, 1>>} ELSE DDevices!Made(s)
  <2>1. CASE s # u
    BY <1>1, <2>1 DEF DDevices!Made
  <2>2. CASE s = u
    <3>1. ASSUME NEW b \in DContexts, NEW k \in 1..2
          PROVE  k <= listed'[b][s] <=> (k <= listed[b][s] \/ (b = c /\ k = 1))
      BY <1>1, <2>2
    <3>. QED  BY <3>1, <2>2 DEF DDevices!Made
  <2>. QED  BY <2>1, <2>2
<1>3. s = u => <<c, 1>> \notin DDevices!Made(s)
  BY DEF DDevices!Made
<1>4. IsFiniteSet(DDevices!Made(s)) /\ NMade(s) \in Nat
  BY MadeFinite
<1>. QED  BY <1>2, <1>3, <1>4, OneMore DEF NMade

LEMMA MadeDown ==
    ASSUME CacheTypes, NEW c \in DContexts, NEW u \in Sess, listed[c][u] = 1,
           listed' = [listed EXCEPT ![c][u] = @ - 1], NEW s \in Sess
    PROVE  NMade(s)' = NMade(s) - (IF s = u THEN 1 ELSE 0)
<1>1. \A b \in DContexts, t \in Sess :
        /\ listed[b][t] \in 0..2
        /\ listed'[b][t] = IF b = c /\ t = u THEN 0 ELSE listed[b][t]
  BY DEF CacheTypes, DListTypes
<1>2. DDevices!Made(s)' = IF s = u THEN DDevices!Made(s) \ {<<c, 1>>} ELSE DDevices!Made(s)
  <2>1. CASE s # u
    BY <1>1, <2>1 DEF DDevices!Made
  <2>2. CASE s = u
    <3>1. ASSUME NEW b \in DContexts, NEW k \in 1..2
          PROVE  k <= listed'[b][s] <=> (k <= listed[b][s] /\ ~(b = c /\ k = 1))
      BY <1>1, <2>2
    <3>. QED  BY <3>1, <2>2 DEF DDevices!Made
  <2>. QED  BY <2>1, <2>2
<1>3. s = u => <<c, 1>> \in DDevices!Made(s)
  BY DEF DDevices!Made
<1>4. IsFiniteSet(DDevices!Made(s)) /\ NMade(s) \in Nat
  BY MadeFinite
<1>. QED  BY <1>2, <1>3, <1>4, OneLess DEF NMade

\* All devices of a context are unlisted.
LEMMA MadeGone ==
    ASSUME CacheTypes, NEW c \in DContexts, listed' = [listed EXCEPT ![c] = [s \in Sess |-> 0]],
           NEW s \in Sess, listed[c][s] \in 0..1
    PROVE  NMade(s)' = NMade(s) - listed[c][s]
<1>1. \A b \in DContexts, t \in Sess :
        /\ listed[b][t] \in 0..2
        /\ listed'[b][t] = IF b = c THEN 0 ELSE listed[b][t]
  BY DEF CacheTypes, DListTypes
<1>2. DDevices!Made(s)' =
        IF listed[c][s] = 1 THEN DDevices!Made(s) \ {<<c, 1>>} ELSE DDevices!Made(s)
  <2>1. ASSUME NEW b \in DContexts, NEW k \in 1..2
        PROVE  k <= listed'[b][s] <=> (k <= listed[b][s] /\ ~(b = c /\ k = 1))
    BY <1>1
  <2>2. CASE listed[c][s] = 1
    BY <2>1, <2>2 DEF DDevices!Made
  <2>3. CASE listed[c][s] # 1
    <3>1. listed[c][s] = 0
      BY <2>3
    <3>2. ASSUME NEW b \in DContexts, NEW k \in 1..2
          PROVE  k <= listed'[b][s] <=> k <= listed[b][s]
      BY <1>1, <3>1
    <3>. QED  BY <3>2, <2>3 DEF DDevices!Made
  <2>. QED  BY <2>2, <2>3
<1>3. listed[c][s] = 1 => <<c, 1>> \in DDevices!Made(s)
  BY DEF DDevices!Made
<1>4. IsFiniteSet(DDevices!Made(s)) /\ NMade(s) \in Nat
  BY MadeFinite
<1>5. CASE listed[c][s] = 1
  BY <1>2, <1>3, <1>4, <1>5, FS_RemoveElement DEF NMade
<1>6. CASE listed[c][s] = 0
  BY <1>2, <1>4, <1>6 DEF NMade
<1>. QED  BY <1>5, <1>6

\* A device that the application holds is no longer listed, or no longer held.
LEMMA LeftMoves ==
    ASSUME CacheTypes, NEW c \in DContexts, NEW u \in Sess, NEW s \in Sess
    PROVE  /\ gone' = [gone EXCEPT ![c] = @ \cup {u}] /\ u \notin gone[c] =>
                NLeft(s)' = NLeft(s) + (IF s = u THEN 1 ELSE 0)
           /\ gone' = [gone EXCEPT ![c] = @ \ {u}] =>
                NLeft(s)' = NLeft(s) - (IF s = u /\ u \in gone[c] THEN 1 ELSE 0)
<1>1. gone \in [DContexts -> SUBSET Sess]
  BY DEF CacheTypes, DListTypes
<1>2. IsFiniteSet(DDevices!Left(s)) /\ NLeft(s) \in Nat
  BY MadeFinite
<1>3. ASSUME gone' = [gone EXCEPT ![c] = @ \cup {u}], u \notin gone[c]
      PROVE  NLeft(s)' = NLeft(s) + (IF s = u THEN 1 ELSE 0)
  <2>1. DDevices!Left(s)' = IF s = u THEN DDevices!Left(s) \cup {c} ELSE DDevices!Left(s)
    BY <1>1, <1>3 DEF DDevices!Left
  <2>2. s = u => c \notin DDevices!Left(s)
    BY <1>3 DEF DDevices!Left
  <2>. QED  BY <2>1, <2>2, <1>2, OneMore DEF NLeft
<1>4. ASSUME gone' = [gone EXCEPT ![c] = @ \ {u}]
      PROVE  NLeft(s)' = NLeft(s) - (IF s = u /\ u \in gone[c] THEN 1 ELSE 0)
  <2>1. DDevices!Left(s)' =
          IF s = u /\ u \in gone[c] THEN DDevices!Left(s) \ {c} ELSE DDevices!Left(s)
    BY <1>1, <1>4 DEF DDevices!Left
  <2>2. s = u /\ u \in gone[c] => c \in DDevices!Left(s)
    BY DEF DDevices!Left
  <2>3. CASE s = u /\ u \in gone[c]
    BY <2>1, <2>2, <2>3, <1>2, FS_RemoveElement DEF NLeft
  <2>4. CASE ~(s = u /\ u \in gone[c])
    BY <2>1, <2>4, <1>2 DEF NLeft
  <2>. QED  BY <2>3, <2>4
<1>. QED  BY <1>3, <1>4

LEMMA LeftUp ==
    ASSUME CacheTypes, NEW c \in DContexts, NEW u \in Sess, NEW s \in Sess,
           u \notin gone[c], gone' = [gone EXCEPT ![c] = @ \cup {u}]
    PROVE  NLeft(s)' = NLeft(s) + (IF s = u THEN 1 ELSE 0)
BY LeftMoves

LEMMA LeftDown ==
    ASSUME CacheTypes, NEW c \in DContexts, NEW u \in Sess, NEW s \in Sess,
           gone' = [gone EXCEPT ![c] = @ \ {u}]
    PROVE  NLeft(s)' = NLeft(s) - (IF s = u /\ u \in gone[c] THEN 1 ELSE 0)
BY LeftMoves

LEMMA ConnectingUp ==
    ASSUME CacheTypes, NEW a \in Acts, NEW r \in DPlace, at' = [at EXCEPT ![a] = r], NEW s \in Sess,
           at[a].at # "connect", r.at = "connect"
    PROVE  NConnecting(s)' = NConnecting(s) + (IF r.s = s THEN 1 ELSE 0)
BY ConnectingMoves

LEMMA ConnectingDown ==
    ASSUME CacheTypes, NEW a \in Acts, NEW r \in DPlace, at' = [at EXCEPT ![a] = r], NEW s \in Sess,
           at[a].at = "connect", r.at # "connect"
    PROVE  NConnecting(s)' = NConnecting(s) - (IF at[a].s = s THEN 1 ELSE 0)
BY ConnectingMoves

LEMMA ConnectingSame ==
    ASSUME CacheTypes, NEW a \in Acts, NEW r \in DPlace, at' = [at EXCEPT ![a] = r], NEW s \in Sess,
           at[a].at # "connect", r.at # "connect"
    PROVE  NConnecting(s)' = NConnecting(s)
BY ConnectingMoves

LEMMA MadeSame ==
    ASSUME NEW s
    PROVE  /\ listed' = listed => NMade(s)' = NMade(s)
           /\ gone' = gone => NLeft(s)' = NLeft(s)
           /\ at' = at => NConnecting(s)' = NConnecting(s)
<1>1. /\ listed' = listed => DDevices!Made(s)' = DDevices!Made(s)
      /\ gone' = gone => DDevices!Left(s)' = DDevices!Left(s)
      /\ at' = at => DDevices!Connecting(s)' = DDevices!Connecting(s)
  BY DEF DDevices!Made, DDevices!Left, DDevices!Connecting, DDevices!Actors
<1>. QED  BY <1>1 DEF NMade, NLeft, NConnecting

\* A context's call goes on within the count, enters it, or leaves it.
LEMMA CountedMoves ==
    ASSUME CacheTypes, ThreadInv, NEW a \in Acts, NEW r \in DPlace, at' = [at EXCEPT ![a] = r]
    PROVE  /\ IsFiniteSet(Counted) /\ (count = 0 => Counted = {})
           /\ a = Ev => Counted' = Counted
           /\ (a \in Counted <=> r.at \in {"wait", "in", "unlist", "out"}) => Counted' = Counted
           /\ a \in DContexts /\ a \notin Counted /\ r.at \in {"wait", "in", "unlist", "out"} =>
                Cardinality(Counted') = count + 1
           /\ a \in Counted /\ r.at \notin {"wait", "in", "unlist", "out"} =>
                Cardinality(Counted') = count - 1
           /\ a \in Counted /\ count = 1 => Counted = {a}
<1>1. at'[a] = r /\ \A b \in Acts \ {a} : at'[b] = at[b]
  BY PlaceMoves DEF CacheTypes, DContextTypes
<1>2. IsFiniteSet(Counted) /\ count = Cardinality(Counted) /\ (count = 0 => Counted = {})
  BY FS_Subset, FS_EmptySet, DarwinDevicesAssumption DEF Counted, ThreadInv
<1>3. (a = Ev \/ (a \in Counted <=> r.at \in {"wait", "in", "unlist", "out"})) => Counted' = Counted
  <2>1. DContexts \subseteq Acts /\ Ev \notin DContexts
    BY ActsDiffer DEF Acts
  <2>. QED  BY <1>1, <2>1 DEF Counted
<1>4. ASSUME a \in DContexts, a \notin Counted, r.at \in {"wait", "in", "unlist", "out"}
      PROVE  Cardinality(Counted') = count + 1
  <2>1. Counted' = Counted \cup {a}
    BY <1>1, <1>4 DEF Counted, Acts
  <2>. QED  BY <2>1, <1>2, <1>4, FS_AddElement
<1>5. ASSUME a \in Counted, r.at \notin {"wait", "in", "unlist", "out"}
      PROVE  Cardinality(Counted') = count - 1
  <2>1. Counted' = Counted \ {a}
    BY <1>1, <1>5 DEF Counted, Acts
  <2>. QED  BY <2>1, <1>2, <1>5, FS_RemoveElement
<1>6. ASSUME a \in Counted, count = 1
      PROVE  Counted = {a}
  <2>1. Cardinality(Counted \ {a}) = 0 /\ IsFiniteSet(Counted \ {a})
    <3>1. Cardinality(Counted \ {a}) = Cardinality(Counted) - 1 /\ IsFiniteSet(Counted \ {a})
      BY <1>2, <1>6, FS_RemoveElement
    <3>. QED  BY <3>1, <1>2, <1>6
  <2>2. Counted \ {a} = {}
    BY <2>1, FS_EmptySet
  <2>. QED  BY <2>2, <1>6
<1>. QED  BY <1>2, <1>3, <1>4, <1>5, <1>6

\* The bus.
LEMMA PlugStep ==
    ASSUME DDevicesInv,
           odd = {},
           DDevices!Plug
    PROVE  DDevicesInv'
<1>1. CacheTypes /\ SessionInv /\ ContextInv /\ EvInv /\ ThreadInv /\ CountInv /\ OnceInv /\ ArrivalInv /\ RemovalInv
  BY DEF DDevicesInv, ExactInv
<1>2. Ev \notin DContexts /\ "free" \notin DContexts /\ Acts = DContexts \cup {Ev}
  BY ActsDiffer DEF Acts
<1>. USE DEF CacheTypes
<1>3. /\ dplugs < MaxSessions /\ bus' = bus \cup {dplugs + 1} /\ dplugs' = dplugs + 1
      /\ added' = added \cup {dplugs + 1} /\ removed' = removed /\ rc' = rc /\ good' = good
      /\ count' = count /\ thread' = thread /\ active' = active /\ inits' = inits
      /\ lock' = lock /\ listed' = listed /\ dheld' = dheld /\ gone' = gone
      /\ unseen' = unseen /\ missed' = missed /\ dfailed' = dfailed /\ odd' = odd
      /\ at' = at
  BY <1>1, <1>2, PlaceRead, IdleRead DEF DDevices!Plug, DDevices!busVars, DDevices!histVars, DDevices!Sessions, DDevices!Actors, DDevices!Ev, DDevices!Free, DDevices!Place, DDevices!Idle, DDevices!Back, DDevices!Deref, DDevices!HandlerRuns, DDevices!Running, DDevices!StartsThread, Ev, Acts, Sess, DContextTypes
<1>11. DBusTypes'
  BY <1>1, <1>2, <1>3, BoundsAreNumbers DEF DBusTypes, DListTypes, Sess
<1>12. DContextTypes'
  <2>1. count' \in Nat
    BY <1>1, <1>3 DEF DContextTypes
  <2>2. inits' \in 0..MaxInits
    BY <1>1, <1>3, BoundsAreNumbers DEF DContextTypes
  <2>. QED  BY <2>1, <2>2, <1>1, <1>2, <1>3 DEF DContextTypes
<1>13. DListTypes'
  BY <1>1, <1>2, <1>3 DEF DListTypes, DBusTypes, DContextTypes
<1>14. SessionInv'
  BY <1>1, <1>2, <1>3 DEF SessionInv, EvInv, DBusTypes, DListTypes
<1>15. ContextInv'
  BY <1>1, <1>2, <1>3, TodosMade DEF ContextInv, DListTypes, DContextTypes, DBusTypes, EvInv, Locking, Scanning, Finding
<1>16. EvInv'
  BY <1>1, <1>2, <1>3 DEF EvInv, ContextInv, DContextTypes, Adding, Finding, Locking
<1>17. ThreadInv'
  BY <1>1, <1>2, <1>3 DEF ThreadInv, Counted
<1>18. ASSUME odd' = {}
      PROVE  CountInv'
  <2>. SUFFICES ASSUME NEW u \in Sess
                PROVE  (rc[u] = NMade(u) + NLeft(u) + NConnecting(u) + Kept(u))'
    BY DEF CountInv
  <2>1. NMade(u) \in Nat /\ NLeft(u) \in Nat /\ NConnecting(u) \in Nat /\ rc[u] \in Nat
    BY <1>1, MadeFinite DEF DListTypes
  <2>0. NMade(u)' \in Nat /\ NLeft(u)' \in Nat /\ NConnecting(u)' \in Nat
    BY MadeFiniteNext
  <2>2. rc[u] = NMade(u) + NLeft(u) + NConnecting(u) + Kept(u)
    BY <1>1 DEF CountInv
  <2>3. NMade(u)' = NMade(u)
    BY <1>3, MadeSame
  <2>4. NLeft(u)' = NLeft(u)
    BY <1>3, MadeSame
  <2>5. NConnecting(u)' = NConnecting(u)
    BY <1>3, MadeSame
  <2>. QED  BY <2>0, <2>1, <2>2, <2>3, <2>4, <2>5, <1>1, <1>2, <1>3 DEF Kept, SessionInv, DListTypes, DBusTypes
<1>19. ASSUME odd' = {}
      PROVE  OnceInv'
  BY <1>1, <1>2, <1>3, <1>19 DEF OnceInv, DListTypes, DBusTypes, ContextInv
<1>20. ASSUME odd' = {}
      PROVE  ArrivalInv'
  BY <1>1, <1>2, <1>3, <1>20 DEF ArrivalInv, OnceInv, EvPending, OwnPending, DBusTypes, DListTypes, SessionInv, ContextInv, EvInv, Adding, Scanning, Finding, Locking
<1>21. ASSUME odd' = {}
      PROVE  RemovalInv'
  BY <1>1, <1>2, <1>3, <1>21 DEF RemovalInv, OnceInv, DBusTypes, DListTypes, SessionInv, ContextInv, EvInv, Adding, Scanning, Finding, Locking
<1>. QED
  BY <1>11, <1>12, <1>13, <1>14, <1>15, <1>16, <1>17, <1>18, <1>19, <1>20, <1>21
  DEF DDevicesInv, ExactInv

LEMMA UnplugStep ==
    ASSUME DDevicesInv,
           odd = {},
           NEW s \in Sess,
           DDevices!Unplug(s)
    PROVE  DDevicesInv'
<1>1. CacheTypes /\ SessionInv /\ ContextInv /\ EvInv /\ ThreadInv /\ CountInv /\ OnceInv /\ ArrivalInv /\ RemovalInv
  BY DEF DDevicesInv, ExactInv
<1>2. Ev \notin DContexts /\ "free" \notin DContexts /\ Acts = DContexts \cup {Ev}
  BY ActsDiffer DEF Acts
<1>. USE DEF CacheTypes
<1>3. /\ s \in bus /\ bus' = bus \ {s} /\ dplugs' = dplugs /\ added' = added
      /\ removed' = removed \cup {s} /\ rc' = rc /\ good' = good /\ count' = count
      /\ thread' = thread /\ active' = active /\ inits' = inits /\ lock' = lock
      /\ listed' = listed /\ dheld' = dheld /\ gone' = gone /\ unseen' = unseen
      /\ missed' = missed /\ dfailed' = dfailed /\ odd' = odd /\ at' = at
  BY <1>1, <1>2, PlaceRead, IdleRead DEF DDevices!Unplug, DDevices!busVars, DDevices!histVars, DDevices!Sessions, DDevices!Actors, DDevices!Ev, DDevices!Free, DDevices!Place, DDevices!Idle, DDevices!Back, DDevices!Deref, DDevices!HandlerRuns, DDevices!Running, DDevices!StartsThread, Ev, Acts, Sess, DContextTypes
<1>11. DBusTypes'
  BY <1>1, <1>2, <1>3, BoundsAreNumbers DEF DBusTypes, DListTypes, Sess
<1>12. DContextTypes'
  <2>1. count' \in Nat
    BY <1>1, <1>3 DEF DContextTypes
  <2>2. inits' \in 0..MaxInits
    BY <1>1, <1>3, BoundsAreNumbers DEF DContextTypes
  <2>. QED  BY <2>1, <2>2, <1>1, <1>2, <1>3 DEF DContextTypes
<1>13. DListTypes'
  BY <1>1, <1>2, <1>3 DEF DListTypes, DBusTypes, DContextTypes
<1>14. SessionInv'
  BY <1>1, <1>2, <1>3 DEF SessionInv, EvInv, DBusTypes, DListTypes
<1>15. ContextInv'
  BY <1>1, <1>2, <1>3, TodosMade DEF ContextInv, DListTypes, DContextTypes, DBusTypes, EvInv, Locking, Scanning, Finding
<1>16. EvInv'
  BY <1>1, <1>2, <1>3 DEF EvInv, ContextInv, DContextTypes, Adding, Finding, Locking
<1>17. ThreadInv'
  BY <1>1, <1>2, <1>3 DEF ThreadInv, Counted
<1>18. ASSUME odd' = {}
      PROVE  CountInv'
  <2>. SUFFICES ASSUME NEW u \in Sess
                PROVE  (rc[u] = NMade(u) + NLeft(u) + NConnecting(u) + Kept(u))'
    BY DEF CountInv
  <2>1. NMade(u) \in Nat /\ NLeft(u) \in Nat /\ NConnecting(u) \in Nat /\ rc[u] \in Nat
    BY <1>1, MadeFinite DEF DListTypes
  <2>0. NMade(u)' \in Nat /\ NLeft(u)' \in Nat /\ NConnecting(u)' \in Nat
    BY MadeFiniteNext
  <2>2. rc[u] = NMade(u) + NLeft(u) + NConnecting(u) + Kept(u)
    BY <1>1 DEF CountInv
  <2>3. NMade(u)' = NMade(u)
    BY <1>3, MadeSame
  <2>4. NLeft(u)' = NLeft(u)
    BY <1>3, MadeSame
  <2>5. NConnecting(u)' = NConnecting(u)
    BY <1>3, MadeSame
  <2>. QED  BY <2>0, <2>1, <2>2, <2>3, <2>4, <2>5, <1>1, <1>2, <1>3 DEF Kept, SessionInv, DListTypes, DBusTypes
<1>19. ASSUME odd' = {}
      PROVE  OnceInv'
  BY <1>1, <1>2, <1>3, <1>19 DEF OnceInv, DListTypes, DBusTypes, ContextInv
<1>20. ASSUME odd' = {}
      PROVE  ArrivalInv'
  BY <1>1, <1>2, <1>3, <1>20 DEF ArrivalInv, OnceInv, EvPending, OwnPending, DBusTypes, DListTypes, SessionInv, ContextInv, EvInv, Adding, Scanning, Finding, Locking
<1>21. ASSUME odd' = {}
      PROVE  RemovalInv'
  BY <1>1, <1>2, <1>3, <1>21 DEF RemovalInv, OnceInv, DBusTypes, DListTypes, SessionInv, ContextInv, EvInv, Adding, Scanning, Finding, Locking
<1>. QED
  BY <1>11, <1>12, <1>13, <1>14, <1>15, <1>16, <1>17, <1>18, <1>19, <1>20, <1>21
  DEF DDevicesInv, ExactInv

LEMMA BeginInitStep ==
    ASSUME DDevicesInv,
           odd = {},
           NEW c \in DContexts,
           DDevices!BeginInit(c)
    PROVE  DDevicesInv'
<1>. DEFINE r == [at |-> "scan", todo |-> bus, s |-> 0, c |-> "free"]
<1>1. CacheTypes /\ SessionInv /\ ContextInv /\ EvInv /\ ThreadInv /\ CountInv /\ OnceInv /\ ArrivalInv /\ RemovalInv
  BY DEF DDevicesInv, ExactInv
<1>2. Ev \notin DContexts /\ "free" \notin DContexts /\ Acts = DContexts \cup {Ev}
  BY ActsDiffer DEF Acts
<1>. USE DEF CacheTypes
<1>3. /\ at[c].at = "idle" /\ at[Ev].at = "idle" /\ lock = "free" /\ inits < MaxInits
      /\ bus' = bus /\ dplugs' = dplugs
      /\ ((thread = "none" => added' = {}) /\ (thread # "none" => added' = added))
      /\ ((thread = "none" => removed' = {}) /\ (thread # "none" => removed' = removed))
      /\ rc' = rc /\ good' = good /\ count' = count /\ thread' = thread
      /\ active' = active \cup {c} /\ inits' = inits + 1 /\ lock' = c /\ listed' = listed
      /\ dheld' = dheld /\ gone' = gone /\ unseen' = unseen
      /\ ((thread = "none" => missed' = missed \cup removed) /\ (thread # "none" => missed' = missed))
      /\ dfailed' = dfailed /\ odd' = odd /\ at' = [at EXCEPT ![c] = r]
  BY <1>1, <1>2, PlaceRead, IdleRead DEF DDevices!BeginInit, DDevices!busVars, DDevices!histVars, DDevices!Sessions, DDevices!Actors, DDevices!Ev, DDevices!Free, DDevices!Place, DDevices!Idle, DDevices!Back, DDevices!Deref, DDevices!HandlerRuns, DDevices!Running, DDevices!StartsThread, Ev, Acts, Sess, DContextTypes
<1>4. r \in DPlace /\ r.at = "scan" /\ r.todo = bus /\ r.s = 0 /\ r.c = "free"
  <2>1. "scan" \in Places
    BY <1>1, <1>2, <1>3 DEF Places
  <2>2. bus \in Todos
    BY <1>1, <1>2, <1>3, TodosMade, PlaceRead DEF DContextTypes, DBusTypes
  <2>3. 0 \in 0..MaxSessions
    BY BoundsAreNumbers
  <2>4. "free" \in DContexts \cup {"free"}
    BY <1>1, <1>2, <1>3, PlaceRead DEF DContextTypes
  <2>. QED  BY Zenon, <2>1, <2>2, <2>3, <2>4, PlaceMade
<1>. HIDE DEF r
<1>5. c \in Acts
  BY <1>2, <1>3
<1>6. at' \in [Acts -> DPlace] /\ at'[c] = r /\ \A b \in Acts \ {c} : at'[b] = at[b]
  BY <1>1, <1>3, <1>4, <1>5, PlaceMoves DEF DContextTypes
<1>8. r \in DPlace /\ at' = [at EXCEPT ![c] = r]
  BY <1>3, <1>4
<1>11. DBusTypes'
  BY <1>1, <1>2, <1>3, <1>4, <1>5, <1>6, BoundsAreNumbers DEF DBusTypes, DListTypes, Sess
<1>12. DContextTypes'
  <2>1. count' \in Nat
    BY <1>1, <1>3 DEF DContextTypes
  <2>2. inits' \in 0..MaxInits
    BY <1>1, <1>3, BoundsAreNumbers DEF DContextTypes
  <2>. QED  BY <2>1, <2>2, <1>1, <1>2, <1>3, <1>4, <1>5, <1>6 DEF DContextTypes
<1>13. DListTypes'
  BY <1>1, <1>2, <1>3, <1>4, <1>5, <1>6 DEF DListTypes, DBusTypes, DContextTypes
<1>14. SessionInv'
  BY <1>1, <1>2, <1>3, <1>4, <1>5, <1>6 DEF SessionInv, EvInv, DBusTypes, DListTypes
<1>15. ContextInv'
  BY <1>1, <1>2, <1>3, <1>4, <1>5, <1>6, TodosMade DEF ContextInv, DListTypes, DContextTypes, DBusTypes, EvInv, Locking, Scanning, Finding
<1>16. EvInv'
  BY <1>1, <1>2, <1>3, <1>4, <1>5, <1>6 DEF EvInv, ContextInv, DContextTypes, Adding, Finding, Locking
<1>17. ThreadInv'
  <2>1. Counted' = Counted
    BY <1>1, <1>2, <1>3, <1>4, <1>5, <1>6, CountedMoves DEF Counted
  <2>. QED  BY <2>1, <1>1, <1>2, <1>3, <1>4, <1>5, <1>6 DEF ThreadInv, ContextInv, Locking, DContextTypes
<1>18. ASSUME odd' = {}
      PROVE  CountInv'
  <2>. SUFFICES ASSUME NEW u \in Sess
                PROVE  (rc[u] = NMade(u) + NLeft(u) + NConnecting(u) + Kept(u))'
    BY DEF CountInv
  <2>1. NMade(u) \in Nat /\ NLeft(u) \in Nat /\ NConnecting(u) \in Nat /\ rc[u] \in Nat
    BY <1>1, MadeFinite DEF DListTypes
  <2>0. NMade(u)' \in Nat /\ NLeft(u)' \in Nat /\ NConnecting(u)' \in Nat
    BY MadeFiniteNext
  <2>2. rc[u] = NMade(u) + NLeft(u) + NConnecting(u) + Kept(u)
    BY <1>1 DEF CountInv
  <2>3. NMade(u)' = NMade(u)
    BY <1>3, MadeSame
  <2>4. NLeft(u)' = NLeft(u)
    BY <1>3, MadeSame
  <2>5. NConnecting(u)' = NConnecting(u)
    <3>1. at[c].at # "connect" /\ r.at # "connect"
      BY <1>3, <1>4
    <3>. QED  BY <3>1, <1>1, <1>5, <1>8, ConnectingSame
  <2>. QED  BY <2>0, <2>1, <2>2, <2>3, <2>4, <2>5, <1>1, <1>2, <1>3, <1>4, <1>5, <1>6 DEF Kept, SessionInv, DListTypes, DBusTypes
<1>19. ASSUME odd' = {}
      PROVE  OnceInv'
  BY <1>1, <1>2, <1>3, <1>4, <1>5, <1>6, <1>19 DEF OnceInv, DListTypes, DBusTypes, ContextInv
<1>20. ASSUME odd' = {}
      PROVE  ArrivalInv'
  BY <1>1, <1>2, <1>3, <1>4, <1>5, <1>6, <1>20 DEF ArrivalInv, OnceInv, EvPending, OwnPending, DBusTypes, DListTypes, SessionInv, ContextInv, EvInv, Adding, Scanning, Finding, Locking
<1>21. ASSUME odd' = {}
      PROVE  RemovalInv'
  BY <1>1, <1>2, <1>3, <1>4, <1>5, <1>6, <1>21 DEF RemovalInv, OnceInv, DBusTypes, DListTypes, SessionInv, ContextInv, EvInv, Adding, Scanning, Finding, Locking
<1>. QED
  BY <1>11, <1>12, <1>13, <1>14, <1>15, <1>16, <1>17, <1>18, <1>19, <1>20, <1>21
  DEF DDevicesInv, ExactInv

LEMMA ScanFailsStep ==
    ASSUME DDevicesInv,
           odd = {},
           NEW c \in DContexts,
           DDevices!ScanFails(c)
    PROVE  DDevicesInv'
<1>. DEFINE r == [at |-> "idle", todo |-> {}, s |-> 0, c |-> "free"]
<1>1. CacheTypes /\ SessionInv /\ ContextInv /\ EvInv /\ ThreadInv /\ CountInv /\ OnceInv /\ ArrivalInv /\ RemovalInv
  BY DEF DDevicesInv, ExactInv
<1>2. Ev \notin DContexts /\ "free" \notin DContexts /\ Acts = DContexts \cup {Ev}
  BY ActsDiffer DEF Acts
<1>. USE DEF CacheTypes
<1>3. /\ at[c].at = "scan" /\ at[Ev].at = "idle" /\ (\A s \in Sess : listed[c][s] = 0)
      /\ bus' = bus /\ dplugs' = dplugs /\ added' = added /\ removed' = removed /\ rc' = rc
      /\ good' = good /\ count' = count /\ thread' = thread /\ active' = active \ {c}
      /\ inits' = inits /\ lock' = "free" /\ listed' = listed /\ dheld' = dheld
      /\ gone' = gone /\ unseen' = unseen /\ missed' = missed /\ dfailed' = dfailed
      /\ odd' = odd /\ at' = [at EXCEPT ![c] = r]
  BY <1>1, <1>2, PlaceRead, IdleRead DEF DDevices!ScanFails, DDevices!busVars, DDevices!histVars, DDevices!Sessions, DDevices!Actors, DDevices!Ev, DDevices!Free, DDevices!Place, DDevices!Idle, DDevices!Back, DDevices!Deref, DDevices!HandlerRuns, DDevices!Running, DDevices!StartsThread, Ev, Acts, Sess, DContextTypes
<1>4. r \in DPlace /\ r.at = "idle" /\ r.todo = {} /\ r.s = 0 /\ r.c = "free"
  <2>1. "idle" \in Places
    BY <1>1, <1>2, <1>3 DEF Places
  <2>2. {} \in Todos
    BY <1>1, <1>2, <1>3, TodosMade, PlaceRead DEF DContextTypes, DBusTypes
  <2>3. 0 \in 0..MaxSessions
    BY BoundsAreNumbers
  <2>4. "free" \in DContexts \cup {"free"}
    BY <1>1, <1>2, <1>3, PlaceRead DEF DContextTypes
  <2>. QED  BY Zenon, <2>1, <2>2, <2>3, <2>4, PlaceMade
<1>. HIDE DEF r
<1>5. c \in Acts
  BY <1>2, <1>3
<1>6. at' \in [Acts -> DPlace] /\ at'[c] = r /\ \A b \in Acts \ {c} : at'[b] = at[b]
  BY <1>1, <1>3, <1>4, <1>5, PlaceMoves DEF DContextTypes
<1>8. r \in DPlace /\ at' = [at EXCEPT ![c] = r]
  BY <1>3, <1>4
<1>11. DBusTypes'
  BY <1>1, <1>2, <1>3, <1>4, <1>5, <1>6, BoundsAreNumbers DEF DBusTypes, DListTypes, Sess
<1>12. DContextTypes'
  <2>1. count' \in Nat
    BY <1>1, <1>3 DEF DContextTypes
  <2>2. inits' \in 0..MaxInits
    BY <1>1, <1>3, BoundsAreNumbers DEF DContextTypes
  <2>. QED  BY <2>1, <2>2, <1>1, <1>2, <1>3, <1>4, <1>5, <1>6 DEF DContextTypes
<1>13. DListTypes'
  BY <1>1, <1>2, <1>3, <1>4, <1>5, <1>6 DEF DListTypes, DBusTypes, DContextTypes
<1>14. SessionInv'
  BY <1>1, <1>2, <1>3, <1>4, <1>5, <1>6 DEF SessionInv, EvInv, DBusTypes, DListTypes
<1>15. ContextInv'
  BY <1>1, <1>2, <1>3, <1>4, <1>5, <1>6, TodosMade DEF ContextInv, DListTypes, DContextTypes, DBusTypes, EvInv, Locking, Scanning, Finding
<1>16. EvInv'
  BY <1>1, <1>2, <1>3, <1>4, <1>5, <1>6 DEF EvInv, ContextInv, DContextTypes, Adding, Finding, Locking
<1>17. ThreadInv'
  <2>1. Counted' = Counted
    BY <1>1, <1>2, <1>3, <1>4, <1>5, <1>6, CountedMoves DEF Counted
  <2>. QED  BY <2>1, <1>1, <1>2, <1>3, <1>4, <1>5, <1>6 DEF ThreadInv, ContextInv, Locking, DContextTypes
<1>18. ASSUME odd' = {}
      PROVE  CountInv'
  <2>. SUFFICES ASSUME NEW u \in Sess
                PROVE  (rc[u] = NMade(u) + NLeft(u) + NConnecting(u) + Kept(u))'
    BY DEF CountInv
  <2>1. NMade(u) \in Nat /\ NLeft(u) \in Nat /\ NConnecting(u) \in Nat /\ rc[u] \in Nat
    BY <1>1, MadeFinite DEF DListTypes
  <2>0. NMade(u)' \in Nat /\ NLeft(u)' \in Nat /\ NConnecting(u)' \in Nat
    BY MadeFiniteNext
  <2>2. rc[u] = NMade(u) + NLeft(u) + NConnecting(u) + Kept(u)
    BY <1>1 DEF CountInv
  <2>3. NMade(u)' = NMade(u)
    BY <1>3, MadeSame
  <2>4. NLeft(u)' = NLeft(u)
    BY <1>3, MadeSame
  <2>5. NConnecting(u)' = NConnecting(u)
    <3>1. at[c].at # "connect" /\ r.at # "connect"
      BY <1>3, <1>4
    <3>. QED  BY <3>1, <1>1, <1>5, <1>8, ConnectingSame
  <2>. QED  BY <2>0, <2>1, <2>2, <2>3, <2>4, <2>5, <1>1, <1>2, <1>3, <1>4, <1>5, <1>6 DEF Kept, SessionInv, DListTypes, DBusTypes
<1>19. ASSUME odd' = {}
      PROVE  OnceInv'
  BY <1>1, <1>2, <1>3, <1>4, <1>5, <1>6, <1>19 DEF OnceInv, DListTypes, DBusTypes, ContextInv
<1>20. ASSUME odd' = {}
      PROVE  ArrivalInv'
  BY <1>1, <1>2, <1>3, <1>4, <1>5, <1>6, <1>20 DEF ArrivalInv, OnceInv, EvPending, OwnPending, DBusTypes, DListTypes, SessionInv, ContextInv, EvInv, Adding, Scanning, Finding, Locking
<1>21. ASSUME odd' = {}
      PROVE  RemovalInv'
  BY <1>1, <1>2, <1>3, <1>4, <1>5, <1>6, <1>21 DEF RemovalInv, OnceInv, DBusTypes, DListTypes, SessionInv, ContextInv, EvInv, Adding, Scanning, Finding, Locking
<1>. QED
  BY <1>11, <1>12, <1>13, <1>14, <1>15, <1>16, <1>17, <1>18, <1>19, <1>20, <1>21
  DEF DDevicesInv, ExactInv

LEMMA StartedFirst ==
    ASSUME DDevicesInv,
           odd = {},
           NEW c \in DContexts,
           count = 0,
           DDevices!Started(c)
    PROVE  DDevicesInv'
<1>. DEFINE r == [at |-> "wait", todo |-> {}, s |-> 0, c |-> "free"]
<1>1. CacheTypes /\ SessionInv /\ ContextInv /\ EvInv /\ ThreadInv /\ CountInv /\ OnceInv /\ ArrivalInv /\ RemovalInv
  BY DEF DDevicesInv, ExactInv
<1>2. Ev \notin DContexts /\ "free" \notin DContexts /\ Acts = DContexts \cup {Ev}
  BY ActsDiffer DEF Acts
<1>. USE DEF CacheTypes
<1>3. /\ at[c].at = "scan" /\ at[c].todo = {} /\ thread = "none" /\ bus' = bus
      /\ dplugs' = dplugs /\ added' = added /\ removed' = removed /\ rc' = rc
      /\ good' = good /\ count' = count + 1 /\ thread' = "arming" /\ active' = active
      /\ inits' = inits /\ lock' = lock /\ listed' = listed /\ dheld' = dheld
      /\ gone' = gone /\ unseen' = unseen /\ missed' = missed /\ dfailed' = dfailed
      /\ odd' = odd /\ at' = [at EXCEPT ![c] = r]
  BY <1>1, <1>2, PlaceRead, IdleRead DEF DDevices!Started, DDevices!busVars, DDevices!histVars, DDevices!Sessions, DDevices!Actors, DDevices!Ev, DDevices!Free, DDevices!Place, DDevices!Idle, DDevices!Back, DDevices!Deref, DDevices!HandlerRuns, DDevices!Running, DDevices!StartsThread, Ev, Acts, Sess, DContextTypes
<1>4. r \in DPlace /\ r.at = "wait" /\ r.todo = {} /\ r.s = 0 /\ r.c = "free"
  <2>1. "wait" \in Places
    BY <1>1, <1>2, <1>3 DEF Places
  <2>2. {} \in Todos
    BY <1>1, <1>2, <1>3, TodosMade, PlaceRead DEF DContextTypes, DBusTypes
  <2>3. 0 \in 0..MaxSessions
    BY BoundsAreNumbers
  <2>4. "free" \in DContexts \cup {"free"}
    BY <1>1, <1>2, <1>3, PlaceRead DEF DContextTypes
  <2>. QED  BY Zenon, <2>1, <2>2, <2>3, <2>4, PlaceMade
<1>. HIDE DEF r
<1>5. c \in Acts
  BY <1>2, <1>3
<1>6. at' \in [Acts -> DPlace] /\ at'[c] = r /\ \A b \in Acts \ {c} : at'[b] = at[b]
  BY <1>1, <1>3, <1>4, <1>5, PlaceMoves DEF DContextTypes
<1>8. r \in DPlace /\ at' = [at EXCEPT ![c] = r]
  BY <1>3, <1>4
<1>11. DBusTypes'
  BY <1>1, <1>2, <1>3, <1>4, <1>5, <1>6, BoundsAreNumbers DEF DBusTypes, DListTypes, Sess
<1>12. DContextTypes'
  <2>1. count' \in Nat
    BY <1>1, <1>3 DEF DContextTypes
  <2>2. inits' \in 0..MaxInits
    BY <1>1, <1>3, BoundsAreNumbers DEF DContextTypes
  <2>. QED  BY <2>1, <2>2, <1>1, <1>2, <1>3, <1>4, <1>5, <1>6 DEF DContextTypes
<1>13. DListTypes'
  BY <1>1, <1>2, <1>3, <1>4, <1>5, <1>6 DEF DListTypes, DBusTypes, DContextTypes
<1>14. SessionInv'
  BY <1>1, <1>2, <1>3, <1>4, <1>5, <1>6 DEF SessionInv, EvInv, DBusTypes, DListTypes
<1>15. ContextInv'
  BY <1>1, <1>2, <1>3, <1>4, <1>5, <1>6, TodosMade DEF ContextInv, DListTypes, DContextTypes, DBusTypes, EvInv, Locking, Scanning, Finding
<1>16. EvInv'
  BY <1>1, <1>2, <1>3, <1>4, <1>5, <1>6 DEF EvInv, ContextInv, DContextTypes, Adding, Finding, Locking
<1>17. ThreadInv'
  <2>1. Cardinality(Counted') = count + 1
    BY <1>1, <1>2, <1>3, <1>4, <1>5, <1>6, CountedMoves DEF Counted, ContextInv, Locking
  <2>. QED  BY <2>1, <1>1, <1>2, <1>3, <1>4, <1>5, <1>6 DEF ThreadInv, ContextInv, Locking, DContextTypes
<1>18. ASSUME odd' = {}
      PROVE  CountInv'
  <2>. SUFFICES ASSUME NEW u \in Sess
                PROVE  (rc[u] = NMade(u) + NLeft(u) + NConnecting(u) + Kept(u))'
    BY DEF CountInv
  <2>1. NMade(u) \in Nat /\ NLeft(u) \in Nat /\ NConnecting(u) \in Nat /\ rc[u] \in Nat
    BY <1>1, MadeFinite DEF DListTypes
  <2>0. NMade(u)' \in Nat /\ NLeft(u)' \in Nat /\ NConnecting(u)' \in Nat
    BY MadeFiniteNext
  <2>2. rc[u] = NMade(u) + NLeft(u) + NConnecting(u) + Kept(u)
    BY <1>1 DEF CountInv
  <2>3. NMade(u)' = NMade(u)
    BY <1>3, MadeSame
  <2>4. NLeft(u)' = NLeft(u)
    BY <1>3, MadeSame
  <2>5. NConnecting(u)' = NConnecting(u)
    <3>1. at[c].at # "connect" /\ r.at # "connect"
      BY <1>3, <1>4
    <3>. QED  BY <3>1, <1>1, <1>5, <1>8, ConnectingSame
  <2>. QED  BY <2>0, <2>1, <2>2, <2>3, <2>4, <2>5, <1>1, <1>2, <1>3, <1>4, <1>5, <1>6 DEF Kept, SessionInv, DListTypes, DBusTypes
<1>19. ASSUME odd' = {}
      PROVE  OnceInv'
  BY <1>1, <1>2, <1>3, <1>4, <1>5, <1>6, <1>19 DEF OnceInv, DListTypes, DBusTypes, ContextInv
<1>20. ASSUME odd' = {}
      PROVE  ArrivalInv'
  BY <1>1, <1>2, <1>3, <1>4, <1>5, <1>6, <1>20 DEF ArrivalInv, OnceInv, EvPending, OwnPending, DBusTypes, DListTypes, SessionInv, ContextInv, EvInv, Adding, Scanning, Finding, Locking
<1>21. ASSUME odd' = {}
      PROVE  RemovalInv'
  BY <1>1, <1>2, <1>3, <1>4, <1>5, <1>6, <1>21 DEF RemovalInv, OnceInv, DBusTypes, DListTypes, SessionInv, ContextInv, EvInv, Adding, Scanning, Finding, Locking
<1>. QED
  BY <1>11, <1>12, <1>13, <1>14, <1>15, <1>16, <1>17, <1>18, <1>19, <1>20, <1>21
  DEF DDevicesInv, ExactInv

LEMMA StartedMore ==
    ASSUME DDevicesInv,
           odd = {},
           NEW c \in DContexts,
           count # 0,
           DDevices!Started(c)
    PROVE  DDevicesInv'
<1>. DEFINE r == [at |-> "in", todo |-> {}, s |-> 0, c |-> "free"]
<1>1. CacheTypes /\ SessionInv /\ ContextInv /\ EvInv /\ ThreadInv /\ CountInv /\ OnceInv /\ ArrivalInv /\ RemovalInv
  BY DEF DDevicesInv, ExactInv
<1>2. Ev \notin DContexts /\ "free" \notin DContexts /\ Acts = DContexts \cup {Ev}
  BY ActsDiffer DEF Acts
<1>. USE DEF CacheTypes
<1>3. /\ at[c].at = "scan" /\ at[c].todo = {} /\ bus' = bus /\ dplugs' = dplugs
      /\ added' = added /\ removed' = removed /\ rc' = rc /\ good' = good
      /\ count' = count + 1 /\ thread' = thread /\ active' = active /\ inits' = inits
      /\ lock' = "free" /\ listed' = listed /\ dheld' = dheld /\ gone' = gone
      /\ unseen' = unseen /\ missed' = missed /\ dfailed' = dfailed /\ odd' = odd
      /\ at' = [at EXCEPT ![c] = r]
  BY <1>1, <1>2, PlaceRead, IdleRead DEF DDevices!Started, DDevices!busVars, DDevices!histVars, DDevices!Sessions, DDevices!Actors, DDevices!Ev, DDevices!Free, DDevices!Place, DDevices!Idle, DDevices!Back, DDevices!Deref, DDevices!HandlerRuns, DDevices!Running, DDevices!StartsThread, Ev, Acts, Sess, DContextTypes
<1>4. r \in DPlace /\ r.at = "in" /\ r.todo = {} /\ r.s = 0 /\ r.c = "free"
  <2>1. "in" \in Places
    BY <1>1, <1>2, <1>3 DEF Places
  <2>2. {} \in Todos
    BY <1>1, <1>2, <1>3, TodosMade, PlaceRead DEF DContextTypes, DBusTypes
  <2>3. 0 \in 0..MaxSessions
    BY BoundsAreNumbers
  <2>4. "free" \in DContexts \cup {"free"}
    BY <1>1, <1>2, <1>3, PlaceRead DEF DContextTypes
  <2>. QED  BY Zenon, <2>1, <2>2, <2>3, <2>4, PlaceMade
<1>. HIDE DEF r
<1>5. c \in Acts
  BY <1>2, <1>3
<1>6. at' \in [Acts -> DPlace] /\ at'[c] = r /\ \A b \in Acts \ {c} : at'[b] = at[b]
  BY <1>1, <1>3, <1>4, <1>5, PlaceMoves DEF DContextTypes
<1>8. r \in DPlace /\ at' = [at EXCEPT ![c] = r]
  BY <1>3, <1>4
<1>11. DBusTypes'
  BY <1>1, <1>2, <1>3, <1>4, <1>5, <1>6, BoundsAreNumbers DEF DBusTypes, DListTypes, Sess
<1>12. DContextTypes'
  <2>1. count' \in Nat
    BY <1>1, <1>3 DEF DContextTypes
  <2>2. inits' \in 0..MaxInits
    BY <1>1, <1>3, BoundsAreNumbers DEF DContextTypes
  <2>. QED  BY <2>1, <2>2, <1>1, <1>2, <1>3, <1>4, <1>5, <1>6 DEF DContextTypes
<1>13. DListTypes'
  BY <1>1, <1>2, <1>3, <1>4, <1>5, <1>6 DEF DListTypes, DBusTypes, DContextTypes
<1>14. SessionInv'
  BY <1>1, <1>2, <1>3, <1>4, <1>5, <1>6 DEF SessionInv, EvInv, DBusTypes, DListTypes
<1>15. ContextInv'
  BY <1>1, <1>2, <1>3, <1>4, <1>5, <1>6, TodosMade DEF ContextInv, ThreadInv, DListTypes, DContextTypes, DBusTypes, EvInv, Locking, Scanning, Finding
<1>16. EvInv'
  BY <1>1, <1>2, <1>3, <1>4, <1>5, <1>6 DEF EvInv, ContextInv, DContextTypes, Adding, Finding, Locking
<1>17. ThreadInv'
  <2>1. Cardinality(Counted') = count + 1
    BY <1>1, <1>2, <1>3, <1>4, <1>5, <1>6, CountedMoves DEF Counted, ContextInv, Locking
  <2>. QED  BY <2>1, <1>1, <1>2, <1>3, <1>4, <1>5, <1>6 DEF ThreadInv, ContextInv, Locking, DContextTypes
<1>18. ASSUME odd' = {}
      PROVE  CountInv'
  <2>. SUFFICES ASSUME NEW u \in Sess
                PROVE  (rc[u] = NMade(u) + NLeft(u) + NConnecting(u) + Kept(u))'
    BY DEF CountInv
  <2>1. NMade(u) \in Nat /\ NLeft(u) \in Nat /\ NConnecting(u) \in Nat /\ rc[u] \in Nat
    BY <1>1, MadeFinite DEF DListTypes
  <2>0. NMade(u)' \in Nat /\ NLeft(u)' \in Nat /\ NConnecting(u)' \in Nat
    BY MadeFiniteNext
  <2>2. rc[u] = NMade(u) + NLeft(u) + NConnecting(u) + Kept(u)
    BY <1>1 DEF CountInv
  <2>3. NMade(u)' = NMade(u)
    BY <1>3, MadeSame
  <2>4. NLeft(u)' = NLeft(u)
    BY <1>3, MadeSame
  <2>5. NConnecting(u)' = NConnecting(u)
    <3>1. at[c].at # "connect" /\ r.at # "connect"
      BY <1>3, <1>4
    <3>. QED  BY <3>1, <1>1, <1>5, <1>8, ConnectingSame
  <2>. QED  BY <2>0, <2>1, <2>2, <2>3, <2>4, <2>5, <1>1, <1>2, <1>3, <1>4, <1>5, <1>6 DEF Kept, SessionInv, DListTypes, DBusTypes
<1>19. ASSUME odd' = {}
      PROVE  OnceInv'
  BY <1>1, <1>2, <1>3, <1>4, <1>5, <1>6, <1>19 DEF OnceInv, DListTypes, DBusTypes, ContextInv
<1>20. ASSUME odd' = {}
      PROVE  ArrivalInv'
  BY <1>1, <1>2, <1>3, <1>4, <1>5, <1>6, <1>20 DEF ArrivalInv, OnceInv, EvPending, OwnPending, DBusTypes, DListTypes, SessionInv, ContextInv, EvInv, Adding, Scanning, Finding, Locking
<1>21. ASSUME odd' = {}
      PROVE  RemovalInv'
  BY <1>1, <1>2, <1>3, <1>4, <1>5, <1>6, <1>21 DEF RemovalInv, OnceInv, DBusTypes, DListTypes, SessionInv, ContextInv, EvInv, Adding, Scanning, Finding, Locking
<1>. QED
  BY <1>11, <1>12, <1>13, <1>14, <1>15, <1>16, <1>17, <1>18, <1>19, <1>20, <1>21
  DEF DDevicesInv, ExactInv

LEMMA WaitedStep ==
    ASSUME DDevicesInv,
           odd = {},
           NEW c \in DContexts,
           DDevices!Waited(c)
    PROVE  DDevicesInv'
<1>. DEFINE r == [at |-> "in", todo |-> {}, s |-> 0, c |-> "free"]
<1>1. CacheTypes /\ SessionInv /\ ContextInv /\ EvInv /\ ThreadInv /\ CountInv /\ OnceInv /\ ArrivalInv /\ RemovalInv
  BY DEF DDevicesInv, ExactInv
<1>2. Ev \notin DContexts /\ "free" \notin DContexts /\ Acts = DContexts \cup {Ev}
  BY ActsDiffer DEF Acts
<1>. USE DEF CacheTypes
<1>3. /\ at[c].at = "wait" /\ thread = "loop" /\ bus' = bus /\ dplugs' = dplugs
      /\ added' = added /\ removed' = removed /\ rc' = rc /\ good' = good /\ count' = count
      /\ thread' = thread /\ active' = active /\ inits' = inits /\ lock' = "free"
      /\ listed' = listed /\ dheld' = dheld /\ gone' = gone /\ unseen' = unseen
      /\ missed' = missed /\ dfailed' = dfailed /\ odd' = odd /\ at' = [at EXCEPT ![c] = r]
  BY <1>1, <1>2, PlaceRead, IdleRead DEF DDevices!Waited, DDevices!busVars, DDevices!histVars, DDevices!Sessions, DDevices!Actors, DDevices!Ev, DDevices!Free, DDevices!Place, DDevices!Idle, DDevices!Back, DDevices!Deref, DDevices!HandlerRuns, DDevices!Running, DDevices!StartsThread, Ev, Acts, Sess, DContextTypes
<1>4. r \in DPlace /\ r.at = "in" /\ r.todo = {} /\ r.s = 0 /\ r.c = "free"
  <2>1. "in" \in Places
    BY <1>1, <1>2, <1>3 DEF Places
  <2>2. {} \in Todos
    BY <1>1, <1>2, <1>3, TodosMade, PlaceRead DEF DContextTypes, DBusTypes
  <2>3. 0 \in 0..MaxSessions
    BY BoundsAreNumbers
  <2>4. "free" \in DContexts \cup {"free"}
    BY <1>1, <1>2, <1>3, PlaceRead DEF DContextTypes
  <2>. QED  BY Zenon, <2>1, <2>2, <2>3, <2>4, PlaceMade
<1>. HIDE DEF r
<1>5. c \in Acts
  BY <1>2, <1>3
<1>6. at' \in [Acts -> DPlace] /\ at'[c] = r /\ \A b \in Acts \ {c} : at'[b] = at[b]
  BY <1>1, <1>3, <1>4, <1>5, PlaceMoves DEF DContextTypes
<1>8. r \in DPlace /\ at' = [at EXCEPT ![c] = r]
  BY <1>3, <1>4
<1>11. DBusTypes'
  BY <1>1, <1>2, <1>3, <1>4, <1>5, <1>6, BoundsAreNumbers DEF DBusTypes, DListTypes, Sess
<1>12. DContextTypes'
  <2>1. count' \in Nat
    BY <1>1, <1>3 DEF DContextTypes
  <2>2. inits' \in 0..MaxInits
    BY <1>1, <1>3, BoundsAreNumbers DEF DContextTypes
  <2>. QED  BY <2>1, <2>2, <1>1, <1>2, <1>3, <1>4, <1>5, <1>6 DEF DContextTypes
<1>13. DListTypes'
  BY <1>1, <1>2, <1>3, <1>4, <1>5, <1>6 DEF DListTypes, DBusTypes, DContextTypes
<1>14. SessionInv'
  BY <1>1, <1>2, <1>3, <1>4, <1>5, <1>6 DEF SessionInv, EvInv, DBusTypes, DListTypes
<1>15. ContextInv'
  BY <1>1, <1>2, <1>3, <1>4, <1>5, <1>6, TodosMade DEF ContextInv, DListTypes, DContextTypes, DBusTypes, EvInv, Locking, Scanning, Finding
<1>16. EvInv'
  BY <1>1, <1>2, <1>3, <1>4, <1>5, <1>6 DEF EvInv, ContextInv, DContextTypes, Adding, Finding, Locking
<1>17. ThreadInv'
  <2>1. Counted' = Counted
    BY <1>1, <1>2, <1>3, <1>4, <1>5, <1>6, CountedMoves DEF Counted
  <2>. QED  BY <2>1, <1>1, <1>2, <1>3, <1>4, <1>5, <1>6 DEF ThreadInv, ContextInv, Locking, DContextTypes
<1>18. ASSUME odd' = {}
      PROVE  CountInv'
  <2>. SUFFICES ASSUME NEW u \in Sess
                PROVE  (rc[u] = NMade(u) + NLeft(u) + NConnecting(u) + Kept(u))'
    BY DEF CountInv
  <2>1. NMade(u) \in Nat /\ NLeft(u) \in Nat /\ NConnecting(u) \in Nat /\ rc[u] \in Nat
    BY <1>1, MadeFinite DEF DListTypes
  <2>0. NMade(u)' \in Nat /\ NLeft(u)' \in Nat /\ NConnecting(u)' \in Nat
    BY MadeFiniteNext
  <2>2. rc[u] = NMade(u) + NLeft(u) + NConnecting(u) + Kept(u)
    BY <1>1 DEF CountInv
  <2>3. NMade(u)' = NMade(u)
    BY <1>3, MadeSame
  <2>4. NLeft(u)' = NLeft(u)
    BY <1>3, MadeSame
  <2>5. NConnecting(u)' = NConnecting(u)
    <3>1. at[c].at # "connect" /\ r.at # "connect"
      BY <1>3, <1>4
    <3>. QED  BY <3>1, <1>1, <1>5, <1>8, ConnectingSame
  <2>. QED  BY <2>0, <2>1, <2>2, <2>3, <2>4, <2>5, <1>1, <1>2, <1>3, <1>4, <1>5, <1>6 DEF Kept, SessionInv, DListTypes, DBusTypes
<1>19. ASSUME odd' = {}
      PROVE  OnceInv'
  BY <1>1, <1>2, <1>3, <1>4, <1>5, <1>6, <1>19 DEF OnceInv, DListTypes, DBusTypes, ContextInv
<1>20. ASSUME odd' = {}
      PROVE  ArrivalInv'
  BY <1>1, <1>2, <1>3, <1>4, <1>5, <1>6, <1>20 DEF ArrivalInv, OnceInv, EvPending, OwnPending, DBusTypes, DListTypes, SessionInv, ContextInv, EvInv, Adding, Scanning, Finding, Locking
<1>21. ASSUME odd' = {}
      PROVE  RemovalInv'
  BY <1>1, <1>2, <1>3, <1>4, <1>5, <1>6, <1>21 DEF RemovalInv, OnceInv, DBusTypes, DListTypes, SessionInv, ContextInv, EvInv, Adding, Scanning, Finding, Locking
<1>. QED
  BY <1>11, <1>12, <1>13, <1>14, <1>15, <1>16, <1>17, <1>18, <1>19, <1>20, <1>21
  DEF DDevicesInv, ExactInv

LEMMA BeginExitStep ==
    ASSUME DDevicesInv,
           odd = {},
           NEW c \in DContexts,
           DDevices!BeginExit(c)
    PROVE  DDevicesInv'
<1>. DEFINE r == [at |-> "unlist", todo |-> {}, s |-> 0, c |-> "free"]
<1>1. CacheTypes /\ SessionInv /\ ContextInv /\ EvInv /\ ThreadInv /\ CountInv /\ OnceInv /\ ArrivalInv /\ RemovalInv
  BY DEF DDevicesInv, ExactInv
<1>2. Ev \notin DContexts /\ "free" \notin DContexts /\ Acts = DContexts \cup {Ev}
  BY ActsDiffer DEF Acts
<1>. USE DEF CacheTypes
<1>3. /\ at[c].at = "in" /\ at[Ev].at = "idle" /\ dheld[c] = {} /\ gone[c] = {}
      /\ bus' = bus /\ dplugs' = dplugs /\ added' = added /\ removed' = removed /\ rc' = rc
      /\ good' = good /\ count' = count /\ thread' = thread /\ active' = active \ {c}
      /\ inits' = inits /\ lock' = lock /\ listed' = listed /\ dheld' = dheld
      /\ gone' = gone /\ unseen' = unseen /\ missed' = missed /\ dfailed' = dfailed
      /\ odd' = odd /\ at' = [at EXCEPT ![c] = r]
  BY <1>1, <1>2, PlaceRead, IdleRead DEF DDevices!BeginExit, DDevices!busVars, DDevices!histVars, DDevices!Sessions, DDevices!Actors, DDevices!Ev, DDevices!Free, DDevices!Place, DDevices!Idle, DDevices!Back, DDevices!Deref, DDevices!HandlerRuns, DDevices!Running, DDevices!StartsThread, Ev, Acts, Sess, DContextTypes
<1>4. r \in DPlace /\ r.at = "unlist" /\ r.todo = {} /\ r.s = 0 /\ r.c = "free"
  <2>1. "unlist" \in Places
    BY <1>1, <1>2, <1>3 DEF Places
  <2>2. {} \in Todos
    BY <1>1, <1>2, <1>3, TodosMade, PlaceRead DEF DContextTypes, DBusTypes
  <2>3. 0 \in 0..MaxSessions
    BY BoundsAreNumbers
  <2>4. "free" \in DContexts \cup {"free"}
    BY <1>1, <1>2, <1>3, PlaceRead DEF DContextTypes
  <2>. QED  BY Zenon, <2>1, <2>2, <2>3, <2>4, PlaceMade
<1>. HIDE DEF r
<1>5. c \in Acts
  BY <1>2, <1>3
<1>6. at' \in [Acts -> DPlace] /\ at'[c] = r /\ \A b \in Acts \ {c} : at'[b] = at[b]
  BY <1>1, <1>3, <1>4, <1>5, PlaceMoves DEF DContextTypes
<1>8. r \in DPlace /\ at' = [at EXCEPT ![c] = r]
  BY <1>3, <1>4
<1>11. DBusTypes'
  BY <1>1, <1>2, <1>3, <1>4, <1>5, <1>6, BoundsAreNumbers DEF DBusTypes, DListTypes, Sess
<1>12. DContextTypes'
  <2>1. count' \in Nat
    BY <1>1, <1>3 DEF DContextTypes
  <2>2. inits' \in 0..MaxInits
    BY <1>1, <1>3, BoundsAreNumbers DEF DContextTypes
  <2>. QED  BY <2>1, <2>2, <1>1, <1>2, <1>3, <1>4, <1>5, <1>6 DEF DContextTypes
<1>13. DListTypes'
  BY <1>1, <1>2, <1>3, <1>4, <1>5, <1>6 DEF DListTypes, DBusTypes, DContextTypes
<1>14. SessionInv'
  BY <1>1, <1>2, <1>3, <1>4, <1>5, <1>6 DEF SessionInv, EvInv, DBusTypes, DListTypes
<1>15. ContextInv'
  BY <1>1, <1>2, <1>3, <1>4, <1>5, <1>6, TodosMade DEF ContextInv, DListTypes, DContextTypes, DBusTypes, EvInv, Locking, Scanning, Finding
<1>16. EvInv'
  BY <1>1, <1>2, <1>3, <1>4, <1>5, <1>6 DEF EvInv, ContextInv, DContextTypes, Adding, Finding, Locking
<1>17. ThreadInv'
  <2>1. Counted' = Counted
    BY <1>1, <1>2, <1>3, <1>4, <1>5, <1>6, CountedMoves DEF Counted
  <2>. QED  BY <2>1, <1>1, <1>2, <1>3, <1>4, <1>5, <1>6 DEF ThreadInv, ContextInv, Locking, DContextTypes
<1>18. ASSUME odd' = {}
      PROVE  CountInv'
  <2>. SUFFICES ASSUME NEW u \in Sess
                PROVE  (rc[u] = NMade(u) + NLeft(u) + NConnecting(u) + Kept(u))'
    BY DEF CountInv
  <2>1. NMade(u) \in Nat /\ NLeft(u) \in Nat /\ NConnecting(u) \in Nat /\ rc[u] \in Nat
    BY <1>1, MadeFinite DEF DListTypes
  <2>0. NMade(u)' \in Nat /\ NLeft(u)' \in Nat /\ NConnecting(u)' \in Nat
    BY MadeFiniteNext
  <2>2. rc[u] = NMade(u) + NLeft(u) + NConnecting(u) + Kept(u)
    BY <1>1 DEF CountInv
  <2>3. NMade(u)' = NMade(u)
    BY <1>3, MadeSame
  <2>4. NLeft(u)' = NLeft(u)
    BY <1>3, MadeSame
  <2>5. NConnecting(u)' = NConnecting(u)
    <3>1. at[c].at # "connect" /\ r.at # "connect"
      BY <1>3, <1>4
    <3>. QED  BY <3>1, <1>1, <1>5, <1>8, ConnectingSame
  <2>. QED  BY <2>0, <2>1, <2>2, <2>3, <2>4, <2>5, <1>1, <1>2, <1>3, <1>4, <1>5, <1>6 DEF Kept, SessionInv, DListTypes, DBusTypes
<1>19. ASSUME odd' = {}
      PROVE  OnceInv'
  BY <1>1, <1>2, <1>3, <1>4, <1>5, <1>6, <1>19 DEF OnceInv, DListTypes, DBusTypes, ContextInv
<1>20. ASSUME odd' = {}
      PROVE  ArrivalInv'
  BY <1>1, <1>2, <1>3, <1>4, <1>5, <1>6, <1>20 DEF ArrivalInv, OnceInv, EvPending, OwnPending, DBusTypes, DListTypes, SessionInv, ContextInv, EvInv, Adding, Scanning, Finding, Locking
<1>21. ASSUME odd' = {}
      PROVE  RemovalInv'
  BY <1>1, <1>2, <1>3, <1>4, <1>5, <1>6, <1>21 DEF RemovalInv, OnceInv, DBusTypes, DListTypes, SessionInv, ContextInv, EvInv, Adding, Scanning, Finding, Locking
<1>. QED
  BY <1>11, <1>12, <1>13, <1>14, <1>15, <1>16, <1>17, <1>18, <1>19, <1>20, <1>21
  DEF DDevicesInv, ExactInv

LEMMA UnlistStep ==
    ASSUME DDevicesInv,
           odd = {},
           NEW c \in DContexts,
           DDevices!Unlist(c)
    PROVE  DDevicesInv'
<1>. DEFINE r == [at |-> "out", todo |-> at[c].todo, s |-> at[c].s, c |-> at[c].c]
<1>1. CacheTypes /\ SessionInv /\ ContextInv /\ EvInv /\ ThreadInv /\ CountInv /\ OnceInv /\ ArrivalInv /\ RemovalInv
  BY DEF DDevicesInv, ExactInv
<1>2. Ev \notin DContexts /\ "free" \notin DContexts /\ Acts = DContexts \cup {Ev}
  BY ActsDiffer DEF Acts
<1>. USE DEF CacheTypes
<1>3. /\ at[c].at = "unlist" /\ bus' = bus /\ dplugs' = dplugs /\ added' = added
      /\ removed' = removed
      /\ (rc' = [s \in Sess |-> IF rc[s] > listed[c][s] THEN rc[s] - listed[c][s] ELSE 0])
      /\ good' = good /\ count' = count /\ thread' = thread /\ active' = active
      /\ inits' = inits /\ lock' = lock
      /\ listed' = [listed EXCEPT ![c] = [s \in Sess |-> 0]] /\ dheld' = dheld
      /\ gone' = gone /\ unseen' = unseen /\ missed' = missed /\ dfailed' = dfailed
      /\ odd' = odd /\ at' = [at EXCEPT ![c] = r]
  BY <1>1, <1>2, PlaceRead, IdleRead DEF DDevices!Unlist, DDevices!busVars, DDevices!histVars, DDevices!Sessions, DDevices!Actors, DDevices!Ev, DDevices!Free, DDevices!Place, DDevices!Idle, DDevices!Back, DDevices!Deref, DDevices!HandlerRuns, DDevices!Running, DDevices!StartsThread, Ev, Acts, Sess, DContextTypes
<1>4. r \in DPlace /\ r.at = "out" /\ r.todo = at[c].todo /\ r.s = at[c].s /\ r.c = at[c].c
  <2>1. "out" \in Places
    BY <1>1, <1>2, <1>3 DEF Places
  <2>2. at[c].todo \in Todos
    BY <1>1, <1>2, <1>3, TodosMade, PlaceRead DEF DContextTypes, DBusTypes
  <2>3. at[c].s \in 0..MaxSessions
    BY <1>1, <1>2, <1>3, PlaceRead DEF DContextTypes
  <2>4. at[c].c \in DContexts \cup {"free"}
    BY <1>1, <1>2, <1>3, PlaceRead DEF DContextTypes
  <2>. QED  BY <2>1, <2>2, <2>3, <2>4, PlaceMade
<1>. HIDE DEF r
<1>5. c \in Acts
  BY <1>2, <1>3
<1>6. at' \in [Acts -> DPlace] /\ at'[c] = r /\ \A b \in Acts \ {c} : at'[b] = at[b]
  BY <1>1, <1>3, <1>4, <1>5, PlaceMoves DEF DContextTypes
<1>8. r \in DPlace /\ at' = [at EXCEPT ![c] = r]
  BY <1>3, <1>4
<1>11. DBusTypes'
  BY <1>1, <1>2, <1>3, <1>4, <1>5, <1>6, BoundsAreNumbers DEF DBusTypes, DListTypes, Sess
<1>12. DContextTypes'
  <2>1. count' \in Nat
    BY <1>1, <1>3 DEF DContextTypes
  <2>2. inits' \in 0..MaxInits
    BY <1>1, <1>3, BoundsAreNumbers DEF DContextTypes
  <2>. QED  BY <2>1, <2>2, <1>1, <1>2, <1>3, <1>4, <1>5, <1>6 DEF DContextTypes
<1>13. DListTypes'
  BY <1>1, <1>2, <1>3, <1>4, <1>5, <1>6 DEF DListTypes, DBusTypes, DContextTypes
<1>14. SessionInv'
  BY <1>1, <1>2, <1>3, <1>4, <1>5, <1>6 DEF SessionInv, EvInv, DBusTypes, DListTypes
<1>15. ContextInv'
  BY <1>1, <1>2, <1>3, <1>4, <1>5, <1>6, TodosMade DEF ContextInv, DListTypes, DContextTypes, DBusTypes, EvInv, Locking, Scanning, Finding
<1>16. EvInv'
  BY <1>1, <1>2, <1>3, <1>4, <1>5, <1>6 DEF EvInv, ContextInv, DContextTypes, Adding, Finding, Locking
<1>17. ThreadInv'
  <2>1. Counted' = Counted
    BY <1>1, <1>2, <1>3, <1>4, <1>5, <1>6, CountedMoves DEF Counted
  <2>. QED  BY <2>1, <1>1, <1>2, <1>3, <1>4, <1>5, <1>6 DEF ThreadInv, ContextInv, Locking, DContextTypes
<1>18. ASSUME odd' = {}
      PROVE  CountInv'
  <2>. SUFFICES ASSUME NEW u \in Sess
                PROVE  (rc[u] = NMade(u) + NLeft(u) + NConnecting(u) + Kept(u))'
    BY DEF CountInv
  <2>1. NMade(u) \in Nat /\ NLeft(u) \in Nat /\ NConnecting(u) \in Nat /\ rc[u] \in Nat
    BY <1>1, MadeFinite DEF DListTypes
  <2>0. NMade(u)' \in Nat /\ NLeft(u)' \in Nat /\ NConnecting(u)' \in Nat
    BY MadeFiniteNext
  <2>2. rc[u] = NMade(u) + NLeft(u) + NConnecting(u) + Kept(u)
    BY <1>1 DEF CountInv
  <2>3. NMade(u)' = NMade(u) - listed[c][u] /\ listed[c][u] \in 0..1
    BY <1>1, <1>3, MadeGone DEF OnceInv
  <2>4. NLeft(u)' = NLeft(u)
    BY <1>3, MadeSame
  <2>5. NConnecting(u)' = NConnecting(u)
    <3>1. at[c].at # "connect" /\ r.at # "connect"
      BY <1>3, <1>4
    <3>. QED  BY <3>1, <1>1, <1>5, <1>8, ConnectingSame
  <2>6. rc'[u] = IF rc[u] > listed[c][u] THEN rc[u] - listed[c][u] ELSE 0
    BY <1>3
  <2>. QED  BY <1>3, <2>0, <2>1, <2>2, <2>3, <2>4, <2>5, <2>6 DEF Kept
<1>19. ASSUME odd' = {}
      PROVE  OnceInv'
  <2>1. \A s \in Sess : rc'[s] > 0 => rc[s] > 0
    BY <1>1, <1>3 DEF DListTypes, OnceInv
  <2>2. \A b \in DContexts, s \in Sess : listed'[b][s] \in 0..1
    BY <1>1, <1>3 DEF DListTypes, OnceInv
  <2>. QED  BY <2>1, <2>2, <1>1, <1>3 DEF OnceInv
<1>20. ASSUME odd' = {}
      PROVE  ArrivalInv'
  BY <1>1, <1>2, <1>3, <1>4, <1>5, <1>6, <1>20 DEF ArrivalInv, OnceInv, EvPending, OwnPending, DBusTypes, DListTypes, SessionInv, ContextInv, EvInv, Adding, Scanning, Finding, Locking
<1>21. ASSUME odd' = {}
      PROVE  RemovalInv'
  BY <1>1, <1>2, <1>3, <1>4, <1>5, <1>6, <1>21 DEF RemovalInv, OnceInv, DBusTypes, DListTypes, SessionInv, ContextInv, EvInv, Adding, Scanning, Finding, Locking
<1>. QED
  BY <1>11, <1>12, <1>13, <1>14, <1>15, <1>16, <1>17, <1>18, <1>19, <1>20, <1>21
  DEF DDevicesInv, ExactInv

LEMMA BackendExitLast ==
    ASSUME DDevicesInv,
           odd = {},
           NEW c \in DContexts,
           count = 1,
           DDevices!BackendExit(c)
    PROVE  DDevicesInv'
<1>. DEFINE r == [at |-> "join", todo |-> at[c].todo, s |-> at[c].s, c |-> at[c].c]
<1>1. CacheTypes /\ SessionInv /\ ContextInv /\ EvInv /\ ThreadInv /\ CountInv /\ OnceInv /\ ArrivalInv /\ RemovalInv
  BY DEF DDevicesInv, ExactInv
<1>2. Ev \notin DContexts /\ "free" \notin DContexts /\ Acts = DContexts \cup {Ev}
  BY ActsDiffer DEF Acts
<1>. USE DEF CacheTypes
<1>3. /\ at[c].at = "out" /\ bus' = bus /\ dplugs' = dplugs /\ added' = added
      /\ removed' = removed /\ rc' = rc /\ good' = good /\ count' = count - 1
      /\ thread' = "stopping" /\ active' = active /\ inits' = inits /\ lock' = lock
      /\ listed' = listed /\ dheld' = dheld /\ gone' = gone /\ unseen' = unseen
      /\ missed' = missed /\ dfailed' = dfailed /\ odd' = odd /\ at' = [at EXCEPT ![c] = r]
  BY <1>1, <1>2, PlaceRead, IdleRead DEF DDevices!BackendExit, DDevices!busVars, DDevices!histVars, DDevices!Sessions, DDevices!Actors, DDevices!Ev, DDevices!Free, DDevices!Place, DDevices!Idle, DDevices!Back, DDevices!Deref, DDevices!HandlerRuns, DDevices!Running, DDevices!StartsThread, Ev, Acts, Sess, DContextTypes
<1>4. r \in DPlace /\ r.at = "join" /\ r.todo = at[c].todo /\ r.s = at[c].s /\ r.c = at[c].c
  <2>1. "join" \in Places
    BY <1>1, <1>2, <1>3 DEF Places
  <2>2. at[c].todo \in Todos
    BY <1>1, <1>2, <1>3, TodosMade, PlaceRead DEF DContextTypes, DBusTypes
  <2>3. at[c].s \in 0..MaxSessions
    BY <1>1, <1>2, <1>3, PlaceRead DEF DContextTypes
  <2>4. at[c].c \in DContexts \cup {"free"}
    BY <1>1, <1>2, <1>3, PlaceRead DEF DContextTypes
  <2>. QED  BY <2>1, <2>2, <2>3, <2>4, PlaceMade
<1>. HIDE DEF r
<1>5. c \in Acts
  BY <1>2, <1>3
<1>6. at' \in [Acts -> DPlace] /\ at'[c] = r /\ \A b \in Acts \ {c} : at'[b] = at[b]
  BY <1>1, <1>3, <1>4, <1>5, PlaceMoves DEF DContextTypes
<1>8. r \in DPlace /\ at' = [at EXCEPT ![c] = r]
  BY <1>3, <1>4
<1>7. c \in Counted /\ count # 0 /\ Counted = {c}
  <2>1. c \in Counted
    BY <1>3 DEF Counted
  <2>. QED  BY <2>1, <1>1, <1>2, <1>3, <1>4, <1>5, <1>6, CountedMoves
<1>11. DBusTypes'
  BY <1>1, <1>2, <1>3, <1>4, <1>5, <1>6, <1>7, BoundsAreNumbers DEF DBusTypes, DListTypes, Sess
<1>12. DContextTypes'
  <2>1. count' \in Nat
    BY <1>1, <1>3, <1>7 DEF DContextTypes
  <2>2. inits' \in 0..MaxInits
    BY <1>1, <1>3, BoundsAreNumbers DEF DContextTypes
  <2>. QED  BY <2>1, <2>2, <1>1, <1>2, <1>3, <1>4, <1>5, <1>6, <1>7 DEF DContextTypes
<1>13. DListTypes'
  BY <1>1, <1>2, <1>3, <1>4, <1>5, <1>6, <1>7 DEF DListTypes, DBusTypes, DContextTypes
<1>14. SessionInv'
  BY <1>1, <1>2, <1>3, <1>4, <1>5, <1>6, <1>7 DEF SessionInv, EvInv, DBusTypes, DListTypes
<1>15. ContextInv'
  BY <1>1, <1>2, <1>3, <1>4, <1>5, <1>6, <1>7, TodosMade DEF ContextInv, Counted, DListTypes, DContextTypes, DBusTypes, EvInv, Locking, Scanning, Finding
<1>16. EvInv'
  BY <1>1, <1>2, <1>3, <1>4, <1>5, <1>6, <1>7 DEF EvInv, ContextInv, DContextTypes, Adding, Finding, Locking
<1>17. ThreadInv'
  <2>1. Cardinality(Counted') = count - 1 /\ count # 0 /\ Counted = {c}
    BY <1>1, <1>2, <1>3, <1>4, <1>5, <1>6, <1>7, CountedMoves DEF Counted, ContextInv, Locking
  <2>. QED  BY <2>1, <1>1, <1>2, <1>3, <1>4, <1>5, <1>6, <1>7 DEF ThreadInv, ContextInv, Locking, DContextTypes
<1>18. ASSUME odd' = {}
      PROVE  CountInv'
  <2>. SUFFICES ASSUME NEW u \in Sess
                PROVE  (rc[u] = NMade(u) + NLeft(u) + NConnecting(u) + Kept(u))'
    BY DEF CountInv
  <2>1. NMade(u) \in Nat /\ NLeft(u) \in Nat /\ NConnecting(u) \in Nat /\ rc[u] \in Nat
    BY <1>1, MadeFinite DEF DListTypes
  <2>0. NMade(u)' \in Nat /\ NLeft(u)' \in Nat /\ NConnecting(u)' \in Nat
    BY MadeFiniteNext
  <2>2. rc[u] = NMade(u) + NLeft(u) + NConnecting(u) + Kept(u)
    BY <1>1 DEF CountInv
  <2>3. NMade(u)' = NMade(u)
    BY <1>3, MadeSame
  <2>4. NLeft(u)' = NLeft(u)
    BY <1>3, MadeSame
  <2>5. NConnecting(u)' = NConnecting(u)
    <3>1. at[c].at # "connect" /\ r.at # "connect"
      BY <1>3, <1>4
    <3>. QED  BY <3>1, <1>1, <1>5, <1>8, ConnectingSame
  <2>. QED  BY <2>0, <2>1, <2>2, <2>3, <2>4, <2>5, <1>1, <1>2, <1>3, <1>4, <1>5, <1>6, <1>7 DEF Kept, SessionInv, DListTypes, DBusTypes
<1>19. ASSUME odd' = {}
      PROVE  OnceInv'
  BY <1>1, <1>2, <1>3, <1>4, <1>5, <1>6, <1>7, <1>19 DEF OnceInv, DListTypes, DBusTypes, ContextInv
<1>20. ASSUME odd' = {}
      PROVE  ArrivalInv'
  BY <1>1, <1>2, <1>3, <1>4, <1>5, <1>6, <1>7, <1>20 DEF ArrivalInv, OnceInv, EvPending, OwnPending, DBusTypes, DListTypes, SessionInv, ContextInv, EvInv, Adding, Scanning, Finding, Locking
<1>21. ASSUME odd' = {}
      PROVE  RemovalInv'
  BY <1>1, <1>2, <1>3, <1>4, <1>5, <1>6, <1>7, <1>21 DEF RemovalInv, OnceInv, DBusTypes, DListTypes, SessionInv, ContextInv, EvInv, Adding, Scanning, Finding, Locking
<1>. QED
  BY <1>11, <1>12, <1>13, <1>14, <1>15, <1>16, <1>17, <1>18, <1>19, <1>20, <1>21
  DEF DDevicesInv, ExactInv

LEMMA BackendExitOther ==
    ASSUME DDevicesInv,
           odd = {},
           NEW c \in DContexts,
           count # 1,
           DDevices!BackendExit(c)
    PROVE  DDevicesInv'
<1>. DEFINE r == [at |-> "idle", todo |-> {}, s |-> 0, c |-> "free"]
<1>1. CacheTypes /\ SessionInv /\ ContextInv /\ EvInv /\ ThreadInv /\ CountInv /\ OnceInv /\ ArrivalInv /\ RemovalInv
  BY DEF DDevicesInv, ExactInv
<1>2. Ev \notin DContexts /\ "free" \notin DContexts /\ Acts = DContexts \cup {Ev}
  BY ActsDiffer DEF Acts
<1>. USE DEF CacheTypes
<1>3. /\ at[c].at = "out" /\ bus' = bus /\ dplugs' = dplugs /\ added' = added
      /\ removed' = removed /\ rc' = rc /\ good' = good /\ count' = count - 1
      /\ thread' = thread /\ active' = active /\ inits' = inits /\ lock' = lock
      /\ listed' = listed /\ dheld' = dheld /\ gone' = gone /\ unseen' = unseen
      /\ missed' = missed /\ dfailed' = dfailed /\ odd' = odd /\ at' = [at EXCEPT ![c] = r]
  BY <1>1, <1>2, PlaceRead, IdleRead DEF DDevices!BackendExit, DDevices!busVars, DDevices!histVars, DDevices!Sessions, DDevices!Actors, DDevices!Ev, DDevices!Free, DDevices!Place, DDevices!Idle, DDevices!Back, DDevices!Deref, DDevices!HandlerRuns, DDevices!Running, DDevices!StartsThread, Ev, Acts, Sess, DContextTypes
<1>4. r \in DPlace /\ r.at = "idle" /\ r.todo = {} /\ r.s = 0 /\ r.c = "free"
  <2>1. "idle" \in Places
    BY <1>1, <1>2, <1>3 DEF Places
  <2>2. {} \in Todos
    BY <1>1, <1>2, <1>3, TodosMade, PlaceRead DEF DContextTypes, DBusTypes
  <2>3. 0 \in 0..MaxSessions
    BY BoundsAreNumbers
  <2>4. "free" \in DContexts \cup {"free"}
    BY <1>1, <1>2, <1>3, PlaceRead DEF DContextTypes
  <2>. QED  BY Zenon, <2>1, <2>2, <2>3, <2>4, PlaceMade
<1>. HIDE DEF r
<1>5. c \in Acts
  BY <1>2, <1>3
<1>6. at' \in [Acts -> DPlace] /\ at'[c] = r /\ \A b \in Acts \ {c} : at'[b] = at[b]
  BY <1>1, <1>3, <1>4, <1>5, PlaceMoves DEF DContextTypes
<1>8. r \in DPlace /\ at' = [at EXCEPT ![c] = r]
  BY <1>3, <1>4
<1>7. c \in Counted /\ count # 0
  <2>1. c \in Counted
    BY <1>3 DEF Counted
  <2>. QED  BY <2>1, <1>1, <1>2, <1>3, <1>4, <1>5, <1>6, CountedMoves
<1>11. DBusTypes'
  BY <1>1, <1>2, <1>3, <1>4, <1>5, <1>6, <1>7, BoundsAreNumbers DEF DBusTypes, DListTypes, Sess
<1>12. DContextTypes'
  <2>1. count' \in Nat
    BY <1>1, <1>3, <1>7 DEF DContextTypes
  <2>2. inits' \in 0..MaxInits
    BY <1>1, <1>3, BoundsAreNumbers DEF DContextTypes
  <2>. QED  BY <2>1, <2>2, <1>1, <1>2, <1>3, <1>4, <1>5, <1>6, <1>7 DEF DContextTypes
<1>13. DListTypes'
  BY <1>1, <1>2, <1>3, <1>4, <1>5, <1>6, <1>7 DEF DListTypes, DBusTypes, DContextTypes
<1>14. SessionInv'
  BY <1>1, <1>2, <1>3, <1>4, <1>5, <1>6, <1>7 DEF SessionInv, EvInv, DBusTypes, DListTypes
<1>15. ContextInv'
  BY <1>1, <1>2, <1>3, <1>4, <1>5, <1>6, <1>7, TodosMade DEF ContextInv, DListTypes, DContextTypes, DBusTypes, EvInv, Locking, Scanning, Finding
<1>16. EvInv'
  BY <1>1, <1>2, <1>3, <1>4, <1>5, <1>6, <1>7 DEF EvInv, ContextInv, DContextTypes, Adding, Finding, Locking
<1>17. ThreadInv'
  <2>1. Cardinality(Counted') = count - 1 /\ count # 0
    BY <1>1, <1>2, <1>3, <1>4, <1>5, <1>6, <1>7, CountedMoves DEF Counted, ContextInv, Locking
  <2>. QED  BY <2>1, <1>1, <1>2, <1>3, <1>4, <1>5, <1>6, <1>7 DEF ThreadInv, ContextInv, Locking, DContextTypes
<1>18. ASSUME odd' = {}
      PROVE  CountInv'
  <2>. SUFFICES ASSUME NEW u \in Sess
                PROVE  (rc[u] = NMade(u) + NLeft(u) + NConnecting(u) + Kept(u))'
    BY DEF CountInv
  <2>1. NMade(u) \in Nat /\ NLeft(u) \in Nat /\ NConnecting(u) \in Nat /\ rc[u] \in Nat
    BY <1>1, MadeFinite DEF DListTypes
  <2>0. NMade(u)' \in Nat /\ NLeft(u)' \in Nat /\ NConnecting(u)' \in Nat
    BY MadeFiniteNext
  <2>2. rc[u] = NMade(u) + NLeft(u) + NConnecting(u) + Kept(u)
    BY <1>1 DEF CountInv
  <2>3. NMade(u)' = NMade(u)
    BY <1>3, MadeSame
  <2>4. NLeft(u)' = NLeft(u)
    BY <1>3, MadeSame
  <2>5. NConnecting(u)' = NConnecting(u)
    <3>1. at[c].at # "connect" /\ r.at # "connect"
      BY <1>3, <1>4
    <3>. QED  BY <3>1, <1>1, <1>5, <1>8, ConnectingSame
  <2>. QED  BY <2>0, <2>1, <2>2, <2>3, <2>4, <2>5, <1>1, <1>2, <1>3, <1>4, <1>5, <1>6, <1>7 DEF Kept, SessionInv, DListTypes, DBusTypes
<1>19. ASSUME odd' = {}
      PROVE  OnceInv'
  BY <1>1, <1>2, <1>3, <1>4, <1>5, <1>6, <1>7, <1>19 DEF OnceInv, DListTypes, DBusTypes, ContextInv
<1>20. ASSUME odd' = {}
      PROVE  ArrivalInv'
  BY <1>1, <1>2, <1>3, <1>4, <1>5, <1>6, <1>7, <1>20 DEF ArrivalInv, OnceInv, EvPending, OwnPending, DBusTypes, DListTypes, SessionInv, ContextInv, EvInv, Adding, Scanning, Finding, Locking
<1>21. ASSUME odd' = {}
      PROVE  RemovalInv'
  BY <1>1, <1>2, <1>3, <1>4, <1>5, <1>6, <1>7, <1>21 DEF RemovalInv, OnceInv, DBusTypes, DListTypes, SessionInv, ContextInv, EvInv, Adding, Scanning, Finding, Locking
<1>. QED
  BY <1>11, <1>12, <1>13, <1>14, <1>15, <1>16, <1>17, <1>18, <1>19, <1>20, <1>21
  DEF DDevicesInv, ExactInv

LEMMA JoinedStep ==
    ASSUME DDevicesInv,
           odd = {},
           NEW c \in DContexts,
           DDevices!Joined(c)
    PROVE  DDevicesInv'
<1>. DEFINE r == [at |-> "idle", todo |-> {}, s |-> 0, c |-> "free"]
<1>1. CacheTypes /\ SessionInv /\ ContextInv /\ EvInv /\ ThreadInv /\ CountInv /\ OnceInv /\ ArrivalInv /\ RemovalInv
  BY DEF DDevicesInv, ExactInv
<1>2. Ev \notin DContexts /\ "free" \notin DContexts /\ Acts = DContexts \cup {Ev}
  BY ActsDiffer DEF Acts
<1>. USE DEF CacheTypes
<1>3. /\ at[c].at = "join" /\ thread = "none" /\ bus' = bus /\ dplugs' = dplugs
      /\ added' = added /\ removed' = removed /\ rc' = rc /\ good' = good /\ count' = count
      /\ thread' = thread /\ active' = active /\ inits' = inits /\ lock' = lock
      /\ listed' = listed /\ dheld' = dheld /\ gone' = gone /\ unseen' = unseen
      /\ missed' = missed /\ dfailed' = dfailed /\ odd' = odd /\ at' = [at EXCEPT ![c] = r]
  BY <1>1, <1>2, PlaceRead, IdleRead DEF DDevices!Joined, DDevices!busVars, DDevices!histVars, DDevices!Sessions, DDevices!Actors, DDevices!Ev, DDevices!Free, DDevices!Place, DDevices!Idle, DDevices!Back, DDevices!Deref, DDevices!HandlerRuns, DDevices!Running, DDevices!StartsThread, Ev, Acts, Sess, DContextTypes
<1>4. r \in DPlace /\ r.at = "idle" /\ r.todo = {} /\ r.s = 0 /\ r.c = "free"
  <2>1. "idle" \in Places
    BY <1>1, <1>2, <1>3 DEF Places
  <2>2. {} \in Todos
    BY <1>1, <1>2, <1>3, TodosMade, PlaceRead DEF DContextTypes, DBusTypes
  <2>3. 0 \in 0..MaxSessions
    BY BoundsAreNumbers
  <2>4. "free" \in DContexts \cup {"free"}
    BY <1>1, <1>2, <1>3, PlaceRead DEF DContextTypes
  <2>. QED  BY Zenon, <2>1, <2>2, <2>3, <2>4, PlaceMade
<1>. HIDE DEF r
<1>5. c \in Acts
  BY <1>2, <1>3
<1>6. at' \in [Acts -> DPlace] /\ at'[c] = r /\ \A b \in Acts \ {c} : at'[b] = at[b]
  BY <1>1, <1>3, <1>4, <1>5, PlaceMoves DEF DContextTypes
<1>8. r \in DPlace /\ at' = [at EXCEPT ![c] = r]
  BY <1>3, <1>4
<1>11. DBusTypes'
  BY <1>1, <1>2, <1>3, <1>4, <1>5, <1>6, BoundsAreNumbers DEF DBusTypes, DListTypes, Sess
<1>12. DContextTypes'
  <2>1. count' \in Nat
    BY <1>1, <1>3 DEF DContextTypes
  <2>2. inits' \in 0..MaxInits
    BY <1>1, <1>3, BoundsAreNumbers DEF DContextTypes
  <2>. QED  BY <2>1, <2>2, <1>1, <1>2, <1>3, <1>4, <1>5, <1>6 DEF DContextTypes
<1>13. DListTypes'
  BY <1>1, <1>2, <1>3, <1>4, <1>5, <1>6 DEF DListTypes, DBusTypes, DContextTypes
<1>14. SessionInv'
  BY <1>1, <1>2, <1>3, <1>4, <1>5, <1>6 DEF SessionInv, EvInv, DBusTypes, DListTypes
<1>15. ContextInv'
  BY <1>1, <1>2, <1>3, <1>4, <1>5, <1>6, TodosMade DEF ContextInv, DListTypes, DContextTypes, DBusTypes, EvInv, Locking, Scanning, Finding
<1>16. EvInv'
  BY <1>1, <1>2, <1>3, <1>4, <1>5, <1>6 DEF EvInv, ContextInv, DContextTypes, Adding, Finding, Locking
<1>17. ThreadInv'
  <2>1. Counted' = Counted
    BY <1>1, <1>2, <1>3, <1>4, <1>5, <1>6, CountedMoves DEF Counted
  <2>. QED  BY <2>1, <1>1, <1>2, <1>3, <1>4, <1>5, <1>6 DEF ThreadInv, ContextInv, Locking, DContextTypes
<1>18. ASSUME odd' = {}
      PROVE  CountInv'
  <2>. SUFFICES ASSUME NEW u \in Sess
                PROVE  (rc[u] = NMade(u) + NLeft(u) + NConnecting(u) + Kept(u))'
    BY DEF CountInv
  <2>1. NMade(u) \in Nat /\ NLeft(u) \in Nat /\ NConnecting(u) \in Nat /\ rc[u] \in Nat
    BY <1>1, MadeFinite DEF DListTypes
  <2>0. NMade(u)' \in Nat /\ NLeft(u)' \in Nat /\ NConnecting(u)' \in Nat
    BY MadeFiniteNext
  <2>2. rc[u] = NMade(u) + NLeft(u) + NConnecting(u) + Kept(u)
    BY <1>1 DEF CountInv
  <2>3. NMade(u)' = NMade(u)
    BY <1>3, MadeSame
  <2>4. NLeft(u)' = NLeft(u)
    BY <1>3, MadeSame
  <2>5. NConnecting(u)' = NConnecting(u)
    <3>1. at[c].at # "connect" /\ r.at # "connect"
      BY <1>3, <1>4
    <3>. QED  BY <3>1, <1>1, <1>5, <1>8, ConnectingSame
  <2>. QED  BY <2>0, <2>1, <2>2, <2>3, <2>4, <2>5, <1>1, <1>2, <1>3, <1>4, <1>5, <1>6 DEF Kept, SessionInv, DListTypes, DBusTypes
<1>19. ASSUME odd' = {}
      PROVE  OnceInv'
  BY <1>1, <1>2, <1>3, <1>4, <1>5, <1>6, <1>19 DEF OnceInv, DListTypes, DBusTypes, ContextInv
<1>20. ASSUME odd' = {}
      PROVE  ArrivalInv'
  BY <1>1, <1>2, <1>3, <1>4, <1>5, <1>6, <1>20 DEF ArrivalInv, OnceInv, EvPending, OwnPending, DBusTypes, DListTypes, SessionInv, ContextInv, EvInv, Adding, Scanning, Finding, Locking
<1>21. ASSUME odd' = {}
      PROVE  RemovalInv'
  BY <1>1, <1>2, <1>3, <1>4, <1>5, <1>6, <1>21 DEF RemovalInv, OnceInv, DBusTypes, DListTypes, SessionInv, ContextInv, EvInv, Adding, Scanning, Finding, Locking
<1>. QED
  BY <1>11, <1>12, <1>13, <1>14, <1>15, <1>16, <1>17, <1>18, <1>19, <1>20, <1>21
  DEF DDevicesInv, ExactInv

LEMMA ArmStep ==
    ASSUME DDevicesInv,
           odd = {},
           DDevices!Arm
    PROVE  DDevicesInv'
<1>1. CacheTypes /\ SessionInv /\ ContextInv /\ EvInv /\ ThreadInv /\ CountInv /\ OnceInv /\ ArrivalInv /\ RemovalInv
  BY DEF DDevicesInv, ExactInv
<1>2. Ev \notin DContexts /\ "free" \notin DContexts /\ Acts = DContexts \cup {Ev}
  BY ActsDiffer DEF Acts
<1>. USE DEF CacheTypes
<1>3. /\ thread = "arming" /\ bus' = bus /\ dplugs' = dplugs /\ added' = {} /\ removed' = {}
      /\ rc' = rc /\ good' = good /\ count' = count /\ thread' = "loop" /\ active' = active
      /\ inits' = inits /\ lock' = lock /\ listed' = listed /\ dheld' = dheld
      /\ gone' = gone /\ unseen' = unseen \cup added /\ missed' = missed \cup removed
      /\ dfailed' = dfailed /\ odd' = odd /\ at' = at
  BY <1>1, <1>2, PlaceRead, IdleRead DEF DDevices!Arm, DDevices!busVars, DDevices!histVars, DDevices!Sessions, DDevices!Actors, DDevices!Ev, DDevices!Free, DDevices!Place, DDevices!Idle, DDevices!Back, DDevices!Deref, DDevices!HandlerRuns, DDevices!Running, DDevices!StartsThread, Ev, Acts, Sess, DContextTypes
<1>11. DBusTypes'
  BY <1>1, <1>2, <1>3, BoundsAreNumbers DEF DBusTypes, DListTypes, Sess
<1>12. DContextTypes'
  <2>1. count' \in Nat
    BY <1>1, <1>3 DEF DContextTypes
  <2>2. inits' \in 0..MaxInits
    BY <1>1, <1>3, BoundsAreNumbers DEF DContextTypes
  <2>. QED  BY <2>1, <2>2, <1>1, <1>2, <1>3 DEF DContextTypes
<1>13. DListTypes'
  BY <1>1, <1>2, <1>3 DEF DListTypes, DBusTypes, DContextTypes
<1>14. SessionInv'
  BY <1>1, <1>2, <1>3 DEF SessionInv, EvInv, DBusTypes, DListTypes
<1>15. ContextInv'
  BY <1>1, <1>2, <1>3, TodosMade DEF ContextInv, DListTypes, DContextTypes, DBusTypes, EvInv, Locking, Scanning, Finding
<1>16. EvInv'
  BY <1>1, <1>2, <1>3 DEF EvInv, ContextInv, DContextTypes, Adding, Finding, Locking
<1>17. ThreadInv'
  BY <1>1, <1>2, <1>3 DEF ThreadInv, Counted
<1>18. ASSUME odd' = {}
      PROVE  CountInv'
  <2>. SUFFICES ASSUME NEW u \in Sess
                PROVE  (rc[u] = NMade(u) + NLeft(u) + NConnecting(u) + Kept(u))'
    BY DEF CountInv
  <2>1. NMade(u) \in Nat /\ NLeft(u) \in Nat /\ NConnecting(u) \in Nat /\ rc[u] \in Nat
    BY <1>1, MadeFinite DEF DListTypes
  <2>0. NMade(u)' \in Nat /\ NLeft(u)' \in Nat /\ NConnecting(u)' \in Nat
    BY MadeFiniteNext
  <2>2. rc[u] = NMade(u) + NLeft(u) + NConnecting(u) + Kept(u)
    BY <1>1 DEF CountInv
  <2>3. NMade(u)' = NMade(u)
    BY <1>3, MadeSame
  <2>4. NLeft(u)' = NLeft(u)
    BY <1>3, MadeSame
  <2>5. NConnecting(u)' = NConnecting(u)
    BY <1>3, MadeSame
  <2>. QED  BY <2>0, <2>1, <2>2, <2>3, <2>4, <2>5, <1>1, <1>2, <1>3 DEF Kept, SessionInv, DListTypes, DBusTypes
<1>19. ASSUME odd' = {}
      PROVE  OnceInv'
  BY <1>1, <1>2, <1>3, <1>19 DEF OnceInv, DListTypes, DBusTypes, ContextInv
<1>20. ASSUME odd' = {}
      PROVE  ArrivalInv'
  BY <1>1, <1>2, <1>3, <1>20 DEF ArrivalInv, OnceInv, EvPending, OwnPending, DBusTypes, DListTypes, SessionInv, ContextInv, EvInv, Adding, Scanning, Finding, Locking
<1>21. ASSUME odd' = {}
      PROVE  RemovalInv'
  BY <1>1, <1>2, <1>3, <1>21 DEF RemovalInv, OnceInv, DBusTypes, DListTypes, SessionInv, ContextInv, EvInv, Adding, Scanning, Finding, Locking
<1>. QED
  BY <1>11, <1>12, <1>13, <1>14, <1>15, <1>16, <1>17, <1>18, <1>19, <1>20, <1>21
  DEF DDevicesInv, ExactInv

LEMMA ArmFailsStep ==
    ASSUME DDevicesInv,
           odd = {},
           DDevices!ArmFails
    PROVE  DDevicesInv'
<1>1. CacheTypes /\ SessionInv /\ ContextInv /\ EvInv /\ ThreadInv /\ CountInv /\ OnceInv /\ ArrivalInv /\ RemovalInv
  BY DEF DDevicesInv, ExactInv
<1>2. Ev \notin DContexts /\ "free" \notin DContexts /\ Acts = DContexts \cup {Ev}
  BY ActsDiffer DEF Acts
<1>. USE DEF CacheTypes
<1>3. /\ thread = "arming" /\ bus' = bus /\ dplugs' = dplugs /\ added' = added
      /\ removed' = removed /\ rc' = rc /\ good' = good /\ count' = count
      /\ thread' = "failed" /\ active' = active /\ inits' = inits /\ lock' = lock
      /\ listed' = listed /\ dheld' = dheld /\ gone' = gone /\ unseen' = unseen
      /\ missed' = missed /\ dfailed' = dfailed /\ odd' = odd /\ at' = at
  BY <1>1, <1>2, PlaceRead, IdleRead DEF DDevices!ArmFails, DDevices!busVars, DDevices!histVars, DDevices!Sessions, DDevices!Actors, DDevices!Ev, DDevices!Free, DDevices!Place, DDevices!Idle, DDevices!Back, DDevices!Deref, DDevices!HandlerRuns, DDevices!Running, DDevices!StartsThread, Ev, Acts, Sess, DContextTypes
<1>11. DBusTypes'
  BY <1>1, <1>2, <1>3, BoundsAreNumbers DEF DBusTypes, DListTypes, Sess
<1>12. DContextTypes'
  <2>1. count' \in Nat
    BY <1>1, <1>3 DEF DContextTypes
  <2>2. inits' \in 0..MaxInits
    BY <1>1, <1>3, BoundsAreNumbers DEF DContextTypes
  <2>. QED  BY <2>1, <2>2, <1>1, <1>2, <1>3 DEF DContextTypes
<1>13. DListTypes'
  BY <1>1, <1>2, <1>3 DEF DListTypes, DBusTypes, DContextTypes
<1>14. SessionInv'
  BY <1>1, <1>2, <1>3 DEF SessionInv, EvInv, DBusTypes, DListTypes
<1>15. ContextInv'
  BY <1>1, <1>2, <1>3, TodosMade DEF ContextInv, DListTypes, DContextTypes, DBusTypes, EvInv, Locking, Scanning, Finding
<1>16. EvInv'
  BY <1>1, <1>2, <1>3 DEF EvInv, ContextInv, DContextTypes, Adding, Finding, Locking
<1>17. ThreadInv'
  BY <1>1, <1>2, <1>3 DEF ThreadInv, Counted
<1>18. ASSUME odd' = {}
      PROVE  CountInv'
  <2>. SUFFICES ASSUME NEW u \in Sess
                PROVE  (rc[u] = NMade(u) + NLeft(u) + NConnecting(u) + Kept(u))'
    BY DEF CountInv
  <2>1. NMade(u) \in Nat /\ NLeft(u) \in Nat /\ NConnecting(u) \in Nat /\ rc[u] \in Nat
    BY <1>1, MadeFinite DEF DListTypes
  <2>0. NMade(u)' \in Nat /\ NLeft(u)' \in Nat /\ NConnecting(u)' \in Nat
    BY MadeFiniteNext
  <2>2. rc[u] = NMade(u) + NLeft(u) + NConnecting(u) + Kept(u)
    BY <1>1 DEF CountInv
  <2>3. NMade(u)' = NMade(u)
    BY <1>3, MadeSame
  <2>4. NLeft(u)' = NLeft(u)
    BY <1>3, MadeSame
  <2>5. NConnecting(u)' = NConnecting(u)
    BY <1>3, MadeSame
  <2>. QED  BY <2>0, <2>1, <2>2, <2>3, <2>4, <2>5, <1>1, <1>2, <1>3 DEF Kept, SessionInv, DListTypes, DBusTypes
<1>19. ASSUME odd' = {}
      PROVE  OnceInv'
  BY <1>1, <1>2, <1>3, <1>19 DEF OnceInv, DListTypes, DBusTypes, ContextInv
<1>20. ASSUME odd' = {}
      PROVE  ArrivalInv'
  BY <1>1, <1>2, <1>3, <1>20 DEF ArrivalInv, OnceInv, EvPending, OwnPending, DBusTypes, DListTypes, SessionInv, ContextInv, EvInv, Adding, Scanning, Finding, Locking
<1>21. ASSUME odd' = {}
      PROVE  RemovalInv'
  BY <1>1, <1>2, <1>3, <1>21 DEF RemovalInv, OnceInv, DBusTypes, DListTypes, SessionInv, ContextInv, EvInv, Adding, Scanning, Finding, Locking
<1>. QED
  BY <1>11, <1>12, <1>13, <1>14, <1>15, <1>16, <1>17, <1>18, <1>19, <1>20, <1>21
  DEF DDevicesInv, ExactInv

LEMMA LeaveStep ==
    ASSUME DDevicesInv,
           odd = {},
           DDevices!Leave
    PROVE  DDevicesInv'
<1>1. CacheTypes /\ SessionInv /\ ContextInv /\ EvInv /\ ThreadInv /\ CountInv /\ OnceInv /\ ArrivalInv /\ RemovalInv
  BY DEF DDevicesInv, ExactInv
<1>2. Ev \notin DContexts /\ "free" \notin DContexts /\ Acts = DContexts \cup {Ev}
  BY ActsDiffer DEF Acts
<1>. USE DEF CacheTypes
<1>3. /\ thread = "stopping" /\ bus' = bus /\ dplugs' = dplugs /\ added' = added
      /\ removed' = removed /\ rc' = rc /\ good' = good /\ count' = count
      /\ thread' = "none" /\ active' = active /\ inits' = inits /\ lock' = lock
      /\ listed' = listed /\ dheld' = dheld /\ gone' = gone /\ unseen' = unseen
      /\ missed' = missed /\ dfailed' = dfailed /\ odd' = odd /\ at' = at
  BY <1>1, <1>2, PlaceRead, IdleRead DEF DDevices!Leave, DDevices!busVars, DDevices!histVars, DDevices!Sessions, DDevices!Actors, DDevices!Ev, DDevices!Free, DDevices!Place, DDevices!Idle, DDevices!Back, DDevices!Deref, DDevices!HandlerRuns, DDevices!Running, DDevices!StartsThread, Ev, Acts, Sess, DContextTypes
<1>11. DBusTypes'
  BY <1>1, <1>2, <1>3, BoundsAreNumbers DEF DBusTypes, DListTypes, Sess
<1>12. DContextTypes'
  <2>1. count' \in Nat
    BY <1>1, <1>3 DEF DContextTypes
  <2>2. inits' \in 0..MaxInits
    BY <1>1, <1>3, BoundsAreNumbers DEF DContextTypes
  <2>. QED  BY <2>1, <2>2, <1>1, <1>2, <1>3 DEF DContextTypes
<1>13. DListTypes'
  BY <1>1, <1>2, <1>3 DEF DListTypes, DBusTypes, DContextTypes
<1>14. SessionInv'
  BY <1>1, <1>2, <1>3 DEF SessionInv, EvInv, DBusTypes, DListTypes
<1>15. ContextInv'
  BY <1>1, <1>2, <1>3, TodosMade DEF ContextInv, DListTypes, DContextTypes, DBusTypes, EvInv, Locking, Scanning, Finding
<1>16. EvInv'
  BY <1>1, <1>2, <1>3 DEF EvInv, ContextInv, DContextTypes, Adding, Finding, Locking
<1>17. ThreadInv'
  BY <1>1, <1>2, <1>3 DEF ThreadInv, Counted
<1>18. ASSUME odd' = {}
      PROVE  CountInv'
  <2>. SUFFICES ASSUME NEW u \in Sess
                PROVE  (rc[u] = NMade(u) + NLeft(u) + NConnecting(u) + Kept(u))'
    BY DEF CountInv
  <2>1. NMade(u) \in Nat /\ NLeft(u) \in Nat /\ NConnecting(u) \in Nat /\ rc[u] \in Nat
    BY <1>1, MadeFinite DEF DListTypes
  <2>0. NMade(u)' \in Nat /\ NLeft(u)' \in Nat /\ NConnecting(u)' \in Nat
    BY MadeFiniteNext
  <2>2. rc[u] = NMade(u) + NLeft(u) + NConnecting(u) + Kept(u)
    BY <1>1 DEF CountInv
  <2>3. NMade(u)' = NMade(u)
    BY <1>3, MadeSame
  <2>4. NLeft(u)' = NLeft(u)
    BY <1>3, MadeSame
  <2>5. NConnecting(u)' = NConnecting(u)
    BY <1>3, MadeSame
  <2>. QED  BY <2>0, <2>1, <2>2, <2>3, <2>4, <2>5, <1>1, <1>2, <1>3 DEF Kept, SessionInv, DListTypes, DBusTypes
<1>19. ASSUME odd' = {}
      PROVE  OnceInv'
  BY <1>1, <1>2, <1>3, <1>19 DEF OnceInv, DListTypes, DBusTypes, ContextInv
<1>20. ASSUME odd' = {}
      PROVE  ArrivalInv'
  BY <1>1, <1>2, <1>3, <1>20 DEF ArrivalInv, OnceInv, EvPending, OwnPending, DBusTypes, DListTypes, SessionInv, ContextInv, EvInv, Adding, Scanning, Finding, Locking
<1>21. ASSUME odd' = {}
      PROVE  RemovalInv'
  BY <1>1, <1>2, <1>3, <1>21 DEF RemovalInv, OnceInv, DBusTypes, DListTypes, SessionInv, ContextInv, EvInv, Adding, Scanning, Finding, Locking
<1>. QED
  BY <1>11, <1>12, <1>13, <1>14, <1>15, <1>16, <1>17, <1>18, <1>19, <1>20, <1>21
  DEF DDevicesInv, ExactInv

LEMMA AttachedStep ==
    ASSUME DDevicesInv,
           odd = {},
           NEW s \in Sess,
           DDevices!Attached(s)
    PROVE  DDevicesInv'
<1>. DEFINE r == [at |-> "add", todo |-> {s} \X active, s |-> 0, c |-> "free"]
<1>1. CacheTypes /\ SessionInv /\ ContextInv /\ EvInv /\ ThreadInv /\ CountInv /\ OnceInv /\ ArrivalInv /\ RemovalInv
  BY DEF DDevicesInv, ExactInv
<1>2. Ev \notin DContexts /\ "free" \notin DContexts /\ Acts = DContexts \cup {Ev}
  BY ActsDiffer DEF Acts
<1>. USE DEF CacheTypes
<1>3. /\ at[Ev].at = "idle" /\ s \in added /\ bus' = bus /\ dplugs' = dplugs
      /\ added' = added \ {s} /\ removed' = removed /\ rc' = rc /\ good' = good
      /\ count' = count /\ thread' = thread /\ active' = active /\ inits' = inits
      /\ lock' = lock /\ listed' = listed /\ dheld' = dheld /\ gone' = gone
      /\ unseen' = unseen /\ missed' = missed /\ dfailed' = dfailed /\ odd' = odd
      /\ at' = [at EXCEPT ![Ev] = r]
  BY <1>1, <1>2, PlaceRead, IdleRead DEF DDevices!Attached, DDevices!busVars, DDevices!histVars, DDevices!Sessions, DDevices!Actors, DDevices!Ev, DDevices!Free, DDevices!Place, DDevices!Idle, DDevices!Back, DDevices!Deref, DDevices!HandlerRuns, DDevices!Running, DDevices!StartsThread, Ev, Acts, Sess, DContextTypes
<1>4. r \in DPlace /\ r.at = "add" /\ r.todo = {s} \X active /\ r.s = 0 /\ r.c = "free"
  <2>1. "add" \in Places
    BY <1>1, <1>2, <1>3 DEF Places
  <2>2. {s} \X active \in Todos
    BY <1>1, <1>2, <1>3, TodosMade, PlaceRead DEF DContextTypes, DBusTypes
  <2>3. 0 \in 0..MaxSessions
    BY BoundsAreNumbers
  <2>4. "free" \in DContexts \cup {"free"}
    BY <1>1, <1>2, <1>3, PlaceRead DEF DContextTypes
  <2>. QED  BY Zenon, <2>1, <2>2, <2>3, <2>4, PlaceMade
<1>. HIDE DEF r
<1>5. Ev \in Acts
  BY <1>2, <1>3
<1>6. at' \in [Acts -> DPlace] /\ at'[Ev] = r /\ \A b \in Acts \ {Ev} : at'[b] = at[b]
  BY <1>1, <1>3, <1>4, <1>5, PlaceMoves DEF DContextTypes
<1>8. r \in DPlace /\ at' = [at EXCEPT ![Ev] = r]
  BY <1>3, <1>4
<1>11. DBusTypes'
  BY <1>1, <1>2, <1>3, <1>4, <1>5, <1>6, BoundsAreNumbers DEF DBusTypes, DListTypes, Sess
<1>12. DContextTypes'
  <2>1. count' \in Nat
    BY <1>1, <1>3 DEF DContextTypes
  <2>2. inits' \in 0..MaxInits
    BY <1>1, <1>3, BoundsAreNumbers DEF DContextTypes
  <2>. QED  BY <2>1, <2>2, <1>1, <1>2, <1>3, <1>4, <1>5, <1>6 DEF DContextTypes
<1>13. DListTypes'
  BY <1>1, <1>2, <1>3, <1>4, <1>5, <1>6 DEF DListTypes, DBusTypes, DContextTypes
<1>14. SessionInv'
  BY <1>1, <1>2, <1>3, <1>4, <1>5, <1>6 DEF SessionInv, EvInv, DBusTypes, DListTypes
<1>15. ContextInv'
  BY <1>1, <1>2, <1>3, <1>4, <1>5, <1>6, TodosMade DEF ContextInv, DListTypes, DContextTypes, DBusTypes, EvInv, Locking, Scanning, Finding
<1>16. EvInv'
  BY <1>1, <1>2, <1>3, <1>4, <1>5, <1>6 DEF EvInv, ContextInv, DContextTypes, Adding, Finding, Locking
<1>17. ThreadInv'
  <2>1. Counted' = Counted
    BY <1>1, <1>2, <1>3, <1>4, <1>5, <1>6, CountedMoves DEF Counted
  <2>. QED  BY <2>1, <1>1, <1>2, <1>3, <1>4, <1>5, <1>6 DEF ThreadInv, ContextInv, Locking, DContextTypes
<1>18. ASSUME odd' = {}
      PROVE  CountInv'
  <2>. SUFFICES ASSUME NEW u \in Sess
                PROVE  (rc[u] = NMade(u) + NLeft(u) + NConnecting(u) + Kept(u))'
    BY DEF CountInv
  <2>1. NMade(u) \in Nat /\ NLeft(u) \in Nat /\ NConnecting(u) \in Nat /\ rc[u] \in Nat
    BY <1>1, MadeFinite DEF DListTypes
  <2>0. NMade(u)' \in Nat /\ NLeft(u)' \in Nat /\ NConnecting(u)' \in Nat
    BY MadeFiniteNext
  <2>2. rc[u] = NMade(u) + NLeft(u) + NConnecting(u) + Kept(u)
    BY <1>1 DEF CountInv
  <2>3. NMade(u)' = NMade(u)
    BY <1>3, MadeSame
  <2>4. NLeft(u)' = NLeft(u)
    BY <1>3, MadeSame
  <2>5. NConnecting(u)' = NConnecting(u)
    <3>1. at[Ev].at # "connect" /\ r.at # "connect"
      BY <1>3, <1>4
    <3>. QED  BY <3>1, <1>1, <1>5, <1>8, ConnectingSame
  <2>. QED  BY <2>0, <2>1, <2>2, <2>3, <2>4, <2>5, <1>1, <1>2, <1>3, <1>4, <1>5, <1>6 DEF Kept, SessionInv, DListTypes, DBusTypes
<1>19. ASSUME odd' = {}
      PROVE  OnceInv'
  BY <1>1, <1>2, <1>3, <1>4, <1>5, <1>6, <1>19 DEF OnceInv, DListTypes, DBusTypes, ContextInv
<1>20. ASSUME odd' = {}
      PROVE  ArrivalInv'
  BY <1>1, <1>2, <1>3, <1>4, <1>5, <1>6, <1>20 DEF ArrivalInv, OnceInv, EvPending, OwnPending, DBusTypes, DListTypes, SessionInv, ContextInv, EvInv, Adding, Scanning, Finding, Locking
<1>21. ASSUME odd' = {}
      PROVE  RemovalInv'
  BY <1>1, <1>2, <1>3, <1>4, <1>5, <1>6, <1>21 DEF RemovalInv, OnceInv, DBusTypes, DListTypes, SessionInv, ContextInv, EvInv, Adding, Scanning, Finding, Locking
<1>. QED
  BY <1>11, <1>12, <1>13, <1>14, <1>15, <1>16, <1>17, <1>18, <1>19, <1>20, <1>21
  DEF DDevicesInv, ExactInv

LEMMA AttachedDoneStep ==
    ASSUME DDevicesInv,
           odd = {},
           DDevices!AttachedDone
    PROVE  DDevicesInv'
<1>. DEFINE r == [at |-> "idle", todo |-> {}, s |-> 0, c |-> "free"]
<1>1. CacheTypes /\ SessionInv /\ ContextInv /\ EvInv /\ ThreadInv /\ CountInv /\ OnceInv /\ ArrivalInv /\ RemovalInv
  BY DEF DDevicesInv, ExactInv
<1>2. Ev \notin DContexts /\ "free" \notin DContexts /\ Acts = DContexts \cup {Ev}
  BY ActsDiffer DEF Acts
<1>. USE DEF CacheTypes
<1>3. /\ at[Ev].at = "add" /\ at[Ev].todo = {} /\ bus' = bus /\ dplugs' = dplugs
      /\ added' = added /\ removed' = removed /\ rc' = rc /\ good' = good /\ count' = count
      /\ thread' = thread /\ active' = active /\ inits' = inits /\ lock' = lock
      /\ listed' = listed /\ dheld' = dheld /\ gone' = gone /\ unseen' = unseen
      /\ missed' = missed /\ dfailed' = dfailed /\ odd' = odd /\ at' = [at EXCEPT ![Ev] = r]
  BY <1>1, <1>2, PlaceRead, IdleRead DEF DDevices!AttachedDone, DDevices!busVars, DDevices!histVars, DDevices!Sessions, DDevices!Actors, DDevices!Ev, DDevices!Free, DDevices!Place, DDevices!Idle, DDevices!Back, DDevices!Deref, DDevices!HandlerRuns, DDevices!Running, DDevices!StartsThread, Ev, Acts, Sess, DContextTypes
<1>4. r \in DPlace /\ r.at = "idle" /\ r.todo = {} /\ r.s = 0 /\ r.c = "free"
  <2>1. "idle" \in Places
    BY <1>1, <1>2, <1>3 DEF Places
  <2>2. {} \in Todos
    BY <1>1, <1>2, <1>3, TodosMade, PlaceRead DEF DContextTypes, DBusTypes
  <2>3. 0 \in 0..MaxSessions
    BY BoundsAreNumbers
  <2>4. "free" \in DContexts \cup {"free"}
    BY <1>1, <1>2, <1>3, PlaceRead DEF DContextTypes
  <2>. QED  BY Zenon, <2>1, <2>2, <2>3, <2>4, PlaceMade
<1>. HIDE DEF r
<1>5. Ev \in Acts
  BY <1>2, <1>3
<1>6. at' \in [Acts -> DPlace] /\ at'[Ev] = r /\ \A b \in Acts \ {Ev} : at'[b] = at[b]
  BY <1>1, <1>3, <1>4, <1>5, PlaceMoves DEF DContextTypes
<1>8. r \in DPlace /\ at' = [at EXCEPT ![Ev] = r]
  BY <1>3, <1>4
<1>11. DBusTypes'
  BY <1>1, <1>2, <1>3, <1>4, <1>5, <1>6, BoundsAreNumbers DEF DBusTypes, DListTypes, Sess
<1>12. DContextTypes'
  <2>1. count' \in Nat
    BY <1>1, <1>3 DEF DContextTypes
  <2>2. inits' \in 0..MaxInits
    BY <1>1, <1>3, BoundsAreNumbers DEF DContextTypes
  <2>. QED  BY <2>1, <2>2, <1>1, <1>2, <1>3, <1>4, <1>5, <1>6 DEF DContextTypes
<1>13. DListTypes'
  BY <1>1, <1>2, <1>3, <1>4, <1>5, <1>6 DEF DListTypes, DBusTypes, DContextTypes
<1>14. SessionInv'
  BY <1>1, <1>2, <1>3, <1>4, <1>5, <1>6 DEF SessionInv, EvInv, DBusTypes, DListTypes
<1>15. ContextInv'
  BY <1>1, <1>2, <1>3, <1>4, <1>5, <1>6, TodosMade DEF ContextInv, DListTypes, DContextTypes, DBusTypes, EvInv, Locking, Scanning, Finding
<1>16. EvInv'
  BY <1>1, <1>2, <1>3, <1>4, <1>5, <1>6 DEF EvInv, ContextInv, DContextTypes, Adding, Finding, Locking
<1>17. ThreadInv'
  <2>1. Counted' = Counted
    BY <1>1, <1>2, <1>3, <1>4, <1>5, <1>6, CountedMoves DEF Counted
  <2>. QED  BY <2>1, <1>1, <1>2, <1>3, <1>4, <1>5, <1>6 DEF ThreadInv, ContextInv, Locking, DContextTypes
<1>18. ASSUME odd' = {}
      PROVE  CountInv'
  <2>. SUFFICES ASSUME NEW u \in Sess
                PROVE  (rc[u] = NMade(u) + NLeft(u) + NConnecting(u) + Kept(u))'
    BY DEF CountInv
  <2>1. NMade(u) \in Nat /\ NLeft(u) \in Nat /\ NConnecting(u) \in Nat /\ rc[u] \in Nat
    BY <1>1, MadeFinite DEF DListTypes
  <2>0. NMade(u)' \in Nat /\ NLeft(u)' \in Nat /\ NConnecting(u)' \in Nat
    BY MadeFiniteNext
  <2>2. rc[u] = NMade(u) + NLeft(u) + NConnecting(u) + Kept(u)
    BY <1>1 DEF CountInv
  <2>3. NMade(u)' = NMade(u)
    BY <1>3, MadeSame
  <2>4. NLeft(u)' = NLeft(u)
    BY <1>3, MadeSame
  <2>5. NConnecting(u)' = NConnecting(u)
    <3>1. at[Ev].at # "connect" /\ r.at # "connect"
      BY <1>3, <1>4
    <3>. QED  BY <3>1, <1>1, <1>5, <1>8, ConnectingSame
  <2>. QED  BY <2>0, <2>1, <2>2, <2>3, <2>4, <2>5, <1>1, <1>2, <1>3, <1>4, <1>5, <1>6 DEF Kept, SessionInv, DListTypes, DBusTypes
<1>19. ASSUME odd' = {}
      PROVE  OnceInv'
  BY <1>1, <1>2, <1>3, <1>4, <1>5, <1>6, <1>19 DEF OnceInv, DListTypes, DBusTypes, ContextInv
<1>20. ASSUME odd' = {}
      PROVE  ArrivalInv'
  BY <1>1, <1>2, <1>3, <1>4, <1>5, <1>6, <1>20 DEF ArrivalInv, OnceInv, EvPending, OwnPending, DBusTypes, DListTypes, SessionInv, ContextInv, EvInv, Adding, Scanning, Finding, Locking
<1>21. ASSUME odd' = {}
      PROVE  RemovalInv'
  BY <1>1, <1>2, <1>3, <1>4, <1>5, <1>6, <1>21 DEF RemovalInv, OnceInv, DBusTypes, DListTypes, SessionInv, ContextInv, EvInv, Adding, Scanning, Finding, Locking
<1>. QED
  BY <1>11, <1>12, <1>13, <1>14, <1>15, <1>16, <1>17, <1>18, <1>19, <1>20, <1>21
  DEF DDevicesInv, ExactInv

LEMMA DetachedStep ==
    ASSUME DDevicesInv,
           odd = {},
           NEW s \in Sess,
           DDevices!Detached(s)
    PROVE  DDevicesInv'
<1>. DEFINE r == [at |-> "disconnect", todo |-> active, s |-> s, c |-> "free"]
<1>1. CacheTypes /\ SessionInv /\ ContextInv /\ EvInv /\ ThreadInv /\ CountInv /\ OnceInv /\ ArrivalInv /\ RemovalInv
  BY DEF DDevicesInv, ExactInv
<1>2. Ev \notin DContexts /\ "free" \notin DContexts /\ Acts = DContexts \cup {Ev}
  BY ActsDiffer DEF Acts
<1>. USE DEF CacheTypes
<1>3. /\ at[Ev].at = "idle" /\ s \in removed /\ bus' = bus /\ dplugs' = dplugs
      /\ added' = added /\ removed' = removed \ {s}
      /\ (rc' = [rc EXCEPT ![s] = IF @ > 0 THEN @ - 1 ELSE 0]) /\ good' = good
      /\ count' = count /\ thread' = thread /\ active' = active /\ inits' = inits
      /\ lock' = lock /\ listed' = listed /\ dheld' = dheld /\ gone' = gone
      /\ unseen' = unseen /\ missed' = missed /\ dfailed' = dfailed /\ odd' = odd
      /\ at' = [at EXCEPT ![Ev] = r]
  BY <1>1, <1>2, PlaceRead, IdleRead DEF DDevices!Detached, DDevices!busVars, DDevices!histVars, DDevices!Sessions, DDevices!Actors, DDevices!Ev, DDevices!Free, DDevices!Place, DDevices!Idle, DDevices!Back, DDevices!Deref, DDevices!HandlerRuns, DDevices!Running, DDevices!StartsThread, Ev, Acts, Sess, DContextTypes
<1>4. r \in DPlace /\ r.at = "disconnect" /\ r.todo = active /\ r.s = s /\ r.c = "free"
  <2>1. "disconnect" \in Places
    BY <1>1, <1>2, <1>3 DEF Places
  <2>2. active \in Todos
    BY <1>1, <1>2, <1>3, TodosMade, PlaceRead DEF DContextTypes, DBusTypes
  <2>3. s \in 0..MaxSessions
    BY <1>3 DEF Sess
  <2>4. "free" \in DContexts \cup {"free"}
    BY <1>1, <1>2, <1>3, PlaceRead DEF DContextTypes
  <2>. QED  BY Zenon, <2>1, <2>2, <2>3, <2>4, PlaceMade
<1>. HIDE DEF r
<1>5. Ev \in Acts
  BY <1>2, <1>3
<1>6. at' \in [Acts -> DPlace] /\ at'[Ev] = r /\ \A b \in Acts \ {Ev} : at'[b] = at[b]
  BY <1>1, <1>3, <1>4, <1>5, PlaceMoves DEF DContextTypes
<1>8. r \in DPlace /\ at' = [at EXCEPT ![Ev] = r]
  BY <1>3, <1>4
<1>11. DBusTypes'
  BY <1>1, <1>2, <1>3, <1>4, <1>5, <1>6, BoundsAreNumbers DEF DBusTypes, DListTypes, Sess
<1>12. DContextTypes'
  <2>1. count' \in Nat
    BY <1>1, <1>3 DEF DContextTypes
  <2>2. inits' \in 0..MaxInits
    BY <1>1, <1>3, BoundsAreNumbers DEF DContextTypes
  <2>. QED  BY <2>1, <2>2, <1>1, <1>2, <1>3, <1>4, <1>5, <1>6 DEF DContextTypes
<1>13. DListTypes'
  BY <1>1, <1>2, <1>3, <1>4, <1>5, <1>6 DEF DListTypes, DBusTypes, DContextTypes
<1>14. SessionInv'
  BY <1>1, <1>2, <1>3, <1>4, <1>5, <1>6 DEF SessionInv, EvInv, DBusTypes, DListTypes
<1>15. ContextInv'
  BY <1>1, <1>2, <1>3, <1>4, <1>5, <1>6, TodosMade DEF ContextInv, DListTypes, DContextTypes, DBusTypes, EvInv, Locking, Scanning, Finding
<1>16. EvInv'
  BY <1>1, <1>2, <1>3, <1>4, <1>5, <1>6 DEF EvInv, ContextInv, DContextTypes, Adding, Finding, Locking
<1>17. ThreadInv'
  <2>1. Counted' = Counted
    BY <1>1, <1>2, <1>3, <1>4, <1>5, <1>6, CountedMoves DEF Counted
  <2>. QED  BY <2>1, <1>1, <1>2, <1>3, <1>4, <1>5, <1>6 DEF ThreadInv, ContextInv, Locking, DContextTypes
<1>18. ASSUME odd' = {}
      PROVE  CountInv'
  <2>. SUFFICES ASSUME NEW u \in Sess
                PROVE  (rc[u] = NMade(u) + NLeft(u) + NConnecting(u) + Kept(u))'
    BY DEF CountInv
  <2>1. NMade(u) \in Nat /\ NLeft(u) \in Nat /\ NConnecting(u) \in Nat /\ rc[u] \in Nat
    BY <1>1, MadeFinite DEF DListTypes
  <2>0. NMade(u)' \in Nat /\ NLeft(u)' \in Nat /\ NConnecting(u)' \in Nat
    BY MadeFiniteNext
  <2>2. rc[u] = NMade(u) + NLeft(u) + NConnecting(u) + Kept(u)
    BY <1>1 DEF CountInv
  <2>3. NMade(u)' = NMade(u)
    BY <1>3, MadeSame
  <2>4. NLeft(u)' = NLeft(u)
    BY <1>3, MadeSame
  <2>5. NConnecting(u)' = NConnecting(u)
    <3>1. at[Ev].at # "connect" /\ r.at # "connect"
      BY <1>3, <1>4
    <3>. QED  BY <3>1, <1>1, <1>5, <1>8, ConnectingSame
  <2>. QED  BY <2>0, <2>1, <2>2, <2>3, <2>4, <2>5, <1>1, <1>2, <1>3, <1>4, <1>5, <1>6 DEF Kept, SessionInv, DListTypes, DBusTypes
<1>19. ASSUME odd' = {}
      PROVE  OnceInv'
  BY <1>1, <1>2, <1>3, <1>4, <1>5, <1>6, <1>19 DEF OnceInv, DListTypes, DBusTypes, ContextInv
<1>20. ASSUME odd' = {}
      PROVE  ArrivalInv'
  BY <1>1, <1>2, <1>3, <1>4, <1>5, <1>6, <1>20 DEF ArrivalInv, OnceInv, EvPending, OwnPending, DBusTypes, DListTypes, SessionInv, ContextInv, EvInv, Adding, Scanning, Finding, Locking
<1>21. ASSUME odd' = {}
      PROVE  RemovalInv'
  BY <1>1, <1>2, <1>3, <1>4, <1>5, <1>6, <1>21 DEF RemovalInv, OnceInv, DBusTypes, DListTypes, SessionInv, ContextInv, EvInv, Adding, Scanning, Finding, Locking
<1>. QED
  BY <1>11, <1>12, <1>13, <1>14, <1>15, <1>16, <1>17, <1>18, <1>19, <1>20, <1>21
  DEF DDevicesInv, ExactInv

LEMMA DetachedDoneStep ==
    ASSUME DDevicesInv,
           odd = {},
           DDevices!DetachedDone
    PROVE  DDevicesInv'
<1>. DEFINE r == [at |-> "idle", todo |-> {}, s |-> 0, c |-> "free"]
<1>1. CacheTypes /\ SessionInv /\ ContextInv /\ EvInv /\ ThreadInv /\ CountInv /\ OnceInv /\ ArrivalInv /\ RemovalInv
  BY DEF DDevicesInv, ExactInv
<1>2. Ev \notin DContexts /\ "free" \notin DContexts /\ Acts = DContexts \cup {Ev}
  BY ActsDiffer DEF Acts
<1>. USE DEF CacheTypes
<1>3. /\ at[Ev].at = "disconnect" /\ at[Ev].todo = {} /\ bus' = bus /\ dplugs' = dplugs
      /\ added' = added /\ removed' = removed /\ rc' = rc /\ good' = good /\ count' = count
      /\ thread' = thread /\ active' = active /\ inits' = inits /\ lock' = lock
      /\ listed' = listed /\ dheld' = dheld /\ gone' = gone /\ unseen' = unseen
      /\ missed' = missed /\ dfailed' = dfailed /\ odd' = odd /\ at' = [at EXCEPT ![Ev] = r]
  BY <1>1, <1>2, PlaceRead, IdleRead DEF DDevices!DetachedDone, DDevices!busVars, DDevices!histVars, DDevices!Sessions, DDevices!Actors, DDevices!Ev, DDevices!Free, DDevices!Place, DDevices!Idle, DDevices!Back, DDevices!Deref, DDevices!HandlerRuns, DDevices!Running, DDevices!StartsThread, Ev, Acts, Sess, DContextTypes
<1>4. r \in DPlace /\ r.at = "idle" /\ r.todo = {} /\ r.s = 0 /\ r.c = "free"
  <2>1. "idle" \in Places
    BY <1>1, <1>2, <1>3 DEF Places
  <2>2. {} \in Todos
    BY <1>1, <1>2, <1>3, TodosMade, PlaceRead DEF DContextTypes, DBusTypes
  <2>3. 0 \in 0..MaxSessions
    BY BoundsAreNumbers
  <2>4. "free" \in DContexts \cup {"free"}
    BY <1>1, <1>2, <1>3, PlaceRead DEF DContextTypes
  <2>. QED  BY Zenon, <2>1, <2>2, <2>3, <2>4, PlaceMade
<1>. HIDE DEF r
<1>5. Ev \in Acts
  BY <1>2, <1>3
<1>6. at' \in [Acts -> DPlace] /\ at'[Ev] = r /\ \A b \in Acts \ {Ev} : at'[b] = at[b]
  BY <1>1, <1>3, <1>4, <1>5, PlaceMoves DEF DContextTypes
<1>8. r \in DPlace /\ at' = [at EXCEPT ![Ev] = r]
  BY <1>3, <1>4
<1>11. DBusTypes'
  BY <1>1, <1>2, <1>3, <1>4, <1>5, <1>6, BoundsAreNumbers DEF DBusTypes, DListTypes, Sess
<1>12. DContextTypes'
  <2>1. count' \in Nat
    BY <1>1, <1>3 DEF DContextTypes
  <2>2. inits' \in 0..MaxInits
    BY <1>1, <1>3, BoundsAreNumbers DEF DContextTypes
  <2>. QED  BY <2>1, <2>2, <1>1, <1>2, <1>3, <1>4, <1>5, <1>6 DEF DContextTypes
<1>13. DListTypes'
  BY <1>1, <1>2, <1>3, <1>4, <1>5, <1>6 DEF DListTypes, DBusTypes, DContextTypes
<1>14. SessionInv'
  BY <1>1, <1>2, <1>3, <1>4, <1>5, <1>6 DEF SessionInv, EvInv, DBusTypes, DListTypes
<1>15. ContextInv'
  BY <1>1, <1>2, <1>3, <1>4, <1>5, <1>6, TodosMade DEF ContextInv, DListTypes, DContextTypes, DBusTypes, EvInv, Locking, Scanning, Finding
<1>16. EvInv'
  BY <1>1, <1>2, <1>3, <1>4, <1>5, <1>6 DEF EvInv, ContextInv, DContextTypes, Adding, Finding, Locking
<1>17. ThreadInv'
  <2>1. Counted' = Counted
    BY <1>1, <1>2, <1>3, <1>4, <1>5, <1>6, CountedMoves DEF Counted
  <2>. QED  BY <2>1, <1>1, <1>2, <1>3, <1>4, <1>5, <1>6 DEF ThreadInv, ContextInv, Locking, DContextTypes
<1>18. ASSUME odd' = {}
      PROVE  CountInv'
  <2>. SUFFICES ASSUME NEW u \in Sess
                PROVE  (rc[u] = NMade(u) + NLeft(u) + NConnecting(u) + Kept(u))'
    BY DEF CountInv
  <2>1. NMade(u) \in Nat /\ NLeft(u) \in Nat /\ NConnecting(u) \in Nat /\ rc[u] \in Nat
    BY <1>1, MadeFinite DEF DListTypes
  <2>0. NMade(u)' \in Nat /\ NLeft(u)' \in Nat /\ NConnecting(u)' \in Nat
    BY MadeFiniteNext
  <2>2. rc[u] = NMade(u) + NLeft(u) + NConnecting(u) + Kept(u)
    BY <1>1 DEF CountInv
  <2>3. NMade(u)' = NMade(u)
    BY <1>3, MadeSame
  <2>4. NLeft(u)' = NLeft(u)
    BY <1>3, MadeSame
  <2>5. NConnecting(u)' = NConnecting(u)
    <3>1. at[Ev].at # "connect" /\ r.at # "connect"
      BY <1>3, <1>4
    <3>. QED  BY <3>1, <1>1, <1>5, <1>8, ConnectingSame
  <2>. QED  BY <2>0, <2>1, <2>2, <2>3, <2>4, <2>5, <1>1, <1>2, <1>3, <1>4, <1>5, <1>6 DEF Kept, SessionInv, DListTypes, DBusTypes
<1>19. ASSUME odd' = {}
      PROVE  OnceInv'
  BY <1>1, <1>2, <1>3, <1>4, <1>5, <1>6, <1>19 DEF OnceInv, DListTypes, DBusTypes, ContextInv
<1>20. ASSUME odd' = {}
      PROVE  ArrivalInv'
  BY <1>1, <1>2, <1>3, <1>4, <1>5, <1>6, <1>20 DEF ArrivalInv, OnceInv, EvPending, OwnPending, DBusTypes, DListTypes, SessionInv, ContextInv, EvInv, Adding, Scanning, Finding, Locking
<1>21. ASSUME odd' = {}
      PROVE  RemovalInv'
  BY <1>1, <1>2, <1>3, <1>4, <1>5, <1>6, <1>21 DEF RemovalInv, OnceInv, DBusTypes, DListTypes, SessionInv, ContextInv, EvInv, Adding, Scanning, Finding, Locking
<1>. QED
  BY <1>11, <1>12, <1>13, <1>14, <1>15, <1>16, <1>17, <1>18, <1>19, <1>20, <1>21
  DEF DDevicesInv, ExactInv

LEMMA HoldStep ==
    ASSUME DDevicesInv,
           odd = {},
           NEW c \in DContexts,
           NEW s \in Sess,
           DDevices!Hold(c, s)
    PROVE  DDevicesInv'
<1>1. CacheTypes /\ SessionInv /\ ContextInv /\ EvInv /\ ThreadInv /\ CountInv /\ OnceInv /\ ArrivalInv /\ RemovalInv
  BY DEF DDevicesInv, ExactInv
<1>2. Ev \notin DContexts /\ "free" \notin DContexts /\ Acts = DContexts \cup {Ev}
  BY ActsDiffer DEF Acts
<1>. USE DEF CacheTypes
<1>3. /\ at[c].at = "in" /\ s \notin gone[c] /\ bus' = bus /\ dplugs' = dplugs
      /\ added' = added /\ removed' = removed /\ rc' = rc /\ good' = good /\ count' = count
      /\ thread' = thread /\ active' = active /\ inits' = inits /\ lock' = lock
      /\ listed' = listed /\ dheld' = [dheld EXCEPT ![c] = @ \cup {s}] /\ gone' = gone
      /\ unseen' = unseen /\ missed' = missed /\ dfailed' = dfailed /\ odd' = odd
      /\ at' = at
  BY <1>1, <1>2, PlaceRead, IdleRead DEF DDevices!Hold, DDevices!busVars, DDevices!histVars, DDevices!Sessions, DDevices!Actors, DDevices!Ev, DDevices!Free, DDevices!Place, DDevices!Idle, DDevices!Back, DDevices!Deref, DDevices!HandlerRuns, DDevices!Running, DDevices!StartsThread, Ev, Acts, Sess, DContextTypes
<1>11. DBusTypes'
  BY <1>1, <1>2, <1>3, BoundsAreNumbers DEF DBusTypes, DListTypes, Sess
<1>12. DContextTypes'
  <2>1. count' \in Nat
    BY <1>1, <1>3 DEF DContextTypes
  <2>2. inits' \in 0..MaxInits
    BY <1>1, <1>3, BoundsAreNumbers DEF DContextTypes
  <2>. QED  BY <2>1, <2>2, <1>1, <1>2, <1>3 DEF DContextTypes
<1>13. DListTypes'
  BY <1>1, <1>2, <1>3 DEF DListTypes, DBusTypes, DContextTypes
<1>14. SessionInv'
  BY <1>1, <1>2, <1>3 DEF SessionInv, EvInv, DBusTypes, DListTypes
<1>15. ContextInv'
  BY <1>1, <1>2, <1>3, TodosMade DEF ContextInv, DListTypes, DContextTypes, DBusTypes, EvInv, Locking, Scanning, Finding
<1>16. EvInv'
  BY <1>1, <1>2, <1>3 DEF EvInv, ContextInv, DContextTypes, Adding, Finding, Locking
<1>17. ThreadInv'
  BY <1>1, <1>2, <1>3 DEF ThreadInv, Counted
<1>18. ASSUME odd' = {}
      PROVE  CountInv'
  <2>. SUFFICES ASSUME NEW u \in Sess
                PROVE  (rc[u] = NMade(u) + NLeft(u) + NConnecting(u) + Kept(u))'
    BY DEF CountInv
  <2>1. NMade(u) \in Nat /\ NLeft(u) \in Nat /\ NConnecting(u) \in Nat /\ rc[u] \in Nat
    BY <1>1, MadeFinite DEF DListTypes
  <2>0. NMade(u)' \in Nat /\ NLeft(u)' \in Nat /\ NConnecting(u)' \in Nat
    BY MadeFiniteNext
  <2>2. rc[u] = NMade(u) + NLeft(u) + NConnecting(u) + Kept(u)
    BY <1>1 DEF CountInv
  <2>3. NMade(u)' = NMade(u)
    BY <1>3, MadeSame
  <2>4. NLeft(u)' = NLeft(u)
    BY <1>3, MadeSame
  <2>5. NConnecting(u)' = NConnecting(u)
    BY <1>3, MadeSame
  <2>. QED  BY <2>0, <2>1, <2>2, <2>3, <2>4, <2>5, <1>1, <1>2, <1>3 DEF Kept, SessionInv, DListTypes, DBusTypes
<1>19. ASSUME odd' = {}
      PROVE  OnceInv'
  BY <1>1, <1>2, <1>3, <1>19 DEF OnceInv, DListTypes, DBusTypes, ContextInv
<1>20. ASSUME odd' = {}
      PROVE  ArrivalInv'
  BY <1>1, <1>2, <1>3, <1>20 DEF ArrivalInv, OnceInv, EvPending, OwnPending, DBusTypes, DListTypes, SessionInv, ContextInv, EvInv, Adding, Scanning, Finding, Locking
<1>21. ASSUME odd' = {}
      PROVE  RemovalInv'
  BY <1>1, <1>2, <1>3, <1>21 DEF RemovalInv, OnceInv, DBusTypes, DListTypes, SessionInv, ContextInv, EvInv, Adding, Scanning, Finding, Locking
<1>. QED
  BY <1>11, <1>12, <1>13, <1>14, <1>15, <1>16, <1>17, <1>18, <1>19, <1>20, <1>21
  DEF DDevicesInv, ExactInv

LEMMA UnrefStep ==
    ASSUME DDevicesInv,
           odd = {},
           NEW c \in DContexts,
           NEW s \in Sess,
           DDevices!Unref(c, s)
    PROVE  DDevicesInv'
<1>1. CacheTypes /\ SessionInv /\ ContextInv /\ EvInv /\ ThreadInv /\ CountInv /\ OnceInv /\ ArrivalInv /\ RemovalInv
  BY DEF DDevicesInv, ExactInv
<1>2. Ev \notin DContexts /\ "free" \notin DContexts /\ Acts = DContexts \cup {Ev}
  BY ActsDiffer DEF Acts
<1>. USE DEF CacheTypes
<1>3. /\ (s \in dheld[c] \/ s \in gone[c]) /\ bus' = bus /\ dplugs' = dplugs
      /\ added' = added /\ removed' = removed
      /\ (rc' = IF s \in gone[c] THEN [rc EXCEPT ![s] = IF @ > 0 THEN @ - 1 ELSE 0] ELSE rc)
      /\ good' = good /\ count' = count /\ thread' = thread /\ active' = active
      /\ inits' = inits /\ lock' = lock /\ listed' = listed
      /\ dheld' = [dheld EXCEPT ![c] = @ \ {s}] /\ gone' = [gone EXCEPT ![c] = @ \ {s}]
      /\ unseen' = unseen /\ missed' = missed /\ dfailed' = dfailed /\ odd' = odd
      /\ at' = at
  BY <1>1, <1>2, PlaceRead, IdleRead DEF DDevices!Unref, DDevices!busVars, DDevices!histVars, DDevices!Sessions, DDevices!Actors, DDevices!Ev, DDevices!Free, DDevices!Place, DDevices!Idle, DDevices!Back, DDevices!Deref, DDevices!HandlerRuns, DDevices!Running, DDevices!StartsThread, Ev, Acts, Sess, DContextTypes
<1>11. DBusTypes'
  BY <1>1, <1>2, <1>3, BoundsAreNumbers DEF DBusTypes, DListTypes, Sess
<1>12. DContextTypes'
  <2>1. count' \in Nat
    BY <1>1, <1>3 DEF DContextTypes
  <2>2. inits' \in 0..MaxInits
    BY <1>1, <1>3, BoundsAreNumbers DEF DContextTypes
  <2>. QED  BY <2>1, <2>2, <1>1, <1>2, <1>3 DEF DContextTypes
<1>13. DListTypes'
  BY <1>1, <1>2, <1>3 DEF DListTypes, DBusTypes, DContextTypes
<1>14. SessionInv'
  BY <1>1, <1>2, <1>3 DEF SessionInv, EvInv, DBusTypes, DListTypes
<1>15. ContextInv'
  BY <1>1, <1>2, <1>3, TodosMade DEF ContextInv, DListTypes, DContextTypes, DBusTypes, EvInv, Locking, Scanning, Finding
<1>16. EvInv'
  BY <1>1, <1>2, <1>3 DEF EvInv, ContextInv, DContextTypes, Adding, Finding, Locking
<1>17. ThreadInv'
  BY <1>1, <1>2, <1>3 DEF ThreadInv, Counted
<1>18. ASSUME odd' = {}
      PROVE  CountInv'
  <2>. SUFFICES ASSUME NEW u \in Sess
                PROVE  (rc[u] = NMade(u) + NLeft(u) + NConnecting(u) + Kept(u))'
    BY DEF CountInv
  <2>1. NMade(u) \in Nat /\ NLeft(u) \in Nat /\ NConnecting(u) \in Nat /\ rc[u] \in Nat
    BY <1>1, MadeFinite DEF DListTypes
  <2>0. NMade(u)' \in Nat /\ NLeft(u)' \in Nat /\ NConnecting(u)' \in Nat
    BY MadeFiniteNext
  <2>2. rc[u] = NMade(u) + NLeft(u) + NConnecting(u) + Kept(u)
    BY <1>1 DEF CountInv
  <2>3. NMade(u)' = NMade(u)
    BY <1>3, MadeSame
  <2>4. NLeft(u)' = NLeft(u) - (IF u = s /\ s \in gone[c] THEN 1 ELSE 0)
    BY <1>1, <1>3, LeftDown
  <2>5. NConnecting(u)' = NConnecting(u)
    BY <1>3, MadeSame
  <2>6. rc'[u] = IF u = s /\ s \in gone[c] /\ rc[u] > 0 THEN rc[u] - 1 ELSE rc[u]
    BY <1>1, <1>3, <2>1 DEF DListTypes
  <2>. QED  BY <1>3, <2>0, <2>1, <2>2, <2>3, <2>4, <2>5, <2>6 DEF Kept
<1>19. ASSUME odd' = {}
      PROVE  OnceInv'
  BY <1>1, <1>2, <1>3, <1>19 DEF OnceInv, DListTypes, DBusTypes, ContextInv
<1>20. ASSUME odd' = {}
      PROVE  ArrivalInv'
  BY <1>1, <1>2, <1>3, <1>20 DEF ArrivalInv, OnceInv, EvPending, OwnPending, DBusTypes, DListTypes, SessionInv, ContextInv, EvInv, Adding, Scanning, Finding, Locking
<1>21. ASSUME odd' = {}
      PROVE  RemovalInv'
  BY <1>1, <1>2, <1>3, <1>21 DEF RemovalInv, OnceInv, DBusTypes, DListTypes, SessionInv, ContextInv, EvInv, Adding, Scanning, Finding, Locking
<1>. QED
  BY <1>11, <1>12, <1>13, <1>14, <1>15, <1>16, <1>17, <1>18, <1>19, <1>20, <1>21
  DEF DDevicesInv, ExactInv

\* The next service of a scan, or the next context of an arrival.
LEMMA TakenFound ==
    ASSUME DDevicesInv,
           odd = {},
           NEW a,
           NEW s,
           NEW c,
           NEW todo,
           \/ a \in DContexts /\ c = a /\ at[a].at = "scan" /\ s \in at[a].todo /\ todo = at[a].todo \ {s}
           \/ a = Ev /\ at[Ev].at = "add" /\ <<s, c>> \in at[Ev].todo /\ todo = at[Ev].todo \ {<<s, c>>},
           rc[s] > 0,
           s \in good,
           UNCHANGED <<rc, good, dfailed>>,
           at' = [at EXCEPT ![a] = [at |-> "processing", todo |-> todo, s |-> s, c |-> c]],
           UNCHANGED <<bus, dplugs, added, removed, count, thread, active, inits, lock, listed, dheld, gone, unseen, missed, odd>>
    PROVE  DDevicesInv'
<1>. DEFINE r == [at |-> "processing", todo |-> todo, s |-> s, c |-> c]
<1>1. CacheTypes /\ SessionInv /\ ContextInv /\ EvInv /\ ThreadInv /\ CountInv /\ OnceInv /\ ArrivalInv /\ RemovalInv
  BY DEF DDevicesInv, ExactInv
<1>2. Ev \notin DContexts /\ "free" \notin DContexts /\ Acts = DContexts \cup {Ev}
  BY ActsDiffer DEF Acts
<1>. USE DEF CacheTypes
<1>3. /\ a \in Acts /\ s \in Sess /\ c \in DContexts /\ c \in active
      /\ at[a].at \in {"scan", "add"} /\ (a \in DContexts => a # Ev) /\ bus' = bus
      /\ dplugs' = dplugs /\ added' = added /\ removed' = removed /\ rc' = rc
      /\ good' = good /\ count' = count /\ thread' = thread /\ active' = active
      /\ inits' = inits /\ lock' = lock /\ listed' = listed /\ dheld' = dheld
      /\ gone' = gone /\ unseen' = unseen /\ missed' = missed /\ dfailed' = dfailed
      /\ odd' = odd /\ at' = [at EXCEPT ![a] = r]
  <2>1. a \in Acts /\ s \in Sess /\ c \in DContexts /\ c \in active
    BY <1>1, <1>2 DEF ContextInv, EvInv, DContextTypes, Adding, Scanning, Locking
  <2>2. (a \in DContexts => a # Ev) /\ at[a].at \in {"scan", "add"}
    BY <1>2
  <2>. QED  BY <1>1, <1>2, <2>1, <2>2 DEF OnceInv
<1>4. r \in DPlace /\ r.at = "processing" /\ r.todo = todo /\ r.s = s /\ r.c = c
  <2>1. "processing" \in Places
    BY <1>1, <1>2, <1>3 DEF Places
  <2>2. todo \in Todos
    <3>1. at[a].todo \in Todos /\ \E y : todo = at[a].todo \ {y}
      BY <1>1, <1>3, PlaceRead DEF DContextTypes
    <3>. QED  BY Zenon, <3>1, TodosMade
  <2>3. s \in 0..MaxSessions
    BY <1>3 DEF Sess
  <2>4. c \in DContexts \cup {"free"}
    BY <1>1, <1>2, <1>3, PlaceRead DEF DContextTypes
  <2>. QED  BY Zenon, <2>1, <2>2, <2>3, <2>4, PlaceMade
<1>. HIDE DEF r
<1>5. a \in Acts
  BY <1>2, <1>3
<1>6. at' \in [Acts -> DPlace] /\ at'[a] = r /\ \A b \in Acts \ {a} : at'[b] = at[b]
  BY <1>1, <1>3, <1>4, <1>5, PlaceMoves DEF DContextTypes
<1>8. r \in DPlace /\ at' = [at EXCEPT ![a] = r]
  BY <1>3, <1>4
<1>11. DBusTypes'
  BY <1>1, <1>2, <1>3, <1>4, <1>5, <1>6, BoundsAreNumbers DEF DBusTypes, DListTypes, Sess
<1>12. DContextTypes'
  <2>1. count' \in Nat
    BY <1>1, <1>3 DEF DContextTypes
  <2>2. inits' \in 0..MaxInits
    BY <1>1, <1>3, BoundsAreNumbers DEF DContextTypes
  <2>. QED  BY <2>1, <2>2, <1>1, <1>2, <1>3, <1>4, <1>5, <1>6 DEF DContextTypes
<1>13. DListTypes'
  BY <1>1, <1>2, <1>3, <1>4, <1>5, <1>6 DEF DListTypes, DBusTypes, DContextTypes
<1>14. SessionInv'
  BY <1>1, <1>2, <1>3, <1>4, <1>5, <1>6 DEF SessionInv, EvInv, DBusTypes, DListTypes
<1>15. ContextInv'
  BY <1>1, <1>2, <1>3, <1>4, <1>5, <1>6, TodosMade DEF ContextInv, DListTypes, DContextTypes, DBusTypes, EvInv, Locking, Scanning, Finding
<1>16. EvInv'
  BY <1>1, <1>2, <1>3, <1>4, <1>5, <1>6 DEF EvInv, ContextInv, DContextTypes, Adding, Finding, Locking
<1>17. ThreadInv'
  <2>1. Counted' = Counted
    BY <1>1, <1>2, <1>3, <1>4, <1>5, <1>6, CountedMoves DEF Counted
  <2>. QED  BY <2>1, <1>1, <1>2, <1>3, <1>4, <1>5, <1>6 DEF ThreadInv, ContextInv, Locking, DContextTypes
<1>18. ASSUME odd' = {}
      PROVE  CountInv'
  <2>. SUFFICES ASSUME NEW u \in Sess
                PROVE  (rc[u] = NMade(u) + NLeft(u) + NConnecting(u) + Kept(u))'
    BY DEF CountInv
  <2>1. NMade(u) \in Nat /\ NLeft(u) \in Nat /\ NConnecting(u) \in Nat /\ rc[u] \in Nat
    BY <1>1, MadeFinite DEF DListTypes
  <2>0. NMade(u)' \in Nat /\ NLeft(u)' \in Nat /\ NConnecting(u)' \in Nat
    BY MadeFiniteNext
  <2>2. rc[u] = NMade(u) + NLeft(u) + NConnecting(u) + Kept(u)
    BY <1>1 DEF CountInv
  <2>3. NMade(u)' = NMade(u)
    BY <1>3, MadeSame
  <2>4. NLeft(u)' = NLeft(u)
    BY <1>3, MadeSame
  <2>5. NConnecting(u)' = NConnecting(u)
    <3>1. at[a].at # "connect" /\ r.at # "connect"
      BY <1>3, <1>4
    <3>. QED  BY <3>1, <1>1, <1>5, <1>8, ConnectingSame
  <2>. QED  BY <2>0, <2>1, <2>2, <2>3, <2>4, <2>5, <1>1, <1>2, <1>3, <1>4, <1>5, <1>6 DEF Kept, SessionInv, DListTypes, DBusTypes
<1>19. ASSUME odd' = {}
      PROVE  OnceInv'
  BY <1>1, <1>2, <1>3, <1>4, <1>5, <1>6, <1>19 DEF OnceInv, DListTypes, DBusTypes, ContextInv
<1>20. ASSUME odd' = {}
      PROVE  ArrivalInv'
  BY <1>1, <1>2, <1>3, <1>4, <1>5, <1>6, <1>20 DEF ArrivalInv, OnceInv, EvPending, OwnPending, DBusTypes, DListTypes, SessionInv, ContextInv, EvInv, Adding, Scanning, Finding, Locking
<1>21. ASSUME odd' = {}
      PROVE  RemovalInv'
  BY <1>1, <1>2, <1>3, <1>4, <1>5, <1>6, <1>21 DEF RemovalInv, OnceInv, DBusTypes, DListTypes, SessionInv, ContextInv, EvInv, Adding, Scanning, Finding, Locking
<1>. QED
  BY <1>11, <1>12, <1>13, <1>14, <1>15, <1>16, <1>17, <1>18, <1>19, <1>20, <1>21
  DEF DDevicesInv, ExactInv

LEMMA TakenNew ==
    ASSUME DDevicesInv,
           odd = {},
           NEW a,
           NEW s,
           NEW c,
           NEW todo,
           \/ a \in DContexts /\ c = a /\ at[a].at = "scan" /\ s \in at[a].todo /\ todo = at[a].todo \ {s}
           \/ a = Ev /\ at[Ev].at = "add" /\ <<s, c>> \in at[Ev].todo /\ todo = at[Ev].todo \ {<<s, c>>},
           s \in bus,
           rc[s] = 0,
           rc' = [rc EXCEPT ![s] = 1],
           good' = good \cup {s},
           dfailed' = dfailed,
           at' = [at EXCEPT ![a] = [at |-> "processing", todo |-> todo, s |-> s, c |-> c]],
           UNCHANGED <<bus, dplugs, added, removed, count, thread, active, inits, lock, listed, dheld, gone, unseen, missed, odd>>
    PROVE  DDevicesInv'
<1>. DEFINE r == [at |-> "processing", todo |-> todo, s |-> s, c |-> c]
<1>1. CacheTypes /\ SessionInv /\ ContextInv /\ EvInv /\ ThreadInv /\ CountInv /\ OnceInv /\ ArrivalInv /\ RemovalInv
  BY DEF DDevicesInv, ExactInv
<1>2. Ev \notin DContexts /\ "free" \notin DContexts /\ Acts = DContexts \cup {Ev}
  BY ActsDiffer DEF Acts
<1>. USE DEF CacheTypes
<1>3. /\ a \in Acts /\ s \in Sess /\ c \in DContexts /\ c \in active
      /\ at[a].at \in {"scan", "add"} /\ (a \in DContexts => a # Ev) /\ s \in bus
      /\ rc[s] = 0 /\ bus' = bus /\ dplugs' = dplugs /\ added' = added /\ removed' = removed
      /\ rc' = [rc EXCEPT ![s] = 1] /\ good' = good \cup {s} /\ count' = count
      /\ thread' = thread /\ active' = active /\ inits' = inits /\ lock' = lock
      /\ listed' = listed /\ dheld' = dheld /\ gone' = gone /\ unseen' = unseen
      /\ missed' = missed /\ dfailed' = dfailed /\ odd' = odd /\ at' = [at EXCEPT ![a] = r]
  <2>1. a \in Acts /\ s \in Sess /\ c \in DContexts /\ c \in active
    BY <1>1, <1>2 DEF ContextInv, EvInv, DContextTypes, Adding, Scanning, Locking
  <2>2. (a \in DContexts => a # Ev) /\ at[a].at \in {"scan", "add"}
    BY <1>2
  <2>. QED  BY <1>1, <1>2, <2>1, <2>2 DEF OnceInv
<1>4. r \in DPlace /\ r.at = "processing" /\ r.todo = todo /\ r.s = s /\ r.c = c
  <2>1. "processing" \in Places
    BY <1>1, <1>2, <1>3 DEF Places
  <2>2. todo \in Todos
    <3>1. at[a].todo \in Todos /\ \E y : todo = at[a].todo \ {y}
      BY <1>1, <1>3, PlaceRead DEF DContextTypes
    <3>. QED  BY Zenon, <3>1, TodosMade
  <2>3. s \in 0..MaxSessions
    BY <1>3 DEF Sess
  <2>4. c \in DContexts \cup {"free"}
    BY <1>1, <1>2, <1>3, PlaceRead DEF DContextTypes
  <2>. QED  BY Zenon, <2>1, <2>2, <2>3, <2>4, PlaceMade
<1>. HIDE DEF r
<1>5. a \in Acts
  BY <1>2, <1>3
<1>6. at' \in [Acts -> DPlace] /\ at'[a] = r /\ \A b \in Acts \ {a} : at'[b] = at[b]
  BY <1>1, <1>3, <1>4, <1>5, PlaceMoves DEF DContextTypes
<1>8. r \in DPlace /\ at' = [at EXCEPT ![a] = r]
  BY <1>3, <1>4
<1>11. DBusTypes'
  BY <1>1, <1>2, <1>3, <1>4, <1>5, <1>6, BoundsAreNumbers DEF DBusTypes, DListTypes, Sess
<1>12. DContextTypes'
  <2>1. count' \in Nat
    BY <1>1, <1>3 DEF DContextTypes
  <2>2. inits' \in 0..MaxInits
    BY <1>1, <1>3, BoundsAreNumbers DEF DContextTypes
  <2>. QED  BY <2>1, <2>2, <1>1, <1>2, <1>3, <1>4, <1>5, <1>6 DEF DContextTypes
<1>13. DListTypes'
  BY <1>1, <1>2, <1>3, <1>4, <1>5, <1>6 DEF DListTypes, DBusTypes, DContextTypes
<1>14. SessionInv'
  BY <1>1, <1>2, <1>3, <1>4, <1>5, <1>6 DEF SessionInv, EvInv, DBusTypes, DListTypes
<1>15. ContextInv'
  BY <1>1, <1>2, <1>3, <1>4, <1>5, <1>6, TodosMade DEF ContextInv, DListTypes, DContextTypes, DBusTypes, EvInv, Locking, Scanning, Finding
<1>16. EvInv'
  BY <1>1, <1>2, <1>3, <1>4, <1>5, <1>6 DEF EvInv, ContextInv, DContextTypes, Adding, Finding, Locking
<1>17. ThreadInv'
  <2>1. Counted' = Counted
    BY <1>1, <1>2, <1>3, <1>4, <1>5, <1>6, CountedMoves DEF Counted
  <2>. QED  BY <2>1, <1>1, <1>2, <1>3, <1>4, <1>5, <1>6 DEF ThreadInv, ContextInv, Locking, DContextTypes
<1>18. ASSUME odd' = {}
      PROVE  CountInv'
  <2>. SUFFICES ASSUME NEW u \in Sess
                PROVE  (rc[u] = NMade(u) + NLeft(u) + NConnecting(u) + Kept(u))'
    BY DEF CountInv
  <2>1. NMade(u) \in Nat /\ NLeft(u) \in Nat /\ NConnecting(u) \in Nat /\ rc[u] \in Nat
    BY <1>1, MadeFinite DEF DListTypes
  <2>0. NMade(u)' \in Nat /\ NLeft(u)' \in Nat /\ NConnecting(u)' \in Nat
    BY MadeFiniteNext
  <2>2. rc[u] = NMade(u) + NLeft(u) + NConnecting(u) + Kept(u)
    BY <1>1 DEF CountInv
  <2>3. NMade(u)' = NMade(u)
    BY <1>3, MadeSame
  <2>4. NLeft(u)' = NLeft(u)
    BY <1>3, MadeSame
  <2>5. NConnecting(u)' = NConnecting(u)
    <3>1. at[a].at # "connect" /\ r.at # "connect"
      BY <1>3, <1>4
    <3>. QED  BY <3>1, <1>1, <1>5, <1>8, ConnectingSame
  <2>. QED  BY <2>0, <2>1, <2>2, <2>3, <2>4, <2>5, <1>1, <1>2, <1>3, <1>4, <1>5, <1>6 DEF Kept, SessionInv, DListTypes, DBusTypes
<1>19. ASSUME odd' = {}
      PROVE  OnceInv'
  BY <1>1, <1>2, <1>3, <1>4, <1>5, <1>6, <1>19 DEF OnceInv, DListTypes, DBusTypes, ContextInv
<1>20. ASSUME odd' = {}
      PROVE  ArrivalInv'
  BY <1>1, <1>2, <1>3, <1>4, <1>5, <1>6, <1>20 DEF ArrivalInv, OnceInv, EvPending, OwnPending, DBusTypes, DListTypes, SessionInv, ContextInv, EvInv, Adding, Scanning, Finding, Locking
<1>21. ASSUME odd' = {}
      PROVE  RemovalInv'
  BY <1>1, <1>2, <1>3, <1>4, <1>5, <1>6, <1>21 DEF RemovalInv, OnceInv, DBusTypes, DListTypes, SessionInv, ContextInv, EvInv, Adding, Scanning, Finding, Locking
<1>. QED
  BY <1>11, <1>12, <1>13, <1>14, <1>15, <1>16, <1>17, <1>18, <1>19, <1>20, <1>21
  DEF DDevicesInv, ExactInv

LEMMA TakenBad ==
    ASSUME DDevicesInv,
           odd = {},
           NEW a,
           NEW s,
           NEW c,
           NEW todo,
           \/ a \in DContexts /\ c = a /\ at[a].at = "scan" /\ s \in at[a].todo /\ todo = at[a].todo \ {s}
           \/ a = Ev /\ at[Ev].at = "add" /\ <<s, c>> \in at[Ev].todo /\ todo = at[Ev].todo \ {<<s, c>>},
           NEW p,
           (a = Ev => p = "add") /\ (a \in DContexts => p = "scan"),
           rc[s] > 0,
           s \notin good,
           UNCHANGED <<rc, good, dfailed>>,
           at' = [at EXCEPT ![a] = [at |-> p, todo |-> todo, s |-> 0, c |-> "free"]],
           UNCHANGED <<bus, dplugs, added, removed, count, thread, active, inits, lock, listed, dheld, gone, unseen, missed, odd>>
    PROVE  DDevicesInv'
<1>. DEFINE r == [at |-> p, todo |-> todo, s |-> 0, c |-> "free"]
<1>1. CacheTypes /\ SessionInv /\ ContextInv /\ EvInv /\ ThreadInv /\ CountInv /\ OnceInv /\ ArrivalInv /\ RemovalInv
  BY DEF DDevicesInv, ExactInv
<1>2. Ev \notin DContexts /\ "free" \notin DContexts /\ Acts = DContexts \cup {Ev}
  BY ActsDiffer DEF Acts
<1>. USE DEF CacheTypes
<1>3. /\ a \in Acts /\ s \in Sess /\ c \in DContexts /\ c \in active
      /\ at[a].at \in {"scan", "add"} /\ (a \in DContexts => a # Ev) /\ s \in dfailed
      /\ (a = Ev \/ a \in DContexts) /\ p \in {"scan", "add"} /\ bus' = bus
      /\ dplugs' = dplugs /\ added' = added /\ removed' = removed /\ rc' = rc
      /\ good' = good /\ count' = count /\ thread' = thread /\ active' = active
      /\ inits' = inits /\ lock' = lock /\ listed' = listed /\ dheld' = dheld
      /\ gone' = gone /\ unseen' = unseen /\ missed' = missed /\ dfailed' = dfailed
      /\ odd' = odd /\ at' = [at EXCEPT ![a] = r]
  <2>1. a \in Acts /\ s \in Sess /\ c \in DContexts /\ c \in active
    BY <1>1, <1>2 DEF ContextInv, EvInv, DContextTypes, Adding, Scanning, Locking
  <2>2. (a \in DContexts => a # Ev) /\ at[a].at \in {"scan", "add"}
    BY <1>2
  <2>. QED  BY <1>1, <1>2, <2>1, <2>2 DEF OnceInv
<1>4. r \in DPlace /\ r.at = p /\ r.todo = todo /\ r.s = 0 /\ r.c = "free"
  <2>1. p \in Places
    BY <1>1, <1>2, <1>3 DEF Places
  <2>2. todo \in Todos
    <3>1. at[a].todo \in Todos /\ \E y : todo = at[a].todo \ {y}
      BY <1>1, <1>3, PlaceRead DEF DContextTypes
    <3>. QED  BY Zenon, <3>1, TodosMade
  <2>3. 0 \in 0..MaxSessions
    BY BoundsAreNumbers
  <2>4. "free" \in DContexts \cup {"free"}
    BY <1>1, <1>2, <1>3, PlaceRead DEF DContextTypes
  <2>. QED  BY Zenon, <2>1, <2>2, <2>3, <2>4, PlaceMade
<1>. HIDE DEF r
<1>5. a \in Acts
  BY <1>2, <1>3
<1>6. at' \in [Acts -> DPlace] /\ at'[a] = r /\ \A b \in Acts \ {a} : at'[b] = at[b]
  BY <1>1, <1>3, <1>4, <1>5, PlaceMoves DEF DContextTypes
<1>8. r \in DPlace /\ at' = [at EXCEPT ![a] = r]
  BY <1>3, <1>4
<1>11. DBusTypes'
  BY <1>1, <1>2, <1>3, <1>4, <1>5, <1>6, BoundsAreNumbers DEF DBusTypes, DListTypes, Sess
<1>12. DContextTypes'
  <2>1. count' \in Nat
    BY <1>1, <1>3 DEF DContextTypes
  <2>2. inits' \in 0..MaxInits
    BY <1>1, <1>3, BoundsAreNumbers DEF DContextTypes
  <2>. QED  BY <2>1, <2>2, <1>1, <1>2, <1>3, <1>4, <1>5, <1>6 DEF DContextTypes
<1>13. DListTypes'
  BY <1>1, <1>2, <1>3, <1>4, <1>5, <1>6 DEF DListTypes, DBusTypes, DContextTypes
<1>14. SessionInv'
  BY <1>1, <1>2, <1>3, <1>4, <1>5, <1>6 DEF SessionInv, EvInv, DBusTypes, DListTypes
<1>15. ContextInv'
  BY <1>1, <1>2, <1>3, <1>4, <1>5, <1>6, TodosMade DEF ContextInv, DListTypes, DContextTypes, DBusTypes, EvInv, Locking, Scanning, Finding
<1>16. EvInv'
  BY <1>1, <1>2, <1>3, <1>4, <1>5, <1>6 DEF EvInv, ContextInv, DContextTypes, Adding, Finding, Locking
<1>17. ThreadInv'
  <2>1. Counted' = Counted
    BY <1>1, <1>2, <1>3, <1>4, <1>5, <1>6, CountedMoves DEF Counted
  <2>. QED  BY <2>1, <1>1, <1>2, <1>3, <1>4, <1>5, <1>6 DEF ThreadInv, ContextInv, Locking, DContextTypes
<1>18. ASSUME odd' = {}
      PROVE  CountInv'
  <2>. SUFFICES ASSUME NEW u \in Sess
                PROVE  (rc[u] = NMade(u) + NLeft(u) + NConnecting(u) + Kept(u))'
    BY DEF CountInv
  <2>1. NMade(u) \in Nat /\ NLeft(u) \in Nat /\ NConnecting(u) \in Nat /\ rc[u] \in Nat
    BY <1>1, MadeFinite DEF DListTypes
  <2>0. NMade(u)' \in Nat /\ NLeft(u)' \in Nat /\ NConnecting(u)' \in Nat
    BY MadeFiniteNext
  <2>2. rc[u] = NMade(u) + NLeft(u) + NConnecting(u) + Kept(u)
    BY <1>1 DEF CountInv
  <2>3. NMade(u)' = NMade(u)
    BY <1>3, MadeSame
  <2>4. NLeft(u)' = NLeft(u)
    BY <1>3, MadeSame
  <2>5. NConnecting(u)' = NConnecting(u)
    <3>1. at[a].at # "connect" /\ r.at # "connect"
      BY <1>3, <1>4
    <3>. QED  BY <3>1, <1>1, <1>5, <1>8, ConnectingSame
  <2>. QED  BY <2>0, <2>1, <2>2, <2>3, <2>4, <2>5, <1>1, <1>2, <1>3, <1>4, <1>5, <1>6 DEF Kept, SessionInv, DListTypes, DBusTypes
<1>19. ASSUME odd' = {}
      PROVE  OnceInv'
  BY <1>1, <1>2, <1>3, <1>4, <1>5, <1>6, <1>19 DEF OnceInv, DListTypes, DBusTypes, ContextInv
<1>20. ASSUME odd' = {}
      PROVE  ArrivalInv'
  BY <1>1, <1>2, <1>3, <1>4, <1>5, <1>6, <1>20 DEF ArrivalInv, OnceInv, EvPending, OwnPending, DBusTypes, DListTypes, SessionInv, ContextInv, EvInv, Adding, Scanning, Finding, Locking
<1>21. ASSUME odd' = {}
      PROVE  RemovalInv'
  BY <1>1, <1>2, <1>3, <1>4, <1>5, <1>6, <1>21 DEF RemovalInv, OnceInv, DBusTypes, DListTypes, SessionInv, ContextInv, EvInv, Adding, Scanning, Finding, Locking
<1>. QED
  BY <1>11, <1>12, <1>13, <1>14, <1>15, <1>16, <1>17, <1>18, <1>19, <1>20, <1>21
  DEF DDevicesInv, ExactInv

LEMMA TakenNone ==
    ASSUME DDevicesInv,
           odd = {},
           NEW a,
           NEW s,
           NEW c,
           NEW todo,
           \/ a \in DContexts /\ c = a /\ at[a].at = "scan" /\ s \in at[a].todo /\ todo = at[a].todo \ {s}
           \/ a = Ev /\ at[Ev].at = "add" /\ <<s, c>> \in at[Ev].todo /\ todo = at[Ev].todo \ {<<s, c>>},
           NEW p,
           (a = Ev => p = "add") /\ (a \in DContexts => p = "scan"),
           rc[s] = 0,
           good' = good \ {s},
           dfailed' = dfailed \cup {s},
           rc' = rc \/ (s \in bus /\ rc' = [rc EXCEPT ![s] = 1]),
           at' = [at EXCEPT ![a] = [at |-> p, todo |-> todo, s |-> 0, c |-> "free"]],
           UNCHANGED <<bus, dplugs, added, removed, count, thread, active, inits, lock, listed, dheld, gone, unseen, missed, odd>>
    PROVE  DDevicesInv'
<1>. DEFINE r == [at |-> p, todo |-> todo, s |-> 0, c |-> "free"]
<1>1. CacheTypes /\ SessionInv /\ ContextInv /\ EvInv /\ ThreadInv /\ CountInv /\ OnceInv /\ ArrivalInv /\ RemovalInv
  BY DEF DDevicesInv, ExactInv
<1>2. Ev \notin DContexts /\ "free" \notin DContexts /\ Acts = DContexts \cup {Ev}
  BY ActsDiffer DEF Acts
<1>. USE DEF CacheTypes
<1>3. /\ a \in Acts /\ s \in Sess /\ c \in DContexts /\ c \in active
      /\ at[a].at \in {"scan", "add"} /\ (a \in DContexts => a # Ev) /\ rc[s] = 0
      /\ (a = Ev \/ a \in DContexts) /\ p \in {"scan", "add"} /\ bus' = bus
      /\ dplugs' = dplugs /\ added' = added /\ removed' = removed
      /\ (rc' = rc \/ (s \in bus /\ rc' = [rc EXCEPT ![s] = 1])) /\ good' = good \ {s}
      /\ count' = count /\ thread' = thread /\ active' = active /\ inits' = inits
      /\ lock' = lock /\ listed' = listed /\ dheld' = dheld /\ gone' = gone
      /\ unseen' = unseen /\ missed' = missed /\ dfailed' = dfailed \cup {s} /\ odd' = odd
      /\ at' = [at EXCEPT ![a] = r]
  <2>1. a \in Acts /\ s \in Sess /\ c \in DContexts /\ c \in active
    BY <1>1, <1>2 DEF ContextInv, EvInv, DContextTypes, Adding, Scanning, Locking
  <2>2. (a \in DContexts => a # Ev) /\ at[a].at \in {"scan", "add"}
    BY <1>2
  <2>. QED  BY <1>1, <1>2, <2>1, <2>2 DEF OnceInv
<1>4. r \in DPlace /\ r.at = p /\ r.todo = todo /\ r.s = 0 /\ r.c = "free"
  <2>1. p \in Places
    BY <1>1, <1>2, <1>3 DEF Places
  <2>2. todo \in Todos
    <3>1. at[a].todo \in Todos /\ \E y : todo = at[a].todo \ {y}
      BY <1>1, <1>3, PlaceRead DEF DContextTypes
    <3>. QED  BY Zenon, <3>1, TodosMade
  <2>3. 0 \in 0..MaxSessions
    BY BoundsAreNumbers
  <2>4. "free" \in DContexts \cup {"free"}
    BY <1>1, <1>2, <1>3, PlaceRead DEF DContextTypes
  <2>. QED  BY Zenon, <2>1, <2>2, <2>3, <2>4, PlaceMade
<1>. HIDE DEF r
<1>5. a \in Acts
  BY <1>2, <1>3
<1>6. at' \in [Acts -> DPlace] /\ at'[a] = r /\ \A b \in Acts \ {a} : at'[b] = at[b]
  BY <1>1, <1>3, <1>4, <1>5, PlaceMoves DEF DContextTypes
<1>8. r \in DPlace /\ at' = [at EXCEPT ![a] = r]
  BY <1>3, <1>4
<1>11. DBusTypes'
  BY <1>1, <1>2, <1>3, <1>4, <1>5, <1>6, BoundsAreNumbers DEF DBusTypes, DListTypes, Sess
<1>12. DContextTypes'
  <2>1. count' \in Nat
    BY <1>1, <1>3 DEF DContextTypes
  <2>2. inits' \in 0..MaxInits
    BY <1>1, <1>3, BoundsAreNumbers DEF DContextTypes
  <2>. QED  BY <2>1, <2>2, <1>1, <1>2, <1>3, <1>4, <1>5, <1>6 DEF DContextTypes
<1>13. DListTypes'
  <2>1. rc' \in [Sess -> Nat]
    <3>1. rc \in [Sess -> Nat] /\ [rc EXCEPT ![s] = 1] \in [Sess -> Nat]
      BY <1>1 DEF DListTypes
    <3>2. rc' = rc \/ rc' = [rc EXCEPT ![s] = 1]
      BY <1>3
    <3>. QED  BY <3>1, <3>2
  <2>2. UNCHANGED <<listed, dheld, gone>>
    BY <1>3
  <2>. QED  BY <1>1, <2>1, <2>2 DEF DListTypes
<1>14. SessionInv'
  BY <1>1, <1>2, <1>3, <1>4, <1>5, <1>6 DEF SessionInv, EvInv, DBusTypes, DListTypes
<1>15. ContextInv'
  BY <1>1, <1>2, <1>3, <1>4, <1>5, <1>6, TodosMade DEF ContextInv, DListTypes, DContextTypes, DBusTypes, EvInv, Locking, Scanning, Finding
<1>16. EvInv'
  BY <1>1, <1>2, <1>3, <1>4, <1>5, <1>6 DEF EvInv, ContextInv, DContextTypes, Adding, Finding, Locking
<1>17. ThreadInv'
  <2>1. Counted' = Counted
    BY <1>1, <1>2, <1>3, <1>4, <1>5, <1>6, CountedMoves DEF Counted
  <2>. QED  BY <2>1, <1>1, <1>2, <1>3, <1>4, <1>5, <1>6 DEF ThreadInv, ContextInv, Locking, DContextTypes
<1>18. ASSUME odd' = {}
      PROVE  CountInv'
  <2>. SUFFICES ASSUME NEW u \in Sess
                PROVE  (rc[u] = NMade(u) + NLeft(u) + NConnecting(u) + Kept(u))'
    BY DEF CountInv
  <2>1. NMade(u) \in Nat /\ NLeft(u) \in Nat /\ NConnecting(u) \in Nat /\ rc[u] \in Nat
    BY <1>1, MadeFinite DEF DListTypes
  <2>0. NMade(u)' \in Nat /\ NLeft(u)' \in Nat /\ NConnecting(u)' \in Nat
    BY MadeFiniteNext
  <2>2. rc[u] = NMade(u) + NLeft(u) + NConnecting(u) + Kept(u)
    BY <1>1 DEF CountInv
  <2>3. NMade(u)' = NMade(u)
    BY <1>3, MadeSame
  <2>4. NLeft(u)' = NLeft(u)
    BY <1>3, MadeSame
  <2>5. NConnecting(u)' = NConnecting(u)
    <3>1. at[a].at # "connect" /\ r.at # "connect"
      BY <1>3, <1>4
    <3>. QED  BY <3>1, <1>1, <1>5, <1>8, ConnectingSame
  <2>. QED  BY <2>0, <2>1, <2>2, <2>3, <2>4, <2>5, <1>1, <1>2, <1>3, <1>4, <1>5, <1>6 DEF Kept, SessionInv, DListTypes, DBusTypes
<1>19. ASSUME odd' = {}
      PROVE  OnceInv'
  BY <1>1, <1>2, <1>3, <1>4, <1>5, <1>6, <1>19 DEF OnceInv, DListTypes, DBusTypes, ContextInv
<1>20. ASSUME odd' = {}
      PROVE  ArrivalInv'
  BY <1>1, <1>2, <1>3, <1>4, <1>5, <1>6, <1>20 DEF ArrivalInv, OnceInv, EvPending, OwnPending, DBusTypes, DListTypes, SessionInv, ContextInv, EvInv, Adding, Scanning, Finding, Locking
<1>21. ASSUME odd' = {}
      PROVE  RemovalInv'
  BY <1>1, <1>2, <1>3, <1>4, <1>5, <1>6, <1>21 DEF RemovalInv, OnceInv, DBusTypes, DListTypes, SessionInv, ContextInv, EvInv, Adding, Scanning, Finding, Locking
<1>. QED
  BY <1>11, <1>12, <1>13, <1>14, <1>15, <1>16, <1>17, <1>18, <1>19, <1>20, <1>21
  DEF DDevicesInv, ExactInv

\* process_new_device().
LEMMA ProcessLost ==
    ASSUME DDevicesInv,
           odd = {},
           NEW a \in Acts,
           NEW s, s = at[a].s,
           NEW c, c = at[a].c,
           NEW p,
           (a = Ev => p = "add") /\ (a \in DContexts => p = "scan"),
           at[a].at = "processing",
           odd' = odd \cup {s},
           at' = [at EXCEPT ![a] = [at |-> p, todo |-> at[a].todo, s |-> 0, c |-> "free"]],
           UNCHANGED <<bus, dplugs, added, removed, good, count, thread, active, inits, lock, dheld, gone, unseen, missed, rc, listed, dfailed>>
    PROVE  DDevicesInv'
<1>. DEFINE r == [at |-> p, todo |-> at[a].todo, s |-> 0, c |-> "free"]
<1>1. CacheTypes /\ SessionInv /\ ContextInv /\ EvInv /\ ThreadInv /\ CountInv /\ OnceInv /\ ArrivalInv /\ RemovalInv
  BY DEF DDevicesInv, ExactInv
<1>2. Ev \notin DContexts /\ "free" \notin DContexts /\ Acts = DContexts \cup {Ev}
  BY ActsDiffer DEF Acts
<1>. USE DEF CacheTypes
<1>3. /\ s = at[a].s /\ c = at[a].c /\ s \in Sess /\ c \in DContexts /\ c \in active
      /\ (a \in DContexts => a # Ev /\ c = a) /\ (a = Ev \/ a \in DContexts)
      /\ at[a].at = "processing" /\ p \in {"scan", "add"} /\ bus' = bus /\ dplugs' = dplugs
      /\ added' = added /\ removed' = removed /\ rc' = rc /\ good' = good /\ count' = count
      /\ thread' = thread /\ active' = active /\ inits' = inits /\ lock' = lock
      /\ listed' = listed /\ dheld' = dheld /\ gone' = gone /\ unseen' = unseen
      /\ missed' = missed /\ dfailed' = dfailed /\ odd' = odd \cup {s}
      /\ at' = [at EXCEPT ![a] = r]
  <2>1. s \in Sess /\ c \in DContexts /\ c \in active /\ (a \in DContexts => a # Ev /\ c = a)
    BY <1>1, <1>2 DEF ContextInv, EvInv, DContextTypes, Finding, Locking
  <2>. QED  BY <1>1, <1>2, <2>1, PlaceRead DEF DContextTypes, OnceInv, DListTypes
<1>4. r \in DPlace /\ r.at = p /\ r.todo = at[a].todo /\ r.s = 0 /\ r.c = "free"
  <2>1. p \in Places
    BY <1>1, <1>2, <1>3 DEF Places
  <2>2. at[a].todo \in Todos
    BY <1>1, PlaceRead DEF DContextTypes
  <2>3. 0 \in 0..MaxSessions
    BY BoundsAreNumbers
  <2>4. "free" \in DContexts \cup {"free"}
    BY <1>1, <1>2, <1>3, PlaceRead DEF DContextTypes
  <2>. QED  BY <2>1, <2>2, <2>3, <2>4, PlaceMade
<1>. HIDE DEF r
<1>5. a \in Acts
  BY <1>2, <1>3
<1>6. at' \in [Acts -> DPlace] /\ at'[a] = r /\ \A b \in Acts \ {a} : at'[b] = at[b]
  BY <1>1, <1>3, <1>4, <1>5, PlaceMoves DEF DContextTypes
<1>8. r \in DPlace /\ at' = [at EXCEPT ![a] = r]
  BY <1>3, <1>4
<1>11. DBusTypes'
  BY <1>1, <1>2, <1>3, <1>4, <1>5, <1>6, BoundsAreNumbers DEF DBusTypes, DListTypes, Sess
<1>12. DContextTypes'
  <2>1. count' \in Nat
    BY <1>1, <1>3 DEF DContextTypes
  <2>2. inits' \in 0..MaxInits
    BY <1>1, <1>3, BoundsAreNumbers DEF DContextTypes
  <2>. QED  BY <2>1, <2>2, <1>1, <1>2, <1>3, <1>4, <1>5, <1>6 DEF DContextTypes
<1>13. DListTypes'
  BY <1>1, <1>2, <1>3, <1>4, <1>5, <1>6 DEF DListTypes, DBusTypes, DContextTypes
<1>14. SessionInv'
  BY <1>1, <1>2, <1>3, <1>4, <1>5, <1>6 DEF SessionInv, EvInv, DBusTypes, DListTypes
<1>15. ContextInv'
  BY <1>1, <1>2, <1>3, <1>4, <1>5, <1>6, TodosMade DEF ContextInv, DListTypes, DContextTypes, DBusTypes, EvInv, Locking, Scanning, Finding
<1>16. EvInv'
  BY <1>1, <1>2, <1>3, <1>4, <1>5, <1>6 DEF EvInv, ContextInv, DContextTypes, Adding, Finding, Locking
<1>17. ThreadInv'
  <2>1. Counted' = Counted
    BY <1>1, <1>2, <1>3, <1>4, <1>5, <1>6, CountedMoves DEF Counted
  <2>. QED  BY <2>1, <1>1, <1>2, <1>3, <1>4, <1>5, <1>6 DEF ThreadInv, ContextInv, Locking, DContextTypes
<1>18. odd' # {}
  BY <1>3
<1>. QED  BY <1>11, <1>12, <1>13, <1>14, <1>15, <1>16, <1>17, <1>18 DEF DDevicesInv

LEMMA ProcessMade ==
    ASSUME DDevicesInv,
           odd = {},
           NEW a \in Acts,
           NEW s, s = at[a].s,
           NEW c, c = at[a].c,
           at[a].at = "processing",
           rc[s] > 0,
           rc' = [rc EXCEPT ![s] = @ + 1],
           at' = [at EXCEPT ![a] = [at |-> "connect", todo |-> at[a].todo, s |-> s, c |-> c]],
           UNCHANGED <<bus, dplugs, added, removed, good, count, thread, active, inits, lock, dheld, gone, unseen, missed, odd, listed, dfailed>>
    PROVE  DDevicesInv'
<1>. DEFINE r == [at |-> "connect", todo |-> at[a].todo, s |-> s, c |-> c]
<1>1. CacheTypes /\ SessionInv /\ ContextInv /\ EvInv /\ ThreadInv /\ CountInv /\ OnceInv /\ ArrivalInv /\ RemovalInv
  BY DEF DDevicesInv, ExactInv
<1>2. Ev \notin DContexts /\ "free" \notin DContexts /\ Acts = DContexts \cup {Ev}
  BY ActsDiffer DEF Acts
<1>. USE DEF CacheTypes
<1>3. /\ s = at[a].s /\ c = at[a].c /\ s \in Sess /\ c \in DContexts /\ c \in active
      /\ (a \in DContexts => a # Ev /\ c = a) /\ (a = Ev \/ a \in DContexts)
      /\ at[a].at = "processing" /\ rc[s] > 0 /\ bus' = bus /\ dplugs' = dplugs
      /\ added' = added /\ removed' = removed /\ rc' = [rc EXCEPT ![s] = @ + 1]
      /\ good' = good /\ count' = count /\ thread' = thread /\ active' = active
      /\ inits' = inits /\ lock' = lock /\ listed' = listed /\ dheld' = dheld
      /\ gone' = gone /\ unseen' = unseen /\ missed' = missed /\ dfailed' = dfailed
      /\ odd' = odd /\ at' = [at EXCEPT ![a] = r]
  <2>1. s \in Sess /\ c \in DContexts /\ c \in active /\ (a \in DContexts => a # Ev /\ c = a)
    BY <1>1, <1>2 DEF ContextInv, EvInv, DContextTypes, Finding, Locking
  <2>. QED  BY <1>1, <1>2, <2>1, PlaceRead DEF DContextTypes, OnceInv, DListTypes
<1>4. r \in DPlace /\ r.at = "connect" /\ r.todo = at[a].todo /\ r.s = s /\ r.c = c
  <2>1. "connect" \in Places
    BY <1>1, <1>2, <1>3 DEF Places
  <2>2. at[a].todo \in Todos
    BY <1>1, PlaceRead DEF DContextTypes
  <2>3. s \in 0..MaxSessions
    BY <1>3 DEF Sess
  <2>4. c \in DContexts \cup {"free"}
    BY <1>1, <1>2, <1>3, PlaceRead DEF DContextTypes
  <2>. QED  BY <2>1, <2>2, <2>3, <2>4, PlaceMade
<1>. HIDE DEF r
<1>5. a \in Acts
  BY <1>2, <1>3
<1>6. at' \in [Acts -> DPlace] /\ at'[a] = r /\ \A b \in Acts \ {a} : at'[b] = at[b]
  BY <1>1, <1>3, <1>4, <1>5, PlaceMoves DEF DContextTypes
<1>8. r \in DPlace /\ at' = [at EXCEPT ![a] = r]
  BY <1>3, <1>4
<1>11. DBusTypes'
  BY <1>1, <1>2, <1>3, <1>4, <1>5, <1>6, BoundsAreNumbers DEF DBusTypes, DListTypes, Sess
<1>12. DContextTypes'
  <2>1. count' \in Nat
    BY <1>1, <1>3 DEF DContextTypes
  <2>2. inits' \in 0..MaxInits
    BY <1>1, <1>3, BoundsAreNumbers DEF DContextTypes
  <2>. QED  BY <2>1, <2>2, <1>1, <1>2, <1>3, <1>4, <1>5, <1>6 DEF DContextTypes
<1>13. DListTypes'
  BY <1>1, <1>2, <1>3, <1>4, <1>5, <1>6 DEF DListTypes, DBusTypes, DContextTypes
<1>14. SessionInv'
  BY <1>1, <1>2, <1>3, <1>4, <1>5, <1>6 DEF SessionInv, EvInv, DBusTypes, DListTypes
<1>15. ContextInv'
  BY <1>1, <1>2, <1>3, <1>4, <1>5, <1>6, TodosMade DEF ContextInv, DListTypes, DContextTypes, DBusTypes, EvInv, Locking, Scanning, Finding
<1>16. EvInv'
  BY <1>1, <1>2, <1>3, <1>4, <1>5, <1>6 DEF EvInv, ContextInv, DContextTypes, Adding, Finding, Locking
<1>17. ThreadInv'
  <2>1. Counted' = Counted
    BY <1>1, <1>2, <1>3, <1>4, <1>5, <1>6, CountedMoves DEF Counted
  <2>. QED  BY <2>1, <1>1, <1>2, <1>3, <1>4, <1>5, <1>6 DEF ThreadInv, ContextInv, Locking, DContextTypes
<1>18. ASSUME odd' = {}
      PROVE  CountInv'
  <2>. SUFFICES ASSUME NEW u \in Sess
                PROVE  (rc[u] = NMade(u) + NLeft(u) + NConnecting(u) + Kept(u))'
    BY DEF CountInv
  <2>1. NMade(u) \in Nat /\ NLeft(u) \in Nat /\ NConnecting(u) \in Nat /\ rc[u] \in Nat
    BY <1>1, MadeFinite DEF DListTypes
  <2>0. NMade(u)' \in Nat /\ NLeft(u)' \in Nat /\ NConnecting(u)' \in Nat
    BY MadeFiniteNext
  <2>2. rc[u] = NMade(u) + NLeft(u) + NConnecting(u) + Kept(u)
    BY <1>1 DEF CountInv
  <2>3. NMade(u)' = NMade(u)
    BY <1>3, MadeSame
  <2>4. NLeft(u)' = NLeft(u)
    BY <1>3, MadeSame
  <2>5. NConnecting(u)' = NConnecting(u) + (IF u = s THEN 1 ELSE 0)
    <3>1. at[a].at # "connect" /\ r.at = "connect" /\ r.s = s
      BY <1>3, <1>4
    <3>2. NConnecting(u)' = NConnecting(u) + (IF r.s = u THEN 1 ELSE 0)
      BY <3>1, <1>1, <1>5, <1>8, ConnectingUp
    <3>. QED  BY <3>1, <3>2
  <2>6. rc'[u] = IF u = s THEN rc[u] + 1 ELSE rc[u]
    BY <1>1, <1>3 DEF DListTypes
  <2>. QED  BY <2>0, <2>1, <2>2, <2>3, <2>4, <2>5, <2>6, <1>3 DEF Kept
<1>19. ASSUME odd' = {}
      PROVE  OnceInv'
  BY <1>1, <1>2, <1>3, <1>4, <1>5, <1>6, <1>19 DEF OnceInv, DListTypes, DBusTypes, ContextInv
<1>20. ASSUME odd' = {}
      PROVE  ArrivalInv'
  BY <1>1, <1>2, <1>3, <1>4, <1>5, <1>6, <1>20 DEF ArrivalInv, OnceInv, EvPending, OwnPending, DBusTypes, DListTypes, SessionInv, ContextInv, EvInv, Adding, Scanning, Finding, Locking
<1>21. ASSUME odd' = {}
      PROVE  RemovalInv'
  BY <1>1, <1>2, <1>3, <1>4, <1>5, <1>6, <1>21 DEF RemovalInv, OnceInv, DBusTypes, DListTypes, SessionInv, ContextInv, EvInv, Adding, Scanning, Finding, Locking
<1>. QED
  BY <1>11, <1>12, <1>13, <1>14, <1>15, <1>16, <1>17, <1>18, <1>19, <1>20, <1>21
  DEF DDevicesInv, ExactInv

LEMMA ProcessNone ==
    ASSUME DDevicesInv,
           odd = {},
           NEW a \in Acts,
           NEW s, s = at[a].s,
           NEW c, c = at[a].c,
           NEW p,
           (a = Ev => p = "add") /\ (a \in DContexts => p = "scan"),
           at[a].at = "processing",
           dfailed' = dfailed \cup {s},
           at' = [at EXCEPT ![a] = [at |-> p, todo |-> at[a].todo, s |-> 0, c |-> "free"]],
           UNCHANGED <<bus, dplugs, added, removed, good, count, thread, active, inits, lock, dheld, gone, unseen, missed, odd, listed, rc>>
    PROVE  DDevicesInv'
<1>. DEFINE r == [at |-> p, todo |-> at[a].todo, s |-> 0, c |-> "free"]
<1>1. CacheTypes /\ SessionInv /\ ContextInv /\ EvInv /\ ThreadInv /\ CountInv /\ OnceInv /\ ArrivalInv /\ RemovalInv
  BY DEF DDevicesInv, ExactInv
<1>2. Ev \notin DContexts /\ "free" \notin DContexts /\ Acts = DContexts \cup {Ev}
  BY ActsDiffer DEF Acts
<1>. USE DEF CacheTypes
<1>3. /\ s = at[a].s /\ c = at[a].c /\ s \in Sess /\ c \in DContexts /\ c \in active
      /\ (a \in DContexts => a # Ev /\ c = a) /\ (a = Ev \/ a \in DContexts)
      /\ at[a].at = "processing" /\ p \in {"scan", "add"} /\ bus' = bus /\ dplugs' = dplugs
      /\ added' = added /\ removed' = removed /\ rc' = rc /\ good' = good /\ count' = count
      /\ thread' = thread /\ active' = active /\ inits' = inits /\ lock' = lock
      /\ listed' = listed /\ dheld' = dheld /\ gone' = gone /\ unseen' = unseen
      /\ missed' = missed /\ dfailed' = dfailed \cup {s} /\ odd' = odd
      /\ at' = [at EXCEPT ![a] = r]
  <2>1. s \in Sess /\ c \in DContexts /\ c \in active /\ (a \in DContexts => a # Ev /\ c = a)
    BY <1>1, <1>2 DEF ContextInv, EvInv, DContextTypes, Finding, Locking
  <2>. QED  BY <1>1, <1>2, <2>1, PlaceRead DEF DContextTypes, OnceInv, DListTypes
<1>4. r \in DPlace /\ r.at = p /\ r.todo = at[a].todo /\ r.s = 0 /\ r.c = "free"
  <2>1. p \in Places
    BY <1>1, <1>2, <1>3 DEF Places
  <2>2. at[a].todo \in Todos
    BY <1>1, PlaceRead DEF DContextTypes
  <2>3. 0 \in 0..MaxSessions
    BY BoundsAreNumbers
  <2>4. "free" \in DContexts \cup {"free"}
    BY <1>1, <1>2, <1>3, PlaceRead DEF DContextTypes
  <2>. QED  BY <2>1, <2>2, <2>3, <2>4, PlaceMade
<1>. HIDE DEF r
<1>5. a \in Acts
  BY <1>2, <1>3
<1>6. at' \in [Acts -> DPlace] /\ at'[a] = r /\ \A b \in Acts \ {a} : at'[b] = at[b]
  BY <1>1, <1>3, <1>4, <1>5, PlaceMoves DEF DContextTypes
<1>8. r \in DPlace /\ at' = [at EXCEPT ![a] = r]
  BY <1>3, <1>4
<1>11. DBusTypes'
  BY <1>1, <1>2, <1>3, <1>4, <1>5, <1>6, BoundsAreNumbers DEF DBusTypes, DListTypes, Sess
<1>12. DContextTypes'
  <2>1. count' \in Nat
    BY <1>1, <1>3 DEF DContextTypes
  <2>2. inits' \in 0..MaxInits
    BY <1>1, <1>3, BoundsAreNumbers DEF DContextTypes
  <2>. QED  BY <2>1, <2>2, <1>1, <1>2, <1>3, <1>4, <1>5, <1>6 DEF DContextTypes
<1>13. DListTypes'
  BY <1>1, <1>2, <1>3, <1>4, <1>5, <1>6 DEF DListTypes, DBusTypes, DContextTypes
<1>14. SessionInv'
  BY <1>1, <1>2, <1>3, <1>4, <1>5, <1>6 DEF SessionInv, EvInv, DBusTypes, DListTypes
<1>15. ContextInv'
  BY <1>1, <1>2, <1>3, <1>4, <1>5, <1>6, TodosMade DEF ContextInv, DListTypes, DContextTypes, DBusTypes, EvInv, Locking, Scanning, Finding
<1>16. EvInv'
  BY <1>1, <1>2, <1>3, <1>4, <1>5, <1>6 DEF EvInv, ContextInv, DContextTypes, Adding, Finding, Locking
<1>17. ThreadInv'
  <2>1. Counted' = Counted
    BY <1>1, <1>2, <1>3, <1>4, <1>5, <1>6, CountedMoves DEF Counted
  <2>. QED  BY <2>1, <1>1, <1>2, <1>3, <1>4, <1>5, <1>6 DEF ThreadInv, ContextInv, Locking, DContextTypes
<1>18. ASSUME odd' = {}
      PROVE  CountInv'
  <2>. SUFFICES ASSUME NEW u \in Sess
                PROVE  (rc[u] = NMade(u) + NLeft(u) + NConnecting(u) + Kept(u))'
    BY DEF CountInv
  <2>1. NMade(u) \in Nat /\ NLeft(u) \in Nat /\ NConnecting(u) \in Nat /\ rc[u] \in Nat
    BY <1>1, MadeFinite DEF DListTypes
  <2>0. NMade(u)' \in Nat /\ NLeft(u)' \in Nat /\ NConnecting(u)' \in Nat
    BY MadeFiniteNext
  <2>2. rc[u] = NMade(u) + NLeft(u) + NConnecting(u) + Kept(u)
    BY <1>1 DEF CountInv
  <2>3. NMade(u)' = NMade(u)
    BY <1>3, MadeSame
  <2>4. NLeft(u)' = NLeft(u)
    BY <1>3, MadeSame
  <2>5. NConnecting(u)' = NConnecting(u)
    <3>1. at[a].at # "connect" /\ r.at # "connect"
      BY <1>3, <1>4
    <3>. QED  BY <3>1, <1>1, <1>5, <1>8, ConnectingSame
  <2>. QED  BY <2>0, <2>1, <2>2, <2>3, <2>4, <2>5, <1>1, <1>2, <1>3, <1>4, <1>5, <1>6 DEF Kept, SessionInv, DListTypes, DBusTypes
<1>19. ASSUME odd' = {}
      PROVE  OnceInv'
  BY <1>1, <1>2, <1>3, <1>4, <1>5, <1>6, <1>19 DEF OnceInv, DListTypes, DBusTypes, ContextInv
<1>20. ASSUME odd' = {}
      PROVE  ArrivalInv'
  BY <1>1, <1>2, <1>3, <1>4, <1>5, <1>6, <1>20 DEF ArrivalInv, OnceInv, EvPending, OwnPending, DBusTypes, DListTypes, SessionInv, ContextInv, EvInv, Adding, Scanning, Finding, Locking
<1>21. ASSUME odd' = {}
      PROVE  RemovalInv'
  BY <1>1, <1>2, <1>3, <1>4, <1>5, <1>6, <1>21 DEF RemovalInv, OnceInv, DBusTypes, DListTypes, SessionInv, ContextInv, EvInv, Adding, Scanning, Finding, Locking
<1>. QED
  BY <1>11, <1>12, <1>13, <1>14, <1>15, <1>16, <1>17, <1>18, <1>19, <1>20, <1>21
  DEF DDevicesInv, ExactInv

\* usbi_connect_device().
LEMMA ConnectListed ==
    ASSUME DDevicesInv,
           odd = {},
           NEW a \in Acts,
           NEW s, s = at[a].s,
           NEW c, c = at[a].c,
           NEW p,
           (a = Ev => p = "add") /\ (a \in DContexts => p = "scan"),
           at[a].at = "connect",
           listed' = [listed EXCEPT ![c][s] = @ + 1],
           listed[c][s] = 0,
           s \in bus \/ s \in removed \/ (at[Ev].at = "disconnect" /\ at[Ev].s = s /\ c \in at[Ev].todo),
           at' = [at EXCEPT ![a] = [at |-> p, todo |-> at[a].todo, s |-> 0, c |-> "free"]],
           UNCHANGED <<bus, dplugs, added, removed, good, count, thread, active, inits, lock, dheld, gone, unseen, missed, odd, rc, dfailed>>
    PROVE  DDevicesInv'
<1>. DEFINE r == [at |-> p, todo |-> at[a].todo, s |-> 0, c |-> "free"]
<1>1. CacheTypes /\ SessionInv /\ ContextInv /\ EvInv /\ ThreadInv /\ CountInv /\ OnceInv /\ ArrivalInv /\ RemovalInv
  BY DEF DDevicesInv, ExactInv
<1>2. Ev \notin DContexts /\ "free" \notin DContexts /\ Acts = DContexts \cup {Ev}
  BY ActsDiffer DEF Acts
<1>. USE DEF CacheTypes
<1>3. /\ s = at[a].s /\ c = at[a].c /\ s \in Sess /\ c \in DContexts /\ c \in active
      /\ (a \in DContexts => a # Ev /\ c = a) /\ (a = Ev \/ a \in DContexts)
      /\ at[a].at = "connect" /\ listed[c][s] = 0
      /\ (s \in bus \/ s \in removed \/ (at[Ev].at = "disconnect" /\ at[Ev].s = s /\ c \in at[Ev].todo))
      /\ p \in {"scan", "add"} /\ bus' = bus /\ dplugs' = dplugs /\ added' = added
      /\ removed' = removed /\ rc' = rc /\ good' = good /\ count' = count
      /\ thread' = thread /\ active' = active /\ inits' = inits /\ lock' = lock
      /\ listed' = [listed EXCEPT ![c][s] = @ + 1] /\ dheld' = dheld /\ gone' = gone
      /\ unseen' = unseen /\ missed' = missed /\ dfailed' = dfailed /\ odd' = odd
      /\ at' = [at EXCEPT ![a] = r]
  <2>1. s \in Sess /\ c \in DContexts /\ c \in active /\ (a \in DContexts => a # Ev /\ c = a)
    BY <1>1, <1>2 DEF ContextInv, EvInv, DContextTypes, Finding, Locking
  <2>. QED  BY <1>1, <1>2, <2>1, PlaceRead DEF DContextTypes, OnceInv, DListTypes
<1>4. r \in DPlace /\ r.at = p /\ r.todo = at[a].todo /\ r.s = 0 /\ r.c = "free"
  <2>1. p \in Places
    BY <1>1, <1>2, <1>3 DEF Places
  <2>2. at[a].todo \in Todos
    BY <1>1, PlaceRead DEF DContextTypes
  <2>3. 0 \in 0..MaxSessions
    BY BoundsAreNumbers
  <2>4. "free" \in DContexts \cup {"free"}
    BY <1>1, <1>2, <1>3, PlaceRead DEF DContextTypes
  <2>. QED  BY <2>1, <2>2, <2>3, <2>4, PlaceMade
<1>. HIDE DEF r
<1>5. a \in Acts
  BY <1>2, <1>3
<1>6. at' \in [Acts -> DPlace] /\ at'[a] = r /\ \A b \in Acts \ {a} : at'[b] = at[b]
  BY <1>1, <1>3, <1>4, <1>5, PlaceMoves DEF DContextTypes
<1>8. r \in DPlace /\ at' = [at EXCEPT ![a] = r]
  BY <1>3, <1>4
<1>11. DBusTypes'
  BY <1>1, <1>2, <1>3, <1>4, <1>5, <1>6, BoundsAreNumbers DEF DBusTypes, DListTypes, Sess
<1>12. DContextTypes'
  <2>1. count' \in Nat
    BY <1>1, <1>3 DEF DContextTypes
  <2>2. inits' \in 0..MaxInits
    BY <1>1, <1>3, BoundsAreNumbers DEF DContextTypes
  <2>. QED  BY <2>1, <2>2, <1>1, <1>2, <1>3, <1>4, <1>5, <1>6 DEF DContextTypes
<1>13. DListTypes'
  BY <1>1, <1>2, <1>3, <1>4, <1>5, <1>6 DEF DListTypes, DBusTypes, DContextTypes
<1>14. SessionInv'
  BY <1>1, <1>2, <1>3, <1>4, <1>5, <1>6 DEF SessionInv, EvInv, DBusTypes, DListTypes
<1>15. ContextInv'
  BY <1>1, <1>2, <1>3, <1>4, <1>5, <1>6, TodosMade DEF ContextInv, DListTypes, DContextTypes, DBusTypes, EvInv, Locking, Scanning, Finding
<1>16. EvInv'
  BY <1>1, <1>2, <1>3, <1>4, <1>5, <1>6 DEF EvInv, ContextInv, DContextTypes, Adding, Finding, Locking
<1>17. ThreadInv'
  <2>1. Counted' = Counted
    BY <1>1, <1>2, <1>3, <1>4, <1>5, <1>6, CountedMoves DEF Counted
  <2>. QED  BY <2>1, <1>1, <1>2, <1>3, <1>4, <1>5, <1>6 DEF ThreadInv, ContextInv, Locking, DContextTypes
<1>18. ASSUME odd' = {}
      PROVE  CountInv'
  <2>. SUFFICES ASSUME NEW u \in Sess
                PROVE  (rc[u] = NMade(u) + NLeft(u) + NConnecting(u) + Kept(u))'
    BY DEF CountInv
  <2>1. NMade(u) \in Nat /\ NLeft(u) \in Nat /\ NConnecting(u) \in Nat /\ rc[u] \in Nat
    BY <1>1, MadeFinite DEF DListTypes
  <2>0. NMade(u)' \in Nat /\ NLeft(u)' \in Nat /\ NConnecting(u)' \in Nat
    BY MadeFiniteNext
  <2>2. rc[u] = NMade(u) + NLeft(u) + NConnecting(u) + Kept(u)
    BY <1>1 DEF CountInv
  <2>3. NMade(u)' = NMade(u) + (IF u = s THEN 1 ELSE 0)
    BY <1>1, <1>3, MadeUp
  <2>4. NLeft(u)' = NLeft(u)
    BY <1>3, MadeSame
  <2>5. NConnecting(u)' = NConnecting(u) - (IF u = s THEN 1 ELSE 0)
    <3>1. at[a].at = "connect" /\ r.at # "connect" /\ at[a].s = s
      BY <1>3, <1>4
    <3>2. NConnecting(u)' = NConnecting(u) - (IF at[a].s = u THEN 1 ELSE 0)
      BY <3>1, <1>1, <1>5, <1>8, ConnectingDown
    <3>. QED  BY <3>1, <3>2
  <2>. QED  BY <2>0, <2>1, <2>2, <2>3, <2>4, <2>5, <1>1, <1>2, <1>3, <1>4, <1>5, <1>6 DEF Kept, SessionInv, DListTypes, DBusTypes
<1>19. ASSUME odd' = {}
      PROVE  OnceInv'
  BY <1>1, <1>2, <1>3, <1>4, <1>5, <1>6, <1>19 DEF OnceInv, DListTypes, DBusTypes, ContextInv
<1>20. ASSUME odd' = {}
      PROVE  ArrivalInv'
  BY <1>1, <1>2, <1>3, <1>4, <1>5, <1>6, <1>20 DEF ArrivalInv, OnceInv, EvPending, OwnPending, DBusTypes, DListTypes, SessionInv, ContextInv, EvInv, Adding, Scanning, Finding, Locking
<1>21. ASSUME odd' = {}
      PROVE  RemovalInv'
  BY <1>1, <1>2, <1>3, <1>4, <1>5, <1>6, <1>21 DEF RemovalInv, OnceInv, DBusTypes, DListTypes, SessionInv, ContextInv, EvInv, Adding, Scanning, Finding, Locking
<1>. QED
  BY <1>11, <1>12, <1>13, <1>14, <1>15, <1>16, <1>17, <1>18, <1>19, <1>20, <1>21
  DEF DDevicesInv, ExactInv

LEMMA ConnectOdd ==
    ASSUME DDevicesInv,
           odd = {},
           NEW a \in Acts,
           NEW s, s = at[a].s,
           NEW c, c = at[a].c,
           NEW p,
           (a = Ev => p = "add") /\ (a \in DContexts => p = "scan"),
           at[a].at = "connect",
           listed' = [listed EXCEPT ![c][s] = @ + 1],
           odd' = odd \cup {s},
           at' = [at EXCEPT ![a] = [at |-> p, todo |-> at[a].todo, s |-> 0, c |-> "free"]],
           UNCHANGED <<bus, dplugs, added, removed, good, count, thread, active, inits, lock, dheld, gone, unseen, missed, rc, dfailed>>
    PROVE  DDevicesInv'
<1>. DEFINE r == [at |-> p, todo |-> at[a].todo, s |-> 0, c |-> "free"]
<1>1. CacheTypes /\ SessionInv /\ ContextInv /\ EvInv /\ ThreadInv /\ CountInv /\ OnceInv /\ ArrivalInv /\ RemovalInv
  BY DEF DDevicesInv, ExactInv
<1>2. Ev \notin DContexts /\ "free" \notin DContexts /\ Acts = DContexts \cup {Ev}
  BY ActsDiffer DEF Acts
<1>. USE DEF CacheTypes
<1>3. /\ s = at[a].s /\ c = at[a].c /\ s \in Sess /\ c \in DContexts /\ c \in active
      /\ (a \in DContexts => a # Ev /\ c = a) /\ (a = Ev \/ a \in DContexts)
      /\ at[a].at = "connect" /\ listed[c][s] \in 0..1 /\ p \in {"scan", "add"}
      /\ bus' = bus /\ dplugs' = dplugs /\ added' = added /\ removed' = removed /\ rc' = rc
      /\ good' = good /\ count' = count /\ thread' = thread /\ active' = active
      /\ inits' = inits /\ lock' = lock /\ listed' = [listed EXCEPT ![c][s] = @ + 1]
      /\ dheld' = dheld /\ gone' = gone /\ unseen' = unseen /\ missed' = missed
      /\ dfailed' = dfailed /\ odd' = odd \cup {s} /\ at' = [at EXCEPT ![a] = r]
  <2>1. s \in Sess /\ c \in DContexts /\ c \in active /\ (a \in DContexts => a # Ev /\ c = a)
    BY <1>1, <1>2 DEF ContextInv, EvInv, DContextTypes, Finding, Locking
  <2>. QED  BY <1>1, <1>2, <2>1, PlaceRead DEF DContextTypes, OnceInv, DListTypes
<1>4. r \in DPlace /\ r.at = p /\ r.todo = at[a].todo /\ r.s = 0 /\ r.c = "free"
  <2>1. p \in Places
    BY <1>1, <1>2, <1>3 DEF Places
  <2>2. at[a].todo \in Todos
    BY <1>1, PlaceRead DEF DContextTypes
  <2>3. 0 \in 0..MaxSessions
    BY BoundsAreNumbers
  <2>4. "free" \in DContexts \cup {"free"}
    BY <1>1, <1>2, <1>3, PlaceRead DEF DContextTypes
  <2>. QED  BY <2>1, <2>2, <2>3, <2>4, PlaceMade
<1>. HIDE DEF r
<1>5. a \in Acts
  BY <1>2, <1>3
<1>6. at' \in [Acts -> DPlace] /\ at'[a] = r /\ \A b \in Acts \ {a} : at'[b] = at[b]
  BY <1>1, <1>3, <1>4, <1>5, PlaceMoves DEF DContextTypes
<1>8. r \in DPlace /\ at' = [at EXCEPT ![a] = r]
  BY <1>3, <1>4
<1>11. DBusTypes'
  BY <1>1, <1>2, <1>3, <1>4, <1>5, <1>6, BoundsAreNumbers DEF DBusTypes, DListTypes, Sess
<1>12. DContextTypes'
  <2>1. count' \in Nat
    BY <1>1, <1>3 DEF DContextTypes
  <2>2. inits' \in 0..MaxInits
    BY <1>1, <1>3, BoundsAreNumbers DEF DContextTypes
  <2>. QED  BY <2>1, <2>2, <1>1, <1>2, <1>3, <1>4, <1>5, <1>6 DEF DContextTypes
<1>13. DListTypes'
  BY <1>1, <1>2, <1>3, <1>4, <1>5, <1>6 DEF DListTypes, DBusTypes, DContextTypes
<1>14. SessionInv'
  BY <1>1, <1>2, <1>3, <1>4, <1>5, <1>6 DEF SessionInv, EvInv, DBusTypes, DListTypes
<1>15. ContextInv'
  BY <1>1, <1>2, <1>3, <1>4, <1>5, <1>6, TodosMade DEF ContextInv, DListTypes, DContextTypes, DBusTypes, EvInv, Locking, Scanning, Finding
<1>16. EvInv'
  BY <1>1, <1>2, <1>3, <1>4, <1>5, <1>6 DEF EvInv, ContextInv, DContextTypes, Adding, Finding, Locking
<1>17. ThreadInv'
  <2>1. Counted' = Counted
    BY <1>1, <1>2, <1>3, <1>4, <1>5, <1>6, CountedMoves DEF Counted
  <2>. QED  BY <2>1, <1>1, <1>2, <1>3, <1>4, <1>5, <1>6 DEF ThreadInv, ContextInv, Locking, DContextTypes
<1>18. odd' # {}
  BY <1>3
<1>. QED  BY <1>11, <1>12, <1>13, <1>14, <1>15, <1>16, <1>17, <1>18 DEF DDevicesInv

LEMMA ConnectNone ==
    ASSUME DDevicesInv,
           odd = {},
           NEW a \in Acts,
           NEW s, s = at[a].s,
           NEW c, c = at[a].c,
           NEW p,
           (a = Ev => p = "add") /\ (a \in DContexts => p = "scan"),
           at[a].at = "connect",
           rc' = [rc EXCEPT ![s] = IF @ > 0 THEN @ - 1 ELSE 0],
           dfailed' = dfailed \cup {s},
           at' = [at EXCEPT ![a] = [at |-> p, todo |-> at[a].todo, s |-> 0, c |-> "free"]],
           UNCHANGED <<bus, dplugs, added, removed, good, count, thread, active, inits, lock, dheld, gone, unseen, missed, odd, listed>>
    PROVE  DDevicesInv'
<1>. DEFINE r == [at |-> p, todo |-> at[a].todo, s |-> 0, c |-> "free"]
<1>1. CacheTypes /\ SessionInv /\ ContextInv /\ EvInv /\ ThreadInv /\ CountInv /\ OnceInv /\ ArrivalInv /\ RemovalInv
  BY DEF DDevicesInv, ExactInv
<1>2. Ev \notin DContexts /\ "free" \notin DContexts /\ Acts = DContexts \cup {Ev}
  BY ActsDiffer DEF Acts
<1>. USE DEF CacheTypes
<1>3. /\ s = at[a].s /\ c = at[a].c /\ s \in Sess /\ c \in DContexts /\ c \in active
      /\ (a \in DContexts => a # Ev /\ c = a) /\ (a = Ev \/ a \in DContexts)
      /\ at[a].at = "connect" /\ p \in {"scan", "add"} /\ bus' = bus /\ dplugs' = dplugs
      /\ added' = added /\ removed' = removed
      /\ (rc' = [rc EXCEPT ![s] = IF @ > 0 THEN @ - 1 ELSE 0]) /\ good' = good
      /\ count' = count /\ thread' = thread /\ active' = active /\ inits' = inits
      /\ lock' = lock /\ listed' = listed /\ dheld' = dheld /\ gone' = gone
      /\ unseen' = unseen /\ missed' = missed /\ dfailed' = dfailed \cup {s} /\ odd' = odd
      /\ at' = [at EXCEPT ![a] = r]
  <2>1. s \in Sess /\ c \in DContexts /\ c \in active /\ (a \in DContexts => a # Ev /\ c = a)
    BY <1>1, <1>2 DEF ContextInv, EvInv, DContextTypes, Finding, Locking
  <2>. QED  BY <1>1, <1>2, <2>1, PlaceRead DEF DContextTypes, OnceInv, DListTypes
<1>4. r \in DPlace /\ r.at = p /\ r.todo = at[a].todo /\ r.s = 0 /\ r.c = "free"
  <2>1. p \in Places
    BY <1>1, <1>2, <1>3 DEF Places
  <2>2. at[a].todo \in Todos
    BY <1>1, PlaceRead DEF DContextTypes
  <2>3. 0 \in 0..MaxSessions
    BY BoundsAreNumbers
  <2>4. "free" \in DContexts \cup {"free"}
    BY <1>1, <1>2, <1>3, PlaceRead DEF DContextTypes
  <2>. QED  BY <2>1, <2>2, <2>3, <2>4, PlaceMade
<1>. HIDE DEF r
<1>5. a \in Acts
  BY <1>2, <1>3
<1>6. at' \in [Acts -> DPlace] /\ at'[a] = r /\ \A b \in Acts \ {a} : at'[b] = at[b]
  BY <1>1, <1>3, <1>4, <1>5, PlaceMoves DEF DContextTypes
<1>8. r \in DPlace /\ at' = [at EXCEPT ![a] = r]
  BY <1>3, <1>4
<1>11. DBusTypes'
  BY <1>1, <1>2, <1>3, <1>4, <1>5, <1>6, BoundsAreNumbers DEF DBusTypes, DListTypes, Sess
<1>12. DContextTypes'
  <2>1. count' \in Nat
    BY <1>1, <1>3 DEF DContextTypes
  <2>2. inits' \in 0..MaxInits
    BY <1>1, <1>3, BoundsAreNumbers DEF DContextTypes
  <2>. QED  BY <2>1, <2>2, <1>1, <1>2, <1>3, <1>4, <1>5, <1>6 DEF DContextTypes
<1>13. DListTypes'
  BY <1>1, <1>2, <1>3, <1>4, <1>5, <1>6 DEF DListTypes, DBusTypes, DContextTypes
<1>14. SessionInv'
  BY <1>1, <1>2, <1>3, <1>4, <1>5, <1>6 DEF SessionInv, EvInv, DBusTypes, DListTypes
<1>15. ContextInv'
  BY <1>1, <1>2, <1>3, <1>4, <1>5, <1>6, TodosMade DEF ContextInv, DListTypes, DContextTypes, DBusTypes, EvInv, Locking, Scanning, Finding
<1>16. EvInv'
  BY <1>1, <1>2, <1>3, <1>4, <1>5, <1>6 DEF EvInv, ContextInv, DContextTypes, Adding, Finding, Locking
<1>17. ThreadInv'
  <2>1. Counted' = Counted
    BY <1>1, <1>2, <1>3, <1>4, <1>5, <1>6, CountedMoves DEF Counted
  <2>. QED  BY <2>1, <1>1, <1>2, <1>3, <1>4, <1>5, <1>6 DEF ThreadInv, ContextInv, Locking, DContextTypes
<1>18. ASSUME odd' = {}
      PROVE  CountInv'
  <2>. SUFFICES ASSUME NEW u \in Sess
                PROVE  (rc[u] = NMade(u) + NLeft(u) + NConnecting(u) + Kept(u))'
    BY DEF CountInv
  <2>1. NMade(u) \in Nat /\ NLeft(u) \in Nat /\ NConnecting(u) \in Nat /\ rc[u] \in Nat
    BY <1>1, MadeFinite DEF DListTypes
  <2>0. NMade(u)' \in Nat /\ NLeft(u)' \in Nat /\ NConnecting(u)' \in Nat
    BY MadeFiniteNext
  <2>2. rc[u] = NMade(u) + NLeft(u) + NConnecting(u) + Kept(u)
    BY <1>1 DEF CountInv
  <2>3. NMade(u)' = NMade(u)
    BY <1>3, MadeSame
  <2>4. NLeft(u)' = NLeft(u)
    BY <1>3, MadeSame
  <2>5. NConnecting(u)' = NConnecting(u) - (IF u = s THEN 1 ELSE 0)
    <3>1. at[a].at = "connect" /\ r.at # "connect" /\ at[a].s = s
      BY <1>3, <1>4
    <3>2. NConnecting(u)' = NConnecting(u) - (IF at[a].s = u THEN 1 ELSE 0)
      BY <3>1, <1>1, <1>5, <1>8, ConnectingDown
    <3>. QED  BY <3>1, <3>2
  <2>6. rc'[u] = IF u = s /\ rc[u] > 0 THEN rc[u] - 1 ELSE rc[u]
    BY <1>1, <1>3, <2>1 DEF DListTypes
  <2>. QED  BY <2>0, <2>1, <2>2, <2>3, <2>4, <2>5, <2>6, <1>3 DEF Kept
<1>19. ASSUME odd' = {}
      PROVE  OnceInv'
  BY <1>1, <1>2, <1>3, <1>4, <1>5, <1>6, <1>19 DEF OnceInv, DListTypes, DBusTypes, ContextInv
<1>20. ASSUME odd' = {}
      PROVE  ArrivalInv'
  BY <1>1, <1>2, <1>3, <1>4, <1>5, <1>6, <1>20 DEF ArrivalInv, OnceInv, EvPending, OwnPending, DBusTypes, DListTypes, SessionInv, ContextInv, EvInv, Adding, Scanning, Finding, Locking
<1>21. ASSUME odd' = {}
      PROVE  RemovalInv'
  BY <1>1, <1>2, <1>3, <1>4, <1>5, <1>6, <1>21 DEF RemovalInv, OnceInv, DBusTypes, DListTypes, SessionInv, ContextInv, EvInv, Adding, Scanning, Finding, Locking
<1>. QED
  BY <1>11, <1>12, <1>13, <1>14, <1>15, <1>16, <1>17, <1>18, <1>19, <1>20, <1>21
  DEF DDevicesInv, ExactInv

\* A context is told of a removal.
LEMMA DisconnectNone ==
    ASSUME DDevicesInv,
           odd = {},
           NEW c \in at[Ev].todo,
           NEW s, s = at[Ev].s,
           at[Ev].at = "disconnect",
           at' = [at EXCEPT ![Ev] = [at |-> "disconnect", todo |-> at[Ev].todo \ {c}, s |-> s, c |-> at[Ev].c]],
           UNCHANGED <<bus, dplugs, added, removed, good, count, thread, active, inits, lock, unseen, missed, dfailed, odd>>,
           listed[c][s] = 0,
           UNCHANGED <<listed, dheld, gone, rc>>
    PROVE  DDevicesInv'
<1>. DEFINE r == [at |-> "disconnect", todo |-> at[Ev].todo \ {c}, s |-> s, c |-> at[Ev].c]
<1>1. CacheTypes /\ SessionInv /\ ContextInv /\ EvInv /\ ThreadInv /\ CountInv /\ OnceInv /\ ArrivalInv /\ RemovalInv
  BY DEF DDevicesInv, ExactInv
<1>2. Ev \notin DContexts /\ "free" \notin DContexts /\ Acts = DContexts \cup {Ev}
  BY ActsDiffer DEF Acts
<1>. USE DEF CacheTypes
<1>3. /\ at[Ev].at = "disconnect" /\ s = at[Ev].s /\ c \in DContexts /\ c \in active
      /\ s \in Sess /\ c \in at[Ev].todo /\ listed[c][s] = 0 /\ bus' = bus
      /\ dplugs' = dplugs /\ added' = added /\ removed' = removed /\ rc' = rc
      /\ good' = good /\ count' = count /\ thread' = thread /\ active' = active
      /\ inits' = inits /\ lock' = lock /\ listed' = listed /\ dheld' = dheld
      /\ gone' = gone /\ unseen' = unseen /\ missed' = missed /\ dfailed' = dfailed
      /\ odd' = odd /\ at' = [at EXCEPT ![Ev] = r]
  <2>1. c \in DContexts /\ c \in active /\ s \in Sess
    BY <1>1 DEF EvInv, DContextTypes
  <2>. QED  BY <1>1, <1>2, <2>1, PlaceRead DEF DContextTypes, OnceInv, Acts
<1>4. r \in DPlace /\ r.at = "disconnect" /\ r.todo = at[Ev].todo \ {c} /\ r.s = s /\ r.c = at[Ev].c
  <2>1. "disconnect" \in Places
    BY <1>1, <1>2, <1>3 DEF Places
  <2>2. at[Ev].todo \ {c} \in Todos
    BY <1>1, <1>2, <1>3, TodosMade, PlaceRead DEF DContextTypes, DBusTypes
  <2>3. s \in 0..MaxSessions
    BY <1>3 DEF Sess
  <2>4. at[Ev].c \in DContexts \cup {"free"}
    BY <1>1, <1>2, <1>3, PlaceRead DEF DContextTypes
  <2>. QED  BY <2>1, <2>2, <2>3, <2>4, PlaceMade
<1>. HIDE DEF r
<1>5. Ev \in Acts
  BY <1>2, <1>3
<1>6. at' \in [Acts -> DPlace] /\ at'[Ev] = r /\ \A b \in Acts \ {Ev} : at'[b] = at[b]
  BY <1>1, <1>3, <1>4, <1>5, PlaceMoves DEF DContextTypes
<1>8. r \in DPlace /\ at' = [at EXCEPT ![Ev] = r]
  BY <1>3, <1>4
<1>11. DBusTypes'
  BY <1>1, <1>2, <1>3, <1>4, <1>5, <1>6, BoundsAreNumbers DEF DBusTypes, DListTypes, Sess
<1>12. DContextTypes'
  <2>1. count' \in Nat
    BY <1>1, <1>3 DEF DContextTypes
  <2>2. inits' \in 0..MaxInits
    BY <1>1, <1>3, BoundsAreNumbers DEF DContextTypes
  <2>. QED  BY <2>1, <2>2, <1>1, <1>2, <1>3, <1>4, <1>5, <1>6 DEF DContextTypes
<1>13. DListTypes'
  BY <1>1, <1>2, <1>3, <1>4, <1>5, <1>6 DEF DListTypes, DBusTypes, DContextTypes
<1>14. SessionInv'
  BY <1>1, <1>2, <1>3, <1>4, <1>5, <1>6 DEF SessionInv, EvInv, DBusTypes, DListTypes
<1>15. ContextInv'
  BY <1>1, <1>2, <1>3, <1>4, <1>5, <1>6, TodosMade DEF ContextInv, DListTypes, DContextTypes, DBusTypes, EvInv, Locking, Scanning, Finding
<1>16. EvInv'
  BY <1>1, <1>2, <1>3, <1>4, <1>5, <1>6 DEF EvInv, ContextInv, DContextTypes, Adding, Finding, Locking
<1>17. ThreadInv'
  <2>1. Counted' = Counted
    BY <1>1, <1>2, <1>3, <1>4, <1>5, <1>6, CountedMoves DEF Counted
  <2>. QED  BY <2>1, <1>1, <1>2, <1>3, <1>4, <1>5, <1>6 DEF ThreadInv, ContextInv, Locking, DContextTypes
<1>18. ASSUME odd' = {}
      PROVE  CountInv'
  <2>. SUFFICES ASSUME NEW u \in Sess
                PROVE  (rc[u] = NMade(u) + NLeft(u) + NConnecting(u) + Kept(u))'
    BY DEF CountInv
  <2>1. NMade(u) \in Nat /\ NLeft(u) \in Nat /\ NConnecting(u) \in Nat /\ rc[u] \in Nat
    BY <1>1, MadeFinite DEF DListTypes
  <2>0. NMade(u)' \in Nat /\ NLeft(u)' \in Nat /\ NConnecting(u)' \in Nat
    BY MadeFiniteNext
  <2>2. rc[u] = NMade(u) + NLeft(u) + NConnecting(u) + Kept(u)
    BY <1>1 DEF CountInv
  <2>3. NMade(u)' = NMade(u)
    BY <1>3, MadeSame
  <2>4. NLeft(u)' = NLeft(u)
    BY <1>3, MadeSame
  <2>5. NConnecting(u)' = NConnecting(u)
    <3>1. at[Ev].at # "connect" /\ r.at # "connect"
      BY <1>3, <1>4
    <3>. QED  BY <3>1, <1>1, <1>5, <1>8, ConnectingSame
  <2>. QED  BY <2>0, <2>1, <2>2, <2>3, <2>4, <2>5, <1>1, <1>2, <1>3, <1>4, <1>5, <1>6 DEF Kept, SessionInv, DListTypes, DBusTypes
<1>19. ASSUME odd' = {}
      PROVE  OnceInv'
  BY <1>1, <1>2, <1>3, <1>4, <1>5, <1>6, <1>19 DEF OnceInv, DListTypes, DBusTypes, ContextInv
<1>20. ASSUME odd' = {}
      PROVE  ArrivalInv'
  BY <1>1, <1>2, <1>3, <1>4, <1>5, <1>6, <1>20 DEF ArrivalInv, OnceInv, EvPending, OwnPending, DBusTypes, DListTypes, SessionInv, ContextInv, EvInv, Adding, Scanning, Finding, Locking
<1>21. ASSUME odd' = {}
      PROVE  RemovalInv'
  BY <1>1, <1>2, <1>3, <1>4, <1>5, <1>6, <1>21 DEF RemovalInv, OnceInv, DBusTypes, DListTypes, SessionInv, ContextInv, EvInv, Adding, Scanning, Finding, Locking
<1>. QED
  BY <1>11, <1>12, <1>13, <1>14, <1>15, <1>16, <1>17, <1>18, <1>19, <1>20, <1>21
  DEF DDevicesInv, ExactInv

LEMMA DisconnectHeld ==
    ASSUME DDevicesInv,
           odd = {},
           NEW c \in at[Ev].todo,
           NEW s, s = at[Ev].s,
           at[Ev].at = "disconnect",
           at' = [at EXCEPT ![Ev] = [at |-> "disconnect", todo |-> at[Ev].todo \ {c}, s |-> s, c |-> at[Ev].c]],
           UNCHANGED <<bus, dplugs, added, removed, good, count, thread, active, inits, lock, unseen, missed, dfailed, odd>>,
           listed[c][s] # 0,
           s \in dheld[c],
           listed' = [listed EXCEPT ![c][s] = @ - 1],
           dheld' = [dheld EXCEPT ![c] = @ \ {s}],
           gone' = [gone EXCEPT ![c] = @ \cup {s}],
           rc' = rc
    PROVE  DDevicesInv'
<1>. DEFINE r == [at |-> "disconnect", todo |-> at[Ev].todo \ {c}, s |-> s, c |-> at[Ev].c]
<1>1. CacheTypes /\ SessionInv /\ ContextInv /\ EvInv /\ ThreadInv /\ CountInv /\ OnceInv /\ ArrivalInv /\ RemovalInv
  BY DEF DDevicesInv, ExactInv
<1>2. Ev \notin DContexts /\ "free" \notin DContexts /\ Acts = DContexts \cup {Ev}
  BY ActsDiffer DEF Acts
<1>. USE DEF CacheTypes
<1>3. /\ at[Ev].at = "disconnect" /\ s = at[Ev].s /\ c \in DContexts /\ c \in active
      /\ s \in Sess /\ c \in at[Ev].todo /\ listed[c][s] = 1 /\ s \in dheld[c]
      /\ s \notin gone[c] /\ bus' = bus /\ dplugs' = dplugs /\ added' = added
      /\ removed' = removed /\ rc' = rc /\ good' = good /\ count' = count
      /\ thread' = thread /\ active' = active /\ inits' = inits /\ lock' = lock
      /\ listed' = [listed EXCEPT ![c][s] = @ - 1] /\ dheld' = [dheld EXCEPT ![c] = @ \ {s}]
      /\ gone' = [gone EXCEPT ![c] = @ \cup {s}] /\ unseen' = unseen /\ missed' = missed
      /\ dfailed' = dfailed /\ odd' = odd /\ at' = [at EXCEPT ![Ev] = r]
  <2>1. c \in DContexts /\ c \in active /\ s \in Sess
    BY <1>1 DEF EvInv, DContextTypes
  <2>. QED  BY <1>1, <1>2, <2>1, PlaceRead DEF DContextTypes, OnceInv, Acts
<1>4. r \in DPlace /\ r.at = "disconnect" /\ r.todo = at[Ev].todo \ {c} /\ r.s = s /\ r.c = at[Ev].c
  <2>1. "disconnect" \in Places
    BY <1>1, <1>2, <1>3 DEF Places
  <2>2. at[Ev].todo \ {c} \in Todos
    BY <1>1, <1>2, <1>3, TodosMade, PlaceRead DEF DContextTypes, DBusTypes
  <2>3. s \in 0..MaxSessions
    BY <1>3 DEF Sess
  <2>4. at[Ev].c \in DContexts \cup {"free"}
    BY <1>1, <1>2, <1>3, PlaceRead DEF DContextTypes
  <2>. QED  BY <2>1, <2>2, <2>3, <2>4, PlaceMade
<1>. HIDE DEF r
<1>5. Ev \in Acts
  BY <1>2, <1>3
<1>6. at' \in [Acts -> DPlace] /\ at'[Ev] = r /\ \A b \in Acts \ {Ev} : at'[b] = at[b]
  BY <1>1, <1>3, <1>4, <1>5, PlaceMoves DEF DContextTypes
<1>8. r \in DPlace /\ at' = [at EXCEPT ![Ev] = r]
  BY <1>3, <1>4
<1>11. DBusTypes'
  BY <1>1, <1>2, <1>3, <1>4, <1>5, <1>6, BoundsAreNumbers DEF DBusTypes, DListTypes, Sess
<1>12. DContextTypes'
  <2>1. count' \in Nat
    BY <1>1, <1>3 DEF DContextTypes
  <2>2. inits' \in 0..MaxInits
    BY <1>1, <1>3, BoundsAreNumbers DEF DContextTypes
  <2>. QED  BY <2>1, <2>2, <1>1, <1>2, <1>3, <1>4, <1>5, <1>6 DEF DContextTypes
<1>13. DListTypes'
  BY <1>1, <1>2, <1>3, <1>4, <1>5, <1>6 DEF DListTypes, DBusTypes, DContextTypes
<1>14. SessionInv'
  BY <1>1, <1>2, <1>3, <1>4, <1>5, <1>6 DEF SessionInv, EvInv, DBusTypes, DListTypes
<1>15. ContextInv'
  BY <1>1, <1>2, <1>3, <1>4, <1>5, <1>6, TodosMade DEF ContextInv, DListTypes, DContextTypes, DBusTypes, EvInv, Locking, Scanning, Finding
<1>16. EvInv'
  BY <1>1, <1>2, <1>3, <1>4, <1>5, <1>6 DEF EvInv, ContextInv, DContextTypes, Adding, Finding, Locking
<1>17. ThreadInv'
  <2>1. Counted' = Counted
    BY <1>1, <1>2, <1>3, <1>4, <1>5, <1>6, CountedMoves DEF Counted
  <2>. QED  BY <2>1, <1>1, <1>2, <1>3, <1>4, <1>5, <1>6 DEF ThreadInv, ContextInv, Locking, DContextTypes
<1>18. ASSUME odd' = {}
      PROVE  CountInv'
  <2>. SUFFICES ASSUME NEW u \in Sess
                PROVE  (rc[u] = NMade(u) + NLeft(u) + NConnecting(u) + Kept(u))'
    BY DEF CountInv
  <2>1. NMade(u) \in Nat /\ NLeft(u) \in Nat /\ NConnecting(u) \in Nat /\ rc[u] \in Nat
    BY <1>1, MadeFinite DEF DListTypes
  <2>0. NMade(u)' \in Nat /\ NLeft(u)' \in Nat /\ NConnecting(u)' \in Nat
    BY MadeFiniteNext
  <2>2. rc[u] = NMade(u) + NLeft(u) + NConnecting(u) + Kept(u)
    BY <1>1 DEF CountInv
  <2>3. NMade(u)' = NMade(u) - (IF u = s THEN 1 ELSE 0)
    BY <1>1, <1>3, MadeDown
  <2>4. NLeft(u)' = NLeft(u) + (IF u = s THEN 1 ELSE 0)
    <3>1. s \notin gone[c] /\ gone' = [gone EXCEPT ![c] = @ \cup {s}] /\ s \in Sess /\ c \in DContexts
      BY <1>3
    <3>. QED  BY <3>1, <1>1, LeftUp
  <2>5. NConnecting(u)' = NConnecting(u)
    <3>1. at[Ev].at # "connect" /\ r.at # "connect"
      BY <1>3, <1>4
    <3>. QED  BY <3>1, <1>1, <1>5, <1>8, ConnectingSame
  <2>. QED  BY <2>0, <2>1, <2>2, <2>3, <2>4, <2>5, <1>1, <1>2, <1>3, <1>4, <1>5, <1>6 DEF Kept, SessionInv, DListTypes, DBusTypes
<1>19. ASSUME odd' = {}
      PROVE  OnceInv'
  BY <1>1, <1>2, <1>3, <1>4, <1>5, <1>6, <1>19 DEF OnceInv, DListTypes, DBusTypes, ContextInv
<1>20. ASSUME odd' = {}
      PROVE  ArrivalInv'
  BY <1>1, <1>2, <1>3, <1>4, <1>5, <1>6, <1>20 DEF ArrivalInv, OnceInv, EvPending, OwnPending, DBusTypes, DListTypes, SessionInv, ContextInv, EvInv, Adding, Scanning, Finding, Locking
<1>21. ASSUME odd' = {}
      PROVE  RemovalInv'
  BY <1>1, <1>2, <1>3, <1>4, <1>5, <1>6, <1>21 DEF RemovalInv, OnceInv, DBusTypes, DListTypes, SessionInv, ContextInv, EvInv, Adding, Scanning, Finding, Locking
<1>. QED
  BY <1>11, <1>12, <1>13, <1>14, <1>15, <1>16, <1>17, <1>18, <1>19, <1>20, <1>21
  DEF DDevicesInv, ExactInv

LEMMA DisconnectFree ==
    ASSUME DDevicesInv,
           odd = {},
           NEW c \in at[Ev].todo,
           NEW s, s = at[Ev].s,
           at[Ev].at = "disconnect",
           at' = [at EXCEPT ![Ev] = [at |-> "disconnect", todo |-> at[Ev].todo \ {c}, s |-> s, c |-> at[Ev].c]],
           UNCHANGED <<bus, dplugs, added, removed, good, count, thread, active, inits, lock, unseen, missed, dfailed, odd>>,
           listed[c][s] # 0,
           s \notin dheld[c],
           listed' = [listed EXCEPT ![c][s] = @ - 1],
           dheld' = dheld,
           gone' = gone,
           rc' = [rc EXCEPT ![s] = IF @ > 0 THEN @ - 1 ELSE 0]
    PROVE  DDevicesInv'
<1>. DEFINE r == [at |-> "disconnect", todo |-> at[Ev].todo \ {c}, s |-> s, c |-> at[Ev].c]
<1>1. CacheTypes /\ SessionInv /\ ContextInv /\ EvInv /\ ThreadInv /\ CountInv /\ OnceInv /\ ArrivalInv /\ RemovalInv
  BY DEF DDevicesInv, ExactInv
<1>2. Ev \notin DContexts /\ "free" \notin DContexts /\ Acts = DContexts \cup {Ev}
  BY ActsDiffer DEF Acts
<1>. USE DEF CacheTypes
<1>3. /\ at[Ev].at = "disconnect" /\ s = at[Ev].s /\ c \in DContexts /\ c \in active
      /\ s \in Sess /\ c \in at[Ev].todo /\ listed[c][s] = 1 /\ bus' = bus
      /\ dplugs' = dplugs /\ added' = added /\ removed' = removed
      /\ (rc' = [rc EXCEPT ![s] = IF @ > 0 THEN @ - 1 ELSE 0]) /\ good' = good
      /\ count' = count /\ thread' = thread /\ active' = active /\ inits' = inits
      /\ lock' = lock /\ listed' = [listed EXCEPT ![c][s] = @ - 1] /\ dheld' = dheld
      /\ gone' = gone /\ unseen' = unseen /\ missed' = missed /\ dfailed' = dfailed
      /\ odd' = odd /\ at' = [at EXCEPT ![Ev] = r]
  <2>1. c \in DContexts /\ c \in active /\ s \in Sess
    BY <1>1 DEF EvInv, DContextTypes
  <2>. QED  BY <1>1, <1>2, <2>1, PlaceRead DEF DContextTypes, OnceInv, Acts
<1>4. r \in DPlace /\ r.at = "disconnect" /\ r.todo = at[Ev].todo \ {c} /\ r.s = s /\ r.c = at[Ev].c
  <2>1. "disconnect" \in Places
    BY <1>1, <1>2, <1>3 DEF Places
  <2>2. at[Ev].todo \ {c} \in Todos
    BY <1>1, <1>2, <1>3, TodosMade, PlaceRead DEF DContextTypes, DBusTypes
  <2>3. s \in 0..MaxSessions
    BY <1>3 DEF Sess
  <2>4. at[Ev].c \in DContexts \cup {"free"}
    BY <1>1, <1>2, <1>3, PlaceRead DEF DContextTypes
  <2>. QED  BY <2>1, <2>2, <2>3, <2>4, PlaceMade
<1>. HIDE DEF r
<1>5. Ev \in Acts
  BY <1>2, <1>3
<1>6. at' \in [Acts -> DPlace] /\ at'[Ev] = r /\ \A b \in Acts \ {Ev} : at'[b] = at[b]
  BY <1>1, <1>3, <1>4, <1>5, PlaceMoves DEF DContextTypes
<1>8. r \in DPlace /\ at' = [at EXCEPT ![Ev] = r]
  BY <1>3, <1>4
<1>11. DBusTypes'
  BY <1>1, <1>2, <1>3, <1>4, <1>5, <1>6, BoundsAreNumbers DEF DBusTypes, DListTypes, Sess
<1>12. DContextTypes'
  <2>1. count' \in Nat
    BY <1>1, <1>3 DEF DContextTypes
  <2>2. inits' \in 0..MaxInits
    BY <1>1, <1>3, BoundsAreNumbers DEF DContextTypes
  <2>. QED  BY <2>1, <2>2, <1>1, <1>2, <1>3, <1>4, <1>5, <1>6 DEF DContextTypes
<1>13. DListTypes'
  BY <1>1, <1>2, <1>3, <1>4, <1>5, <1>6 DEF DListTypes, DBusTypes, DContextTypes
<1>14. SessionInv'
  BY <1>1, <1>2, <1>3, <1>4, <1>5, <1>6 DEF SessionInv, EvInv, DBusTypes, DListTypes
<1>15. ContextInv'
  BY <1>1, <1>2, <1>3, <1>4, <1>5, <1>6, TodosMade DEF ContextInv, DListTypes, DContextTypes, DBusTypes, EvInv, Locking, Scanning, Finding
<1>16. EvInv'
  BY <1>1, <1>2, <1>3, <1>4, <1>5, <1>6 DEF EvInv, ContextInv, DContextTypes, Adding, Finding, Locking
<1>17. ThreadInv'
  <2>1. Counted' = Counted
    BY <1>1, <1>2, <1>3, <1>4, <1>5, <1>6, CountedMoves DEF Counted
  <2>. QED  BY <2>1, <1>1, <1>2, <1>3, <1>4, <1>5, <1>6 DEF ThreadInv, ContextInv, Locking, DContextTypes
<1>18. ASSUME odd' = {}
      PROVE  CountInv'
  <2>. SUFFICES ASSUME NEW u \in Sess
                PROVE  (rc[u] = NMade(u) + NLeft(u) + NConnecting(u) + Kept(u))'
    BY DEF CountInv
  <2>1. NMade(u) \in Nat /\ NLeft(u) \in Nat /\ NConnecting(u) \in Nat /\ rc[u] \in Nat
    BY <1>1, MadeFinite DEF DListTypes
  <2>0. NMade(u)' \in Nat /\ NLeft(u)' \in Nat /\ NConnecting(u)' \in Nat
    BY MadeFiniteNext
  <2>2. rc[u] = NMade(u) + NLeft(u) + NConnecting(u) + Kept(u)
    BY <1>1 DEF CountInv
  <2>3. NMade(u)' = NMade(u) - (IF u = s THEN 1 ELSE 0)
    BY <1>1, <1>3, MadeDown
  <2>4. NLeft(u)' = NLeft(u)
    BY <1>3, MadeSame
  <2>5. NConnecting(u)' = NConnecting(u)
    <3>1. at[Ev].at # "connect" /\ r.at # "connect"
      BY <1>3, <1>4
    <3>. QED  BY <3>1, <1>1, <1>5, <1>8, ConnectingSame
  <2>. QED  BY <2>0, <2>1, <2>2, <2>3, <2>4, <2>5, <1>1, <1>2, <1>3, <1>4, <1>5, <1>6 DEF Kept, SessionInv, DListTypes, DBusTypes
<1>19. ASSUME odd' = {}
      PROVE  OnceInv'
  BY <1>1, <1>2, <1>3, <1>4, <1>5, <1>6, <1>19 DEF OnceInv, DListTypes, DBusTypes, ContextInv
<1>20. ASSUME odd' = {}
      PROVE  ArrivalInv'
  BY <1>1, <1>2, <1>3, <1>4, <1>5, <1>6, <1>20 DEF ArrivalInv, OnceInv, EvPending, OwnPending, DBusTypes, DListTypes, SessionInv, ContextInv, EvInv, Adding, Scanning, Finding, Locking
<1>21. ASSUME odd' = {}
      PROVE  RemovalInv'
  BY <1>1, <1>2, <1>3, <1>4, <1>5, <1>6, <1>21 DEF RemovalInv, OnceInv, DBusTypes, DListTypes, SessionInv, ContextInv, EvInv, Adding, Scanning, Finding, Locking
<1>. QED
  BY <1>11, <1>12, <1>13, <1>14, <1>15, <1>16, <1>17, <1>18, <1>19, <1>20, <1>21
  DEF DDevicesInv, ExactInv

LEMMA GetCachedStep ==
    ASSUME DDevicesInv, odd = {}, NEW a, NEW s, NEW c, NEW todo,
           \/ a \in DContexts /\ c = a /\ at[a].at = "scan" /\ s \in at[a].todo /\ todo = at[a].todo \ {s}
           \/ a = Ev /\ at[Ev].at = "add" /\ <<s, c>> \in at[Ev].todo /\ todo = at[Ev].todo \ {<<s, c>>},
           DDevices!GetCached(a, s, c, todo),
           UNCHANGED <<bus, dplugs, added, removed, count, thread, active, inits, lock, listed, dheld, gone, unseen, missed, odd>>
    PROVE  DDevicesInv'
<1>1. PICK p : (a = Ev => p = "add") /\ (a \in DContexts => p = "scan") /\ p = IF a = Ev THEN "add" ELSE "scan"
  BY ActsDiffer
<1>2. DDevices!Back(a, todo) = [at |-> p, todo |-> todo, s |-> 0, c |-> "free"]
  BY <1>1 DEF DDevices!Back, DDevices!Place, DDevices!Ev, DDevices!Free, Ev
<1>3. CASE /\ rc[s] > 0 /\ s \in good
           /\ at' = [at EXCEPT ![a] = [at |-> "processing", todo |-> todo, s |-> s, c |-> c]]
           /\ UNCHANGED <<rc, good, dfailed>>
  BY <1>3, TakenFound
<1>4. CASE /\ rc[s] > 0 /\ s \notin good
           /\ at' = [at EXCEPT ![a] = DDevices!Back(a, todo)] /\ UNCHANGED <<rc, good, dfailed>>
  BY <1>1, <1>2, <1>4, TakenBad
<1>5. CASE /\ rc[s] = 0 /\ s \in bus
           /\ rc' = [rc EXCEPT ![s] = 1] /\ good' = good \cup {s}
           /\ at' = [at EXCEPT ![a] = [at |-> "processing", todo |-> todo, s |-> s, c |-> c]]
           /\ UNCHANGED dfailed
  BY <1>5, TakenNew
<1>6. CASE /\ rc[s] = 0 /\ good' = good \ {s} /\ dfailed' = dfailed \cup {s}
           /\ rc' = rc \/ (s \in bus /\ rc' = [rc EXCEPT ![s] = 1])
           /\ at' = [at EXCEPT ![a] = DDevices!Back(a, todo)]
  <2>1. at' = [at EXCEPT ![a] = [at |-> p, todo |-> todo, s |-> 0, c |-> "free"]]
    BY <1>2, <1>6
  <2>2. (a = Ev => p = "add") /\ (a \in DContexts => p = "scan")
    BY <1>1
  <2>. QED  BY <1>6, <2>1, <2>2, TakenNone
<1>7. \/ /\ rc[s] > 0 /\ s \in good
         /\ at' = [at EXCEPT ![a] = [at |-> "processing", todo |-> todo, s |-> s, c |-> c]]
         /\ UNCHANGED <<rc, good, dfailed>>
      \/ /\ rc[s] > 0 /\ s \notin good
         /\ at' = [at EXCEPT ![a] = DDevices!Back(a, todo)] /\ UNCHANGED <<rc, good, dfailed>>
      \/ /\ rc[s] = 0 /\ s \in bus
         /\ rc' = [rc EXCEPT ![s] = 1] /\ good' = good \cup {s}
         /\ at' = [at EXCEPT ![a] = [at |-> "processing", todo |-> todo, s |-> s, c |-> c]]
         /\ UNCHANGED dfailed
      \/ /\ rc[s] = 0 /\ good' = good \ {s} /\ dfailed' = dfailed \cup {s}
         /\ rc' = rc \/ (s \in bus /\ rc' = [rc EXCEPT ![s] = 1])
         /\ at' = [at EXCEPT ![a] = DDevices!Back(a, todo)]
  BY Zenon DEF DDevices!GetCached, DDevices!NoDevice
<1>. QED  BY Zenon, <1>3, <1>4, <1>5, <1>6, <1>7

LEMMA ScanStep ==
    ASSUME DDevicesInv, odd = {}, NEW c \in DContexts, DDevices!Scan(c)
    PROVE  DDevicesInv'
<1>1. PICK s \in at[c].todo : DDevices!GetCached(c, s, c, at[c].todo \ {s})
  BY Zenon DEF DDevices!Scan
<1>2. /\ at[c].at = "scan"
      /\ UNCHANGED <<bus, dplugs, added, removed, count, thread, active, inits, lock, listed, dheld, gone, unseen, missed, odd>>
  BY DEF DDevices!Scan, DDevices!busVars
<1>. QED  BY <1>1, <1>2, GetCachedStep

LEMMA AttachToStep ==
    ASSUME DDevicesInv, odd = {}, DDevices!AttachTo
    PROVE  DDevicesInv'
<1>1. PICK t \in at[Ev].todo : DDevices!GetCached(Ev, t[1], t[2], at[Ev].todo \ {t})
  BY Zenon DEF DDevices!AttachTo, DDevices!Ev, Ev
<1>2. /\ at[Ev].at = "add"
      /\ UNCHANGED <<bus, dplugs, added, removed, count, thread, active, inits, lock, listed, dheld, gone, unseen, missed, odd>>
  BY DEF DDevices!AttachTo, DDevices!busVars, DDevices!Ev, Ev
<1>3. t = <<t[1], t[2]>>
  BY <1>1, <1>2 DEF DDevicesInv, EvInv, Adding
<1>4. PICK s, c : s = t[1] /\ c = t[2] /\ t = <<s, c>>
  BY <1>3
<1>. QED  BY <1>1, <1>2, <1>4, GetCachedStep

LEMMA ProcessStep ==
    ASSUME DDevicesInv, odd = {}, NEW a \in Acts, DDevices!Process(a)
    PROVE  DDevicesInv'
<1>1. PICK p : (a = Ev => p = "add") /\ (a \in DContexts => p = "scan") /\ p = IF a = Ev THEN "add" ELSE "scan"
  BY ActsDiffer
<1>2. DDevices!Back(a, at[a].todo) = [at |-> p, todo |-> at[a].todo, s |-> 0, c |-> "free"]
  BY <1>1 DEF DDevices!Back, DDevices!Place, DDevices!Ev, DDevices!Free, Ev
<1>3. PICK s, c : s = at[a].s /\ c = at[a].c
  OBVIOUS
<1>4. at[a].at = "processing"
      /\ UNCHANGED <<bus, dplugs, added, removed, good, count, thread, active, inits, lock, dheld, gone, unseen, missed, listed>>
  BY DEF DDevices!Process, DDevices!busVars
<1>5. CASE odd' = odd \cup {s} /\ at' = [at EXCEPT ![a] = DDevices!Back(a, at[a].todo)]
           /\ UNCHANGED <<rc, dfailed>>
  BY <1>1, <1>2, <1>3, <1>4, <1>5, ProcessLost
<1>6. CASE rc[s] > 0 /\ rc' = [rc EXCEPT ![s] = @ + 1] /\ at' = [at EXCEPT ![a].at = "connect"]
           /\ UNCHANGED <<dfailed, odd>>
  <2>1. at' = [at EXCEPT ![a] = [at |-> "connect", todo |-> at[a].todo, s |-> s, c |-> c]]
    BY <1>3, <1>6, PlaceRead DEF DDevicesInv, CacheTypes, DContextTypes
  <2>. QED  BY <1>3, <1>4, <1>6, <2>1, ProcessMade
<1>7. CASE dfailed' = dfailed \cup {s} /\ at' = [at EXCEPT ![a] = DDevices!Back(a, at[a].todo)]
           /\ UNCHANGED <<rc, odd>>
  BY <1>1, <1>2, <1>3, <1>4, <1>7, ProcessNone
<1>. QED  BY Zenon, <1>3, <1>5, <1>6, <1>7 DEF DDevices!Process, DDevices!ConfigurationUnknown

LEMMA ConnectStep ==
    ASSUME DDevicesInv, odd = {}, NEW a \in Acts, DDevices!Connect(a)
    PROVE  DDevicesInv'
<1>1. PICK p : (a = Ev => p = "add") /\ (a \in DContexts => p = "scan") /\ p = IF a = Ev THEN "add" ELSE "scan"
  BY ActsDiffer
<1>2. DDevices!Back(a, at[a].todo) = [at |-> p, todo |-> at[a].todo, s |-> 0, c |-> "free"]
  BY <1>1 DEF DDevices!Back, DDevices!Place, DDevices!Ev, DDevices!Free, Ev
<1>3. PICK s, c : s = at[a].s /\ c = at[a].c
  OBVIOUS
<1>4. at[a].at = "connect"
      /\ at' = [at EXCEPT ![a] = [at |-> p, todo |-> at[a].todo, s |-> 0, c |-> "free"]]
      /\ UNCHANGED <<bus, dplugs, added, removed, good, count, thread, active, inits, lock, dheld, gone, unseen, missed>>
  BY <1>2 DEF DDevices!Connect, DDevices!busVars
<1>5. CASE /\ listed' = [listed EXCEPT ![c][s] = @ + 1]
           /\ odd' = IF listed[c][s] > 0 \/ ~(s \in bus \cup removed \/ DDevices!ToDisconnect(s, c))
                     THEN odd \cup {s} ELSE odd
           /\ UNCHANGED <<rc, dfailed>>
  <2>1. CASE odd' = odd \cup {s}
    BY <1>1, <1>3, <1>4, <1>5, <2>1, ConnectOdd
  <2>2. CASE /\ ~(listed[c][s] > 0) /\ odd' = odd
             /\ s \in bus \cup removed \/ DDevices!ToDisconnect(s, c)
    <3>1. s \in Sess /\ c \in DContexts
      BY <1>3, <1>4, ActsDiffer DEF DDevicesInv, CacheTypes, DContextTypes, ContextInv, EvInv, Finding, Acts
    <3>2. listed[c][s] = 0
      BY <2>2, <3>1 DEF DDevicesInv, CacheTypes, DListTypes
    <3>3. s \in bus \/ s \in removed \/ (at[Ev].at = "disconnect" /\ at[Ev].s = s /\ c \in at[Ev].todo)
      BY <2>2 DEF DDevices!ToDisconnect, DDevices!Ev, Ev
    <3>. QED  BY <1>1, <1>3, <1>4, <1>5, <2>2, <3>2, <3>3, ConnectListed
  <2>. QED  BY Zenon, <1>5, <2>1, <2>2
<1>6. CASE rc' = DDevices!Deref(s) /\ dfailed' = dfailed \cup {s} /\ UNCHANGED <<listed, odd>>
  BY <1>1, <1>3, <1>4, <1>6, ConnectNone DEF DDevices!Deref
<1>. QED  BY Zenon, <1>3, <1>5, <1>6 DEF DDevices!Connect

LEMMA DisconnectStep ==
    ASSUME DDevicesInv, odd = {}, DDevices!Disconnect
    PROVE  DDevicesInv'
<1>1. PICK s : s = at[Ev].s
  OBVIOUS
<1>2. PICK c \in at[Ev].todo :
        /\ at' = [at EXCEPT ![Ev].todo = @ \ {c}]
        /\ IF listed[c][s] = 0 THEN UNCHANGED <<listed, dheld, gone, rc>>
           ELSE /\ listed' = [listed EXCEPT ![c][s] = @ - 1]
                /\ dheld' = [dheld EXCEPT ![c] = @ \ {s}]
                /\ gone' = [gone EXCEPT ![c] = @ \cup (dheld[c] \cap {s})]
                /\ rc' = IF s \in dheld[c] THEN rc ELSE DDevices!Deref(s)
  BY Zenon, <1>1 DEF DDevices!Disconnect, DDevices!Ev, Ev
<1>3. at[Ev].at = "disconnect"
      /\ UNCHANGED <<bus, dplugs, added, removed, good, count, thread, active, inits, lock, unseen, missed, dfailed, odd>>
  BY DEF DDevices!Disconnect, DDevices!busVars, DDevices!histVars, DDevices!Ev, Ev
<1>4. at' = [at EXCEPT ![Ev] = [at |-> "disconnect", todo |-> at[Ev].todo \ {c}, s |-> s, c |-> at[Ev].c]]
  <2>1. at \in [Acts -> DPlace] /\ Ev \in Acts
    BY DEF DDevicesInv, CacheTypes, DContextTypes, Acts
  <2>2. [at[Ev] EXCEPT !.todo = at[Ev].todo \ {c}]
          = [at |-> "disconnect", todo |-> at[Ev].todo \ {c}, s |-> s, c |-> at[Ev].c]
    BY <1>1, <1>3, <2>1, PlaceTodo
  <2>3. at' = [at EXCEPT ![Ev] = [at[Ev] EXCEPT !.todo = at[Ev].todo \ {c}]]
    BY <1>2
  <2>. QED  BY <2>2, <2>3
<1>5. c \in DContexts /\ dheld \in [DContexts -> SUBSET Sess] /\ gone \in [DContexts -> SUBSET Sess]
  BY <1>2, <1>3 DEF DDevicesInv, CacheTypes, DContextTypes, DListTypes, EvInv
<1>6. CASE listed[c][s] = 0
  BY <1>1, <1>2, <1>3, <1>4, <1>6, DisconnectNone
<1>7. CASE listed[c][s] # 0 /\ s \in dheld[c]
  <2>1. gone' = [gone EXCEPT ![c] = @ \cup {s}] /\ rc' = rc
    BY <1>2, <1>5, <1>7
  <2>. QED  BY <1>1, <1>2, <1>3, <1>4, <1>7, <2>1, DisconnectHeld
<1>8. CASE listed[c][s] # 0 /\ s \notin dheld[c]
  <2>1. gone' = gone /\ dheld' = dheld /\ rc' = [rc EXCEPT ![s] = IF @ > 0 THEN @ - 1 ELSE 0]
    <3>1. dheld[c] \ {s} = dheld[c] /\ gone[c] \cup (dheld[c] \cap {s}) = gone[c]
      BY <1>5, <1>8
    <3>2. [dheld EXCEPT ![c] = dheld[c]] = dheld /\ [gone EXCEPT ![c] = gone[c]] = gone
      BY <1>5
    <3>3. dheld' = [dheld EXCEPT ![c] = dheld[c] \ {s}]
          /\ gone' = [gone EXCEPT ![c] = gone[c] \cup (dheld[c] \cap {s})]
      BY <1>2, <1>8
    <3>4. rc' = DDevices!Deref(s)
      BY <1>2, <1>8
    <3>. QED  BY <3>1, <3>2, <3>3, <3>4 DEF DDevices!Deref
  <2>. QED  BY <1>1, <1>2, <1>3, <1>4, <1>8, <2>1, DisconnectFree
<1>. QED  BY <1>6, <1>7, <1>8

LEMMA DDevicesStep == DDevicesInv /\ [DDevices!Next]_dDevicesVars => DDevicesInv'
<1>1. ASSUME DDevicesInv, UNCHANGED dDevicesVars
      PROVE  DDevicesInv'
  <2>1. UNCHANGED <<bus, dplugs, added, removed, rc, good, count, thread, active, inits, lock, at,
                    listed, dheld, gone, unseen, missed, dfailed, odd>>
    BY <1>1 DEF dDevicesVars
  <2>2. \A s : NMade(s)' = NMade(s) /\ NLeft(s)' = NLeft(s) /\ NConnecting(s)' = NConnecting(s)
    BY <2>1, MadeSame
  <2>3. CountInv => CountInv'
    BY <2>1, <2>2 DEF CountInv, Kept
  <2>4. /\ CacheTypes' /\ SessionInv' /\ ContextInv' /\ EvInv' /\ ThreadInv'
        /\ odd' = {} => OnceInv' /\ ArrivalInv' /\ RemovalInv'
    BY <1>1, <2>1
    DEF DDevicesInv, ExactInv, CacheTypes, DBusTypes, DContextTypes, DListTypes, SessionInv, ContextInv,
        EvInv, ThreadInv, Counted, OnceInv, ArrivalInv, RemovalInv, EvPending, OwnPending
  <2>. QED  BY <1>1, <2>1, <2>3, <2>4 DEF DDevicesInv, ExactInv
<1>2. ASSUME DDevicesInv, DDevices!Next
      PROVE  DDevicesInv'
  <2>1. odd = {}
    BY <1>2 DEF DDevices!Next
  <2>2. Sess = DDevices!Sessions /\ Acts = DDevices!Actors
    BY DEF Sess, DDevices!Sessions, Acts, DDevices!Actors, DDevices!Ev, Ev
  <2>3. ASSUME NEW s \in Sess, DDevices!Unplug(s) \/ DDevices!Attached(s) \/ DDevices!Detached(s)
        PROVE  DDevicesInv'
    BY <1>2, <2>1, <2>3, UnplugStep, AttachedStep, DetachedStep
  <2>4. ASSUME NEW c \in DContexts,
               \/ DDevices!BeginInit(c) \/ DDevices!Scan(c) \/ DDevices!ScanFails(c)
               \/ DDevices!Started(c) \/ DDevices!Waited(c)
        PROVE  DDevicesInv'
    BY <1>2, <2>1, <2>4, BeginInitStep, ScanStep, ScanFailsStep, StartedFirst, StartedMore, WaitedStep
  <2>5. ASSUME NEW c \in DContexts,
               \/ DDevices!BeginExit(c) \/ DDevices!Unlist(c) \/ DDevices!BackendExit(c)
               \/ DDevices!Joined(c)
        PROVE  DDevicesInv'
    BY <1>2, <2>1, <2>5, BeginExitStep, UnlistStep, BackendExitLast, BackendExitOther, JoinedStep
  <2>6. ASSUME NEW a \in Acts, DDevices!Process(a) \/ DDevices!Connect(a)
        PROVE  DDevicesInv'
    BY <1>2, <2>1, <2>6, ProcessStep, ConnectStep
  <2>7. ASSUME NEW c \in DContexts, NEW s \in Sess, DDevices!Hold(c, s) \/ DDevices!Unref(c, s)
        PROVE  DDevicesInv'
    BY <1>2, <2>1, <2>7, HoldStep, UnrefStep
  <2>8. ASSUME \/ DDevices!Plug \/ DDevices!Arm \/ DDevices!ArmFails \/ DDevices!Leave
               \/ DDevices!AttachTo \/ DDevices!AttachedDone \/ DDevices!Disconnect
               \/ DDevices!DetachedDone
        PROVE  DDevicesInv'
    BY <1>2, <2>1, <2>8, PlugStep, ArmStep, ArmFailsStep, LeaveStep, AttachToStep, AttachedDoneStep,
       DisconnectStep, DetachedDoneStep
  <2>. QED  BY Zenon, <1>2, <2>2, <2>3, <2>4, <2>5, <2>6, <2>7, <2>8 DEF DDevices!Next
<1>. QED  BY <1>1, <1>2

LEMMA DDevicesAtBoot == DDevices!Init => DDevicesInv
<1>. SUFFICES ASSUME DDevices!Init PROVE DDevicesInv
  OBVIOUS
<1>. DEFINE r == [at |-> "idle", todo |-> {}, s |-> 0, c |-> "free"]
<1>1. /\ bus = {} /\ dplugs = 0 /\ added = {} /\ removed = {} /\ rc = [s \in Sess |-> 0]
      /\ good = {} /\ count = 0 /\ thread = "none" /\ active = {} /\ inits = 0 /\ lock = "free"
      /\ at = [a \in Acts |-> r] /\ listed = [c \in DContexts |-> [s \in Sess |-> 0]]
      /\ dheld = [c \in DContexts |-> {}] /\ gone = [c \in DContexts |-> {}]
      /\ unseen = {} /\ missed = {} /\ dfailed = {} /\ odd = {}
  BY DEF DDevices!Init, DDevices!Idle, DDevices!Place, DDevices!Free, DDevices!Sessions,
         DDevices!Actors, DDevices!Ev, Ev, Acts, Sess
<1>2. r \in DPlace /\ r.at = "idle" /\ r.todo = {}
  <2>1. "idle" \in Places /\ {} \in Todos /\ 0 \in 0..MaxSessions
    BY BoundsAreNumbers, TodosMade DEF Places
  <2>. QED  BY <2>1, PlaceMade
<1>. HIDE DEF r
<1>3. CacheTypes
  BY <1>1, <1>2, BoundsAreNumbers DEF CacheTypes, DBusTypes, DContextTypes, DListTypes
<1>4. \A a \in Acts : at[a].at = "idle"
  BY <1>1, <1>2
<1>5. DContexts \subseteq Acts /\ Ev \in Acts
  BY DEF Acts
<1>6. SessionInv /\ ContextInv /\ EvInv
  BY <1>1, <1>4, <1>5, ActsDiffer
  DEF SessionInv, ContextInv, EvInv, Locking, Scanning, Finding, Adding
<1>7. ThreadInv
  <2>1. Counted = {}
    BY <1>4, <1>5 DEF Counted
  <2>. QED  BY <2>1, <1>1, FS_EmptySet DEF ThreadInv
<1>8. CountInv
  <2>. SUFFICES ASSUME NEW s \in Sess
                PROVE  rc[s] = NMade(s) + NLeft(s) + NConnecting(s) + Kept(s)
    BY DEF CountInv
  <2>1. DDevices!Made(s) = {}
    BY <1>1 DEF DDevices!Made
  <2>2. DDevices!Left(s) = {}
    BY <1>1 DEF DDevices!Left
  <2>3. DDevices!Connecting(s) = {}
    BY <1>4 DEF DDevices!Connecting, DDevices!Actors, DDevices!Ev, Ev, Acts
  <2>4. rc[s] = 0 /\ Kept(s) = 0
    BY <1>1 DEF Kept
  <2>. QED  BY <2>1, <2>2, <2>3, <2>4, FS_EmptySet DEF NMade, NLeft, NConnecting
<1>9. OnceInv /\ ArrivalInv /\ RemovalInv
  BY <1>1 DEF OnceInv, ArrivalInv, RemovalInv
<1>. QED  BY <1>3, <1>6, <1>7, <1>8, <1>9 DEF DDevicesInv, ExactInv

\* What the invariant says of the references, of the lists and of the thread.
LEMMA DDevicesExact ==
    ASSUME DDevicesInv
    PROVE  DDevices!TypeOK /\ DDevices!CacheExact /\ DDevices!ListMatchesBus /\ DDevices!ThreadRuns
<1>1. CacheTypes /\ SessionInv /\ ContextInv /\ EvInv /\ ThreadInv
  BY DEF DDevicesInv
<1>2. Sess = DDevices!Sessions /\ Acts = DDevices!Actors
  BY DEF Sess, DDevices!Sessions, Acts, DDevices!Actors, DDevices!Ev, Ev
<1>3. DDevices!TypeOK
  <2>1. count \in 0..DDevices!Cardinality(DContexts)
    <3>1. Counted \subseteq DContexts /\ IsFiniteSet(DContexts)
      BY DarwinDevicesAssumption DEF Counted
    <3>2. Cardinality(Counted) <= Cardinality(DContexts) /\ Cardinality(DContexts) \in Nat /\ Cardinality(Counted) \in Nat
      BY <3>1, FS_Subset, FS_CardinalityType
    <3>3. DDevices!Cardinality(DContexts) = Cardinality(DContexts)
      BY DEF DDevices!Cardinality, Cardinality
    <3>. QED  BY <1>1, <3>2, <3>3 DEF ThreadInv
  <2>2. \A a \in Acts : at[a].at \in Places
    BY <1>1, PlaceRead DEF CacheTypes, DContextTypes
  <2>. QED
    BY <1>1, <1>2, <2>1, <2>2
    DEF DDevices!TypeOK, DDevices!Free, CacheTypes, DBusTypes, DContextTypes, DListTypes, Places
<1>4. DDevices!CacheExact
  <2>. SUFFICES ASSUME odd = {}, NEW s \in Sess
                PROVE  rc[s] = DDevices!Users(s)
                         + (IF rc[s] > 0 /\ s \in bus \cup removed \cup missed THEN 1 ELSE 0)
    BY Zenon, <1>2 DEF DDevices!CacheExact
  <2>1. rc[s] = NMade(s) + NLeft(s) + NConnecting(s) + Kept(s)
    BY DEF DDevicesInv, ExactInv, CountInv
  <2>2. \A S : DDevices!Cardinality(S) = Cardinality(S)
    BY DEF DDevices!Cardinality, Cardinality
  <2>3. DDevices!Users(s) = NMade(s) + NLeft(s) + NConnecting(s)
    BY <2>2 DEF DDevices!Users, NMade, NLeft, NConnecting
  <2>. QED  BY <2>1, <2>3 DEF Kept
<1>5. DDevices!ListMatchesBus
  <2>. SUFFICES ASSUME odd = {}, thread = "loop", at[Ev] = DDevices!Idle, added \cup removed = {},
                       NEW c \in DContexts, NEW s \in Sess, s \notin unseen \cup missed \cup dfailed,
                       at[c].at = "in"
                PROVE  listed[c][s] = (IF s \in bus THEN 1 ELSE 0)
    BY <1>2 DEF DDevices!ListMatchesBus, DDevices!Ev, Ev
  <2>1. at[Ev].at = "idle"
    BY DEF DDevices!Idle, DDevices!Place
  <2>2. c \in active /\ listed[c][s] \in 0..1
    BY <1>1 DEF DDevicesInv, ExactInv, OnceInv, ContextInv
  <2>3. ~EvPending(c, s) /\ ~OwnPending(c, s)
    BY <2>1 DEF EvPending, OwnPending, Adding, Scanning, Finding
  <2>4. CASE s \in bus
    BY <2>2, <2>3, <2>4 DEF DDevicesInv, ExactInv, ArrivalInv
  <2>5. CASE s \notin bus
    BY <2>1, <2>2, <2>5 DEF DDevicesInv, ExactInv, RemovalInv
  <2>. QED  BY <2>4, <2>5
<1>6. DDevices!ThreadRuns
  BY <1>1 DEF DDevices!ThreadRuns, ContextInv
<1>. QED  BY <1>3, <1>4, <1>5, <1>6

-----------------------------------------------------------------------------
(* The composition: each part keeps its own invariant and the others its variables *)

LEMMA Parts ==
    ASSUME [DarwinNext]_<<part, darwin>>
    PROVE  /\ part' = part
           /\ [DHandles!Next]_dHandlesVars
           /\ [DTransfers!Next]_dTransfersVars
           /\ [DDevices!Next]_dDevicesVars
BY DEF DarwinNext, darwin, dHandlesVars, dTransfersVars, dDevicesVars

\* A device that darwin_cache_device_descriptor() has probed is left closed, and
\* suspended as it was found; its handles are counted, and while one is there the
\* device has its event source on the run loop, and is closed with the last,
\* unless the handle that opened it was closed before another.
THEOREM DevicesAreOpenForHandles == DarwinSpec => []OpenedForHandles
<1>1. DarwinInit => DHandlesInv
  BY DHandlesAtBoot DEF DarwinInit
<1>2. DHandlesInv /\ [DarwinNext]_<<part, darwin>> => DHandlesInv'
  BY Parts, DHandlesStep
<1>3. DHandlesInv => OpenedForHandles
  <2> SUFFICES ASSUME DHandlesInv
               PROVE  DHandles!TypeOK /\ DHandles!ProbeRestores /\ DHandles!OpenedForHandles
    BY DEF OpenedForHandles
  <2>0. /\ ProbeTypes /\ HandleTypes /\ ProbeInv /\ SourceInv /\ opens \in Nat /\ MaxOpens \in Nat
        /\ sources \in Nat /\ stuck \in Nat /\ open_count \in Nat
    BY DarwinAssumption DEF DHandlesInv, HandleTypes
  <2>1. open_count \in 0..Cardinality(Handles)
    BY <2>0, ThereFinite DEF SourceInv
  <2>2. sources <= opens /\ opens <= MaxOpens /\ stuck <= sources
    <3>1. stuck <= sources
      <4>1. CASE Sourced = {}
        BY <4>1, <2>0 DEF SourceInv
      <4>2. CASE Sourced # {}
        BY <4>2, <2>0 DEF SourceInv
      <4> QED
        BY <4>1, <4>2
    <3> QED
      BY <2>0, <3>1 DEF SourceInv, HandleTypes
  <2>3. DHandles!TypeOK
    <3>1. sources \in 0..MaxOpens /\ stuck \in 0..MaxOpens
      BY <2>0, <2>2
    <3>2. probe.at \in {"start", "request", "end", "cached", "skipped"} /\ probe.retries \in 0..1
      BY <2>0 DEF ProbeTypes, Probe
    <3>3. {seized, suspended, before, awake} \subseteq BOOLEAN
      BY <2>0 DEF ProbeTypes
    <3> QED
      BY <2>0, <2>1, <3>1, <3>2, <3>3, ThereFinite DEF DHandles!TypeOK, HandleTypes, Handle
  <2>4. DHandles!ProbeRestores
    <3> SUFFICES ASSUME probe.at \in {"cached", "skipped"}, opens = 0
                 PROVE  ~seized /\ (suspended = before \/ awake)
      BY DEF DHandles!ProbeRestores
    <3>1. sources = 0 /\ stuck = 0 /\ Sourced = {}
      BY <2>0, <2>2 DEF SourceInv
    <3>2. \A i \in Handles : ~h[i].is_open
      BY <2>0, <3>1 DEF SourceInv, Sourced
    <3> QED
      BY <2>0, <3>1, <3>2 DEF SourceInv, ProbeInv, ProbeTypes
  <2>5. DHandles!OpenedForHandles
    <3>1. open_count = DHandles!Cardinality({i \in Handles : h[i].there})
      BY <2>0, ThereFinite DEF SourceInv, There
    <3>2. open_count > 0 => sources > 0
      <4> SUFFICES ASSUME open_count > 0 PROVE sources > 0
        OBVIOUS
      <4>1. There # {}
        BY <2>0, ThereFinite DEF SourceInv
      <4> QED
        BY <4>1, <2>0 DEF SourceInv
    <3>3. ASSUME open_count = 0 PROVE sources = stuck /\ (stuck = 0 /\ probe.at = "cached" => ~seized)
      <4>1. There = {} /\ Sourced = {}
        BY <3>3, <2>0, ThereFinite DEF SourceInv
      <4>2. \A i \in Handles : ~h[i].is_open
        BY <2>0, <4>1 DEF SourceInv, Sourced
      <4> QED
        BY <2>0, <4>1, <4>2 DEF SourceInv
    <3>4. (\E i \in Handles : h[i].is_open) => seized
      BY <2>0 DEF SourceInv
    <3> QED
      BY <3>1, <3>2, <3>3, <3>4 DEF DHandles!OpenedForHandles
  <2> QED
    BY <2>3, <2>4, <2>5
<1> QED
  BY <1>1, <1>2, <1>3, PTL DEF DarwinSpec

\* Whatever claims, releases, configurations and alternate settings failed,
\* darwin_submit_transfer() lets transfers through only to interfaces that are
\* open and have a live event source; a transfer under way can be completed, and
\* its frame list has room for its packets; and darwin_transfer_status() reports
\* CANCELLED or TIMED_OUT only of transfers that have been.
THEOREM EndpointsAreUsable == DarwinSpec => []EndpointsUsable
<1>1. DarwinInit => DTransfersInv
  BY DTransfersAtBoot DEF DarwinInit
<1>2. DTransfersInv /\ [DarwinNext]_<<part, darwin>> => DTransfersInv'
  BY Parts, DTransfersStep
<1>3. DTransfersInv => EndpointsUsable
  <2> SUFFICES ASSUME DTransfersInv
               PROVE  /\ DTransfers!TypeOK /\ DTransfers!EndpointsUsable /\ DTransfers!TransfersEnd
                      /\ DTransfers!StatusHasCause
    BY DEF EndpointsUsable
  <2>0. DTypes /\ InterfacesInv /\ TransfersInv
    BY DEF DTransfersInv
  <2>1. DTransfers!TypeOK
    BY <2>0 DEF DTypes, DTransfers!TypeOK, Interface, Transfer
  <2>2. DTransfers!EndpointsUsable
    BY <2>0 DEF InterfacesInv, Sound, DTransfers!EndpointsUsable, DTransfers!EpToPipeRef
  <2>3. DTransfers!TransfersEnd
    <3> SUFFICES ASSUME NEW t \in Transfers, dx[t].at = "flying"
                 PROVE  /\ dx[t].pipe # DTransfers!Control =>
                             ifc[dx[t].pipe].source = "live" /\ DTransfers!Reachable(t)
                        /\ dx[t].kind = "iso" => dx[t].frames = dx[t].packets
      BY DEF DTransfers!TransfersEnd
    <3>1. dx[t].kind = "iso" => dx[t].frames = dx[t].packets
      BY <2>0 DEF TransfersInv, Explained
    <3>2. ASSUME dx[t].pipe # DTransfers!Control
          PROVE  ifc[dx[t].pipe].source = "live" /\ DTransfers!Reachable(t)
      <4>1. dx[t].pipe \in Interfaces /\ dx[t].pipe \in dclaimed /\ ifc[dx[t].pipe].eps > 0
        BY <2>0, <3>2 DEF TransfersInv, Carried, DTypes
      <4> QED
        BY <2>0, <4>1 DEF InterfacesInv, Sound, DTransfers!Reachable, DTransfers!EpToPipeRef
    <3> QED
      BY <3>1, <3>2
  <2>4. DTransfers!StatusHasCause
    BY <2>0 DEF TransfersInv, Explained, DTransfers!StatusHasCause, DTransfers!TimesOut
  <2> QED
    BY <2>1, <2>2, <2>3, <2>4
<1> QED
  BY <1>1, <1>2, <1>3, PTL DEF DarwinSpec

\* A device of the cache has the references of the devices made of it, and one
\* more while its session lasts, so it lives as long as it is needed; once the
\* notifications are handled each context lists exactly the bus; and the event
\* thread runs while a context is in use.  The first two hold until one of the
\* races that "odd" records.
THEOREM CacheIsExact == DarwinSpec => []CacheExact
<1>1. DarwinInit => DDevicesInv
  BY DDevicesAtBoot DEF DarwinInit
<1>2. DDevicesInv /\ [DarwinNext]_<<part, darwin>> => DDevicesInv'
  BY Parts, DDevicesStep
<1>3. DDevicesInv => CacheExact
  BY DDevicesExact DEF CacheExact
<1> QED
  BY <1>1, <1>2, <1>3, PTL DEF DarwinSpec
=============================================================================
