------------------------- MODULE LibusbDescriptors -------------------------
(***************************************************************************)
(* libusb's parser of configuration and BOS descriptors (descriptor.c),    *)
(* over every short sequence of descriptors a device may send, with every  *)
(* allocation failing or not.                                              *)
(*                                                                         *)
(* A descriptor is its type, bLength, and what it claims to be followed    *)
(* by.  The buffer may end within the last one.                            *)
(***************************************************************************)
EXTENDS Naturals, FiniteSets, SequencesExt

CONSTANTS
  Inputs,        \* sequences of descriptors
  Counts,        \* values of bNumInterfaces and bNumDeviceCaps
  MaxEndpoints   \* USB_MAXENDPOINTS

VARIABLES
  input, cut,    \* the descriptors, and how many bytes of them are missing
  claim,         \* bNumInterfaces
  pos, entry,    \* buffer, now and when parse_interface() was called
  at,
  skipped,       \* bytes were skipped since begin
  ifs,           \* config->interface as far as it is parsed
  live,          \* memory that is allocated
  short,         \* an interface ended in a cut class descriptor (history)
  dangling,      \* a failed realloc freed what is still pointed to (history)
  refused        \* an allocation failed (history)

vars == <<input, cut, claim, pos, entry, at, skipped, ifs, live, short, dangling, refused>>
fixed == <<input, cut, claim>>
hist == <<short, dangling, refused>>

HEADER == 2
MinLength == [cfg |-> 9, if |-> 9, ep |-> 7, bos |-> 5, cap |-> 3, x |-> 2]
Proper == {"ep", "if", "cfg"}

\* Bytes from pos on; negative sizes do not occur.
Size ==
  LET all == FoldSeq(LAMBDA d, n : d.l + n, 0, SubSeq(input, pos, Len(input)))
  IN IF pos <= Len(input) /\ all > cut THEN all - cut ELSE 0

D == input[pos]
Dt == IF pos <= Len(input) THEN D.t ELSE "none"
\* The one at pos is of this type and all there, or too small for its type.
Complete(t) == Dt = t /\ Size >= MinLength[t] /\ D.l >= MinLength[t] /\ D.l <= Size
Small(t) == Dt = t /\ Size >= MinLength[t] /\ D.l < MinLength[t]

Current == ifs[Len(ifs)]
Alt == Current.alts[Len(Current.alts)]

TypeOK ==
  /\ input \in Inputs /\ cut \in 0..2 /\ claim \in Counts
  /\ pos \in 1..(Len(input) + 1) /\ entry \in 0..pos
  /\ at \in {"begin", "config extra", "interface", "interface extra", "endpoint", "endpoint extra",
             "alternate", "return", "cap", "done", "error", "freed"}
  /\ \A i \in DOMAIN ifs : \A a \in DOMAIN ifs[i].alts :
       Len(ifs[i].alts[a].got) <= MaxEndpoints
  /\ {skipped, short, dangling, refused} \subseteq BOOLEAN

Init ==
  /\ input \in Inputs /\ cut \in 0..2 /\ claim \in Counts
  /\ pos = 1 /\ entry = 0 /\ at = "begin" /\ skipped = FALSE
  /\ ifs = <<>> /\ live = {} /\ short = FALSE /\ dangling = FALSE /\ refused = FALSE

-----------------------------------------------------------------------------
(* Memory *)

\* clear_interface(): the arrays and extras of the settings it counts; "endpoint"
\* may have fewer entries than bNumEndpoints, the others are zero.
InterfaceMemory(i) ==
  {<<"alts", i>>}
  \cup UNION {{<<"extra", i, a>>, <<"eps", i, a>>}
              \cup {<<"ep extra", i, a, e>> : e \in DOMAIN ifs[i].alts[a].got} : a \in DOMAIN ifs[i].alts}

\* clear_configuration() and the free() of its callers.
ConfigMemory ==
  {<<"config">>, <<"interfaces">>, <<"config extra">>}
  \cup UNION {InterfaceMemory(i) : i \in DOMAIN ifs}

Fail ==
  /\ at' = "error" /\ live' = live \ ConfigMemory
  /\ UNCHANGED <<fixed, pos, entry, skipped, ifs, short, dangling>>

IoError == Fail /\ UNCHANGED refused
NoMemory == Fail /\ refused' = TRUE

\* libusb_free_config_descriptor(), libusb_free_bos_descriptor().
Free ==
  /\ at = "done" /\ at' = "freed" /\ live' = live \ ConfigMemory
  /\ UNCHANGED <<fixed, pos, entry, skipped, ifs, hist>>

-----------------------------------------------------------------------------
(* parse_configuration() *)

\* raw_desc_to_config() allocates the structure, parse_configuration() the
\* interfaces, if the header is right.
ParseConfiguration ==
  /\ at = "begin" /\ Dt # "bos"
  /\ \/ NoMemory
     \/ ~Complete("cfg") /\ IoError
     \/ /\ Complete("cfg")
        /\ live' = {<<"config">>, <<"interfaces">>}
        /\ pos' = pos + 1 /\ at' = IF claim = 0 THEN "done" ELSE "config extra"
        /\ UNCHANGED <<fixed, entry, skipped, ifs, hist>>

\* The three loops over class and vendor descriptors go on here.
Skips(place) ==
  /\ at = place /\ Size >= HEADER /\ D.l >= HEADER /\ D.l <= Size /\ D.t \notin Proper
  /\ pos' = pos + 1 /\ skipped' = TRUE
  /\ UNCHANGED <<fixed, entry, at, ifs, live, hist>>

TinyExtra(place) == at = place /\ Size >= HEADER /\ D.l < HEADER /\ IoError
CutExtra(place) == at = place /\ Size >= HEADER /\ D.l >= HEADER /\ D.l > Size
ExtraEnds(place) == at = place /\ ~(Size >= HEADER /\ ~(D.l >= HEADER /\ D.l <= Size /\ D.t \in Proper))

\* What was skipped is copied.
Copied(name) == IF skipped THEN live \cup {name} ELSE live

\* The first extra is kept, later ones are not.
ConfigExtra ==
  \/ Skips("config extra") \/ TinyExtra("config extra")
  \/ /\ CutExtra("config extra")
     /\ at' = "done" /\ UNCHANGED <<fixed, pos, entry, skipped, ifs, live, hist>>
  \/ /\ ExtraEnds("config extra")
     /\ \/ skipped /\ <<"config extra">> \notin live /\ NoMemory
        \/ /\ live' = Copied(<<"config extra">>)
           /\ at' = "interface" /\ entry' = pos /\ skipped' = FALSE
           /\ ifs' = Append(ifs, [alts |-> <<>>, number |-> 0])
           /\ UNCHANGED <<fixed, pos, hist>>

\* parse_interface() returned: 0 ends the list before this interface, and its
\* array, if it has one, is forgotten.
ParseInterfaceReturns ==
  /\ at = "return"
  /\ skipped' = FALSE
  /\ IF pos = entry THEN ifs' = Front(ifs) /\ at' = "done"
     ELSE ifs' = ifs /\ at' = IF Len(ifs) = claim THEN "done" ELSE "config extra"
  /\ UNCHANGED <<fixed, pos, entry, live, hist>>

-----------------------------------------------------------------------------
(* parse_interface() *)

Here == Len(ifs)
Setting == Len(Current.alts)
Return == at' = "return" /\ UNCHANGED <<fixed, pos, entry, skipped, ifs>>

\* The array grows first; when that fails the old one is gone.
GrowFails ==
  /\ at = "interface" /\ Size >= MinLength.if
  /\ NoMemory
GrowFailsLater ==
  /\ at = "interface" /\ Size >= MinLength.if /\ Current.alts # <<>>
  /\ at' = "error" /\ dangling' = TRUE /\ refused' = TRUE
  /\ UNCHANGED <<fixed, pos, entry, skipped, ifs, live, short>>

\* An alternate setting, if there is one.
ParseInterface ==
  /\ at = "interface"
  /\ \/ Size < MinLength.if /\ Return /\ UNCHANGED <<live, hist>>
     \/ IF Current.alts = <<>> THEN GrowFails ELSE GrowFailsLater
     \/ /\ Size >= MinLength.if
        /\ ~Small("if") /\ ~Complete("if")
        /\ Return /\ live' = live \cup {<<"alts", Here>>} /\ UNCHANGED hist
     \/ /\ Small("if") \/ (Complete("if") /\ D.n > MaxEndpoints)
        /\ at' = "error" /\ live' = live \ ConfigMemory
        /\ UNCHANGED <<fixed, pos, entry, skipped, ifs, hist>>
     \/ /\ Complete("if") /\ D.n <= MaxEndpoints
        /\ live' = live \cup {<<"alts", Here>>}
        /\ ifs' = [ifs EXCEPT ![Here] =
                     [alts |-> Append(@.alts, [at |-> pos, num |-> D.n, eps |-> FALSE, got |-> <<>>]),
                      number |-> IF @.alts = <<>> THEN D.id ELSE @.number]]
        /\ pos' = pos + 1 /\ at' = "interface extra" /\ skipped' = FALSE
        /\ UNCHANGED <<fixed, entry, hist>>

\* A cut one ends the interface before its endpoints are looked at.
InterfaceExtra ==
  \/ Skips("interface extra") \/ TinyExtra("interface extra")
  \/ CutExtra("interface extra") /\ Return /\ short' = TRUE /\ UNCHANGED <<live, dangling, refused>>
  \/ /\ ExtraEnds("interface extra")
     /\ \/ skipped \/ Alt.num > 0
        /\ NoMemory
     \/ /\ ExtraEnds("interface extra")
        /\ live' = Copied(<<"extra", Here, Setting>>)
                   \cup (IF Alt.num > 0 THEN {<<"eps", Here, Setting>>} ELSE {})
        /\ ifs' = [ifs EXCEPT ![Here].alts[Setting].eps = (Alt.num > 0)]
        /\ at' = "endpoint" /\ skipped' = FALSE
        /\ UNCHANGED <<fixed, pos, entry, hist>>

\* Mutant: the count stays as claimed.
FewerEndpointsMutant == ifs

FewerEndpoints == [ifs EXCEPT ![Here].alts[Setting].num = Len(Alt.got)]

\* parse_endpoint(): the end of the buffer is an error, another descriptor, or a
\* cut one, says that there are no more.
ParseEndpoint ==
  /\ at = "endpoint"
  /\ \/ /\ Len(Alt.got) = Alt.num
        /\ at' = "alternate" /\ UNCHANGED <<fixed, pos, entry, skipped, ifs, live, hist>>
     \/ /\ Len(Alt.got) < Alt.num
        /\ \/ Size < HEADER /\ IoError
           \/ /\ Size >= HEADER /\ (D.t # "ep" \/ D.l > Size)
              /\ ifs' = FewerEndpoints
              /\ at' = "alternate" /\ UNCHANGED <<fixed, pos, entry, skipped, live, hist>>
           \/ Size >= HEADER /\ D.t = "ep" /\ D.l < MinLength.ep /\ D.l <= Size /\ IoError
           \/ /\ Size >= HEADER /\ D.t = "ep" /\ D.l >= MinLength.ep /\ D.l <= Size
              /\ ifs' = [ifs EXCEPT ![Here].alts[Setting].got = Append(@, pos)]
              /\ pos' = pos + 1 /\ at' = "endpoint extra" /\ skipped' = FALSE
              /\ UNCHANGED <<fixed, entry, live, hist>>

EndpointExtra ==
  \/ Skips("endpoint extra") \/ TinyExtra("endpoint extra")
  \/ /\ CutExtra("endpoint extra")
     /\ at' = "endpoint" /\ UNCHANGED <<fixed, pos, entry, skipped, ifs, live, hist>>
  \/ /\ ExtraEnds("endpoint extra")
     /\ \/ skipped /\ NoMemory
        \/ /\ live' = Copied(<<"ep extra", Here, Setting, Len(Alt.got)>>)
           /\ at' = "endpoint" /\ skipped' = FALSE
           /\ UNCHANGED <<fixed, pos, entry, ifs, hist>>

\* "We check to see if it's an alternate to this one".
IsAlternate == Size >= MinLength.if /\ Dt = "if" /\ D.id = Current.number

Alternate ==
  /\ at = "alternate" /\ at' = IF IsAlternate THEN "interface" ELSE "return"
  /\ UNCHANGED <<fixed, pos, entry, skipped, ifs, live, hist>>

-----------------------------------------------------------------------------
(* parse_bos(): "ifs" are the capabilities *)

ParseBos ==
  /\ at = "begin" /\ Dt = "bos"
  /\ \/ NoMemory
     \/ ~Complete("bos") /\ IoError
     \/ /\ Complete("bos")
        /\ live' = {<<"config">>}
        /\ pos' = pos + 1 /\ at' = "cap"
        /\ UNCHANGED <<fixed, entry, skipped, ifs, hist>>

DevCapability ==
  /\ at = "cap"
  /\ \/ /\ Len(ifs) = claim \/ ~(Complete("cap") \/ Small("cap"))
        /\ at' = "done" /\ UNCHANGED <<fixed, pos, entry, skipped, ifs, live, hist>>
     \/ /\ Len(ifs) < claim
        /\ \/ Small("cap") /\ IoError
           \/ Complete("cap") /\ NoMemory
           \/ /\ Complete("cap")
              /\ ifs' = Append(ifs, [alts |-> <<>>, number |-> pos])
              /\ live' = live \cup {<<"alts", Len(ifs) + 1>>}
              /\ pos' = pos + 1
              /\ UNCHANGED <<fixed, entry, at, skipped, hist>>

Next ==
  \/ ParseConfiguration \/ ConfigExtra \/ ParseInterfaceReturns
  \/ ParseInterface \/ InterfaceExtra \/ ParseEndpoint \/ EndpointExtra \/ Alternate
  \/ ParseBos \/ DevCapability \/ Free

Spec == Init /\ [][Next]_vars

-----------------------------------------------------------------------------
\* Whatever the device sends and wherever memory runs out, nothing is left
\* allocated after an error or after the free function: but for the array of an
\* interface that parse_interface() allocated and parse_configuration() then did
\* not count, and what a failed realloc leaves behind.
MemoryReleased ==
  at \in {"error", "freed"} /\ ~dangling =>
    \A m \in live : m[1] = "alts" /\ m[2] = Len(ifs) + 1 /\ Len(m) = 2 /\ pos = entry

\* "Array of endpoint descriptors. This length of this array is determined by
\* the bNumEndpoints field": unless a cut class descriptor came before them.
EndpointsThere ==
  at = "done" => \A i \in DOMAIN ifs : \A a \in DOMAIN ifs[i].alts :
    LET alt == ifs[i].alts[a]
    IN alt.num = Len(alt.got) \/ (short /\ i = Len(ifs))

\* The descriptors of a configuration that a device should send: an interface
\* is followed by as many endpoints as it claims, and the settings of an
\* interface follow each other.
Kind(k) == {j \in DOMAIN input : input[j].t = k}
NextIf(j) == SelectInSubSeq(input, j + 1, Len(input), LAMBDA d : d.t = "if")
EndOf(j) == IF NextIf(j) = 0 THEN Len(input) ELSE NextIf(j) - 1
Numbers == {input[j].id : j \in Kind("if")}
WellFormed ==
  /\ cut = 0 /\ Kind("cfg") = {1} /\ Kind("bos") \cup Kind("cap") = {}
  /\ \A j \in DOMAIN input : input[j].l >= MinLength[input[j].t]
  /\ \A j \in Kind("if") : input[j].n <= MaxEndpoints
       /\ Len(SelectSeq(SubSeq(input, j, EndOf(j)), LAMBDA d : d.t = "ep")) = input[j].n
  /\ \A j \in Kind("ep") : \E k \in Kind("if") : k < j
  /\ \A j, k \in Kind("if") : j < k /\ input[j].id = input[k].id =>
       \A m \in Kind("if") : j < m /\ m < k => input[m].id = input[j].id
  /\ Cardinality(Numbers) = claim

\* It is parsed to the last descriptor: each interface number gives an interface
\* with its settings in order, and each setting its endpoints.
WellFormedParsed ==
  at = "done" /\ WellFormed =>
    /\ Len(ifs) = claim
    /\ UNION {{ifs[i].alts[a].at : a \in DOMAIN ifs[i].alts} : i \in DOMAIN ifs} = Kind("if")
    /\ \A i \in DOMAIN ifs : \A a \in DOMAIN ifs[i].alts :
         LET alt == ifs[i].alts[a]
         IN /\ input[alt.at].id = ifs[i].number
            /\ {alt.got[e] : e \in DOMAIN alt.got} = Kind("ep") \cap (alt.at..EndOf(alt.at))

\* It is not refused while there is memory.
WellFormedAccepted == at = "error" => ~WellFormed \/ refused
=============================================================================
