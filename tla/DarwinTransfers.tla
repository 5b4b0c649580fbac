-------------------------- MODULE DarwinTransfers --------------------------
(***************************************************************************)
(* Interfaces and transfers of a device handle of libusb's Darwin backend  *)
(* (darwin_usb.c).  An interface has a plug-in object, is opened in the    *)
(* kernel, has a table of endpoints and an event source; claims, releases, *)
(* configurations and alternate settings change these one after the other, *)
(* and each can fail.  Interface i has one endpoint, whose pipe is i too;  *)
(* Control is pipe zero.                                                   *)
(*                                                                         *)
(* An interface is not released, nor its setting or configuration changed, *)
(* while transfers use it, as libusb asks of the application.  Its calls   *)
(* on one handle do not overlap; completions arrive at any time.           *)
(***************************************************************************)
EXTENDS Naturals, FiniteSets, FiniteSetsExt

CONSTANTS
  Interfaces,
  Transfers,
  MaxCalls      \* bound on calls that change interfaces; two more may submit

VARIABLES
  configured,   \* the device has a configuration, so its interfaces exist
  claimed,      \* claimed_interfaces
  ifc,          \* priv->interfaces
  x,            \* transfers
  twice,        \* an event source was released twice (history)
  silent,       \* a failed alternate setting was reported as success (history)
  calls

vars == <<configured, claimed, ifc, x, twice, silent, calls>>

Control == "control"
Pipes == Interfaces \cup {Control}
Kinds == {"bulk", "interrupt", "iso", "control", "stream"}
Results == {"ok", "stall", "overrun", "timeout", "error", "aborted"}

Unused == [obj |-> FALSE, open |-> FALSE, eps |-> 0, source |-> "null"]
Idle == [at |-> "idle", kind |-> "bulk", pipe |-> Control, res |-> "ok",
         timed |-> FALSE, wanted |-> FALSE, shared |-> FALSE, frames |-> 0, packets |-> 0, status |-> "none"]

TypeOK ==
  /\ configured \in BOOLEAN /\ claimed \subseteq Interfaces
  /\ ifc \in [Interfaces -> [obj : BOOLEAN, open : BOOLEAN, eps : 0..1, source : {"null", "live", "freed"}]]
  /\ \A t \in Transfers :
       /\ x[t].at \in {"idle", "flying", "posted", "stuck"} /\ x[t].kind \in Kinds /\ x[t].res \in Results
       /\ x[t].pipe \in Pipes /\ x[t].frames \in 0..2 /\ x[t].packets \in 0..2
  /\ twice \in BOOLEAN /\ silent \in BOOLEAN /\ calls \in 0..(MaxCalls + 2)

Init ==
  /\ configured \in BOOLEAN /\ claimed = {} /\ ifc = [i \in Interfaces |-> Unused]
  /\ x = [t \in Transfers |-> Idle] /\ twice = FALSE /\ silent = FALSE /\ calls = 0

Flying(i) == {t \in Transfers : x[t].at = "flying" /\ x[t].pipe = i}
Counted == calls < MaxCalls /\ calls' = calls + 1

-----------------------------------------------------------------------------
(* Interfaces, as they are after each call *)

\* Mutant: the table of endpoints stays.
ReleasedMutant(f) == IF f.obj THEN [f EXCEPT !.obj = FALSE, !.open = FALSE, !.source = IF @ = "null" THEN @ ELSE "freed"] ELSE f

\* darwin_release_interface(): cfSource keeps its value.
Released(f) ==
  IF f.obj
  THEN [obj |-> FALSE, open |-> FALSE, eps |-> 0, source |-> IF f.source = "null" THEN "null" ELSE "freed"]
  ELSE f
ReleasesTwice(f) == f.obj /\ f.source = "freed"

\* darwin_claim_interface() of an interface that exists: the plug-in, the opening,
\* get_endpoints() and the event source may each fail.  The old cfSource is
\* forgotten only after the third.
\* get_endpoints() works for an open interface only.
GetEndpoints(f) == IF f.open THEN BOOLEAN ELSE {FALSE}
Opened(f) == [f EXCEPT !.obj = TRUE, !.open = TRUE]
ClaimOutcomes(f) ==
  { [f |-> f, ok |-> FALSE, twice |-> FALSE],
    [f |-> [f EXCEPT !.obj = TRUE], ok |-> FALSE, twice |-> FALSE],
    [f |-> Released(Opened(f)), ok |-> FALSE, twice |-> ReleasesTwice(Opened(f))],
    [f |-> Released([Opened(f) EXCEPT !.source = "null"]), ok |-> FALSE, twice |-> FALSE],
    [f |-> [obj |-> TRUE, open |-> TRUE, eps |-> 1, source |-> "live"], ok |-> TRUE, twice |-> FALSE] }

\* darwin_set_configuration(): the claimed interfaces are released and, if the
\* kernel sets the configuration, claimed again, each as it may go.
ReleasedAll == [i \in Interfaces |-> IF i \in claimed THEN Released(ifc[i]) ELSE ifc[i]]
TwiceAll == \E i \in claimed : ReleasesTwice(ifc[i])
Reclaimed(outcomes) == [i \in Interfaces |-> IF i \in claimed THEN outcomes[i].f ELSE ifc[i]]
ReclaimOutcomes ==
  {o \in [claimed -> UNION {ClaimOutcomes(ReleasedAll[i]) : i \in Interfaces}] :
     \A i \in claimed : o[i] \in ClaimOutcomes(ReleasedAll[i])}

SetConfiguration ==
  /\ Counted /\ \A i \in Interfaces : Flying(i) = {}
  /\ \/ /\ ifc' = ReleasedAll /\ twice' = (twice \/ TwiceAll) /\ UNCHANGED configured
     \/ \E o \in ReclaimOutcomes :
          /\ ifc' = Reclaimed(o) /\ configured' = TRUE
          /\ twice' = (twice \/ TwiceAll \/ \E i \in claimed : o[i].twice)
  /\ UNCHANGED <<claimed, x, silent>>

\* darwin_get_interface() finds the interfaces of the configuration.
Found == configured

\* libusb_claim_interface(): a configuration is set first if there is none.
ClaimInterface(i) ==
  /\ Counted /\ i \notin claimed
  /\ \/ /\ Found
        /\ \E o \in ClaimOutcomes(ifc[i]) :
             /\ ifc' = [ifc EXCEPT ![i] = o.f] /\ twice' = (twice \/ o.twice)
             /\ claimed' = IF o.ok THEN claimed \cup {i} ELSE claimed
        /\ UNCHANGED configured
     \/ /\ ~Found
        /\ \/ ifc' = ReleasedAll /\ twice' = (twice \/ TwiceAll) /\ UNCHANGED <<claimed, configured>>
           \/ \E o \in ClaimOutcomes(ifc[i]) :   \* nothing is claimed before a configuration is set
                /\ ifc' = [ifc EXCEPT ![i] = o.f] /\ twice' = (twice \/ o.twice)
                /\ claimed' = (IF o.ok THEN claimed \cup {i} ELSE claimed) /\ configured' = TRUE
  /\ UNCHANGED <<x, silent>>

\* libusb_release_interface(): the bit stays if the object could not be released.
ReleaseInterface(i) ==
  /\ Counted /\ i \in claimed /\ Flying(i) = {}
  /\ ifc' = [ifc EXCEPT ![i] = Released(@)] /\ twice' = (twice \/ ReleasesTwice(ifc[i]))
  /\ claimed' \in {claimed \ {i}} \cup (IF ifc[i].obj THEN {claimed} ELSE {})
  /\ UNCHANGED <<configured, x, silent>>

\* darwin_set_interface_altsetting(): whether it worked or the device had to be
\* reset, the result is that of get_endpoints().
SetAltSetting(i) ==
  /\ Counted /\ i \in claimed /\ ifc[i].obj /\ Flying(i) = {}
  /\ \E worked, endpoints \in GetEndpoints(ifc[i]) :
       /\ silent' = (silent \/ (~worked /\ endpoints))
       /\ ifc' = [ifc EXCEPT ![i] = IF endpoints THEN [@ EXCEPT !.eps = 1] ELSE Released(@)]
       /\ twice' = (twice \/ (~endpoints /\ ReleasesTwice(ifc[i])))
  /\ UNCHANGED <<configured, claimed, x>>

\* darwin_reset_device(): the kernel ends what is flying; if descriptors changed
\* the device is enumerated again.
ResetDevice ==
  /\ Counted
  /\ x' = [t \in Transfers |-> IF x[t].at = "flying" /\ x[t].res = "ok"
                               THEN [x[t] EXCEPT !.res = "aborted", !.shared = TRUE] ELSE x[t]]
  /\ UNCHANGED <<configured, claimed, ifc, twice, silent>>

-----------------------------------------------------------------------------
(* Transfers *)

\* ep_to_pipeRef(): by the endpoint tables of the claimed interfaces.
EpToPipeRef(p) == p \in claimed /\ ifc[p].eps > 0
Reachable(t) == x[t].kind = "control" \/ EpToPipeRef(x[t].pipe)

\* submit_iso_transfer(): the list of frames of an earlier submission is used
\* again if it has as many, otherwise there is a new one.
Framelist(t, packets) == IF x[t].frames = packets THEN x[t].frames ELSE packets

Calls == calls < MaxCalls + 2 /\ calls' = calls + 1
Fly(t, kind, p, packets, frames) ==
  /\ Calls /\ x[t].at = "idle"
  /\ x' = [x EXCEPT ![t] = [Idle EXCEPT !.at = "flying", !.kind = kind, !.pipe = p,
                                        !.packets = packets, !.frames = frames]]
  /\ UNCHANGED <<configured, claimed, ifc, twice, silent>>

\* The kernel watches the timeout of a bulk transfer and not of an interrupt one.
SubmitBulk(t, kind, p) ==
  kind \in {"bulk", "interrupt"} /\ EpToPipeRef(p) /\ Fly(t, kind, p, 0, x[t].frames)
SubmitStream(t, p) == EpToPipeRef(p) /\ Fly(t, "stream", p, 0, x[t].frames)
SubmitIso(t, p, packets) == EpToPipeRef(p) /\ Fly(t, "iso", p, packets, Framelist(t, packets))
SubmitControl(t) == Fly(t, "control", Control, 0, x[t].frames)

\* darwin_submit_transfer()
Submit(t) ==
  \/ \E p \in Interfaces :
       \/ \E kind \in Kinds : SubmitBulk(t, kind, p)
       \/ SubmitStream(t, p)
       \/ \E packets \in 1..2 : SubmitIso(t, p, packets)
  \/ SubmitControl(t)

\* The endpoint is not found, and the new list of an isochronous one stays, or
\* the kernel refuses it, which frees the list.
SubmitFails(t) ==
  /\ Calls /\ x[t].at = "idle"
  /\ \E n \in {x[t].frames, 0} \cup {Framelist(t, packets) : packets \in 1..2} :
       x' = [x EXCEPT ![t].frames = n]
  /\ UNCHANGED <<configured, claimed, ifc, twice, silent>>

\* AbortPipe() and USBDeviceAbortPipeZero() abort all transfers of the pipe.
Aborted(t) == {u \in Flying(x[t].pipe) : x[u].res = "ok"}

AbortWith(t, timed) ==
  x' = [u \in Transfers |->
          LET y == IF u \in Aborted(t) THEN [x[u] EXCEPT !.res = "aborted", !.shared = (u # t)] ELSE x[u]
          IN IF u = t THEN [y EXCEPT !.wanted = @ \/ ~timed, !.timed = @ \/ timed] ELSE y]

CancelControl(t) == x[t].kind = "control" /\ AbortWith(t, FALSE)
AbortTransfers(t) ==
  x[t].kind \in {"bulk", "interrupt", "iso"} /\ EpToPipeRef(x[t].pipe) /\ AbortWith(t, FALSE)

\* darwin_cancel_transfer(): a stream cannot be cancelled.
Cancel(t) ==
  /\ x[t].at = "flying" /\ ~x[t].wanted
  /\ CancelControl(t) \/ AbortTransfers(t)
  /\ UNCHANGED <<configured, claimed, ifc, twice, silent, calls>>

\* The others are USBI_TRANSFER_OS_HANDLES_TIMEOUT.
TimesOut(t) == x[t].kind \in {"interrupt", "iso"}

\* handle_timeout(): TIMED_OUT is set and the transfer cancelled.
Timeout(t) ==
  /\ x[t].at = "flying" /\ ~x[t].timed /\ TimesOut(t) /\ Reachable(t)
  /\ AbortWith(t, TRUE)
  /\ UNCHANGED <<configured, claimed, ifc, twice, silent, calls>>

\* darwin_async_io_callback() on the run loop, with what the kernel says.
AsyncIoCallback(t) ==
  /\ x[t].at = "flying"
  /\ x[t].pipe # Control => ifc[x[t].pipe].source = "live"
  /\ \E r \in IF x[t].res = "aborted" THEN {"aborted"} ELSE Results \ {"aborted"} :
       /\ r = "timeout" => ~TimesOut(t)
       /\ x' = [x EXCEPT ![t].at = "posted", ![t].res = r]
  /\ UNCHANGED <<configured, claimed, ifc, twice, silent, calls>>

\* darwin_transfer_status()
Status(t) ==
  CASE x[t].timed \/ x[t].res = "timeout" -> "TIMED_OUT"
    [] ~x[t].timed /\ x[t].res = "ok" -> "COMPLETED"
    [] ~x[t].timed /\ x[t].res = "aborted" -> "CANCELLED"
    [] ~x[t].timed /\ x[t].res = "stall" -> "STALL"
    [] ~x[t].timed /\ x[t].res = "overrun" -> "OVERFLOW"
    [] OTHER -> "ERROR"

\* darwin_handle_transfer_completion(), and the callback; a stream has no case.
HandleCompletion(t) ==
  /\ x[t].at = "posted"
  /\ x' = [x EXCEPT ![t] = IF @.kind = "stream" THEN [@ EXCEPT !.at = "stuck"]
                           ELSE [@ EXCEPT !.at = "idle", !.status = Status(t)]]
  /\ UNCHANGED <<configured, claimed, ifc, twice, silent, calls>>

\* libusb_free_transfer(): darwin_clear_transfer_priv().
FreeTransfer(t) ==
  /\ x[t].at = "idle" /\ x[t] # Idle /\ x' = [x EXCEPT ![t] = Idle]
  /\ UNCHANGED <<configured, claimed, ifc, twice, silent, calls>>

CallbackStep(t) == AsyncIoCallback(t) \/ HandleCompletion(t)

Next ==
  \/ SetConfiguration \/ ResetDevice
  \/ \E i \in Interfaces : ClaimInterface(i) \/ ReleaseInterface(i) \/ SetAltSetting(i)
  \/ \E t \in Transfers :
       \/ Submit(t) \/ SubmitFails(t)
       \/ Cancel(t) \/ Timeout(t) \/ CallbackStep(t) \/ FreeTransfer(t)

Spec == Init /\ [][Next]_vars

-----------------------------------------------------------------------------
\* Whatever claims, releases, configurations and alternate settings failed, an
\* endpoint that transfers are let through to belongs to an interface that has
\* its object, is open in the kernel and has a live event source; and what is
\* open in the kernel is claimed.
EndpointsUsable ==
  \A i \in Interfaces :
    /\ EpToPipeRef(i) => ifc[i].obj /\ ifc[i].open /\ ifc[i].source = "live"
    /\ ifc[i].open => i \in claimed

\* A transfer under way can be ended: its completion can arrive, and its list has
\* room for what the kernel reports of each packet.
TransfersEnd ==
  \A t \in Transfers : x[t].at = "flying" =>
    /\ x[t].pipe # Control => ifc[x[t].pipe].source = "live" /\ Reachable(t)
    /\ x[t].kind = "iso" => x[t].frames = x[t].packets

\* A status has a cause: CANCELLED comes from the transfer's cancellation, or
\* from that of another on its pipe, or a reset; TIMED_OUT from its own timeout.
StatusHasCause ==
  \A t \in Transfers :
    /\ x[t].status = "CANCELLED" => x[t].wanted \/ x[t].shared
    /\ x[t].status = "TIMED_OUT" => x[t].timed \/ ~TimesOut(t)
    /\ x[t].status = "COMPLETED" => ~x[t].timed
=============================================================================
