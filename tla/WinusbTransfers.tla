-------------------------- MODULE WinusbTransfers --------------------------
(***************************************************************************)
(* Transfers of libusb's Windows backend (os/windows_winusb.c,             *)
(* os/windows_nt_common.c, os/poll_windows.c): every transfer gets an      *)
(* entry of the table poll_fd[] for the time of its I/O, whose index is a  *)
(* file descriptor to the event handler; control transfers claim an        *)
(* interface for themselves when none is claimed.                          *)
(*                                                                         *)
(* One handle of a device with two interfaces: a WinUSB device, a HID      *)
(* device, or a composite one with an interface of either driver.  The     *)
(* event pipe has entry 0 of the table, which is left out.                 *)
(***************************************************************************)
EXTENDS Naturals, Sequences, SequencesExt, FiniteSetsExt

CONSTANTS
  Transfers,
  MaxFds,     \* MAX_FDS, less the event pipe
  MaxCalls,   \* bound on calls
  None

VARIABLES
  kind,       \* "winusb", "hid" or "composite"
  dev, api,   \* interfaces whose dev_handle and api_handle are valid
  eps,        \* interfaces whose endpoints are assigned
  claimed,    \* dev_handle->claimed_interfaces
  auto,       \* handle_priv->autoclaim_count
  mine,       \* interfaces the application claimed
  fds,        \* poll_fd[]: the transfer an entry was made for, its interface,
              \* and whether its I/O is done
  poll,       \* descriptors the event handler polls
  x,          \* the transfers
  flying,     \* ctx->flying_transfers
  ready, cur, \* windows_handle_events(): descriptors with events, transfer at hand
  orphans,    \* transfers whose entry a reset has freed (history)
  leaked,     \* entries left by failed submissions on a HID interface (history)
  failed,     \* a submission failed after it had claimed an interface (history)
  calls       \* the application's calls of claim and release

ifVars == <<kind, dev, api, eps, claimed, auto, mine, calls>>
fdVars == <<fds, poll, orphans, leaked>>
xVars == <<x, flying, failed>>
evVars == <<ready, cur>>
vars == <<ifVars, fdVars, xVars, evVars>>

Ifs == {0, 1}
Fds == 1..MaxFds
Apis == {"winusb", "hid"}

Idle == [at |-> "idle", type |-> "control", via |-> "winusb", ep |-> 0, tried |-> {},
         fd |-> 0, iface |-> 0, took |-> FALSE]

\* priv->usb_interface[i].apib->id
Api(i) ==
  CASE kind = "winusb" -> "winusb"
    [] kind = "hid" -> "hid"
    [] kind = "composite" -> IF i = 0 THEN "winusb" ELSE "hid"

TypeOK ==
  /\ kind \in {"winusb", "hid", "composite"}
  /\ UNION {dev, api, eps, claimed, mine} \subseteq Ifs
  /\ auto \in [Ifs -> 0..(MaxCalls + 1)]
  /\ fds \in [Fds -> {None} \cup [t : Transfers, iface : Ifs, done : BOOLEAN]]
  /\ poll \subseteq Fds /\ ready \subseteq Fds /\ leaked \subseteq Fds
  /\ x \in [Transfers -> [at : {"idle", "select", "create", "poll", "flying"},
                          type : {"control", "bulk"}, via : Apis, ep : Ifs,
                          tried : SUBSET Apis, fd : 0..MaxFds, iface : Ifs,
                          took : BOOLEAN]]
  /\ ToSet(flying) \subseteq Transfers /\ cur \in Transfers \cup {None}
  /\ orphans \subseteq Transfers /\ failed \in BOOLEAN /\ calls \in 0..MaxCalls

\* windows_open(): winusbx_open(), hid_open(), composite_open().  A device of its
\* own has a path, and with WinUSB a handle, for interface 0 only.
Init ==
  /\ kind \in {"winusb", "hid", "composite"}
  /\ dev = IF kind = "hid" THEN {} ELSE {0}
  /\ api = CASE kind = "winusb" -> {} [] kind = "hid" -> {0} [] kind = "composite" -> {1}
  /\ eps = {} /\ claimed = {} /\ auto = [i \in Ifs |-> 0] /\ mine = {} /\ calls = 0
  /\ fds = [f \in Fds |-> None] /\ poll = {} /\ orphans = {} /\ leaked = {}
  /\ x = [t \in Transfers |-> Idle] /\ flying = <<>> /\ failed = FALSE
  /\ ready = {} /\ cur = None

-----------------------------------------------------------------------------
(* Claiming interfaces *)

\* winusbx_claim_interface(), hid_claim_interface(): interface i can be claimed.
\* Interfaces above 0 of a WinUSB device are reached through interface 0.
Claimable(i) ==
  IF Api(i) = "hid" THEN i \notin dev /\ (kind = "hid" => i = 0)
  ELSE kind = "composite" => i \in dev

\* libusb_claim_interface() returned 0: with the bit already set nothing is done.
Claimed(i) ==
  IF i \in claimed THEN UNCHANGED <<dev, api, eps, claimed>>
  ELSE /\ Claimable(i)
       /\ claimed' = claimed \cup {i} /\ eps' = eps \cup {i}
       /\ IF Api(i) = "hid" THEN dev' = dev \cup {i} /\ UNCHANGED api
          ELSE api' = api \cup {i} \cup (IF kind = "winusb" THEN {0} ELSE {})
               /\ UNCHANGED dev

\* It failed: the endpoints are gone, and what the driver refused, or took
\* before the endpoints could not be assigned.
ClaimFailed(i) ==
  /\ i \notin claimed
  /\ eps' = eps \ {i}
  /\ IF Api(i) = "hid"
       THEN dev' \in {dev, dev \cup {i}} /\ (i = 1 /\ kind = "hid" => dev' = dev)
            /\ UNCHANGED api
       ELSE api' \in {api \ {i}, api \cup {i} \cup (IF kind = "winusb" THEN {0} ELSE {})}
            /\ UNCHANGED dev
  /\ UNCHANGED claimed

\* libusb_release_interface(): the bit is kept when the driver has no handle.
Released(i) ==
  IF Api(i) = "hid"
    THEN dev' = dev \ {i} /\ UNCHANGED api
         /\ claimed' = IF i \in dev THEN claimed \ {i} ELSE claimed
    ELSE api' = api \ {i} /\ UNCHANGED dev
         /\ claimed' = IF i \in api THEN claimed \ {i} ELSE claimed

Call == calls < MaxCalls /\ calls' = calls + 1

AppClaim(i) ==
  /\ Call /\ i \notin mine /\ mine' = mine \cup {i} /\ Claimed(i)
  /\ UNCHANGED <<kind, auto, fdVars, xVars, evVars>>

AppClaimFails(i) ==
  /\ Call /\ i \notin mine /\ ClaimFailed(i)
  /\ UNCHANGED <<kind, auto, mine, fdVars, xVars, evVars>>

AppRelease(i) ==
  /\ Call /\ i \in mine /\ mine' = mine \ {i}
  /\ IF i \in claimed THEN Released(i) ELSE UNCHANGED <<dev, api, claimed>>
  /\ UNCHANGED <<kind, eps, auto, fdVars, xVars, evVars>>

\* get_valid_interface()
Valid(a) == {i \in Ifs : i \in dev /\ i \in api /\ Api(i) = a}

\* interface_by_endpoint(), for an endpoint of interface i.
Reachable(i) == i \in api /\ i \in eps

-----------------------------------------------------------------------------
(* Submitting *)

\* libusb_submit_transfer() puts it on the list, then calls the backend: a
\* control request may name an interface, and so a driver, of its own.
SubmitStart(t) ==
  /\ x[t].at = "idle" /\ t \notin ToSet(flying)
  /\ \E ty \in {"control", "bulk"}, v \in {Api(i) : i \in Ifs}, e \in Ifs :
       /\ (ty = "control" => e = 0) /\ (ty = "bulk" => v = Api(e))
       /\ x' = [x EXCEPT ![t] = [Idle EXCEPT !.at = "select", !.type = ty, !.via = v,
                                             !.ep = e, !.tried = {v}]]
  /\ flying' = Append(flying, t)
  /\ UNCHANGED <<failed, ifVars, fdVars, evVars>>

\* The backend returns an error: off the list, or composite_submit_control_
\* transfer() tries the other driver.
Refuse(t) ==
  \/ /\ x' = [x EXCEPT ![t] = Idle] /\ flying' = Remove(flying, t)
  \/ /\ kind = "composite" /\ x[t].type = "control" /\ x[t].tried # Apis
     /\ \E v \in Apis \ x[t].tried :
          x' = [x EXCEPT ![t].at = "select", ![t].via = v, ![t].tried = @ \cup {v},
                         ![t].took = FALSE]
     /\ UNCHANGED flying

\* An interface that is claimed is used as it is.
Select(t) ==
  /\ x[t].at = "select"
  /\ IF x[t].type = "control"
       THEN /\ Valid(x[t].via) # {}
            /\ x' = [x EXCEPT ![t].at = "create", ![t].iface = Min(Valid(x[t].via))]
       ELSE /\ Reachable(x[t].ep)
            /\ x' = [x EXCEPT ![t].at = "create", ![t].iface = x[t].ep]
  /\ UNCHANGED <<flying, failed, ifVars, fdVars, evVars>>

\* auto_claim(): the first interface of the driver.  (Where a WinUSB device
\* refuses interface 0 it refuses the ones above.)
AutoClaim(t) ==
  /\ x[t].at = "select" /\ x[t].type = "control" /\ Valid(x[t].via) = {}
  /\ LET i == Min({j \in Ifs : Api(j) = x[t].via}) IN
       /\ Claimed(i)
       /\ auto' = [auto EXCEPT ![i] = @ + 1]
       /\ x' = [x EXCEPT ![t].at = "create", ![t].iface = i, ![t].took = TRUE]
  /\ UNCHANGED <<flying, failed, kind, mine, calls, fdVars, evVars>>

NoInterface(t) ==
  /\ x[t].at = "select"
  /\ IF x[t].type = "control" THEN Valid(x[t].via) = {} ELSE ~Reachable(x[t].ep)
  /\ Refuse(t)
  /\ UNCHANGED <<failed, ifVars, fdVars, evVars>>

FreeFds == {f \in Fds : fds[f] = None}

\* usbi_create_fd() and the I/O, which may be done at once.
Create(t) ==
  /\ x[t].at = "create" /\ x[t].iface \in api /\ FreeFds # {}
  /\ LET f == Min(FreeFds) IN
       /\ \E d \in BOOLEAN : fds' = [fds EXCEPT ![f] = [t |-> t, iface |-> x[t].iface, done |-> d]]
       /\ x' = [x EXCEPT ![t].at = "poll", ![t].fd = f, ![t].tried = {}, ![t].took = FALSE,
                         ![t].via = "winusb", ![t].ep = 0]
  /\ UNCHANGED <<poll, orphans, leaked, flying, failed, ifVars, evVars>>

\* No entry, no handle, or the I/O fails and the entry is freed again.  What
\* auto_claim() took stays claimed.
CreateFails(t) ==
  /\ x[t].at = "create" /\ Refuse(t)
  /\ failed' = (failed \/ x[t].took)
  /\ UNCHANGED <<fdVars, ifVars, evVars>>

\* hid_submit_bulk_transfer(): without memory for the report, or when more was
\* read than asked for, the entry stays.
HidLeaks(t) ==
  /\ x[t].at = "create" /\ x[t].type = "bulk" /\ Api(x[t].iface) = "hid"
  /\ x[t].iface \in api /\ FreeFds # {}
  /\ LET f == Min(FreeFds) IN
       /\ fds' = [fds EXCEPT ![f] = [t |-> t, iface |-> x[t].iface, done |-> TRUE]]
       /\ leaked' = leaked \cup {f}
  /\ x' = [x EXCEPT ![t] = Idle] /\ flying' = Remove(flying, t)
  /\ UNCHANGED <<poll, orphans, failed, ifVars, evVars>>

\* usbi_add_pollfd(), and the submission returns.
AddPoll(t) ==
  /\ x[t].at = "poll"
  /\ x' = [x EXCEPT ![t] = [Idle EXCEPT !.at = "flying", !.type = x[t].type,
                                        !.fd = x[t].fd, !.iface = x[t].iface]]
  /\ poll' = poll \cup {x[t].fd}
  /\ UNCHANGED <<fds, orphans, leaked, flying, failed, ifVars, evVars>>

\* The I/O ends: by itself, aborted by windows_cancel_transfer(), or because the
\* device or the handle is gone.
IoDone(f) ==
  /\ fds[f] # None /\ ~fds[f].done /\ fds' = [fds EXCEPT ![f].done = TRUE]
  /\ UNCHANGED <<poll, orphans, leaked, xVars, ifVars, evVars>>

-----------------------------------------------------------------------------
(* Completing *)

\* usbi_poll(): a descriptor that is no longer in the table fails it.
Poll ==
  /\ ready = {} /\ cur = None
  /\ \A f \in poll : fds[f] # None
  /\ ready' = {f \in poll : fds[f].done} /\ ready' # {}
  /\ UNCHANGED <<cur, ifVars, fdVars, xVars>>

Matching(f) == {k \in 1..Len(flying) : x[flying[k]].fd = f}

\* Mutant: the entry is freed through a copy of the transfer's descriptor.
PickMutant(f) ==
  /\ cur = None /\ f \in ready /\ ready' = ready \ {f}
  /\ Matching(f) # {}
  /\ cur' = flying[Min(Matching(f))]
  /\ poll' = poll \ {f} /\ fds' = [fds EXCEPT ![f] = None]
  /\ UNCHANGED <<orphans, leaked, xVars, ifVars>>

\* windows_handle_events() looks for the transfer by its descriptor, takes it
\* out of the poll set, and windows_clear_transfer_priv() frees the entry and
\* resets the transfer's descriptor.  Without a transfer it gives up.
Pick(f) ==
  /\ cur = None /\ f \in ready
  /\ IF Matching(f) = {}
       THEN ready' = {} /\ UNCHANGED <<cur, fdVars, x>>
       ELSE /\ ready' = ready \ {f}
            /\ cur' = flying[Min(Matching(f))]
            /\ poll' = poll \ {f} /\ fds' = [fds EXCEPT ![f] = None]
            /\ x' = [x EXCEPT ![cur'].fd = 0]
            /\ UNCHANGED <<orphans, leaked>>
  /\ UNCHANGED <<flying, failed, ifVars>>

Using(t, i) == {u \in ToSet(flying) \ {t} : x[u].type = "control" /\ x[u].iface = i /\ x[u].fd # 0}

\* auto_release(), for every transfer on an interface with a count.
AutoRelease(t) ==
  LET i == x[t].iface IN
  /\ auto' = [auto EXCEPT ![i] = IF @ > 0 THEN @ - 1 ELSE @]
  /\ IF auto[i] = 1
       THEN IF i \in claimed THEN Released(i) ELSE UNCHANGED <<dev, api, claimed>>
       ELSE UNCHANGED <<dev, api, claimed>>

\* The rest of windows_clear_transfer_priv() and the transfer's callback.
Finish ==
  /\ cur # None
  /\ AutoRelease(cur)
  /\ x' = [x EXCEPT ![cur] = Idle] /\ flying' = Remove(flying, cur) /\ cur' = None
  /\ UNCHANGED <<kind, eps, mine, calls, failed, fdVars, ready>>

\* winusbx_reset_device(), composite_reset_device(): the entries of all the
\* interfaces' handles are freed, and the transfers not told.  What follows a
\* reset under a transfer is not explored.
Reset ==
  /\ kind # "hid" /\ cur = None
  /\ LET gone == {f \in Fds : fds[f] # None /\ fds[f].iface \in api}
     IN /\ fds' = [f \in Fds |-> IF f \in gone THEN None ELSE fds[f]]
        /\ poll' = poll \ gone /\ leaked' = leaked \ gone
        /\ orphans' = orphans \cup {fds[f].t : f \in gone}
  /\ UNCHANGED <<ifVars, xVars, evVars>>

Step ==
  \/ \E i \in Ifs : AppClaim(i) \/ AppClaimFails(i) \/ AppRelease(i)
  \/ \E t \in Transfers :
       \/ SubmitStart(t) \/ Select(t) \/ AutoClaim(t) \/ NoInterface(t)
       \/ Create(t) \/ CreateFails(t) \/ HidLeaks(t) \/ AddPoll(t)
  \/ \E f \in Fds : IoDone(f) \/ Pick(f)
  \/ Poll \/ Finish \/ Reset

Next == orphans = {} /\ Step

Spec == Init /\ [][Next]_vars

-----------------------------------------------------------------------------
\* The descriptor an event arrives on leads to the transfer it was made for and
\* to no other, although indices are used again as soon as they are free: the
\* handler never completes another thread's transfer.  (winusbx_reset_device()
\* frees entries under their transfers; no descriptor can be trusted after it.)
FdNamesItsTransfer ==
  orphans = {} =>
    \A f \in poll \cup ready :
      fds[f] # None /\ {flying[k] : k \in Matching(f)} = {fds[f].t}

\* An entry of the table is in use only for a transfer on the list that knows
\* it, whatever failed on the way there - except for the two errors of a HID
\* transfer that forget it.
FdTableExact ==
  \A f \in Fds \ leaked :
    fds[f] # None /\ orphans = {} => fds[f].t \in ToSet(flying) /\ x[fds[f].t].fd = f

\* When all transfers are over the only interfaces claimed are the ones that
\* the application claimed itself: what control transfers claimed is released,
\* in whatever order they end - provided that no submission failed after it had
\* claimed one.
AutoClaimsEnd ==
  flying = <<>> /\ ~failed => claimed \subseteq mine

\* "If we have a valid interface that was autoclaimed, we must increment its
\* autoclaim count so that we can prevent an early release."
NoEarlyRelease ==
  [][\A i \in Ifs : cur # None /\ auto[i] = 1 /\ auto'[i] = 0 => Using(cur, i) = {}]_vars
=============================================================================
