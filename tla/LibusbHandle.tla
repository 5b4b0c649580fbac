---------------------------- MODULE LibusbHandle ----------------------------
(***************************************************************************)
(* A libusb device handle on Linux: claiming and releasing interfaces,     *)
(* kernel drivers and their automatic detaching, configurations and the    *)
(* reset of a device (libusb/core.c, libusb/os/linux_usbfs.c), called by   *)
(* several threads of the program.  The kernel's side is its list of who   *)
(* is bound to each interface.                                             *)
(***************************************************************************)
EXTENDS Integers, FiniteSets

CONSTANTS
  Threads,     \* threads that use the handle
  Interfaces,  \* interfaces of the device, 0..n-1
  OldKernel,   \* without IOCTL_USBFS_DISCONNECT_CLAIM
  None

VARIABLES
  owner,     \* of each interface: "free", "driver", "us" (usbfs, this handle)
             \* or "other" (usbfs, somebody else's)
  claimed,   \* dev_handle->claimed_interfaces
  auto,      \* dev_handle->auto_detach_kernel_driver
  lock,      \* holder of dev_handle->lock
  th,        \* what each thread is doing
  present,   \* the device is there
  stale      \* interfaces released by a reset that failed (history)

vars == <<owner, claimed, auto, lock, th, present, stale>>

Idle == [pc |-> "idle", i |-> 0]
Last == Cardinality(Interfaces) - 1

TypeOK ==
  /\ owner \in [Interfaces -> {"free", "driver", "us", "other"}]
  /\ claimed \subseteq Interfaces /\ stale \subseteq Interfaces
  /\ auto \in BOOLEAN /\ present \in BOOLEAN
  /\ lock \in Threads \cup {None}
  /\ th \in [Threads -> [i : 0..(Last + 1),
                         pc : {"idle", "detached", "releasing", "reclaiming"}]]

Init ==
  /\ owner \in [Interfaces -> {"free", "driver"}]
  /\ claimed = {} /\ auto = FALSE /\ lock = None /\ present = TRUE
  /\ th = [t \in Threads |-> Idle] /\ stale = {}

At(t, pc) == th[t].pc = pc
Goto(t, pc, i) == th' = [th EXCEPT ![t] = [pc |-> pc, i |-> i]]

-----------------------------------------------------------------------------
(* The kernel *)

\* CLAIMINTF succeeds on a free interface and on one this handle has.
CanClaim(i) == present /\ owner[i] \in {"free", "us"}

\* DISCONNECT_CLAIM also takes it from any driver but usbfs.
CanDisconnectClaim(i) == present /\ owner[i] \in {"free", "driver"}

\* A driver for a free interface is loaded; another program comes and goes.
DriverBinds(i) ==
  /\ present /\ owner[i] = "free" /\ owner' = [owner EXCEPT ![i] = "driver"]
  /\ UNCHANGED <<claimed, auto, lock, th, present, stale>>

OtherProgram(i) ==
  /\ present /\ owner[i] \in {"free", "other"}
  /\ owner' = [owner EXCEPT ![i] = IF @ = "free" THEN "other" ELSE "free"]
  /\ UNCHANGED <<claimed, auto, lock, th, present, stale>>

Unplug ==
  /\ present /\ present' = FALSE
  /\ owner' = [i \in Interfaces |-> "free"]
  /\ UNCHANGED <<claimed, auto, lock, th, stale>>

-----------------------------------------------------------------------------
(* libusb_claim_interface() and libusb_release_interface() *)

Claims(i) == owner' = [owner EXCEPT ![i] = "us"] /\ claimed' = claimed \cup {i}

\* An interface claimed already is left alone; what the kernel answers decides
\* about the bit.  On an old kernel the driver is detached first.
Claim(t, i) ==
  /\ At(t, "idle") /\ lock = None /\ i \notin claimed
  /\ \/ /\ IF auto THEN ~OldKernel /\ CanDisconnectClaim(i) ELSE CanClaim(i)
        /\ Claims(i)
        /\ UNCHANGED <<lock, th>>
     \/ /\ auto /\ OldKernel /\ present /\ owner[i] \in {"free", "driver"}
        /\ owner' = [owner EXCEPT ![i] = "free"]
        /\ lock' = t /\ Goto(t, "detached", i)
        /\ UNCHANGED claimed
  /\ UNCHANGED <<auto, present, stale>>

\* The second half of detach_kernel_driver_and_claim() on an old kernel.
ClaimDetached(t) ==
  LET i == th[t].i
  IN /\ At(t, "detached")
     /\ IF CanClaim(i) THEN Claims(i) ELSE UNCHANGED <<owner, claimed>>
     /\ lock' = None /\ Goto(t, "idle", 0)
     /\ UNCHANGED <<auto, present, stale>>

\* Mutant: the bit is cleared even when the kernel refuses.
ReleaseMutant(t, i) ==
  /\ At(t, "idle") /\ lock = None /\ i \in claimed
  /\ claimed' = claimed \ {i}
  /\ UNCHANGED <<owner, auto, lock, th, present, stale>>

\* With auto_detach_kernel_driver the driver, if there is one, comes back.
Release(t, i) ==
  /\ At(t, "idle") /\ lock = None /\ i \in claimed
  /\ IF present /\ owner[i] = "us"
       THEN /\ claimed' = claimed \ {i}
            /\ \E back \in {"free", "driver"} :
                 /\ back = "driver" => auto
                 /\ owner' = [owner EXCEPT ![i] = back]
       ELSE UNCHANGED <<owner, claimed>>
  /\ UNCHANGED <<auto, lock, th, present, stale>>

\* libusb_set_auto_detach_kernel_driver()
SetAuto ==
  /\ auto' = ~auto
  /\ UNCHANGED <<owner, claimed, lock, th, present, stale>>

\* libusb_detach_kernel_driver(): not one that is usbfs;
\* libusb_attach_kernel_driver().  Neither takes the lock.
DetachDriver(t, i) ==
  /\ At(t, "idle") /\ present /\ owner[i] = "driver"
  /\ owner' = [owner EXCEPT ![i] = "free"]
  /\ UNCHANGED <<claimed, auto, lock, th, present, stale>>

AttachDriver(t, i) == At(t, "idle") /\ DriverBinds(i)

\* libusb_set_configuration(): refused while an interface is claimed; drivers
\* are bound anew.
SetConfiguration(t) ==
  /\ At(t, "idle") /\ present
  /\ \A i \in Interfaces : owner[i] \notin {"us", "other"}
  /\ owner' \in [Interfaces -> {"free", "driver"}]
  /\ UNCHANGED <<claimed, auto, lock, th, present, stale>>

-----------------------------------------------------------------------------
(* op_reset_device() *)

\* The interfaces are released one after the other without the lock ...
ResetStart(t) ==
  /\ At(t, "idle") /\ Goto(t, "releasing", 0)
  /\ UNCHANGED <<owner, claimed, auto, lock, present, stale>>

ResetRelease(t) ==
  LET i == th[t].i
  IN /\ At(t, "releasing") /\ i \in Interfaces
     /\ owner' = IF i \in claimed /\ owner[i] = "us"
                   THEN [owner EXCEPT ![i] = "free"] ELSE owner
     /\ Goto(t, "releasing", i + 1)
     /\ UNCHANGED <<claimed, auto, lock, present, stale>>

\* ... then the reset, under the lock; what is still bound to usbfs is unbound.
\* When it fails the interfaces stay released and their bits stay set.
Reset(t) ==
  /\ At(t, "releasing") /\ th[t].i \notin Interfaces /\ lock = None
  /\ \/ /\ present
        /\ owner' = [i \in Interfaces |->
                       IF owner[i] = "us" THEN "free" ELSE owner[i]]
        /\ lock' = t /\ Goto(t, "reclaiming", 0)
        /\ UNCHANGED stale
     \/ /\ stale' = stale \cup {i \in claimed : owner[i] # "us"}
        /\ Goto(t, "idle", 0)
        /\ UNCHANGED <<owner, lock>>
  /\ UNCHANGED <<claimed, auto, present>>

\* The interfaces claimed before are claimed again, from whatever driver bound
\* itself meanwhile; what cannot be is no longer claimed.  (On an old kernel
\* the driver may come back between the two calls.)
Reclaim(t) ==
  LET i == th[t].i
  IN /\ At(t, "reclaiming") /\ i \in Interfaces
     /\ \/ i \notin claimed /\ UNCHANGED <<owner, claimed>>
        \/ i \in claimed /\ CanDisconnectClaim(i) /\ Claims(i)
        \/ /\ i \in claimed /\ (OldKernel \/ ~CanDisconnectClaim(i))
           /\ claimed' = claimed \ {i} /\ UNCHANGED owner
     /\ stale' = stale \ {i}
     /\ Goto(t, "reclaiming", i + 1)
     /\ UNCHANGED <<auto, lock, present>>

ResetEnd(t) ==
  /\ At(t, "reclaiming") /\ th[t].i \notin Interfaces
  /\ lock' = None /\ Goto(t, "idle", 0)
  /\ UNCHANGED <<owner, claimed, auto, present, stale>>

-----------------------------------------------------------------------------
Next ==
  \/ \E t \in Threads :
       \/ ClaimDetached(t) \/ SetConfiguration(t)
       \/ ResetStart(t) \/ ResetRelease(t) \/ Reset(t) \/ Reclaim(t) \/ ResetEnd(t)
       \/ \E i \in Interfaces : Claim(t, i) \/ Release(t, i)
                                  \/ DetachDriver(t, i) \/ AttachDriver(t, i)
  \/ SetAuto \/ Unplug
  \/ \E i \in Interfaces : DriverBinds(i) \/ OtherProgram(i)

Spec == Init /\ [][Next]_vars

-----------------------------------------------------------------------------
Resetting == \E t \in Threads : th[t].pc \in {"releasing", "reclaiming"}

\* What the kernel has bound to this handle is recorded in the handle, so that
\* it will be released: no claim leaks, also around a reset by another thread.
ClaimsRecorded == \A i \in Interfaces : owner[i] = "us" => i \in claimed

\* A bit that is set is an interface that is claimed, outside of a reset and
\* apart from the interfaces a failed reset left behind.
BitsMeanClaims ==
  present /\ ~Resetting
    => \A i \in claimed \ stale : owner[i] = "us"

\* core.c:1577 "It is legal to attempt to claim an already-claimed interface":
\* whenever the handle says so, the interface really is claimed.
ClaimedIsClaimed ==
  present /\ ~Resetting => \A i \in claimed : owner[i] = "us"
=============================================================================
