--------------------------- MODULE LibusbCoreProofs ---------------------------
(***************************************************************************)
(* Proofs about the parts of libusb: a device handle and its claims, on    *)
(* both kinds of kernel; the types of the parser of descriptors;           *)
(* synchronous transfers; the udev monitor; and the devices of a context   *)
(* with the hotplug messages about them.                                   *)
(***************************************************************************)
EXTENDS MCLibusbCore, TLAPS, FiniteSetTheorems, SequenceTheorems

-----------------------------------------------------------------------------
(* The claims of a device handle *)

Pcs == {"idle", "detached", "releasing", "reclaiming"}

\* The types of the handle.
HandleTypes ==
  /\ owner \in [Interfaces -> {"free", "driver", "us", "other"}]
  /\ claimed \subseteq Interfaces /\ stale \subseteq Interfaces
  /\ auto \in BOOLEAN /\ present \in BOOLEAN
  /\ lock \in Threads \cup {None}
  /\ th \in [Threads -> [i : 0..(Handle!Last + 1), pc : Pcs]]

\* A thread between the two halves of a claim, or reclaiming, has the lock.
LockInv == \A t \in Threads : th[t].pc \in {"detached", "reclaiming"} <=> lock = t

\* What the kernel has bound to this handle is recorded, and what is yet to be
\* reclaimed is not bound to it.
OwnInv ==
  /\ \A i \in Interfaces : owner[i] = "us" => i \in claimed
  /\ \A t \in Threads, i \in Interfaces :
       th[t].pc = "reclaiming" /\ i >= th[t].i => owner[i] # "us"
  /\ \A t \in Threads : th[t].pc = "detached" => th[t].i \in Interfaces

\* A bit without a claim is one that a reset has released: the reset is under
\* way, has still to reclaim it, or has failed.
BitInv ==
  present => \A i \in claimed \ stale :
    \/ owner[i] = "us"
    \/ \E t \in Threads : th[t].pc = "releasing"
    \/ \E t \in Threads : th[t].pc = "reclaiming" /\ i >= th[t].i

HandleInv == HandleTypes /\ LockInv /\ OwnInv /\ BitInv

\* The interfaces are numbered from 0 on.
LEMMA Numbering == Handle!Last \in Int /\ Handle!Last >= -1 /\ Interfaces = 0..Handle!Last
<1>1. Cardinality(Interfaces) \in Nat
  BY HandleAssumption, FS_CardinalityType
<1>2. Handle!Last = Cardinality(Interfaces) - 1
  BY DEF Handle!Last, Handle!Cardinality, Cardinality
<1> QED
  BY <1>1, <1>2, HandleAssumption

\* Every step of the handle keeps the invariant, on either kernel.
LEMMA HandleStep ==
    ASSUME HandleInv, [HandleNext]_vars
    PROVE  HandleInv'
<1> USE DEF Handle!At, Handle!Goto, Handle!Claims, Handle!CanClaim, Handle!CanDisconnectClaim, Handle!DriverBinds, Pcs
<1>0. HandleTypes /\ LockInv /\ OwnInv /\ BitInv
  BY DEF HandleInv
<1> USE Numbering, HandleAssumption
<1>1. ASSUME NEW t \in Threads, NEW i \in Interfaces, Handle!Claim(t, i) PROVE HandleInv'
  <2>1. HandleTypes'
    BY <1>0, <1>1 DEF HandleTypes, Handle!Claim
  <2>2. LockInv'
    BY <1>0, <1>1 DEF HandleTypes, LockInv, Handle!Claim
  <2>3. OwnInv'
    BY <1>0, <1>1 DEF HandleTypes, LockInv, OwnInv, Handle!Claim
  <2>4. BitInv'
    <3> SUFFICES ASSUME present', NEW j \in claimed' \ stale'
                 PROVE  \/ owner'[j] = "us"
                        \/ \E u \in Threads : th'[u].pc = "releasing"
                        \/ \E u \in Threads : th'[u].pc = "reclaiming" /\ j >= th'[u].i
      BY DEF BitInv
    <3>1. CASE owner'[j] # owner[j] \/ j \notin claimed
      BY <1>0, <1>1, <3>1 DEF HandleTypes, Handle!Claim
    <3>2. CASE owner'[j] = owner[j] /\ j \in claimed
      <4>1. j \in claimed \ stale /\ present
        BY <1>1, <3>2 DEF Handle!Claim
      <4>2. \A u \in Threads : th[u].pc \in {"releasing", "reclaiming"} => th'[u] = th[u]
        BY <1>0, <1>1 DEF HandleTypes, Handle!Claim
      <4> QED
        BY <1>0, <3>2, <4>1, <4>2 DEF BitInv
    <3> QED
      BY <3>1, <3>2
  <2> QED
    BY <2>1, <2>2, <2>3, <2>4 DEF HandleInv
<1>2. ASSUME NEW t \in Threads, Handle!ClaimDetached(t) PROVE HandleInv'
  <2>0. \/ owner' = [owner EXCEPT ![th[t].i] = "us"] /\ claimed' = claimed \cup {th[t].i}
        \/ UNCHANGED <<owner, claimed>>
    BY <1>2, Zenon DEF Handle!ClaimDetached
  <2>1. HandleTypes'
    <3>1. th' \in [Threads -> [i : 0..(Handle!Last + 1), pc : Pcs]]
      BY <1>0, <1>2 DEF HandleTypes, Handle!ClaimDetached
    <3>2. owner' \in [Interfaces -> {"free", "driver", "us", "other"}] /\ claimed' \subseteq Interfaces
      <4>1. th[t].i \in Interfaces
        BY <1>0, <1>2 DEF OwnInv, Handle!ClaimDetached
      <4> QED
        BY <1>0, <2>0, <4>1 DEF HandleTypes
    <3> QED
      BY <1>0, <1>2, <3>1, <3>2 DEF HandleTypes, Handle!ClaimDetached
  <2>2. LockInv'
    BY <1>0, <1>2 DEF HandleTypes, LockInv, Handle!ClaimDetached
  <2>3. OwnInv'
    BY <1>0, <1>2 DEF HandleTypes, LockInv, OwnInv, Handle!ClaimDetached
  <2>4. BitInv'
    <3> SUFFICES ASSUME present', NEW j \in claimed' \ stale'
                 PROVE  \/ owner'[j] = "us"
                        \/ \E u \in Threads : th'[u].pc = "releasing"
                        \/ \E u \in Threads : th'[u].pc = "reclaiming" /\ j >= th'[u].i
      BY DEF BitInv
    <3>1. CASE owner'[j] # owner[j] \/ j \notin claimed
      <4>1. th[t].i \in Interfaces
        BY <1>0, <1>2 DEF OwnInv, Handle!ClaimDetached
      <4>2. \/ j = th[t].i /\ owner'[j] = "us"
            \/ owner'[j] = owner[j] /\ j \in claimed
        <5>1. CASE UNCHANGED <<owner, claimed>>
          BY <5>1
        <5>2. CASE owner' = [owner EXCEPT ![th[t].i] = "us"] /\ claimed' = claimed \cup {th[t].i}
          BY <1>0, <4>1, <5>2 DEF HandleTypes
        <5> QED
          BY <2>0, <5>1, <5>2
      <4> QED
        BY <3>1, <4>2
    <3>2. CASE owner'[j] = owner[j] /\ j \in claimed
      <4>1. j \in claimed \ stale /\ present
        BY <1>2, <3>2 DEF Handle!ClaimDetached
      <4>2. \A u \in Threads : th[u].pc \in {"releasing", "reclaiming"} => th'[u] = th[u]
        BY <1>0, <1>2 DEF HandleTypes, Handle!ClaimDetached
      <4> QED
        BY <1>0, <3>2, <4>1, <4>2 DEF BitInv
    <3> QED
      BY <3>1, <3>2
  <2> QED
    BY <2>1, <2>2, <2>3, <2>4 DEF HandleInv
<1>3. ASSUME NEW t \in Threads, NEW i \in Interfaces, Handle!Release(t, i) PROVE HandleInv'
  <2>1. HandleTypes'
    BY <1>0, <1>3 DEF HandleTypes, Handle!Release
  <2>2. LockInv'
    BY <1>0, <1>3 DEF HandleTypes, LockInv, Handle!Release
  <2>3. OwnInv'
    BY <1>0, <1>3 DEF HandleTypes, LockInv, OwnInv, Handle!Release
  <2>4. BitInv'
    BY <1>0, <1>3 DEF HandleTypes, LockInv, OwnInv, BitInv, Handle!Release
  <2> QED
    BY <2>1, <2>2, <2>3, <2>4 DEF HandleInv
<1>4. ASSUME NEW t \in Threads, NEW i \in Interfaces, Handle!DetachDriver(t, i) PROVE HandleInv'
  <2>1. HandleTypes'
    BY <1>0, <1>4 DEF HandleTypes, Handle!DetachDriver
  <2>2. LockInv'
    BY <1>0, <1>4 DEF HandleTypes, LockInv, Handle!DetachDriver
  <2>3. OwnInv'
    BY <1>0, <1>4 DEF HandleTypes, LockInv, OwnInv, Handle!DetachDriver
  <2>4. BitInv'
    BY <1>0, <1>4 DEF HandleTypes, LockInv, OwnInv, BitInv, Handle!DetachDriver
  <2> QED
    BY <2>1, <2>2, <2>3, <2>4 DEF HandleInv
<1>5. ASSUME NEW t \in Threads, NEW i \in Interfaces, Handle!AttachDriver(t, i) PROVE HandleInv'
  <2>1. HandleTypes'
    BY <1>0, <1>5 DEF HandleTypes, Handle!AttachDriver
  <2>2. LockInv'
    BY <1>0, <1>5 DEF HandleTypes, LockInv, Handle!AttachDriver
  <2>3. OwnInv'
    BY <1>0, <1>5 DEF HandleTypes, LockInv, OwnInv, Handle!AttachDriver
  <2>4. BitInv'
    BY <1>0, <1>5 DEF HandleTypes, LockInv, OwnInv, BitInv, Handle!AttachDriver
  <2> QED
    BY <2>1, <2>2, <2>3, <2>4 DEF HandleInv
<1>6. ASSUME NEW t \in Threads, Handle!SetConfiguration(t) PROVE HandleInv'
  <2>1. HandleTypes'
    BY <1>0, <1>6 DEF HandleTypes, Handle!SetConfiguration
  <2>2. LockInv'
    BY <1>0, <1>6 DEF HandleTypes, LockInv, Handle!SetConfiguration
  <2>3. OwnInv'
    BY <1>0, <1>6 DEF HandleTypes, LockInv, OwnInv, Handle!SetConfiguration
  <2>4. BitInv'
    BY <1>0, <1>6 DEF HandleTypes, LockInv, OwnInv, BitInv, Handle!SetConfiguration
  <2> QED
    BY <2>1, <2>2, <2>3, <2>4 DEF HandleInv
<1>7. ASSUME NEW t \in Threads, Handle!ResetStart(t) PROVE HandleInv'
  <2>1. HandleTypes'
    BY <1>0, <1>7 DEF HandleTypes, Handle!ResetStart
  <2>2. LockInv'
    BY <1>0, <1>7 DEF HandleTypes, LockInv, Handle!ResetStart
  <2>3. OwnInv'
    BY <1>0, <1>7 DEF HandleTypes, LockInv, OwnInv, Handle!ResetStart
  <2>4. BitInv'
    BY <1>0, <1>7 DEF HandleTypes, LockInv, OwnInv, BitInv, Handle!ResetStart
  <2> QED
    BY <2>1, <2>2, <2>3, <2>4 DEF HandleInv
<1>8. ASSUME NEW t \in Threads, Handle!ResetRelease(t) PROVE HandleInv'
  <2>1. HandleTypes'
    BY <1>0, <1>8 DEF HandleTypes, Handle!ResetRelease
  <2>2. LockInv'
    BY <1>0, <1>8 DEF HandleTypes, LockInv, Handle!ResetRelease
  <2>3. OwnInv'
    BY <1>0, <1>8 DEF HandleTypes, LockInv, OwnInv, Handle!ResetRelease
  <2>4. BitInv'
    BY <1>0, <1>8 DEF HandleTypes, LockInv, OwnInv, BitInv, Handle!ResetRelease
  <2> QED
    BY <2>1, <2>2, <2>3, <2>4 DEF HandleInv
<1>9. ASSUME NEW t \in Threads, Handle!Reset(t) PROVE HandleInv'
  <2>1. HandleTypes'
    <3>1. th' \in [Threads -> [i : 0..(Handle!Last + 1), pc : Pcs]]
      BY <1>0, <1>9 DEF HandleTypes, Handle!Reset
    <3>2. owner' \in [Interfaces -> {"free", "driver", "us", "other"}]
      BY <1>0, <1>9 DEF HandleTypes, OwnInv, Handle!Reset
    <3> QED
      BY <1>0, <1>9, <3>1, <3>2 DEF HandleTypes, OwnInv, Handle!Reset
  <2>2. LockInv'
    BY <1>0, <1>9 DEF HandleTypes, LockInv, Handle!Reset
  <2>3. OwnInv'
    BY <1>0, <1>9 DEF HandleTypes, LockInv, OwnInv, Handle!Reset
  <2>4. BitInv'
    BY <1>0, <1>9 DEF HandleTypes, LockInv, OwnInv, BitInv, Handle!Reset
  <2> QED
    BY <2>1, <2>2, <2>3, <2>4 DEF HandleInv
<1>10. ASSUME NEW t \in Threads, Handle!Reclaim(t) PROVE HandleInv'
  <2>1. HandleTypes'
    <3>1. th[t].i \in Interfaces /\ th[t].i + 1 \in 0..(Handle!Last + 1)
      BY <1>10 DEF Handle!Reclaim
    <3>2. th' \in [Threads -> [i : 0..(Handle!Last + 1), pc : Pcs]]
      BY <1>0, <1>10, <3>1 DEF HandleTypes, Handle!Reclaim
    <3>3. owner' \in [Interfaces -> {"free", "driver", "us", "other"}]
      BY <1>0, <1>10, <3>1 DEF HandleTypes, Handle!Reclaim
    <3> QED
      BY <1>0, <1>10, <3>1, <3>2, <3>3 DEF HandleTypes, Handle!Reclaim
  <2>2. LockInv'
    BY <1>0, <1>10 DEF HandleTypes, LockInv, Handle!Reclaim
  <2>3. OwnInv'
    BY <1>0, <1>10 DEF HandleTypes, LockInv, OwnInv, Handle!Reclaim
  <2>4. BitInv'
    <3> SUFFICES ASSUME present', NEW j \in claimed' \ stale'
                 PROVE  \/ owner'[j] = "us"
                        \/ \E u \in Threads : th'[u].pc = "releasing"
                        \/ \E u \in Threads : th'[u].pc = "reclaiming" /\ j >= th'[u].i
      BY DEF BitInv
    <3>1. th'[t].pc = "reclaiming" /\ th'[t].i = th[t].i + 1 /\ th[t].i \in Interfaces
      BY <1>0, <1>10 DEF HandleTypes, Handle!Reclaim
    <3>2. j \in claimed /\ present /\ (j # th[t].i => j \notin stale /\ owner'[j] = owner[j])
      BY <1>0, <1>10 DEF HandleTypes, Handle!Reclaim
    <3>3. CASE j = th[t].i
      BY <1>0, <1>10, <3>3 DEF HandleTypes, Handle!Reclaim
    <3>4. CASE j # th[t].i
      <4>1. \A u \in Threads : u # t => th'[u] = th[u]
        BY <1>0, <1>10 DEF HandleTypes, Handle!Reclaim
      <4>2. j \in Int /\ th[t].i \in Int
        BY <3>1, <3>2, <1>0 DEF HandleTypes
      <4>3. th[t].pc = "reclaiming"
        BY <1>10 DEF Handle!Reclaim
      <4>4. CASE \E u \in Threads : th[u].pc = "releasing"
        BY <4>1, <4>3, <4>4
      <4>5. CASE \E u \in Threads : th[u].pc = "reclaiming" /\ j >= th[u].i
        BY <3>1, <3>4, <4>1, <4>2, <4>5
      <4> QED
        BY <1>0, <3>2, <3>4, <4>4, <4>5 DEF BitInv
    <3> QED
      BY <3>3, <3>4
  <2> QED
    BY <2>1, <2>2, <2>3, <2>4 DEF HandleInv
<1>11. ASSUME NEW t \in Threads, Handle!ResetEnd(t) PROVE HandleInv'
  <2>1. HandleTypes'
    BY <1>0, <1>11 DEF HandleTypes, Handle!ResetEnd
  <2>2. LockInv'
    BY <1>0, <1>11 DEF HandleTypes, LockInv, Handle!ResetEnd
  <2>3. OwnInv'
    BY <1>0, <1>11 DEF HandleTypes, LockInv, OwnInv, Handle!ResetEnd
  <2>4. BitInv'
    BY <1>0, <1>11 DEF HandleTypes, LockInv, OwnInv, BitInv, Handle!ResetEnd
  <2> QED
    BY <2>1, <2>2, <2>3, <2>4 DEF HandleInv
<1>12. ASSUME Handle!SetAuto PROVE HandleInv'
  <2>1. HandleTypes'
    BY <1>0, <1>12 DEF HandleTypes, Handle!SetAuto
  <2>2. LockInv'
    BY <1>0, <1>12 DEF HandleTypes, LockInv, Handle!SetAuto
  <2>3. OwnInv'
    BY <1>0, <1>12 DEF HandleTypes, LockInv, OwnInv, Handle!SetAuto
  <2>4. BitInv'
    BY <1>0, <1>12 DEF HandleTypes, LockInv, OwnInv, BitInv, Handle!SetAuto
  <2> QED
    BY <2>1, <2>2, <2>3, <2>4 DEF HandleInv
<1>13. ASSUME Handle!Unplug PROVE HandleInv'
  <2>1. HandleTypes'
    BY <1>0, <1>13 DEF HandleTypes, Handle!Unplug
  <2>2. LockInv'
    BY <1>0, <1>13 DEF HandleTypes, LockInv, Handle!Unplug
  <2>3. OwnInv'
    BY <1>0, <1>13 DEF HandleTypes, LockInv, OwnInv, Handle!Unplug
  <2>4. BitInv'
    BY <1>0, <1>13 DEF HandleTypes, LockInv, OwnInv, BitInv, Handle!Unplug
  <2> QED
    BY <2>1, <2>2, <2>3, <2>4 DEF HandleInv
<1>14. ASSUME NEW i \in Interfaces, Handle!DriverBinds(i) PROVE HandleInv'
  <2>1. HandleTypes'
    BY <1>0, <1>14 DEF HandleTypes, Handle!DriverBinds
  <2>2. LockInv'
    BY <1>0, <1>14 DEF HandleTypes, LockInv, Handle!DriverBinds
  <2>3. OwnInv'
    BY <1>0, <1>14 DEF HandleTypes, LockInv, OwnInv, Handle!DriverBinds
  <2>4. BitInv'
    BY <1>0, <1>14 DEF HandleTypes, LockInv, OwnInv, BitInv, Handle!DriverBinds
  <2> QED
    BY <2>1, <2>2, <2>3, <2>4 DEF HandleInv
<1>15. ASSUME NEW i \in Interfaces, Handle!OtherProgram(i) PROVE HandleInv'
  <2>1. HandleTypes'
    BY <1>0, <1>15 DEF HandleTypes, Handle!OtherProgram
  <2>2. LockInv'
    BY <1>0, <1>15 DEF HandleTypes, LockInv, Handle!OtherProgram
  <2>3. OwnInv'
    BY <1>0, <1>15 DEF HandleTypes, LockInv, OwnInv, Handle!OtherProgram
  <2>4. BitInv'
    BY <1>0, <1>15 DEF HandleTypes, LockInv, OwnInv, BitInv, Handle!OtherProgram
  <2> QED
    BY <2>1, <2>2, <2>3, <2>4 DEF HandleInv
<1>16. ASSUME NEW t \in Threads, NEW i \in Interfaces, OldHandle!Claim(t, i) PROVE HandleInv'
  <2>0. /\ th[t].pc = "idle" /\ lock = None /\ i \notin claimed /\ UNCHANGED <<auto, present, stale>>
        /\ \/ /\ owner' = [owner EXCEPT ![i] = "us"] /\ claimed' = claimed \cup {i}
              /\ UNCHANGED <<lock, th>>
           \/ /\ owner' = [owner EXCEPT ![i] = "free"] /\ owner[i] # "us" /\ UNCHANGED claimed
              /\ lock' = t /\ th' = [th EXCEPT ![t] = [pc |-> "detached", i |-> i]]
    BY <1>16 DEF OldHandle!Claim, OldHandle!At, OldHandle!Goto, OldHandle!Claims, OldHandle!CanClaim
  <2>1. HandleTypes'
    <3>1. th' \in [Threads -> [i : 0..(Handle!Last + 1), pc : Pcs]]
      BY <1>0, <2>0 DEF HandleTypes
    <3>2. owner' \in [Interfaces -> {"free", "driver", "us", "other"}]
      BY <1>0, <2>0 DEF HandleTypes, OwnInv
    <3> QED
      BY <1>0, <2>0, <3>1, <3>2 DEF HandleTypes, OwnInv
  <2>2. LockInv'
    BY <1>0, <2>0 DEF HandleTypes, LockInv
  <2>3. OwnInv'
    <3>1. CASE UNCHANGED <<lock, th>>
      BY <1>0, <2>0, <3>1 DEF HandleTypes, LockInv, OwnInv
    <3>2. CASE /\ owner' = [owner EXCEPT ![i] = "free"] /\ UNCHANGED claimed
               /\ lock' = t /\ th' = [th EXCEPT ![t] = [pc |-> "detached", i |-> i]]
      <4>1. \A u \in Threads : th'[u].pc # "reclaiming"
        BY <1>0, <2>0, <3>2 DEF HandleTypes, LockInv
      <4>2. \A u \in Threads : th'[u].pc = "detached" => th'[u].i \in Interfaces
        BY <1>0, <3>2 DEF HandleTypes, OwnInv
      <4>3. \A k \in Interfaces : owner'[k] = "us" => k \in claimed'
        BY <1>0, <3>2 DEF HandleTypes, OwnInv
      <4> QED
        BY <4>1, <4>2, <4>3 DEF OwnInv
    <3> QED
      BY <2>0, <3>1, <3>2
  <2>4. BitInv'
    <3> SUFFICES ASSUME present', NEW j \in claimed' \ stale'
                 PROVE  \/ owner'[j] = "us"
                        \/ \E u \in Threads : th'[u].pc = "releasing"
                        \/ \E u \in Threads : th'[u].pc = "reclaiming" /\ j >= th'[u].i
      BY DEF BitInv
    <3>1. CASE owner'[j] # owner[j] \/ j \notin claimed
      <4>1. CASE claimed' = claimed \cup {i}
        BY <1>0, <2>0, <3>1, <4>1 DEF HandleTypes
      <4>2. CASE claimed' = claimed
        BY <1>0, <2>0, <3>1, <4>2 DEF HandleTypes
      <4> QED
        BY <2>0, <4>1, <4>2
    <3>2. CASE owner'[j] = owner[j] /\ j \in claimed
      <4>1. j \in claimed \ stale /\ present
        BY <2>0, <3>2
      <4>2. \A u \in Threads : th[u].pc \in {"releasing", "reclaiming"} => th'[u] = th[u]
        BY <1>0, <2>0 DEF HandleTypes
      <4> QED
        BY <1>0, <3>2, <4>1, <4>2 DEF BitInv
    <3> QED
      BY <3>1, <3>2
  <2> QED
    BY <2>1, <2>2, <2>3, <2>4 DEF HandleInv
<1>17. ASSUME NEW t \in Threads, OldHandle!Reclaim(t) PROVE HandleInv'
  <2>1. HandleTypes'
    <3>1. th[t].i \in Interfaces /\ th[t].i + 1 \in 0..(Handle!Last + 1)
      BY <1>17 DEF OldHandle!Reclaim, OldHandle!At, OldHandle!Goto, OldHandle!Claims, OldHandle!CanClaim, OldHandle!CanDisconnectClaim
    <3>2. th' \in [Threads -> [i : 0..(Handle!Last + 1), pc : Pcs]]
      BY <1>0, <1>17, <3>1 DEF HandleTypes, OldHandle!Reclaim, OldHandle!At, OldHandle!Goto, OldHandle!Claims, OldHandle!CanClaim, OldHandle!CanDisconnectClaim
    <3>3. owner' \in [Interfaces -> {"free", "driver", "us", "other"}]
      BY <1>0, <1>17, <3>1 DEF HandleTypes, OldHandle!Reclaim, OldHandle!At, OldHandle!Goto, OldHandle!Claims, OldHandle!CanClaim, OldHandle!CanDisconnectClaim
    <3> QED
      BY <1>0, <1>17, <3>1, <3>2, <3>3 DEF HandleTypes, OldHandle!Reclaim, OldHandle!At, OldHandle!Goto, OldHandle!Claims, OldHandle!CanClaim, OldHandle!CanDisconnectClaim
  <2>2. LockInv'
    BY <1>0, <1>17 DEF HandleTypes, LockInv, OldHandle!Reclaim, OldHandle!At, OldHandle!Goto, OldHandle!Claims, OldHandle!CanClaim, OldHandle!CanDisconnectClaim
  <2>3. OwnInv'
    BY <1>0, <1>17 DEF HandleTypes, LockInv, OwnInv, OldHandle!Reclaim, OldHandle!At, OldHandle!Goto, OldHandle!Claims, OldHandle!CanClaim, OldHandle!CanDisconnectClaim
  <2>4. BitInv'
    <3> SUFFICES ASSUME present', NEW j \in claimed' \ stale'
                 PROVE  \/ owner'[j] = "us"
                        \/ \E u \in Threads : th'[u].pc = "releasing"
                        \/ \E u \in Threads : th'[u].pc = "reclaiming" /\ j >= th'[u].i
      BY DEF BitInv
    <3>1. th'[t].pc = "reclaiming" /\ th'[t].i = th[t].i + 1 /\ th[t].i \in Interfaces
      BY <1>0, <1>17 DEF HandleTypes, OldHandle!Reclaim, OldHandle!At, OldHandle!Goto, OldHandle!Claims, OldHandle!CanClaim, OldHandle!CanDisconnectClaim
    <3>2. j \in claimed /\ present /\ (j # th[t].i => j \notin stale /\ owner'[j] = owner[j])
      BY <1>0, <1>17 DEF HandleTypes, OldHandle!Reclaim, OldHandle!At, OldHandle!Goto, OldHandle!Claims, OldHandle!CanClaim, OldHandle!CanDisconnectClaim
    <3>3. CASE j = th[t].i
      BY <1>0, <1>17, <3>3 DEF HandleTypes, OldHandle!Reclaim, OldHandle!At, OldHandle!Goto, OldHandle!Claims, OldHandle!CanClaim, OldHandle!CanDisconnectClaim
    <3>4. CASE j # th[t].i
      <4>1. \A u \in Threads : u # t => th'[u] = th[u]
        BY <1>0, <1>17 DEF HandleTypes, OldHandle!Reclaim, OldHandle!At, OldHandle!Goto, OldHandle!Claims, OldHandle!CanClaim, OldHandle!CanDisconnectClaim
      <4>2. j \in Int /\ th[t].i \in Int
        BY <3>1, <3>2, <1>0 DEF HandleTypes
      <4>3. th[t].pc = "reclaiming"
        BY <1>17 DEF OldHandle!Reclaim, OldHandle!At, OldHandle!Goto, OldHandle!Claims, OldHandle!CanClaim, OldHandle!CanDisconnectClaim
      <4>4. CASE \E u \in Threads : th[u].pc = "releasing"
        BY <4>1, <4>3, <4>4
      <4>5. CASE \E u \in Threads : th[u].pc = "reclaiming" /\ j >= th[u].i
        BY <3>1, <3>4, <4>1, <4>2, <4>5
      <4> QED
        BY <1>0, <3>2, <3>4, <4>4, <4>5 DEF BitInv
    <3> QED
      BY <3>3, <3>4
  <2> QED
    BY <2>1, <2>2, <2>3, <2>4 DEF HandleInv
<1>18. ASSUME UNCHANGED handleVars PROVE HandleInv'
  BY <1>0, <1>18 DEF handleVars, HandleInv, HandleTypes, LockInv, OwnInv, BitInv
<1>19. CASE Handle!Next
  BY <1>19, <1>1, <1>2, <1>3, <1>4, <1>5, <1>6, <1>7, <1>8, <1>9, <1>10, <1>11, <1>12, <1>13,
     <1>14, <1>15, Zenon DEF Handle!Next
\* The old kernel differs in the claims only.
<1>20. CASE OldHandle!Next
  <2>1. SUFFICES Handle!Next \/ \E t \in Threads : OldHandle!Reclaim(t) \/ \E i \in Interfaces : OldHandle!Claim(t, i)
    BY <1>16, <1>17, <1>19, Zenon
  <2>2. \A t \in Threads :
          /\ OldHandle!ClaimDetached(t) => Handle!ClaimDetached(t)
          /\ OldHandle!SetConfiguration(t) => Handle!SetConfiguration(t)
          /\ OldHandle!ResetStart(t) => Handle!ResetStart(t)
          /\ OldHandle!ResetRelease(t) => Handle!ResetRelease(t)
          /\ OldHandle!Reset(t) => Handle!Reset(t)
          /\ OldHandle!ResetEnd(t) => Handle!ResetEnd(t)
    BY Zenon DEF OldHandle!ClaimDetached, Handle!ClaimDetached, OldHandle!SetConfiguration, Handle!SetConfiguration, OldHandle!ResetStart, Handle!ResetStart, OldHandle!ResetRelease, Handle!ResetRelease, OldHandle!Reset, Handle!Reset, OldHandle!ResetEnd, Handle!ResetEnd, OldHandle!At, Handle!At, OldHandle!Goto, Handle!Goto, OldHandle!Claims, Handle!Claims, OldHandle!CanClaim, Handle!CanClaim
  <2>3. \A t \in Threads, i \in Interfaces :
          /\ OldHandle!Release(t, i) => Handle!Release(t, i)
          /\ OldHandle!DetachDriver(t, i) => Handle!DetachDriver(t, i)
          /\ OldHandle!AttachDriver(t, i) => Handle!AttachDriver(t, i)
    BY Zenon DEF OldHandle!Release, Handle!Release, OldHandle!DetachDriver, Handle!DetachDriver, OldHandle!AttachDriver, Handle!AttachDriver, OldHandle!DriverBinds, Handle!DriverBinds, OldHandle!OtherProgram, Handle!OtherProgram, OldHandle!At, Handle!At
  <2>4. /\ (OldHandle!SetAuto => Handle!SetAuto) /\ (OldHandle!Unplug => Handle!Unplug)
        /\ \A i \in Interfaces :
             /\ OldHandle!DriverBinds(i) => Handle!DriverBinds(i)
             /\ OldHandle!OtherProgram(i) => Handle!OtherProgram(i)
    BY Zenon DEF OldHandle!DriverBinds, Handle!DriverBinds, OldHandle!OtherProgram, Handle!OtherProgram,
       OldHandle!SetAuto, Handle!SetAuto, OldHandle!Unplug, Handle!Unplug
  <2>5. CASE \E t \in Threads :
               \/ OldHandle!ClaimDetached(t) \/ OldHandle!SetConfiguration(t)
               \/ OldHandle!ResetStart(t) \/ OldHandle!ResetRelease(t) \/ OldHandle!Reset(t)
               \/ OldHandle!Reclaim(t) \/ OldHandle!ResetEnd(t)
    BY <2>2, <2>5, Zenon DEF Handle!Next
  <2>6. CASE \E t \in Threads, i \in Interfaces :
               \/ OldHandle!Claim(t, i) \/ OldHandle!Release(t, i)
               \/ OldHandle!DetachDriver(t, i) \/ OldHandle!AttachDriver(t, i)
    BY <2>3, <2>6, Zenon DEF Handle!Next
  <2>7. CASE OldHandle!SetAuto \/ OldHandle!Unplug
    BY <2>4, <2>7, Zenon DEF Handle!Next
  <2>8. CASE \E i \in Interfaces : OldHandle!DriverBinds(i) \/ OldHandle!OtherProgram(i)
    BY <2>4, <2>8, Zenon DEF Handle!Next
  <2> QED
    BY <1>20, <2>5, <2>6, <2>7, <2>8, Zenon DEF OldHandle!Next
<1> QED
  BY <1>18, <1>19, <1>20 DEF HandleNext, vars, handleVars

\* The handle starts in its invariant.
LEMMA HandleInit == Handle!Init => HandleInv
<1> SUFFICES ASSUME Handle!Init PROVE HandleInv
  OBVIOUS
<1> USE Numbering, HandleAssumption DEF Handle!Init, Handle!Idle, Pcs
<1>1. HandleTypes
  <2>1. owner \in [Interfaces -> {"free", "driver", "us", "other"}]
    OBVIOUS
  <2>2. th \in [Threads -> [i : 0..(Handle!Last + 1), pc : Pcs]]
    OBVIOUS
  <2> QED
    BY <2>1, <2>2 DEF HandleTypes
<1>2. LockInv /\ OwnInv /\ BitInv
  BY DEF LockInv, OwnInv, BitInv
<1> QED
  BY <1>1, <1>2 DEF HandleInv

\* On a kernel with IOCTL_USBFS_DISCONNECT_CLAIM and on one without, for any
\* number of threads and interfaces: what the kernel has bound to the handle is in
\* claimed_interfaces, and outside of a reset a bit of claimed_interfaces is a claim
\* of the kernel's, but for the interfaces that a failed reset left behind.
THEOREM ClaimsAreExact == Spec => []ClaimsExact
<1>1. Init => HandleInv
  BY HandleInit DEF Init
<1>2. HandleInv /\ [Next]_vars => HandleInv'
  <2> SUFFICES ASSUME HandleInv, [Next]_vars PROVE HandleInv'
    OBVIOUS
  <2>1. CASE [HandleNext]_vars
    BY <2>1, HandleStep
  <2>2. CASE UNCHANGED handleVars
    BY <2>2 DEF handleVars, HandleInv, HandleTypes, LockInv, OwnInv, BitInv
  <2> QED
    BY <2>1, <2>2 DEF Next, DevicesNext, DescriptorsNext, SyncNext, UdevNext
<1>3. HandleInv => ClaimsExact
  <2>1. HandleTypes => Handle!TypeOK
    BY DEF HandleTypes, Handle!TypeOK, Pcs
  <2> QED
    BY <2>1 DEF HandleInv, OwnInv, BitInv, HandleTypes, ClaimsExact, Handle!ClaimsRecorded,
       Handle!BitsMeanClaims, Handle!Resetting
<1> QED
  BY <1>1, <1>2, <1>3, PTL DEF Spec

-----------------------------------------------------------------------------
(* The parser of descriptors *)

\* Descriptors, alternate settings and interfaces: a setting never has more
\* endpoints than it claims, nor claims more than there may be.
Items == [t : {"cfg", "if", "ep", "bos", "cap", "x"}, l : Nat, n : Nat, id : Nat]
Flags == BOOLEAN
Settings ==
  {a \in [at : Nat, num : Nat, eps : Flags, got : Seq(Nat)] :
     Len(a.got) <= a.num /\ a.num <= MaxEndpoints}
Ifs == [alts : Seq(Settings), number : Nat]

\* The types of the parser's variables; inside an interface there is one, and
\* inside a setting there is one.
DescTypes ==
  /\ input \in DescriptorInputs /\ cut \in 0..2 /\ claim \in Counts
  /\ pos \in 1..(Len(input) + 1) /\ entry \in 0..pos
  /\ at \in {"begin", "config extra", "interface", "interface extra", "endpoint", "endpoint extra",
             "alternate", "return", "cap", "done", "error", "freed"}
  /\ skip \in Flags /\ short \in Flags /\ dangling \in Flags /\ refused \in Flags
  /\ ifs \in Seq(Ifs)
DescPlaces ==
  /\ at \in {"interface", "interface extra", "endpoint", "endpoint extra", "alternate", "return"} => ifs # <<>>
  /\ at \in {"interface extra", "endpoint", "endpoint extra", "alternate"} => ifs[Len(ifs)].alts # <<>>

DescInv == DescTypes /\ DescPlaces

\* Every input is a sequence of descriptors.
LEMMA InputsTyped == DescriptorInputs \subseteq Seq(Items)
<1>0. \A t \in {"cfg", "if", "ep", "bos", "cap", "x"}, l, n, id \in Nat : De(t, l, n, id) \in Items
  BY DEF De, Items
<1>1. Kinds \subseteq Items /\ CapKinds \subseteq Items
  BY <1>0 DEF Kinds, CapKinds, If
<1>2. ASSUME NEW S, S \subseteq Items, NEW k \in Nat, NEW q \in UpTo(k, S), NEW d \in Items PROVE <<d>> \o q \in Seq(Items)
  <2>1. q \in Seq(Items)
    <3>1. PICK n \in 0..k : q \in [1..n -> S]
      BY <1>2 DEF UpTo
    <3>2. n \in Nat /\ q \in [1..n -> Items]
      BY <1>2, <3>1
    <3> QED
      BY <3>2
  <2>2. <<d>> \in Seq(Items)
    BY <1>2
  <2> QED
    BY <2>1, <2>2, ConcatProperties
<1>3. De("cfg", 9, 0, 0) \in Items /\ De("bos", 5, 0, 0) \in Items
  BY <1>0
<1>4. ASSUME NEW s \in {<<>>, <<De("x", 9, 0, 0)>>, <<De("cfg", 8, 0, 0), If(0, 0)>>, <<De("bos", 4, 0, 0), If(0, 0)>>}
      PROVE  s \in Seq(Items)
  <2>1. De("x", 9, 0, 0) \in Items /\ De("cfg", 8, 0, 0) \in Items /\ De("bos", 4, 0, 0) \in Items /\ If(0, 0) \in Items
    BY <1>0 DEF If
  <2>2. <<>> \in Seq(Items)
    OBVIOUS
  <2>3. ASSUME NEW d \in Items PROVE <<d>> \in Seq(Items)
    OBVIOUS
  <2>4. ASSUME NEW d \in Items, NEW e \in Items PROVE <<d, e>> \in Seq(Items)
    OBVIOUS
  <2> QED
    BY <1>4, <2>1, <2>2, <2>3, <2>4
<1>5. \A q \in UpTo(3, Kinds) : <<De("cfg", 9, 0, 0)>> \o q \in Seq(Items)
  BY <1>1, <1>2, <1>3
<1>6. \A q \in UpTo(2, CapKinds) : <<De("bos", 5, 0, 0)>> \o q \in Seq(Items)
  BY <1>1, <1>2, <1>3
<1> QED
  BY <1>4, <1>5, <1>6 DEF DescriptorInputs

\* Where bytes are left there is a descriptor.
LEMMA SizeThere == ASSUME pos > Len(input), pos \in Nat, Len(input) \in Nat PROVE Descriptors!Size = 0
<1>1. ~(pos <= Len(input))
  OBVIOUS
<1> QED
  BY <1>1 DEF Descriptors!Size

\* The types, in the form the steps need.
LEMMA DescParts ==
    ASSUME DescInv
    PROVE  /\ input \in Seq(Items) /\ Len(input) \in Nat /\ pos \in Nat /\ pos >= 1 /\ pos <= Len(input) + 1
           /\ pos <= Len(input) => Descriptors!D \in Items
           /\ ifs \in Seq(Ifs) /\ Len(ifs) \in Nat
           /\ skip \in Flags /\ short \in Flags /\ dangling \in Flags /\ refused \in Flags
           /\ \A t \in {"cfg", "if", "ep", "bos", "cap"} : Descriptors!Complete(t) \/ Descriptors!Small(t) => pos <= Len(input)
           /\ Descriptors!Size >= 2 \/ Descriptors!Size >= 9 => pos <= Len(input)
<1>1. input \in Seq(Items) /\ Len(input) \in Nat /\ pos \in Nat /\ pos >= 1 /\ pos <= Len(input) + 1
  <2>1. input \in Seq(Items)
    BY InputsTyped DEF DescInv, DescTypes
  <2>2. Len(input) \in Nat
    BY <2>1, LenProperties
  <2>3. pos \in 1..(Len(input) + 1)
    BY DEF DescInv, DescTypes
  <2> QED
    BY <2>1, <2>2, <2>3
<1>2. pos <= Len(input) => Descriptors!D \in Items
  BY <1>1, ElementOfSeq DEF Descriptors!D
<1>3. ifs \in Seq(Ifs) /\ skip \in Flags /\ short \in Flags /\ dangling \in Flags /\ refused \in Flags
  BY DEF DescInv, DescTypes
<1>4. Len(ifs) \in Nat
  BY <1>3, LenProperties
<1>5. ASSUME NEW t \in {"cfg", "if", "ep", "bos", "cap"}, Descriptors!Complete(t) \/ Descriptors!Small(t) PROVE pos <= Len(input)
  BY <1>1, <1>5 DEF Descriptors!Complete, Descriptors!Small, Descriptors!Dt
<1>6. Descriptors!Size >= 2 \/ Descriptors!Size >= 9 => pos <= Len(input)
  <2> SUFFICES ASSUME pos > Len(input) PROVE ~(Descriptors!Size >= 2) /\ ~(Descriptors!Size >= 9)
    BY <1>1
  <2>1. Descriptors!Size = 0
    BY <1>1, SizeThere
  <2> QED
    BY <2>1
<1> QED
  BY <1>1, <1>2, <1>3, <1>4, <1>5, <1>6

\* A position moves on by at most one descriptor.
LEMMA PosRange ==
    ASSUME NEW n \in Nat, NEW p \in 1..(n + 1), NEW e \in 0..p, NEW q, q = p \/ (q = p + 1 /\ p <= n),
           NEW f, f = e \/ f = p
    PROVE  q \in 1..(n + 1) /\ f \in 0..q
  OBVIOUS

\* What a step that reads at most one descriptor has to show.
LEMMA DescMoves ==
    ASSUME DescInv, input' = input, cut' = cut, claim' = claim,
           pos' = pos \/ (pos' = pos + 1 /\ pos <= Len(input)), entry' = entry \/ entry' = pos,
           at' \in {"begin", "config extra", "interface", "interface extra", "endpoint", "endpoint extra",
                    "alternate", "return", "cap", "done", "error", "freed"},
           skip' \in Flags, short' \in Flags, dangling' \in Flags, refused' \in Flags,
           ifs' \in Seq(Ifs), DescPlaces'
    PROVE  DescInv'
<1>1. input \in DescriptorInputs /\ cut \in 0..2 /\ claim \in Counts /\ pos \in 1..(Len(input) + 1) /\ entry \in 0..pos
  BY DEF DescInv, DescTypes
<1>2. Len(input) \in Nat
  BY DescParts
<1>3. pos' \in 1..(Len(input) + 1) /\ entry' \in 0..pos'
  BY <1>1, <1>2, PosRange, Zenon
<1> QED
  BY <1>1, <1>3 DEF DescInv, DescTypes

\* A sequence that is not empty has a last element.
LEMMA LastThere ==
    ASSUME NEW S, NEW s \in Seq(S), s # <<>>
    PROVE  Len(s) \in 1..Len(s) /\ s[Len(s)] \in S
<1>1. Len(s) \in 1..Len(s)
  BY EmptySeq, LenProperties
<1> QED
  BY <1>1, ElementOfSeq

\* The last interface changes.
ReplaceLast(s, v) == [s EXCEPT ![Len(s)] = v]

\* What replacing the last element does.
LEMMA LastChanges ==
    ASSUME NEW S, NEW s \in Seq(S), s # <<>>, NEW v \in S
    PROVE  /\ ReplaceLast(s, v) \in Seq(S) /\ Len(ReplaceLast(s, v)) = Len(s)
           /\ ReplaceLast(s, v) # <<>> /\ ReplaceLast(s, v)[Len(s)] = v
<1> DEFINE r == ReplaceLast(s, v)
<1>1. Len(s) \in 1..Len(s) /\ Len(s) \in Nat
  BY EmptySeq, LenProperties
<1>2. r \in Seq(S) /\ Len(r) = Len(s) /\ r[Len(s)] = v
  BY <1>1, ExceptSeq DEF ReplaceLast
<1> HIDE DEF r
<1>3. r # <<>>
  BY <1>1, <1>2, EmptySeq
<1>4. r \in Seq(S) /\ Len(r) = Len(s) /\ r # <<>> /\ r[Len(s)] = v
  BY <1>2, <1>3
<1> QED
  BY <1>4 DEF r

\* The memory is not needed for the types; a failure only ends the parsing.
LEMMA DescFails == ASSUME DescInv, Descriptors!Fail, refused' \in Flags PROVE DescInv'
<1>1. /\ input' = input /\ cut' = cut /\ claim' = claim /\ pos' = pos /\ entry' = entry /\ at' = "error"
      /\ skip' = skip /\ short' = short /\ dangling' = dangling /\ ifs' = ifs
  BY DEF Descriptors!Fail, Descriptors!fixed
<1>2. DescPlaces'
  BY <1>1 DEF DescPlaces
<1>3. skip' \in Flags /\ short' \in Flags /\ dangling' \in Flags /\ ifs' \in Seq(Ifs)
  BY <1>1, DescParts
<1> QED
  BY <1>1, <1>2, <1>3, DescMoves

\* Both kinds of failure.
LEMMA DescErrors == ASSUME DescInv, Descriptors!NoMemory \/ Descriptors!IoError PROVE DescInv'
<1>1. refused' \in Flags /\ Descriptors!Fail
  BY DescParts DEF Descriptors!NoMemory, Descriptors!IoError, Flags
<1> QED
  BY <1>1, DescFails

\* A step that leaves the interfaces as they are, and goes to a place for which
\* there is what it needs.
LEMMA DescStays ==
    ASSUME DescInv, input' = input, cut' = cut, claim' = claim, ifs' = ifs,
           pos' = pos \/ (pos' = pos + 1 /\ pos <= Len(input)), entry' = entry \/ entry' = pos,
           skip' \in Flags, short' \in Flags, dangling' \in Flags, refused' \in Flags,
           \/ at' = at
           \/ at' \in {"begin", "config extra", "cap", "done", "error", "freed"}
           \/ at' \in {"interface", "return"}
              /\ at \in {"interface", "interface extra", "endpoint", "endpoint extra", "alternate", "return"}
           \/ at' \in {"endpoint", "endpoint extra", "alternate"}
              /\ at \in {"interface extra", "endpoint", "endpoint extra", "alternate"}
    PROVE  DescInv'
<1>0. DescPlaces /\ at \in {"begin", "config extra", "interface", "interface extra", "endpoint", "endpoint extra",
                    "alternate", "return", "cap", "done", "error", "freed"}
  BY DEF DescInv, DescTypes
<1>1. DescPlaces'
  BY <1>0, Zenon DEF DescPlaces
<1>2. at' \in {"begin", "config extra", "interface", "interface extra", "endpoint", "endpoint extra",
               "alternate", "return", "cap", "done", "error", "freed"}
  BY <1>0, Zenon
<1>3. ifs' \in Seq(Ifs)
  BY DescParts
<1> QED
  BY <1>1, <1>2, <1>3, DescMoves

\* The loops over class and vendor descriptors.
LEMMA ExtraSteps ==
    ASSUME DescInv, NEW place \in {"config extra", "interface extra", "endpoint extra"},
           Descriptors!Skips(place) \/ Descriptors!TinyExtra(place)
    PROVE  DescInv'
<1>1. CASE Descriptors!Skips(place)
  <2>1. pos <= Len(input)
    <3>1. Descriptors!Size >= 2
      BY <1>1 DEF Descriptors!Skips, Descriptors!HEADER
    <3> QED
      BY <3>1, DescParts
  <2>2. /\ input' = input /\ cut' = cut /\ claim' = claim /\ ifs' = ifs /\ pos' = pos + 1 /\ entry' = entry
        /\ at' = at /\ skip' = TRUE /\ short' = short /\ dangling' = dangling /\ refused' = refused
    BY <1>1 DEF Descriptors!Skips, Descriptors!fixed, Descriptors!hist
  <2>3. skip' \in Flags /\ short' \in Flags /\ dangling' \in Flags /\ refused' \in Flags
    BY <2>2, DescParts DEF Flags
  <2> QED
    BY <2>1, <2>2, <2>3, DescStays
<1>2. CASE Descriptors!TinyExtra(place)
  BY <1>2, DescErrors DEF Descriptors!TinyExtra
<1> QED
  BY <1>1, <1>2

\* The header of a configuration or of a BOS descriptor, and the free functions.
LEMMA HeaderSteps ==
    ASSUME DescInv, Descriptors!ParseConfiguration \/ Descriptors!ParseBos \/ Descriptors!Free
    PROVE  DescInv'
<1>0. CASE Descriptors!NoMemory \/ Descriptors!IoError
  BY <1>0, DescErrors
<1>1. ASSUME \/ /\ Descriptors!Complete("cfg") \/ Descriptors!Complete("bos")
                /\ pos' = pos + 1 /\ at' \in {"done", "config extra", "cap"}
             \/ pos' = pos /\ at' = "freed",
             input' = input, cut' = cut, claim' = claim, ifs' = ifs, entry' = entry,
             skip' = skip, short' = short, dangling' = dangling, refused' = refused
      PROVE  DescInv'
  <2>1. skip' \in Flags /\ short' \in Flags /\ dangling' \in Flags /\ refused' \in Flags
    BY <1>1, DescParts
  <2>2. CASE pos' = pos /\ at' = "freed"
    BY <1>1, <2>1, <2>2, DescStays
  <2>3. CASE /\ Descriptors!Complete("cfg") \/ Descriptors!Complete("bos")
             /\ pos' = pos + 1 /\ at' \in {"done", "config extra", "cap"}
    <3>1. pos <= Len(input)
      BY <2>3, DescParts
    <3> QED
      BY <1>1, <2>1, <2>3, <3>1, DescStays
  <2> QED
    BY <1>1, <2>2, <2>3
<1>2. CASE Descriptors!ParseConfiguration
  <2>1. CASE ~(Descriptors!NoMemory \/ Descriptors!IoError)
    <3>1. /\ Descriptors!Complete("cfg") /\ pos' = pos + 1 /\ at' \in {"done", "config extra"}
          /\ input' = input /\ cut' = cut /\ claim' = claim /\ ifs' = ifs /\ entry' = entry
          /\ skip' = skip /\ short' = short /\ dangling' = dangling /\ refused' = refused
      BY <1>2, <2>1 DEF Descriptors!ParseConfiguration, Descriptors!fixed, Descriptors!hist
    <3> QED
      BY <1>1, <3>1
  <2> QED
    BY <1>0, <2>1
<1>3. CASE Descriptors!ParseBos
  <2>1. CASE ~(Descriptors!NoMemory \/ Descriptors!IoError)
    <3>1. /\ Descriptors!Complete("bos") /\ pos' = pos + 1 /\ at' = "cap"
          /\ input' = input /\ cut' = cut /\ claim' = claim /\ ifs' = ifs /\ entry' = entry
          /\ skip' = skip /\ short' = short /\ dangling' = dangling /\ refused' = refused
      BY <1>3, <2>1 DEF Descriptors!ParseBos, Descriptors!fixed, Descriptors!hist
    <3> QED
      BY <1>1, <3>1
  <2> QED
    BY <1>0, <2>1
<1>4. CASE Descriptors!Free
  <2>1. /\ pos' = pos /\ at' = "freed"
        /\ input' = input /\ cut' = cut /\ claim' = claim /\ ifs' = ifs /\ entry' = entry
        /\ skip' = skip /\ short' = short /\ dangling' = dangling /\ refused' = refused
    BY <1>4 DEF Descriptors!Free, Descriptors!fixed, Descriptors!hist
  <2> QED
    BY <1>1, <2>1
<1> QED
  BY <1>2, <1>3, <1>4

\* A list of interfaces that grows has one.
LEMMA Grows ==
    ASSUME NEW S, NEW s \in Seq(S), NEW e \in S
    PROVE  Append(s, e) \in Seq(S) /\ Append(s, e) # <<>> /\ Len(Append(s, e)) = Len(s) + 1
           /\ Append(s, e)[Len(s) + 1] = e
<1>1. Append(s, e) \in Seq(S) /\ Len(Append(s, e)) = Len(s) + 1 /\ Append(s, e)[Len(s) + 1] = e /\ Len(s) \in Nat
  BY AppendProperties, LenProperties
<1>2. Append(s, e) # <<>>
  BY <1>1, EmptySeq
<1> QED
  BY <1>1, <1>2

\* What follows the header, up to an interface.
LEMMA ConfigExtraStep == ASSUME DescInv, Descriptors!ConfigExtra PROVE DescInv'
<1>1. CASE Descriptors!Skips("config extra") \/ Descriptors!TinyExtra("config extra")
  BY <1>1, ExtraSteps
<1>2. CASE Descriptors!NoMemory
  BY <1>2, DescErrors
<1>3. CASE at' = "done" /\ UNCHANGED <<Descriptors!fixed, pos, entry, skip, ifs, live, Descriptors!hist>>
  <2>1. /\ input' = input /\ cut' = cut /\ claim' = claim /\ ifs' = ifs /\ pos' = pos /\ entry' = entry
        /\ skip' = skip /\ short' = short /\ dangling' = dangling /\ refused' = refused /\ at' = "done"
    BY <1>3 DEF Descriptors!fixed, Descriptors!hist
  <2>2. skip' \in Flags /\ short' \in Flags /\ dangling' \in Flags /\ refused' \in Flags
    BY <2>1, DescParts
  <2> QED
    BY <2>1, <2>2, DescStays
<1>4. CASE /\ at' = "interface" /\ entry' = pos /\ skip' = FALSE
           /\ ifs' = Append(ifs, [alts |-> <<>>, number |-> 0])
           /\ UNCHANGED <<Descriptors!fixed, pos, Descriptors!hist>>
  <2> DEFINE i == [alts |-> <<>>, number |-> 0]
  <2>1. /\ input' = input /\ cut' = cut /\ claim' = claim /\ ifs' = Append(ifs, i) /\ pos' = pos /\ entry' = pos
        /\ skip' = FALSE /\ short' = short /\ dangling' = dangling /\ refused' = refused /\ at' = "interface"
    BY <1>4 DEF Descriptors!fixed, Descriptors!hist
  <2>2. skip' \in Flags /\ short' \in Flags /\ dangling' \in Flags /\ refused' \in Flags
    BY <2>1, DescParts DEF Flags
  <2>3. i \in Ifs
    <3>1. <<>> \in Seq(Settings)
      OBVIOUS
    <3> QED
      BY <3>1 DEF Ifs
  <2> HIDE DEF i
  <2>4. ifs' \in Seq(Ifs) /\ ifs' # <<>>
    BY <2>1, <2>3, DescParts, Grows
  <2>5. DescPlaces'
    BY <2>1, <2>4 DEF DescPlaces
  <2> QED
    BY <2>1, <2>2, <2>4, <2>5, DescMoves
<1> QED
  BY <1>1, <1>2, <1>3, <1>4 DEF Descriptors!ConfigExtra

\* An interface that is not one is taken off the list.
LEMMA ReturnsStep == ASSUME DescInv, Descriptors!ParseInterfaceReturns PROVE DescInv'
<1>0. /\ input' = input /\ cut' = cut /\ claim' = claim /\ pos' = pos /\ entry' = entry
      /\ skip' = FALSE /\ short' = short /\ dangling' = dangling /\ refused' = refused
      /\ at = "return" /\ at' \in {"done", "config extra"}
      /\ ifs' = ifs \/ ifs' = Descriptors!Front(ifs)
  BY DEF Descriptors!ParseInterfaceReturns, Descriptors!fixed, Descriptors!hist
<1>1. skip' \in Flags /\ short' \in Flags /\ dangling' \in Flags /\ refused' \in Flags
  BY <1>0, DescParts DEF Flags
<1>2. ifs # <<>> /\ ifs \in Seq(Ifs) /\ Len(ifs) \in Nat
  BY <1>0, DescParts DEF DescInv, DescPlaces
<1>3. Descriptors!Front(ifs) \in Seq(Ifs)
  <2>1. Len(ifs) - 1 \in 0..Len(ifs) /\ Len(ifs) >= 1
    BY <1>2, EmptySeq
  <2>2. SubSeq(ifs, 1, Len(ifs) - 1) \in Seq(Ifs)
    BY <1>2, <2>1, SubSeqProperties
  <2> QED
    BY <2>2 DEF Descriptors!Front
<1>4. ifs' \in Seq(Ifs)
  BY <1>0, <1>2, <1>3
<1>5. DescPlaces'
  BY <1>0 DEF DescPlaces
<1> QED
  BY <1>0, <1>1, <1>4, <1>5, DescMoves

\* A step inside an interface: the last interface changes, and has settings then.
LEMMA DescInside ==
    ASSUME DescInv, input' = input, cut' = cut, claim' = claim, ifs # <<>>,
           NEW v \in Ifs, v.alts # <<>>, ifs' = [ifs EXCEPT ![Len(ifs)] = v],
           pos' = pos \/ (pos' = pos + 1 /\ pos <= Len(input)), entry' = entry,
           at' \in {"interface extra", "endpoint", "endpoint extra", "alternate"},
           skip' \in Flags, short' \in Flags, dangling' \in Flags, refused' \in Flags
    PROVE  DescInv'
<1>1. ifs' \in Seq(Ifs) /\ Len(ifs') = Len(ifs) /\ ifs' # <<>> /\ ifs'[Len(ifs)] = v
  <2>1. ifs \in Seq(Ifs)
    BY DescParts
  <2> DEFINE r == ReplaceLast(ifs, v)
  <2>2. r \in Seq(Ifs) /\ Len(r) = Len(ifs) /\ r # <<>> /\ r[Len(ifs)] = v
    BY <2>1, LastChanges, Zenon
  <2>3. ifs' = r
    BY DEF ReplaceLast
  <2> QED
    BY <2>2, <2>3, Zenon
<1>2. DescPlaces'
  BY <1>1 DEF DescPlaces
<1>3. at' \in {"begin", "config extra", "interface", "interface extra", "endpoint", "endpoint extra",
               "alternate", "return", "cap", "done", "error", "freed"}
  OBVIOUS
<1> QED
  BY <1>1, <1>2, <1>3, DescMoves

\* Inside an interface.
LEMMA CurrentThere ==
    ASSUME DescInv, at \in {"interface", "interface extra", "endpoint", "endpoint extra", "alternate", "return"}
    PROVE  /\ ifs # <<>> /\ Len(ifs) \in 1..Len(ifs) /\ ifs[Len(ifs)] \in Ifs
           /\ ifs[Len(ifs)].alts \in Seq(Settings) /\ ifs[Len(ifs)].number \in Nat
<1>1. ifs # <<>> /\ ifs \in Seq(Ifs) /\ Len(ifs) \in Nat
  BY DescParts DEF DescInv, DescPlaces
<1>2. Len(ifs) \in 1..Len(ifs) /\ ifs[Len(ifs)] \in Ifs
  BY <1>1, LastThere, Zenon
<1> QED
  BY <1>1, <1>2 DEF Ifs

\* Inside a setting: replacing it.
LEMMA SettingThere ==
    ASSUME DescInv, at \in {"interface extra", "endpoint", "endpoint extra", "alternate"}
    PROVE  /\ ifs # <<>> /\ ifs[Len(ifs)] \in Ifs
           /\ ifs[Len(ifs)].alts[Len(ifs[Len(ifs)].alts)] \in Settings
           /\ \A s \in Settings : \A v :
                v = [ifs[Len(ifs)] EXCEPT !.alts = [ifs[Len(ifs)].alts EXCEPT ![Len(ifs[Len(ifs)].alts)] = s]]
                => v \in Ifs /\ v.alts # <<>>
<1> DEFINE c == ifs[Len(ifs)]
<1>1. c \in Ifs /\ c.alts \in Seq(Settings) /\ ifs # <<>> /\ c.alts # <<>> /\ c.number \in Nat
  BY CurrentThere DEF DescInv, DescPlaces
<1> HIDE DEF c
<1>3. c.alts[Len(c.alts)] \in Settings
  BY <1>1, LastThere, Zenon
<1>4. ASSUME NEW s \in Settings, NEW v, v = [c EXCEPT !.alts = [c.alts EXCEPT ![Len(c.alts)] = s]]
      PROVE  v \in Ifs /\ v.alts # <<>>
  <2> DEFINE r == ReplaceLast(c.alts, s)
  <2>1. r \in Seq(Settings) /\ r # <<>>
    BY <1>1, LastChanges, Zenon
  <2>2. v = [c EXCEPT !.alts = r]
    BY <1>4 DEF ReplaceLast
  <2> HIDE DEF r
  <2>3. v \in Ifs /\ v.alts = r
    BY <1>1, <2>1, <2>2 DEF Ifs
  <2> QED
    BY <2>1, <2>3
<1> QED
  BY <1>1, <1>3, <1>4 DEF c

\* The settings that the steps make.
LEMMA SettingsMade ==
    ASSUME NEW a \in Settings
    PROVE  /\ a.num \in Nat /\ a.got \in Seq(Nat) /\ Len(a.got) \in Nat
           /\ \A b \in Flags : [a EXCEPT !.eps = b] \in Settings
           /\ [a EXCEPT !.num = Len(a.got)] \in Settings
           /\ \A p \in Nat : Len(a.got) < a.num => [a EXCEPT !.got = Append(a.got, p)] \in Settings
<1> DEFINE R == [at : Nat, num : Nat, eps : Flags, got : Seq(Nat)]
<1>1. a \in R /\ a.num \in Nat /\ a.got \in Seq(Nat) /\ Len(a.got) <= a.num /\ a.num <= MaxEndpoints
  BY DEF Settings
<1>2. Len(a.got) \in Nat
  BY <1>1, LenProperties
<1>3. \A s \in R : Len(s.got) <= s.num /\ s.num <= MaxEndpoints => s \in Settings
  BY DEF Settings
<1>4. ASSUME NEW b \in Flags PROVE [a EXCEPT !.eps = b] \in Settings
  <2> DEFINE s == [a EXCEPT !.eps = b]
  <2>1. s \in R /\ s.got = a.got /\ s.num = a.num
    BY <1>1
  <2> HIDE DEF s, R
  <2>2. s \in Settings
    BY <1>1, <1>3, <2>1
  <2> QED
    BY <2>2 DEF s
<1>5. [a EXCEPT !.num = Len(a.got)] \in Settings
  <2> DEFINE n == Len(a.got)
  <2> DEFINE s == [a EXCEPT !.num = n]
  <2>1. n \in Nat /\ n <= MaxEndpoints
    BY <1>1, <1>2, DescriptorsAssumption
  <2> HIDE DEF n
  <2>2. s \in R /\ s.got = a.got /\ s.num = n
    BY <1>1, <2>1
  <2>3. Len(s.got) <= s.num
    BY <1>2, <2>2 DEF n
  <2> HIDE DEF s, R
  <2>4. s \in Settings
    BY <1>3, <2>1, <2>2, <2>3
  <2> QED
    BY <2>4 DEF s, n
<1>6. ASSUME NEW p \in Nat, Len(a.got) < a.num PROVE [a EXCEPT !.got = Append(a.got, p)] \in Settings
  <2> DEFINE q == Append(a.got, p)
  <2> DEFINE s == [a EXCEPT !.got = q]
  <2>1. q \in Seq(Nat) /\ Len(q) = Len(a.got) + 1
    BY <1>1, Grows
  <2> HIDE DEF q
  <2>2. s \in R /\ s.got = q /\ s.num = a.num
    BY <1>1, <2>1
  <2>3. Len(s.got) <= s.num
    BY <1>1, <1>2, <1>6, <2>1, <2>2
  <2> HIDE DEF s, R
  <2>4. s \in Settings
    BY <1>1, <1>3, <2>2, <2>3
  <2> QED
    BY <2>4 DEF s, q
<1> QED
  BY <1>1, <1>2, <1>4, <1>5, <1>6

\* An interface with a setting.
LEMMA IfsMade ==
    ASSUME NEW q \in Seq(Settings), q # <<>>, NEW m \in Nat
    PROVE  [alts |-> q, number |-> m] \in Ifs /\ [alts |-> q, number |-> m].alts # <<>>
  BY DEF Ifs

\* A new setting, with no endpoints yet.
LEMMA SettingBegins ==
    ASSUME DescInv, at = "interface", pos <= Len(input), Descriptors!D.n <= MaxEndpoints,
           NEW v, v = [alts |-> Append(ifs[Len(ifs)].alts, [at |-> pos, num |-> Descriptors!D.n, eps |-> FALSE, got |-> <<>>]),
                       number |-> IF ifs[Len(ifs)].alts = <<>> THEN Descriptors!D.id ELSE ifs[Len(ifs)].number]
    PROVE  v \in Ifs /\ v.alts # <<>>
<1> DEFINE s == [at |-> pos, num |-> Descriptors!D.n, eps |-> FALSE, got |-> <<>>]
<1> DEFINE c == ifs[Len(ifs)]
<1> DEFINE m == IF c.alts = <<>> THEN Descriptors!D.id ELSE c.number
<1>1. c.alts \in Seq(Settings) /\ c.number \in Nat
  BY CurrentThere
<1>2. Descriptors!D.n \in Nat /\ Descriptors!D.id \in Nat /\ pos \in Nat
  BY DescParts DEF Items
<1>3. s \in Settings
  <2>1. <<>> \in Seq(Nat) /\ Len(<<>>) = 0 /\ FALSE \in Flags
    BY EmptySeq DEF Flags
  <2>2. s \in [at : Nat, num : Nat, eps : Flags, got : Seq(Nat)]
    BY <1>2, <2>1
  <2>3. Len(s.got) <= s.num /\ s.num <= MaxEndpoints
    BY <1>2, <2>1
  <2> QED
    BY <2>2, <2>3 DEF Settings
<1>4. m \in Nat
  BY <1>1, <1>2
<1> HIDE DEF s, c, m
<1>5. Append(c.alts, s) \in Seq(Settings) /\ Append(c.alts, s) # <<>>
  BY <1>1, <1>3, Grows
<1> DEFINE q == Append(c.alts, s)
<1>6. v = [alts |-> q, number |-> m]
  BY DEF c, s, m
<1>7. q \in Seq(Settings) /\ q # <<>>
  BY <1>5
<1> HIDE DEF q
<1> QED
  BY <1>4, <1>6, <1>7, IfsMade, Zenon

\* parse_interface() and its parts.
LEMMA InterfaceStep == ASSUME DescInv, Descriptors!ParseInterface PROVE DescInv'
<1>1. CASE Descriptors!Size < Descriptors!MinLength.if /\ Descriptors!Return /\ UNCHANGED <<live, Descriptors!hist>>
  <2>1. /\ input' = input /\ cut' = cut /\ claim' = claim /\ ifs' = ifs /\ pos' = pos /\ entry' = entry
        /\ skip' = skip /\ short' = short /\ dangling' = dangling /\ refused' = refused /\ at' = "return"
        /\ at = "interface"
    BY <1>1 DEF Descriptors!ParseInterface, Descriptors!Return, Descriptors!fixed, Descriptors!hist
  <2> QED
    BY <2>1, DescParts, DescStays
<1>2. CASE Descriptors!GrowFails
  BY <1>2, DescErrors DEF Descriptors!GrowFails
<1>3. CASE Descriptors!GrowFailsLater
  <2>1. /\ input' = input /\ cut' = cut /\ claim' = claim /\ ifs' = ifs /\ pos' = pos /\ entry' = entry
        /\ skip' = skip /\ short' = short /\ dangling' = TRUE /\ refused' = TRUE /\ at' = "error"
    BY <1>3 DEF Descriptors!GrowFailsLater, Descriptors!fixed
  <2>2. skip' \in Flags /\ short' \in Flags /\ dangling' \in Flags /\ refused' \in Flags
    BY <2>1, DescParts DEF Flags
  <2> QED
    BY <2>1, <2>2, DescStays
<1>4. CASE Descriptors!Return /\ UNCHANGED Descriptors!hist
  <2>1. /\ input' = input /\ cut' = cut /\ claim' = claim /\ ifs' = ifs /\ pos' = pos /\ entry' = entry
        /\ skip' = skip /\ short' = short /\ dangling' = dangling /\ refused' = refused /\ at' = "return"
        /\ at = "interface"
    BY <1>4 DEF Descriptors!ParseInterface, Descriptors!Return, Descriptors!fixed, Descriptors!hist
  <2> QED
    BY <2>1, DescParts, DescStays
<1>5. CASE at' = "error" /\ UNCHANGED <<Descriptors!fixed, pos, entry, skip, ifs, Descriptors!hist>>
  <2>1. /\ input' = input /\ cut' = cut /\ claim' = claim /\ ifs' = ifs /\ pos' = pos /\ entry' = entry
        /\ skip' = skip /\ short' = short /\ dangling' = dangling /\ refused' = refused /\ at' = "error"
    BY <1>5 DEF Descriptors!fixed, Descriptors!hist
  <2> QED
    BY <2>1, DescParts, DescStays
<1>6. CASE /\ Descriptors!Complete("if") /\ Descriptors!D.n <= MaxEndpoints
           /\ live' = live \cup {<<"alts", Descriptors!Here>>}
           /\ ifs' = [ifs EXCEPT ![Descriptors!Here] =
                        [alts |-> Append(@.alts, [at |-> pos, num |-> Descriptors!D.n, eps |-> FALSE, got |-> <<>>]),
                         number |-> IF @.alts = <<>> THEN Descriptors!D.id ELSE @.number]]
           /\ pos' = pos + 1 /\ at' = "interface extra" /\ skip' = FALSE
           /\ UNCHANGED <<Descriptors!fixed, entry, Descriptors!hist>>
  <2> DEFINE v == [alts |-> Append(ifs[Len(ifs)].alts, [at |-> pos, num |-> Descriptors!D.n, eps |-> FALSE, got |-> <<>>]),
                   number |-> IF ifs[Len(ifs)].alts = <<>> THEN Descriptors!D.id ELSE ifs[Len(ifs)].number]
  <2>1. /\ input' = input /\ cut' = cut /\ claim' = claim /\ pos' = pos + 1 /\ entry' = entry
        /\ skip' = FALSE /\ short' = short /\ dangling' = dangling /\ refused' = refused /\ at' = "interface extra"
        /\ ifs' = [ifs EXCEPT ![Len(ifs)] = v] /\ Descriptors!D.n <= MaxEndpoints
    BY <1>6 DEF Descriptors!fixed, Descriptors!hist, Descriptors!Here
  <2>2. at = "interface" /\ pos <= Len(input)
    BY <1>6, DescParts DEF Descriptors!ParseInterface
  <2>3. v \in Ifs /\ v.alts # <<>>
    BY <2>1, <2>2, SettingBegins
  <2> HIDE DEF v
  <2>4. skip' \in Flags /\ short' \in Flags /\ dangling' \in Flags /\ refused' \in Flags
    BY <2>1, DescParts DEF Flags
  <2>5. ifs # <<>>
    BY <2>2, CurrentThere
  <2> QED
    BY <2>1, <2>2, <2>3, <2>4, <2>5, DescInside
<1> QED
  BY <1>1, <1>2, <1>3, <1>4, <1>5, <1>6 DEF Descriptors!ParseInterface

\* The last setting, and what replaces it.
LEMMA SettingChanges ==
    ASSUME DescInv, at \in {"interface extra", "endpoint", "endpoint extra", "alternate"}, NEW s \in Settings,
           input' = input, cut' = cut, claim' = claim,
           NEW v, v = [ifs[Len(ifs)] EXCEPT !.alts = [ifs[Len(ifs)].alts EXCEPT ![Len(ifs[Len(ifs)].alts)] = s]],
           ifs' = [ifs EXCEPT ![Len(ifs)] = v],
           pos' = pos \/ (pos' = pos + 1 /\ pos <= Len(input)), entry' = entry,
           at' \in {"interface extra", "endpoint", "endpoint extra", "alternate"},
           skip' \in Flags, short' \in Flags, dangling' \in Flags, refused' \in Flags
    PROVE  DescInv'
<1>1. v \in Ifs /\ v.alts # <<>> /\ ifs # <<>>
  BY SettingThere, Zenon
<1> QED
  BY <1>1, DescInside

\* What follows an interface descriptor, up to the endpoints.
LEMMA InterfaceExtraStep == ASSUME DescInv, Descriptors!InterfaceExtra PROVE DescInv'
<1>1. CASE Descriptors!Skips("interface extra") \/ Descriptors!TinyExtra("interface extra")
  BY <1>1, ExtraSteps
<1>2. CASE Descriptors!NoMemory
  BY <1>2, DescErrors
<1>3. CASE /\ Descriptors!CutExtra("interface extra") /\ Descriptors!Return
           /\ short' = TRUE /\ UNCHANGED <<live, dangling, refused>>
  <2>1. /\ input' = input /\ cut' = cut /\ claim' = claim /\ ifs' = ifs /\ pos' = pos /\ entry' = entry
        /\ skip' = skip /\ short' = TRUE /\ dangling' = dangling /\ refused' = refused /\ at' = "return"
        /\ at = "interface extra"
    BY <1>3 DEF Descriptors!CutExtra, Descriptors!Return, Descriptors!fixed
  <2>2. skip' \in Flags /\ short' \in Flags /\ dangling' \in Flags /\ refused' \in Flags
    BY <2>1, DescParts DEF Flags
  <2> QED
    BY <2>1, <2>2, DescStays
<1>4. CASE /\ Descriptors!ExtraEnds("interface extra")
           /\ ifs' = [ifs EXCEPT ![Descriptors!Here].alts[Descriptors!Setting].eps = (Descriptors!Alt.num > 0)]
           /\ at' = "endpoint" /\ skip' = FALSE
           /\ UNCHANGED <<Descriptors!fixed, pos, entry, Descriptors!hist>>
  <2> DEFINE a == ifs[Len(ifs)].alts[Len(ifs[Len(ifs)].alts)]
  <2> DEFINE b == (a.num > 0)
  <2> DEFINE s == [a EXCEPT !.eps = b]
  <2>1. /\ input' = input /\ cut' = cut /\ claim' = claim /\ pos' = pos /\ entry' = entry
        /\ skip' = FALSE /\ short' = short /\ dangling' = dangling /\ refused' = refused /\ at' = "endpoint"
        /\ at = "interface extra"
    BY <1>4 DEF Descriptors!ExtraEnds, Descriptors!fixed, Descriptors!hist
  <2> DEFINE v == [ifs[Len(ifs)] EXCEPT !.alts = [ifs[Len(ifs)].alts EXCEPT ![Len(ifs[Len(ifs)].alts)] = s]]
  <2>2. ifs' = [ifs EXCEPT ![Len(ifs)] = v]
    BY <1>4 DEF Descriptors!Here, Descriptors!Setting, Descriptors!Alt, Descriptors!Current
  <2>3. a \in Settings /\ b \in Flags
    <3>1. a \in Settings
      BY <2>1, SettingThere
    <3>2. b \in Flags
      BY DEF Flags
    <3> QED
      BY <3>1, <3>2
  <2> HIDE DEF a, b
  <2>4. s \in Settings
    BY <2>3, SettingsMade
  <2> HIDE DEF s
  <2>5. skip' \in Flags /\ short' \in Flags /\ dangling' \in Flags /\ refused' \in Flags
    BY <2>1, DescParts DEF Flags
  <2> QED
    BY <2>1, <2>2, <2>4, <2>5, SettingChanges
<1> QED
  BY <1>1, <1>2, <1>3, <1>4 DEF Descriptors!InterfaceExtra

\* The endpoints of a setting.
LEMMA EndpointStep == ASSUME DescInv, Descriptors!ParseEndpoint PROVE DescInv'
<1> DEFINE a == ifs[Len(ifs)].alts[Len(ifs[Len(ifs)].alts)]
<1>0. at = "endpoint" /\ a \in Settings /\ a = Descriptors!Alt
  BY SettingThere DEF Descriptors!ParseEndpoint, Descriptors!Alt, Descriptors!Current
<1>1. CASE at' = "alternate" /\ UNCHANGED <<Descriptors!fixed, pos, entry, skip, ifs, live, Descriptors!hist>>
  <2>1. /\ input' = input /\ cut' = cut /\ claim' = claim /\ ifs' = ifs /\ pos' = pos /\ entry' = entry
        /\ skip' = skip /\ short' = short /\ dangling' = dangling /\ refused' = refused /\ at' = "alternate"
    BY <1>1 DEF Descriptors!fixed, Descriptors!hist
  <2> QED
    BY <1>0, <2>1, DescParts, DescStays
<1>2. CASE Descriptors!IoError
  BY <1>2, DescErrors
<1>3. CASE /\ ifs' = Descriptors!FewerEndpoints
           /\ at' = "alternate" /\ UNCHANGED <<Descriptors!fixed, pos, entry, skip, live, Descriptors!hist>>
  <2> DEFINE s == [a EXCEPT !.num = Len(a.got)]
  <2>1. /\ input' = input /\ cut' = cut /\ claim' = claim /\ pos' = pos /\ entry' = entry
        /\ skip' = skip /\ short' = short /\ dangling' = dangling /\ refused' = refused /\ at' = "alternate"
    BY <1>3 DEF Descriptors!fixed, Descriptors!hist
  <2> DEFINE v == [ifs[Len(ifs)] EXCEPT !.alts = [ifs[Len(ifs)].alts EXCEPT ![Len(ifs[Len(ifs)].alts)] = s]]
  <2>2. ifs' = [ifs EXCEPT ![Len(ifs)] = v]
    BY <1>3 DEF Descriptors!FewerEndpoints, Descriptors!Here, Descriptors!Setting, Descriptors!Alt, Descriptors!Current
  <2> HIDE DEF a
  <2>3. s \in Settings
    BY <1>0, SettingsMade
  <2> HIDE DEF s
  <2>4. skip' \in Flags /\ short' \in Flags /\ dangling' \in Flags /\ refused' \in Flags
    BY <2>1, DescParts
  <2> QED
    BY <1>0, <2>1, <2>2, <2>3, <2>4, SettingChanges
<1>4. CASE /\ Len(Descriptors!Alt.got) < Descriptors!Alt.num /\ Descriptors!Size >= Descriptors!HEADER
           /\ ifs' = [ifs EXCEPT ![Descriptors!Here].alts[Descriptors!Setting].got = Append(@, pos)]
           /\ pos' = pos + 1 /\ at' = "endpoint extra" /\ skip' = FALSE
           /\ UNCHANGED <<Descriptors!fixed, entry, live, Descriptors!hist>>
  <2> DEFINE s == [a EXCEPT !.got = Append(a.got, pos)]
  <2>1. /\ input' = input /\ cut' = cut /\ claim' = claim /\ pos' = pos + 1 /\ entry' = entry
        /\ skip' = FALSE /\ short' = short /\ dangling' = dangling /\ refused' = refused /\ at' = "endpoint extra"
        /\ Len(a.got) < a.num
    BY <1>0, <1>4 DEF Descriptors!fixed, Descriptors!hist
  <2> DEFINE v == [ifs[Len(ifs)] EXCEPT !.alts = [ifs[Len(ifs)].alts EXCEPT ![Len(ifs[Len(ifs)].alts)] = s]]
  <2>2. ifs' = [ifs EXCEPT ![Len(ifs)] = v]
    BY <1>4 DEF Descriptors!Here, Descriptors!Setting, Descriptors!Alt, Descriptors!Current
  <2>3. pos <= Len(input) /\ pos \in Nat
    BY <1>4, DescParts DEF Descriptors!HEADER
  <2> HIDE DEF a
  <2>4. s \in Settings
    BY <1>0, <2>1, <2>3, SettingsMade
  <2> HIDE DEF s
  <2>5. skip' \in Flags /\ short' \in Flags /\ dangling' \in Flags /\ refused' \in Flags
    BY <2>1, DescParts DEF Flags
  <2> QED
    BY <1>0, <2>1, <2>2, <2>3, <2>4, <2>5, SettingChanges
<1> QED
  BY <1>1, <1>2, <1>3, <1>4 DEF Descriptors!ParseEndpoint

\* What follows an endpoint, and whether another setting does.
LEMMA EndpointExtraStep == ASSUME DescInv, Descriptors!EndpointExtra \/ Descriptors!Alternate PROVE DescInv'
<1>1. CASE Descriptors!Skips("endpoint extra") \/ Descriptors!TinyExtra("endpoint extra")
  BY <1>1, ExtraSteps
<1>2. CASE Descriptors!NoMemory
  BY <1>2, DescErrors
<1>3. ASSUME UNCHANGED <<Descriptors!fixed, pos, entry, ifs, Descriptors!hist>>, skip' = skip \/ skip' = FALSE,
             at \in {"endpoint extra", "alternate"}, at' \in {"endpoint", "interface", "return"},
             at = "alternate" <=> at' \in {"interface", "return"}
      PROVE  DescInv'
  <2>1. /\ input' = input /\ cut' = cut /\ claim' = claim /\ ifs' = ifs /\ pos' = pos /\ entry' = entry
        /\ short' = short /\ dangling' = dangling /\ refused' = refused
    BY <1>3 DEF Descriptors!fixed, Descriptors!hist
  <2>2. skip' \in Flags /\ short' \in Flags /\ dangling' \in Flags /\ refused' \in Flags
    BY <1>3, <2>1, DescParts DEF Flags
  <2>3. CASE at' = "endpoint"
    BY <1>3, <2>1, <2>2, <2>3, DescStays
  <2>4. CASE at' \in {"interface", "return"}
    BY <1>3, <2>1, <2>2, <2>4, DescStays
  <2> QED
    BY <1>3, <2>3, <2>4
<1>4. CASE Descriptors!Alternate
  BY <1>3, <1>4 DEF Descriptors!Alternate, Descriptors!hist
<1>5. CASE Descriptors!CutExtra("endpoint extra") /\ at' = "endpoint"
           /\ UNCHANGED <<Descriptors!fixed, pos, entry, skip, ifs, live, Descriptors!hist>>
  BY <1>3, <1>5 DEF Descriptors!CutExtra
<1>6. CASE Descriptors!ExtraEnds("endpoint extra") /\ at' = "endpoint" /\ skip' = FALSE
           /\ UNCHANGED <<Descriptors!fixed, pos, entry, ifs, Descriptors!hist>>
  BY <1>3, <1>6 DEF Descriptors!ExtraEnds
<1> QED
  BY <1>1, <1>2, <1>4, <1>5, <1>6 DEF Descriptors!EndpointExtra

\* The capabilities of a BOS descriptor.
LEMMA CapabilityStep == ASSUME DescInv, Descriptors!DevCapability PROVE DescInv'
<1>1. CASE at' = "done" /\ UNCHANGED <<Descriptors!fixed, pos, entry, skip, ifs, live, Descriptors!hist>>
  <2>1. /\ input' = input /\ cut' = cut /\ claim' = claim /\ ifs' = ifs /\ pos' = pos /\ entry' = entry
        /\ skip' = skip /\ short' = short /\ dangling' = dangling /\ refused' = refused /\ at' = "done"
    BY <1>1 DEF Descriptors!fixed, Descriptors!hist
  <2> QED
    BY <2>1, DescParts, DescStays
<1>2. CASE Descriptors!NoMemory \/ Descriptors!IoError
  BY <1>2, DescErrors
<1>3. CASE /\ Descriptors!Complete("cap")
           /\ ifs' = Append(ifs, [alts |-> <<>>, number |-> pos])
           /\ pos' = pos + 1
           /\ UNCHANGED <<Descriptors!fixed, entry, at, skip, Descriptors!hist>>
  <2> DEFINE i == [alts |-> <<>>, number |-> pos]
  <2>1. /\ input' = input /\ cut' = cut /\ claim' = claim /\ ifs' = Append(ifs, i) /\ pos' = pos + 1 /\ entry' = entry
        /\ skip' = skip /\ short' = short /\ dangling' = dangling /\ refused' = refused /\ at' = at
    BY <1>3 DEF Descriptors!fixed, Descriptors!hist
  <2>2. pos <= Len(input) /\ pos \in Nat /\ at = "cap"
    BY <1>3, DescParts DEF Descriptors!DevCapability
  <2>3. i \in Ifs
    <3>1. <<>> \in Seq(Settings)
      OBVIOUS
    <3> QED
      BY <2>2, <3>1 DEF Ifs
  <2> HIDE DEF i
  <2>4. ifs' \in Seq(Ifs)
    BY <2>1, <2>3, DescParts, Grows
  <2>5. DescPlaces'
    BY <2>1, <2>2 DEF DescPlaces
  <2> QED
    BY <2>1, <2>2, <2>4, <2>5, DescParts, DescMoves
<1> QED
  BY <1>1, <1>2, <1>3 DEF Descriptors!DevCapability

\* Every step of the parser keeps the invariant.
LEMMA DescStep == ASSUME DescInv, [Descriptors!Next]_descVars PROVE DescInv'
<1>1. CASE UNCHANGED descVars
  <2>1. /\ input' = input /\ cut' = cut /\ claim' = claim /\ ifs' = ifs /\ pos' = pos /\ entry' = entry
        /\ skip' = skip /\ short' = short /\ dangling' = dangling /\ refused' = refused /\ at' = at
    BY <1>1 DEF descVars
  <2> QED
    BY <2>1, DescParts, DescStays
<1>2. CASE Descriptors!Next
  BY <1>2, HeaderSteps, ConfigExtraStep, ReturnsStep, InterfaceStep, InterfaceExtraStep, EndpointStep,
     EndpointExtraStep, CapabilityStep DEF Descriptors!Next
<1> QED
  BY <1>1, <1>2

\* It holds in the beginning.
LEMMA DescBegins == Descriptors!Init => DescInv
<1> SUFFICES ASSUME Descriptors!Init PROVE DescInv
  OBVIOUS
<1>1. input \in DescriptorInputs /\ input \in Seq(Items)
  BY InputsTyped DEF Descriptors!Init
<1>2. Len(input) \in Nat
  BY <1>1, LenProperties
<1>3. 1 \in 1..(Len(input) + 1) /\ 0 \in 0..1
  BY <1>2
<1>4. pos \in 1..(Len(input) + 1) /\ entry \in 0..pos
  BY <1>3, Zenon DEF Descriptors!Init
<1>5. DescTypes
  <2>1. cut \in 0..2 /\ claim \in Counts /\ at = "begin" /\ ifs = <<>>
        /\ skip = FALSE /\ short = FALSE /\ dangling = FALSE /\ refused = FALSE
    BY DEF Descriptors!Init
  <2>2. skip \in Flags /\ short \in Flags /\ dangling \in Flags /\ refused \in Flags
    BY <2>1 DEF Flags
  <2>3. ifs \in Seq(Ifs)
    BY <2>1
  <2> QED
    BY <1>1, <1>4, <2>1, <2>2, <2>3, Zenon DEF DescTypes
<1>6. DescPlaces
  BY DEF DescPlaces, Descriptors!Init
<1> QED
  BY <1>5, <1>6 DEF DescInv

\* What the invariant says of the run's property.
LEMMA DescMeans == DescInv => Descriptors!TypeOK
<1> SUFFICES ASSUME DescInv PROVE Descriptors!TypeOK
  OBVIOUS
<1>1. ASSUME NEW i \in DOMAIN ifs, NEW a \in DOMAIN ifs[i].alts PROVE Len(ifs[i].alts[a].got) <= MaxEndpoints
  <2>1. ifs \in Seq(Ifs)
    BY DescParts
  <2>2. DOMAIN ifs = 1..Len(ifs)
    BY <2>1, LenProperties
  <2>3. ifs[i] \in Ifs
    BY <1>1, <2>1, <2>2, ElementOfSeq, Zenon
  <2>4. ifs[i].alts \in Seq(Settings)
    BY <2>3 DEF Ifs
  <2>5. DOMAIN ifs[i].alts = 1..Len(ifs[i].alts)
    BY <2>4, LenProperties
  <2>6. ifs[i].alts[a] \in Settings
    BY <1>1, <2>4, <2>5, ElementOfSeq, Zenon
  <2> DEFINE s == ifs[i].alts[a]
  <2> HIDE DEF s
  <2>7. s \in Settings
    BY <2>6 DEF s
  <2>8. s.num \in Nat /\ Len(s.got) \in Nat
    BY <2>7, SettingsMade
  <2>9. Len(s.got) <= s.num /\ s.num <= MaxEndpoints
    BY <2>7 DEF Settings
  <2>10. Len(s.got) <= MaxEndpoints
    BY <2>8, <2>9, DescriptorsAssumption
  <2> QED
    BY <2>10 DEF s
<1>2. {skip, short, dangling, refused} \subseteq BOOLEAN
  BY DescParts DEF Flags
<1> QED
  BY <1>1, <1>2 DEF Descriptors!TypeOK, DescInv, DescTypes

-----------------------------------------------------------------------------
(* Synchronous transfers *)

Places == {"idle", "alloc", "buffer", "submit", "wait", "read"}

\* The state of a call, and what it returns.
SyncCalls == [at : Places, kind : {"control", "bulk", None}, status : Sync!Statuses \cup {None}]
Results == {None, "BUSY", "NO_MEM", "submit error", "OK", "TIMEOUT", "PIPE", "NO_DEVICE", "OVERFLOW", "IO"}

\* The types of a synchronous transfer's variables.
SyncTypes ==
  /\ accepts \in [Sync!Transfers -> {0, 1}] /\ answers \in [Sync!Transfers -> {0, 1}]
  /\ call \in [Threads -> SyncCalls]
  /\ memory \in [Threads -> SUBSET {"transfer", "buffer"}]
  /\ completed \in SUBSET Threads /\ handling \in Threads \cup {None}
  /\ result \in [Threads -> Results]
  /\ dead = {} /\ syncs \in 0..MaxSyncs

\* Each call, at each of its places: what it has allocated, whether its transfer is
\* in flight, and what it finds when its flag is set.
InFlight(t) == accepts[t] # answers[t]
CallFact(t) ==
  /\ InFlight(t) => call[t].at = "wait"
  /\ call[t].at \in {"idle", "alloc"} => memory[t] = {}
  /\ call[t].at \in {"buffer", "submit", "wait"} => "transfer" \in memory[t]
  /\ call[t].at \in {"alloc", "buffer", "submit"} => t \notin completed
  /\ call[t].at = "wait" => (InFlight(t) <=> t \notin completed)
  /\ call[t].at = "read" \/ (call[t].at = "wait" /\ t \in completed) => call[t].status \in Sync!Statuses
CallFacts == \A t \in Threads : CallFact(t)

SyncInv == SyncTypes /\ CallFacts

\* A flag that flips.
LEMMA Flipped ==
    ASSUME NEW S, NEW f \in [S -> {0, 1}], NEW x \in S, NEW g, g = [f EXCEPT ![x] = 1 - @]
    PROVE  /\ g \in [S -> {0, 1}] /\ g[x] # f[x]
           /\ \A y \in S : y # x => g[y] = f[y]
<1>1. f[x] \in {0, 1} /\ 1 - f[x] \in {0, 1} /\ 1 - f[x] # f[x]
  BY SMT
<1> DEFINE n == 1 - f[x]
<1>2. g = [f EXCEPT ![x] = n]
  OBVIOUS
<1> HIDE DEF n
<1>3. n \in {0, 1} /\ n # f[x]
  BY <1>1 DEF n
<1> QED
  BY <1>2, <1>3

\* The call of one thread changes, and nothing of the others.
LEMMA CallMoves ==
    ASSUME SyncInv, NEW t \in Threads, NEW v \in SyncCalls, call' = [call EXCEPT ![t] = v],
           accepts' \in [Sync!Transfers -> {0, 1}], answers' \in [Sync!Transfers -> {0, 1}],
           memory' \in [Threads -> SUBSET {"transfer", "buffer"}],
           completed' \in SUBSET Threads, handling' \in Threads \cup {None},
           result' \in [Threads -> Results], dead' = dead, syncs' \in 0..MaxSyncs,
           \A u \in Threads : u # t =>
             /\ accepts'[u] = accepts[u] /\ answers'[u] = answers[u]
             /\ memory'[u] = memory[u] /\ (u \in completed' <=> u \in completed),
           accepts'[t] # answers'[t] => v.at = "wait",
           v.at \in {"idle", "alloc"} => memory'[t] = {},
           v.at \in {"buffer", "submit", "wait"} => "transfer" \in memory'[t],
           v.at \in {"alloc", "buffer", "submit"} => t \notin completed',
           v.at = "wait" => (accepts'[t] # answers'[t] <=> t \notin completed'),
           v.at = "read" \/ (v.at = "wait" /\ t \in completed') => v.status \in Sync!Statuses
    PROVE  SyncInv'
<1>1. call \in [Threads -> SyncCalls] /\ \A u \in Threads : CallFact(u)
  BY DEF SyncInv, SyncTypes, CallFacts
<1>2. call'[t] = v /\ \A u \in Threads : u # t => call'[u] = call[u]
  BY <1>1
<1>3. SyncTypes'
  BY <1>1 DEF SyncInv, SyncTypes
<1>4. \A u \in Threads : CallFact(u)'
  BY <1>1, <1>2 DEF CallFact, InFlight
<1> QED
  BY <1>3, <1>4 DEF SyncInv, CallFacts

\* What the invariant says, in parts, of one thread.
LEMMA SyncParts ==
    ASSUME SyncInv, NEW t \in Threads
    PROVE  /\ accepts \in [Sync!Transfers -> {0, 1}] /\ answers \in [Sync!Transfers -> {0, 1}]
           /\ call \in [Threads -> SyncCalls] /\ call[t] \in SyncCalls
           /\ memory \in [Threads -> SUBSET {"transfer", "buffer"}]
           /\ completed \in SUBSET Threads /\ handling \in Threads \cup {None}
           /\ result \in [Threads -> Results]
           /\ dead = {} /\ syncs \in 0..MaxSyncs /\ t \in Sync!Transfers
           /\ CallFact(t)
  BY DEF SyncInv, SyncTypes, CallFacts, Sync!Transfers

\* A step of one call, which says where the call is then.
LEMMA SyncCallStep ==
    ASSUME SyncInv, NEW t \in Threads,
           \/ \E kind \in {"control", "bulk"} : Sync!Sync(t, kind)
           \/ Sync!SyncBusy(t) \/ Sync!Alloc(t) \/ Sync!AllocBuffer(t) \/ Sync!SubmitFails(t)
           \/ Sync!Completed(t) \/ Sync!Finish(t)
    PROVE  SyncInv'
<1> USE DEF Sync!async, Sync!FreeTransfer
<1> DEFINE c == call[t]
<1>0. /\ accepts \in [Sync!Transfers -> {0, 1}] /\ answers \in [Sync!Transfers -> {0, 1}]
      /\ call \in [Threads -> SyncCalls] /\ c \in SyncCalls
      /\ memory \in [Threads -> SUBSET {"transfer", "buffer"}]
      /\ completed \in SUBSET Threads /\ handling \in Threads \cup {None}
      /\ result \in [Threads -> Results]
      /\ dead = {} /\ syncs \in 0..MaxSyncs /\ t \in Sync!Transfers
  BY SyncParts
<1>a. /\ accepts[t] # answers[t] => c.at = "wait"
      /\ c.at \in {"idle", "alloc"} => memory[t] = {}
      /\ c.at \in {"buffer", "submit", "wait"} => "transfer" \in memory[t]
      /\ c.at \in {"alloc", "buffer", "submit"} => t \notin completed
      /\ c.at = "wait" => (accepts[t] # answers[t] <=> t \notin completed)
      /\ c.at = "read" \/ (c.at = "wait" /\ t \in completed) => c.status \in Sync!Statuses
  BY SyncParts DEF CallFact, InFlight
<1> HIDE DEF c
<1>i. Sync!NoCall \in SyncCalls /\ Sync!NoCall.at = "idle"
  BY DEF Sync!NoCall, SyncCalls, Places
<1> DEFINE Idle == Sync!NoCall
<1> HIDE DEF Idle
<1>m. [memory EXCEPT ![t] = {}] \in [Threads -> SUBSET {"transfer", "buffer"}]
      /\ [memory EXCEPT ![t] = {}][t] = {} /\ \A u \in Threads : u # t => [memory EXCEPT ![t] = {}][u] = memory[u]
  BY <1>0
<1>n. ASSUME NEW p \in Places, NEW v, v = [c EXCEPT !.at = p]
      PROVE  v \in SyncCalls /\ v.at = p /\ v.status = c.status
  BY <1>0, <1>n DEF SyncCalls
<1>1. ASSUME NEW kind \in {"control", "bulk"}, Sync!Sync(t, kind) PROVE SyncInv'
  <2> DEFINE v == [at |-> "alloc", kind |-> kind, status |-> None]
  <2>0. v \in SyncCalls /\ v.at = "alloc"
    BY DEF SyncCalls, Places
  <2>1. /\ c.at = "idle" /\ call' = [call EXCEPT ![t] = v] /\ completed' = completed \ {t}
        /\ accepts' = accepts /\ answers' = answers /\ memory' = memory /\ handling' = handling
        /\ result' = result /\ dead' = dead
    BY <1>1, <1>i DEF Sync!Sync, c
  <2>2. syncs' \in 0..MaxSyncs
    BY <1>0, <1>1, SyncAssumption DEF Sync!Sync
  <2> HIDE DEF v
  <2> QED
    BY <1>0, <1>a, <2>0, <2>1, <2>2, CallMoves
<1>2. CASE Sync!SyncBusy(t)
  <2>1. /\ result' = [result EXCEPT ![t] = "BUSY"] /\ handling' = None
        /\ accepts' = accepts /\ answers' = answers /\ call' = call /\ memory' = memory
        /\ completed' = completed /\ dead' = dead /\ syncs' = syncs
    BY <1>2 DEF Sync!SyncBusy
  <2>2. result' \in [Threads -> Results]
    BY <1>0, <2>1 DEF Results
  <2> QED
    BY <2>1, <2>2 DEF SyncInv, SyncTypes, CallFacts, CallFact, InFlight
<1>r. ASSUME NEW r \in Results, Sync!Return(t, r), memory' = [memory EXCEPT ![t] = {}], c.at # "wait",
             accepts' = accepts, answers' = answers, completed' = completed, handling' = handling,
             dead' = dead, syncs' = syncs
      PROVE  SyncInv'
  <2>1. call' = [call EXCEPT ![t] = Idle] /\ Idle \in SyncCalls /\ Idle.at = "idle"
    BY <1>r, <1>i DEF Sync!Return, Idle
  <2>2. result' \in [Threads -> Results]
    BY <1>0, <1>r DEF Sync!Return
  <2> QED
    BY <1>0, <1>a, <1>m, <1>r, <2>1, <2>2, CallMoves
<1>3. CASE Sync!Alloc(t)
  <2>0. /\ accepts' = accepts /\ answers' = answers /\ completed' = completed /\ handling' = handling
        /\ dead' = dead /\ syncs' = syncs /\ c.at = "alloc"
    BY <1>3 DEF Sync!Alloc, c
  <2>1. CASE Sync!Return(t, "NO_MEM") /\ memory' = memory
    <3>1. memory' = [memory EXCEPT ![t] = {}]
      BY <1>0, <1>a, <2>0, <2>1
    <3> QED
      BY <1>r, <2>0, <2>1, <3>1 DEF Results
  <2>2. CASE /\ memory' = [memory EXCEPT ![t] = {"transfer"}]
             /\ call' = [call EXCEPT ![t].at = IF call[t].kind = "control" THEN "buffer" ELSE "submit"]
             /\ result' = result
    <3> DEFINE p == IF call[t].kind = "control" THEN "buffer" ELSE "submit"
    <3> DEFINE v == [c EXCEPT !.at = p]
    <3>1. p \in {"buffer", "submit"} /\ p \in Places
      BY DEF Places
    <3>2. call' = [call EXCEPT ![t] = v]
      BY <2>2 DEF c
    <3> HIDE DEF p
    <3>3. v \in SyncCalls /\ v.at = p
      BY <1>n, <3>1
    <3> HIDE DEF v
    <3>4. memory' \in [Threads -> SUBSET {"transfer", "buffer"}] /\ memory'[t] = {"transfer"}
          /\ \A u \in Threads : u # t => memory'[u] = memory[u]
      BY <1>0, <2>2
    <3>5. result' = result
      BY <2>2
    <3> QED
      BY <1>0, <1>a, <2>0, <3>1, <3>2, <3>3, <3>4, <3>5, CallMoves
  <2> QED
    BY <1>3, <2>1, <2>2 DEF Sync!Alloc
<1>4. CASE Sync!AllocBuffer(t)
  <2>0. /\ accepts' = accepts /\ answers' = answers /\ completed' = completed /\ handling' = handling
        /\ dead' = dead /\ syncs' = syncs /\ c.at = "buffer"
    BY <1>4 DEF Sync!AllocBuffer, c
  <2>1. CASE Sync!Return(t, "NO_MEM") /\ memory' = [memory EXCEPT ![t] = {}]
    BY <1>r, <2>0, <2>1 DEF Results
  <2>2. CASE /\ memory' = [memory EXCEPT ![t] = @ \cup {"buffer"}]
             /\ call' = [call EXCEPT ![t].at = "submit"] /\ result' = result
    <3> DEFINE v == [c EXCEPT !.at = "submit"]
    <3>2. call' = [call EXCEPT ![t] = v]
      BY <2>2 DEF c
    <3>3. v \in SyncCalls /\ v.at = "submit"
      BY <1>n DEF Places
    <3> HIDE DEF v
    <3>4. memory' \in [Threads -> SUBSET {"transfer", "buffer"}] /\ memory'[t] = memory[t] \cup {"buffer"}
          /\ \A u \in Threads : u # t => memory'[u] = memory[u]
      BY <1>0, <2>2
    <3>5. result' = result
      BY <2>2
    <3> QED
      BY <1>0, <1>a, <2>0, <3>2, <3>3, <3>4, <3>5, CallMoves
  <2> QED
    BY <1>4, <2>1, <2>2 DEF Sync!AllocBuffer
<1>5. CASE Sync!SubmitFails(t)
  <2>0. /\ accepts' = accepts /\ answers' = answers /\ completed' = completed /\ handling' = handling
        /\ dead' = dead /\ syncs' = syncs /\ c.at = "submit"
        /\ Sync!Return(t, "submit error") /\ memory' = [memory EXCEPT ![t] = {}]
    BY <1>5 DEF Sync!SubmitFails, c
  <2> QED
    BY <1>r, <2>0 DEF Results
<1>6. CASE Sync!Completed(t)
  <2> DEFINE v == [c EXCEPT !.at = "read"]
  <2>0. /\ accepts' = accepts /\ answers' = answers /\ completed' = completed /\ handling' = handling
        /\ memory' = memory /\ result' = result
        /\ dead' = dead /\ syncs' = syncs /\ c.at = "wait" /\ t \in completed
        /\ call' = [call EXCEPT ![t] = v]
    BY <1>6 DEF Sync!Completed, c
  <2>1. v \in SyncCalls /\ v.at = "read" /\ v.status = c.status
    BY <1>n DEF Places
  <2> HIDE DEF v
  <2> QED
    BY <1>0, <1>a, <2>0, <2>1, CallMoves
<1>7. CASE Sync!Finish(t)
  <2> DEFINE r == Sync!ReturnCode(c.status)
  <2>0. /\ accepts' = accepts /\ answers' = answers /\ completed' = completed /\ handling' = handling
        /\ dead' = dead /\ syncs' = syncs /\ c.at = "read"
        /\ Sync!Return(t, r) /\ memory' = [memory EXCEPT ![t] = {}]
    BY <1>7 DEF Sync!Finish, c
  <2>1. c.status \in Sync!Statuses
    BY <1>a, <2>0
  <2>2. r \in Results
    BY <2>1 DEF Sync!ReturnCode, Sync!Statuses, Results
  <2> HIDE DEF r
  <2> QED
    BY <1>r, <2>0, <2>2
<1> QED
  BY <1>1, <1>2, <1>3, <1>4, <1>5, <1>6, <1>7

\* The application's transfer is the only one that changes, and it is no call's.
LEMMA AppMoves ==
    ASSUME SyncInv, call' = call, memory' = memory, completed' = completed, result' = result, dead' = dead,
           syncs' = syncs, handling' \in Threads \cup {None},
           \/ accepts' = accepts /\ answers' = [answers EXCEPT ![App] = 1 - @]
           \/ accepts' = [accepts EXCEPT ![App] = 1 - @] /\ answers' = answers
    PROVE  SyncInv'
<1>0. SyncTypes /\ CallFacts /\ App \in Sync!Transfers
  BY DEF SyncInv, Sync!Transfers
<1>1. /\ accepts' \in [Sync!Transfers -> {0, 1}] /\ answers' \in [Sync!Transfers -> {0, 1}]
      /\ \A y \in Sync!Transfers : y # App => accepts'[y] = accepts[y] /\ answers'[y] = answers[y]
  BY <1>0, Flipped DEF SyncTypes
<1>2. \A t \in Threads : accepts'[t] = accepts[t] /\ answers'[t] = answers[t]
  BY <1>1, SyncAssumption DEF Sync!Transfers
<1> QED
  BY <1>0, <1>1, <1>2 DEF SyncInv, SyncTypes, CallFacts, CallFact, InFlight

\* A step of the library's: a submission, a cancellation, a callback.
LEMMA SyncAsyncStep ==
    ASSUME SyncInv,
           \/ \E t \in Threads : Sync!Submit(t) \/ Sync!HandleApp(t) \/ Sync!HandleFails(t)
           \/ \E t \in Threads, x \in Threads, status \in Sync!Statuses : Sync!HandleEvents(t, x, status)
           \/ Sync!SubmitApp
    PROVE  SyncInv'
<1>1. ASSUME NEW t \in Threads, Sync!Submit(t) PROVE SyncInv'
  <2> DEFINE v == [call[t] EXCEPT !.at = "wait"]
  <2>0. /\ call[t].at = "submit" /\ accepts[t] = answers[t]
        /\ accepts' = [accepts EXCEPT ![t] = 1 - @] /\ answers' = answers
        /\ call' = [call EXCEPT ![t] = v] /\ memory' = memory /\ completed' = completed
        /\ handling' = handling /\ result' = result /\ dead' = dead /\ syncs' = syncs
    BY <1>1, SyncParts DEF Sync!Submit, Sync!A!Submit, Sync!A!active
  <2>1. v \in SyncCalls /\ v.at = "wait"
    BY SyncParts DEF SyncCalls, Places
  <2> HIDE DEF v
  <2>2. /\ accepts' \in [Sync!Transfers -> {0, 1}] /\ accepts'[t] # accepts[t]
        /\ \A y \in Sync!Transfers : y # t => accepts'[y] = accepts[y]
    BY <2>0, SyncParts, Flipped
  <2>3. \A u \in Threads : u # t => accepts'[u] = accepts[u]
    BY <2>2 DEF Sync!Transfers
  <2>4. "transfer" \in memory[t] /\ t \notin completed
    BY <2>0, SyncParts DEF CallFact
  <2> QED
    BY <2>0, <2>1, <2>2, <2>3, <2>4, SyncParts, CallMoves
<1>2. ASSUME NEW t \in Threads, NEW x \in Threads, NEW status \in Sync!Statuses, Sync!HandleEvents(t, x, status)
      PROVE  SyncInv'
  <2> DEFINE v == [call[x] EXCEPT !.status = status]
  <2>1. /\ accepts[x] # answers[x] /\ answers' = [answers EXCEPT ![x] = 1 - @] /\ accepts' = accepts
        /\ completed' = completed \cup {x} /\ call' = [call EXCEPT ![x] = v]
        /\ memory' = memory /\ handling' = handling /\ result' = result /\ syncs' = syncs
    BY <1>2 DEF Sync!HandleEvents, Sync!A!Callback, Sync!A!active
  <2>2. call[x].at = "wait" /\ x \notin completed /\ "transfer" \in memory[x]
    BY <2>1, SyncParts DEF CallFact, InFlight
  <2>3. dead' = dead
    BY <1>2, <2>2 DEF Sync!HandleEvents
  <2>4. v \in SyncCalls /\ v.at = "wait" /\ v.status = status
    BY <2>2, SyncParts DEF SyncCalls
  <2> HIDE DEF v
  <2>5. /\ answers' \in [Sync!Transfers -> {0, 1}] /\ answers'[x] # answers[x]
        /\ \A y \in Sync!Transfers : y # x => answers'[y] = answers[y]
    BY <2>1, SyncParts, Flipped
  <2>6. accepts'[x] = answers'[x]
    <3>1. accepts[x] \in {0, 1} /\ answers[x] \in {0, 1} /\ answers'[x] \in {0, 1}
      BY <2>5, SyncParts
    <3> QED
      BY <2>1, <2>5, <3>1
  <2>7. \A u \in Threads : u # x => answers'[u] = answers[u]
    BY <2>5 DEF Sync!Transfers
  <2> QED
    BY <2>1, <2>2, <2>3, <2>4, <2>5, <2>6, <2>7, SyncParts, CallMoves
<1>3. ASSUME NEW t \in Threads, Sync!HandleApp(t) PROVE SyncInv'
  BY <1>3, AppMoves DEF Sync!HandleApp, Sync!A!Callback
<1>4. ASSUME NEW t \in Threads, Sync!HandleFails(t) PROVE SyncInv'
  BY <1>4 DEF Sync!HandleFails, Sync!A!Cancel, SyncInv, SyncTypes, CallFacts, CallFact, InFlight
<1>5. CASE Sync!SubmitApp
  <2>1. handling \in Threads \cup {None}
    BY DEF SyncInv, SyncTypes
  <2> QED
    BY <1>5, <2>1, AppMoves DEF Sync!SubmitApp, Sync!A!Submit
<1> QED
  BY <1>1, <1>2, <1>3, <1>4, <1>5

\* Every step of synchronous transfers keeps the invariant.
LEMMA SyncStep == ASSUME SyncInv, [Sync!Next]_syncVars PROVE SyncInv'
<1>1. CASE UNCHANGED syncVars
  BY <1>1 DEF syncVars, SyncInv, SyncTypes, CallFacts, CallFact, InFlight
<1>2. CASE Sync!Next
  BY <1>2, SyncCallStep, SyncAsyncStep DEF Sync!Next
<1> QED
  BY <1>1, <1>2

\* It holds in the beginning.
LEMMA SyncInit == Sync!Init => SyncInv
<1> SUFFICES ASSUME Sync!Init PROVE SyncInv
  OBVIOUS
<1>1. SyncTypes
  BY SyncAssumption DEF SyncTypes, SyncCalls, Results, Sync!Init, Sync!A!Init, Sync!NoCall, Places
<1>2. CallFacts
  BY DEF CallFacts, CallFact, InFlight, Sync!Init, Sync!A!Init, Sync!NoCall, Sync!Transfers
<1> QED
  BY <1>1, <1>2 DEF SyncInv

\* What the invariant says of the run's properties.
LEMMA SyncMeans == SyncInv => Sync!TypeOK /\ Sync!TransfersOwned /\ Sync!WaitsEnd
<1> SUFFICES ASSUME SyncInv PROVE Sync!TypeOK /\ Sync!TransfersOwned /\ Sync!WaitsEnd
  OBVIOUS
<1> USE DEF SyncInv, CallFacts, CallFact, InFlight, Sync!Transfers
<1>1. Sync!TypeOK
  BY DEF SyncTypes, SyncCalls, Sync!TypeOK, Places
<1>2. Sync!TransfersOwned
  BY SyncAssumption DEF SyncTypes, Sync!TransfersOwned, Sync!A!active
<1>3. Sync!WaitsEnd
  <2>1. \A t \in Threads : result[t] # "OTHER"
    BY SyncAssumption DEF SyncTypes, Results
  <2> QED
    BY <2>1 DEF SyncTypes, Sync!WaitsEnd, Sync!A!active
<1> QED
  BY <1>1, <1>2, <1>3

-----------------------------------------------------------------------------
(* The udev monitor *)

\* The parts that exist after n of them were made.
Made(n) == {Udev!Parts[k] : k \in 1..n}

\* The types of the monitor's variables.
UdevTypes ==
  /\ ports \in SUBSET Addresses /\ changes \in 0..MaxChanges
  /\ sock \in Seq([a : Addresses, action : {"add", "remove"}])
  /\ parts \in SUBSET Made(7) /\ byte \in BOOLEAN
  /\ thread \in {"none", "poll", "event", "gone"} /\ hlock \in {"user", None}
  /\ op \in {"down", "start", "scan", "up", "stop", "join", "polling"}
  /\ todo \in SUBSET Addresses /\ known \in SUBSET Addresses /\ unread \in SUBSET Addresses
  /\ starts \in 0..MaxStarts /\ polls \in 0..MaxPolls

\* Which parts exist during which call; without a monitor there is no thread and
\* no device, and without a receiving socket no event.
MonitorFacts ==
  /\ freed = FALSE
  /\ op = "down" => parts = {}
  /\ op = "start" => \E n \in 0..6 : parts = Made(n)
  /\ op \notin {"down", "start"} => parts = Made(7)
  /\ op \in {"down", "start"} => thread \in {"none", "gone"} /\ known = {} /\ unread = {} /\ hlock = None
  /\ hlock = "user" => op \in {"scan", "polling"}
  /\ op = "polling" => hlock = "user"
  /\ "receiving" \notin parts => sock = <<>>

\* The last event of an address says how the address is now.
SockFacts ==
  \A k \in 1..Len(sock) :
    (\A j \in (k + 1)..Len(sock) : sock[j].a # sock[k].a) =>
      sock[k].action = IF sock[k].a \in ports THEN "add" ELSE "remove"

\* An address of which no event waits: before the scan nothing is known that is
\* not there, during the scan what is left to enumerate is there, and what is not
\* left is known as it is.
Awaited(a) == \E k \in 1..Len(sock) : sock[k].a = a
Agrees(a) == a \in unread \/ (a \in known <=> a \in ports)
ScanFacts ==
  \A a \in Addresses : ~Awaited(a) =>
    /\ op = "scan" /\ hlock = None /\ a \in known => a \in ports \/ a \in unread
    /\ op = "scan" /\ hlock = "user" /\ a \in todo => a \in ports
    /\ op = "scan" /\ hlock = "user" /\ a \notin todo => Agrees(a)
    /\ op \in {"up", "polling"} => Agrees(a)

UdevInv == UdevTypes /\ MonitorFacts /\ SockFacts /\ ScanFacts

\* The parts made are as many as steps of the start.
LEMMA PartsCounted ==
    /\ Len(Udev!Parts) = 7 /\ Made(7) = {Udev!Parts[k] : k \in DOMAIN Udev!Parts}
    /\ \A n \in 0..7 : IsFiniteSet(Made(n)) /\ Cardinality(Made(n)) = n
    /\ \A n \in 0..6 : Made(n + 1) = Made(n) \cup {Udev!Parts[n + 1]}
    /\ \A n \in 0..6 : Made(n) # Made(7)
    /\ "receiving" \in Made(7) /\ Made(0) = {} /\ Made(7) # {}
<1>1. Len(Udev!Parts) = 7 /\ Made(7) = {Udev!Parts[k] : k \in DOMAIN Udev!Parts}
  <2>1. Len(Udev!Parts) = 7
    BY DEF Udev!Parts
  <2>2. DOMAIN Udev!Parts = 1..7
    BY DEF Udev!Parts
  <2> QED
    BY <2>1, <2>2 DEF Made
<1>2. \A j, k \in 1..7 : Udev!Parts[j] = Udev!Parts[k] => j = k
  BY DEF Udev!Parts
<1>3. \A n \in 0..6 : Made(n + 1) = Made(n) \cup {Udev!Parts[n + 1]} /\ Udev!Parts[n + 1] \notin Made(n)
  <2> SUFFICES ASSUME NEW n \in 0..6
               PROVE  Made(n + 1) = Made(n) \cup {Udev!Parts[n + 1]} /\ Udev!Parts[n + 1] \notin Made(n)
    OBVIOUS
  <2>1. 1..(n + 1) = (1..n) \cup {n + 1}
    OBVIOUS
  <2>2. \A k \in 1..n : Udev!Parts[k] # Udev!Parts[n + 1]
    BY <1>2
  <2> QED
    BY <2>1, <2>2 DEF Made
<1>4. IsFiniteSet(Made(0)) /\ Cardinality(Made(0)) = 0 /\ Made(0) = {}
  <2>1. Made(0) = {}
    BY DEF Made
  <2> QED
    BY <2>1, FS_EmptySet
<1>5. ASSUME NEW n \in 0..6, IsFiniteSet(Made(n)), Cardinality(Made(n)) = n
      PROVE  IsFiniteSet(Made(n + 1)) /\ Cardinality(Made(n + 1)) = n + 1
  <2> DEFINE p == Udev!Parts[n + 1]
  <2>1. Made(n + 1) = Made(n) \cup {p} /\ p \notin Made(n)
    BY <1>3
  <2> HIDE DEF p
  <2>2. IsFiniteSet(Made(n) \cup {p}) /\ Cardinality(Made(n) \cup {p}) = Cardinality(Made(n)) + 1
    BY <1>5, <2>1, FS_AddElement
  <2> QED
    BY <1>5, <2>1, <2>2
<1>6. \A n \in 0..7 : IsFiniteSet(Made(n)) /\ Cardinality(Made(n)) = n
  <2>1. IsFiniteSet(Made(1)) /\ Cardinality(Made(1)) = 1
    BY <1>4, <1>5
  <2>2. IsFiniteSet(Made(2)) /\ Cardinality(Made(2)) = 2
    BY <2>1, <1>5
  <2>3. IsFiniteSet(Made(3)) /\ Cardinality(Made(3)) = 3
    BY <2>2, <1>5
  <2>4. IsFiniteSet(Made(4)) /\ Cardinality(Made(4)) = 4
    BY <2>3, <1>5
  <2>5. IsFiniteSet(Made(5)) /\ Cardinality(Made(5)) = 5
    BY <2>4, <1>5
  <2>6. IsFiniteSet(Made(6)) /\ Cardinality(Made(6)) = 6
    BY <2>5, <1>5
  <2>7. IsFiniteSet(Made(7)) /\ Cardinality(Made(7)) = 7
    BY <2>6, <1>5
  <2> QED
    BY <1>4, <2>1, <2>2, <2>3, <2>4, <2>5, <2>6, <2>7
<1>7. \A n \in 0..6 : Made(n) # Made(7)
  <2>1. \A n \in 0..6 : Cardinality(Made(n)) # Cardinality(Made(7))
    BY <1>6
  <2> QED
    BY <2>1
<1>8. "receiving" \in Made(7) /\ Made(7) # {}
  <2>1. Udev!Parts[4] = "receiving"
    BY DEF Udev!Parts
  <2> QED
    BY <2>1 DEF Made
<1> QED
  BY <1>1, <1>3, <1>4, <1>6, <1>7, <1>8

\* Handling the first event of the socket: the address of it agrees afterwards,
\* or has another event waiting.
LEMMA EventHandled ==
    ASSUME UdevTypes, SockFacts, sock # <<>>, ports' = ports, sock' = Tail(sock),
           Udev!HotplugEvent(Head(sock))
    PROVE  /\ known' \in SUBSET Addresses /\ unread' \in SUBSET Addresses
           /\ sock' \in Seq([a : Addresses, action : {"add", "remove"}])
           /\ SockFacts'
           /\ \A b \in Addresses :
                (~\E k \in 1..Len(sock') : sock'[k].a = b) =>
                  \/ b \in unread' \/ (b \in known' <=> b \in ports)
                  \/ ~Awaited(b) /\ (b \in known' <=> b \in known) /\ (b \in unread' <=> b \in unread)
<1> DEFINE E == [a : Addresses, action : {"add", "remove"}]
<1>1. /\ sock \in Seq(E) /\ sock' \in Seq(E) /\ Len(sock) \in Nat /\ Len(sock) >= 1
      /\ Len(sock') = Len(sock) - 1 /\ Head(sock) = sock[1] /\ sock[1] \in E
      /\ \A k \in 1..Len(sock') : sock'[k] = sock[k + 1]
  <2>1. sock \in Seq(E)
    BY DEF UdevTypes
  <2>2. Head(sock) = sock[1] /\ Tail(sock) \in Seq(E) /\ Len(Tail(sock)) = Len(sock) - 1
        /\ \A k \in 1..Len(Tail(sock)) : Tail(sock)[k] = sock[k + 1]
    BY <2>1, HeadTailProperties
  <2>3. Len(sock) \in Nat /\ Len(sock) >= 1
    BY <2>1, EmptySeq, LenProperties
  <2>4. sock[1] \in E
    <3> HIDE DEF E
    <3>1. 1 \in 1..Len(sock)
      BY <2>3
    <3> QED
      BY <2>1, <3>1, ElementOfSeq
  <2> HIDE DEF E
  <2> QED
    BY <2>1, <2>2, <2>3, <2>4
<1> DEFINE a == sock[1].a
<1> DEFINE w == sock[1].action
<1>2. a \in Addresses /\ w \in {"add", "remove"}
  BY <1>1
<1> HIDE DEF E
<1>3. known' \in SUBSET Addresses /\ unread' \in SUBSET Addresses
  BY <1>1, <1>2 DEF UdevTypes, Udev!HotplugEvent, Udev!Enumerate
<1>4. SockFacts'
  <2> SUFFICES ASSUME NEW k \in 1..Len(sock'), \A j \in (k + 1)..Len(sock') : sock'[j].a # sock'[k].a
               PROVE  sock'[k].action = IF sock'[k].a \in ports' THEN "add" ELSE "remove"
    BY DEF SockFacts
  <2>1. k + 1 \in 1..Len(sock) /\ sock'[k] = sock[k + 1]
    BY <1>1
  <2>2. \A j \in (k + 2)..Len(sock) : sock[j].a # sock[k + 1].a
    <3> SUFFICES ASSUME NEW j \in (k + 2)..Len(sock) PROVE sock[j].a # sock[k + 1].a
      OBVIOUS
    <3>1. j - 1 \in (k + 1)..Len(sock') /\ j - 1 \in 1..Len(sock')
      BY <1>1
    <3>2. sock'[j - 1] = sock[(j - 1) + 1] /\ (j - 1) + 1 = j
      BY <1>1, <3>1
    <3> QED
      BY <2>1, <3>1, <3>2
  <2> QED
    BY <2>1, <2>2 DEF SockFacts
<1>5. ASSUME NEW b \in Addresses, ~\E k \in 1..Len(sock') : sock'[k].a = b
      PROVE  \/ b \in unread' \/ (b \in known' <=> b \in ports)
             \/ ~Awaited(b) /\ (b \in known' <=> b \in known) /\ (b \in unread' <=> b \in unread)
  <2>1. \A j \in 2..Len(sock) : sock[j].a # b
    <3> SUFFICES ASSUME NEW j \in 2..Len(sock) PROVE sock[j].a # b
      OBVIOUS
    <3>1. j - 1 \in 1..Len(sock') /\ (j - 1) + 1 = j
      BY <1>1
    <3> QED
      BY <1>1, <1>5, <3>1
  <2>2. CASE b = a
    <3>1. w = IF a \in ports THEN "add" ELSE "remove"
      BY <1>1, <2>1, <2>2 DEF SockFacts
    <3> QED
      BY <1>1, <2>2, <3>1 DEF UdevTypes, Udev!HotplugEvent, Udev!Enumerate
  <2>3. CASE b # a
    <3>1. ~Awaited(b)
      BY <1>1, <2>1, <2>3 DEF Awaited
    <3>2. (b \in known' <=> b \in known) /\ (b \in unread' <=> b \in unread)
      BY <1>1, <2>3 DEF UdevTypes, Udev!HotplugEvent, Udev!Enumerate
    <3> QED
      BY <3>1, <3>2
  <2> QED
    BY <2>2, <2>3
<1> QED
  BY <1>1, <1>3, <1>4, <1>5 DEF E

\* A device that comes or goes is told to the socket as soon as it receives.
LEMMA ChangeStep == ASSUME UdevInv, NEW a \in Addresses, Udev!Change(a) PROVE UdevInv'
<1> DEFINE E == [a : Addresses, action : {"add", "remove"}]
<1> DEFINE e == [a |-> a, action |-> IF a \in ports THEN "remove" ELSE "add"]
<1>0. UdevTypes /\ MonitorFacts /\ SockFacts /\ ScanFacts
  BY DEF UdevInv
<1>1. /\ parts' = parts /\ byte' = byte /\ thread' = thread /\ hlock' = hlock /\ op' = op /\ todo' = todo
      /\ known' = known /\ unread' = unread /\ freed' = freed /\ starts' = starts /\ polls' = polls
      /\ changes < MaxChanges /\ changes' = changes + 1
  BY DEF Udev!Change, Udev!monitor
<1>2. ports' \in SUBSET Addresses /\ (a \in ports' <=> a \notin ports) /\ \A b \in Addresses : b # a => (b \in ports' <=> b \in ports)
  BY <1>0 DEF Udev!Change, UdevTypes
<1>3. e \in E /\ e.a = a /\ e.action = IF a \in ports' THEN "add" ELSE "remove"
  <2>1. e \in E
    OBVIOUS
  <2>2. e.a = a /\ e.action = IF a \in ports THEN "remove" ELSE "add"
    OBVIOUS
  <2> QED
    BY <1>2, <2>1, <2>2
<1>4. IF "receiving" \in parts THEN sock' = Append(sock, e) ELSE sock' = sock
  BY DEF Udev!Change, Udev!Receiving
<1> HIDE DEF e
<1>5. sock \in Seq(E) /\ sock' \in Seq(E)
  <2>1. sock \in Seq(E)
    BY <1>0 DEF UdevTypes
  <2>2. Append(sock, e) \in Seq(E)
    BY <1>3, <2>1, AppendProperties
  <2> QED
    BY <1>4, <2>1, <2>2
<1>6. CASE "receiving" \notin parts
  <2>1. sock' = <<>> /\ Len(sock') = 0 /\ op \in {"down", "start"}
    BY <1>0, <1>4, <1>6, PartsCounted, EmptySeq DEF MonitorFacts, UdevTypes
  <2>2. UdevTypes'
    BY <1>0, <1>1, <1>2, <1>5, DevicesAssumption, UdevAssumption DEF UdevTypes
  <2>3. MonitorFacts'
    BY <1>0, <1>1, <2>1 DEF MonitorFacts
  <2> QED
    BY <1>1, <2>1, <2>2, <2>3 DEF UdevInv, SockFacts, ScanFacts
<1>7. CASE "receiving" \in parts
  <2>1. /\ Len(sock) \in Nat /\ Len(sock') = Len(sock) + 1 /\ sock'[Len(sock) + 1] = e
        /\ \A k \in 1..Len(sock) : sock'[k] = sock[k]
    BY <1>3, <1>4, <1>5, <1>7, AppendProperties, LenProperties
  <2>2. UdevTypes'
    BY <1>0, <1>1, <1>2, <1>5, UdevAssumption DEF UdevTypes
  <2>3. MonitorFacts'
    BY <1>0, <1>1, <1>7 DEF MonitorFacts
  <2>4. SockFacts'
    <3> SUFFICES ASSUME NEW k \in 1..Len(sock'), \A j \in (k + 1)..Len(sock') : sock'[j].a # sock'[k].a
                 PROVE  sock'[k].action = IF sock'[k].a \in ports' THEN "add" ELSE "remove"
      BY DEF SockFacts
    <3>1. CASE k = Len(sock) + 1
      BY <1>3, <2>1, <3>1
    <3>2. CASE k \in 1..Len(sock)
      <4>1. sock'[k] = sock[k] /\ sock[k] \in E
        BY <1>5, <2>1, <3>2, ElementOfSeq
      <4>2. sock[k].a # a
        BY <1>3, <2>1, <3>2, <4>1
      <4>3. \A j \in (k + 1)..Len(sock) : sock[j].a # sock[k].a
        BY <2>1, <3>2, <4>1
      <4>4. sock[k].a \in Addresses
        BY <4>1
      <4> QED
        BY <1>0, <1>2, <3>2, <4>1, <4>2, <4>3, <4>4 DEF SockFacts
    <3> QED
      BY <2>1, <3>1, <3>2
  <2>5. ScanFacts'
    <3> SUFFICES ASSUME NEW b \in Addresses, ~\E k \in 1..Len(sock') : sock'[k].a = b
                 PROVE  /\ op = "scan" /\ hlock = None /\ b \in known => b \in ports' \/ b \in unread
                        /\ op = "scan" /\ hlock = "user" /\ b \in todo => b \in ports'
                        /\ op = "scan" /\ hlock = "user" /\ b \notin todo => b \in unread \/ (b \in known <=> b \in ports')
                        /\ op \in {"up", "polling"} => b \in unread \/ (b \in known <=> b \in ports')
      BY <1>1 DEF ScanFacts, Awaited, Agrees
    <3>1. b # a
      BY <1>3, <2>1
    <3>2. ~Awaited(b)
      BY <2>1 DEF Awaited
    <3> QED
      BY <1>0, <1>2, <3>1, <3>2 DEF ScanFacts, Agrees
  <2> QED
    BY <2>2, <2>3, <2>4, <2>5 DEF UdevInv
<1> QED
  BY <1>6, <1>7

\* What a step that leaves the socket and the ports alone has to show.
LEMMA SockKept ==
    ASSUME UdevTypes', MonitorFacts', SockFacts, ports' = ports, sock' = sock,
           \A a \in Addresses : ~Awaited(a) =>
             /\ op' = "scan" /\ hlock' = None /\ a \in known' => a \in ports \/ a \in unread'
             /\ op' = "scan" /\ hlock' = "user" /\ a \in todo' => a \in ports
             /\ op' = "scan" /\ hlock' = "user" /\ a \notin todo' => a \in unread' \/ (a \in known' <=> a \in ports)
             /\ op' \in {"up", "polling"} => a \in unread' \/ (a \in known' <=> a \in ports)
    PROVE  UdevInv'
<1>1. SockFacts'
  BY DEF SockFacts
<1>2. ScanFacts'
  BY DEF ScanFacts, Awaited, Agrees
<1> QED
  BY <1>1, <1>2 DEF UdevInv

\* Starting the monitor, a part at a time.
LEMMA StartSteps ==
    ASSUME UdevInv, Udev!Start \/ Udev!StartPart \/ Udev!StartFails
    PROVE  UdevInv'
<1>0. UdevTypes /\ MonitorFacts /\ SockFacts /\ ScanFacts
  BY DEF UdevInv
<1>1. CASE Udev!Start
  <2>0. /\ ports' = ports /\ changes' = changes /\ sock' = sock /\ parts' = parts /\ byte' = byte
        /\ thread' = thread /\ hlock' = hlock /\ todo' = todo /\ known' = known /\ unread' = unread
        /\ freed' = freed /\ polls' = polls /\ op = "down" /\ op' = "start"
        /\ starts < MaxStarts /\ starts' = starts + 1
    BY <1>1 DEF Udev!Start, Udev!outside, Udev!monitor
  <2>1. UdevTypes'
    BY <1>0, <2>0, UdevAssumption DEF UdevTypes
  <2>2. MonitorFacts'
    <3>1. parts = {}
      BY <1>0, <2>0 DEF MonitorFacts
    <3>2. parts = Made(0) /\ 0 \in 0..6
      BY <3>1, PartsCounted
    <3> QED
      BY <1>0, <2>0, <3>2, UdevAssumption DEF MonitorFacts
  <2> QED
    BY <1>0, <2>0, <2>1, <2>2, SockKept
<1>2. CASE Udev!StartPart
  <2>0. /\ ports' = ports /\ changes' = changes /\ sock' = sock /\ byte' = byte
        /\ hlock' = hlock /\ todo' = todo /\ known' = known /\ unread' = unread
        /\ freed' = freed /\ starts' = starts /\ polls' = polls /\ op = "start"
    BY <1>2 DEF Udev!StartPart, Udev!outside
  <2>1. PICK n \in 0..6 : parts = Made(n)
    BY <1>0, <2>0 DEF MonitorFacts
  <2>2. parts' = Made(n + 1)
    <3>1. Udev!Cardinality(parts) = n
      <4>1. n \in 0..7
        OBVIOUS
      <4>2. Cardinality(Made(n)) = n
        BY <4>1, PartsCounted
      <4> QED
        BY <2>1, <4>2 DEF Udev!Cardinality, Cardinality
    <3> QED
      BY <1>2, <2>1, <3>1, PartsCounted DEF Udev!StartPart
  <2>3. \/ n + 1 = 7 /\ op' = "scan" /\ thread' = "poll" /\ parts' = Made(7)
        \/ n + 1 \in 0..6 /\ op' = "start" /\ thread' = thread
    <3>1. CASE n = 6
      BY <1>2, <2>2, <3>1, PartsCounted DEF Udev!StartPart
    <3>2. CASE n # 6
      <4>1. n + 1 \in 0..6 /\ Made(n + 1) # Made(7)
        BY <3>2, PartsCounted
      <4> QED
        BY <1>2, <2>0, <2>2, <4>1, PartsCounted DEF Udev!StartPart
    <3> QED
      BY <3>1, <3>2
  <2>4. parts' \in SUBSET Made(7) /\ parts \subseteq parts'
    BY <2>1, <2>2 DEF Made
  <2>5. UdevTypes'
    BY <1>0, <2>0, <2>3, <2>4 DEF UdevTypes
  <2>6. MonitorFacts'
    <3>1. known = {} /\ unread = {} /\ hlock = None /\ thread \in {"none", "gone"} /\ freed = FALSE
          /\ ("receiving" \notin parts => sock = <<>>)
      BY <1>0, <2>0 DEF MonitorFacts
    <3> QED
      BY <2>0, <2>2, <2>3, <2>4, <3>1, UdevAssumption DEF MonitorFacts
  <2>7. known = {} /\ hlock # "user"
    BY <1>0, <2>0, UdevAssumption DEF MonitorFacts
  <2> QED
    BY <1>0, <2>0, <2>3, <2>5, <2>6, <2>7, SockKept
<1>3. CASE Udev!StartFails
  <2>0. /\ ports' = ports /\ changes' = changes /\ sock' = <<>> /\ parts' = {} /\ byte' = byte
        /\ thread' = thread /\ hlock' = hlock /\ todo' = todo /\ known' = known /\ unread' = unread
        /\ freed' = freed /\ starts' = starts /\ polls' = polls /\ op = "start" /\ op' = "down"
    BY <1>3 DEF Udev!StartFails, Udev!outside
  <2>1. UdevTypes'
    BY <1>0, <2>0, EmptySeq DEF UdevTypes
  <2>2. MonitorFacts'
    BY <1>0, <2>0 DEF MonitorFacts
  <2>3. Len(sock') = 0
    BY <2>0, EmptySeq
  <2> QED
    BY <2>0, <2>1, <2>2, <2>3 DEF UdevInv, SockFacts, ScanFacts
<1> QED
  BY <1>1, <1>2, <1>3

\* Stopping the monitor.
LEMMA StopSteps ==
    ASSUME UdevInv, Udev!Stop \/ Udev!Join \/ Udev!Exit \/ Udev!ScanFails
    PROVE  UdevInv'
<1>0. UdevTypes /\ MonitorFacts /\ SockFacts /\ ScanFacts
  BY DEF UdevInv
<1>1. CASE Udev!Stop \/ Udev!Exit \/ Udev!ScanFails
  <2>0. /\ ports' = ports /\ changes' = changes /\ sock' = sock /\ parts' = parts /\ byte' \in BOOLEAN
        /\ thread' = thread /\ hlock' = hlock /\ todo' = todo /\ known' = known /\ unread' = unread
        /\ freed' = freed /\ starts' = starts /\ polls' = polls
        /\ op \in {"stop", "up", "scan"} /\ op' \in {"stop", "join"} /\ (op = "scan" => hlock = None)
    BY <1>0, <1>1 DEF Udev!Stop, Udev!Exit, Udev!ScanFails, Udev!outside, Udev!monitor, UdevTypes
  <2>1. UdevTypes'
    BY <1>0, <2>0 DEF UdevTypes
  <2>2. MonitorFacts'
    BY <1>0, <2>0, UdevAssumption DEF MonitorFacts
  <2> QED
    BY <1>0, <2>0, <2>1, <2>2, SockKept
<1>2. CASE Udev!Join
  <2>0. /\ ports' = ports /\ changes' = changes /\ sock' = <<>> /\ parts' = {} /\ byte' = FALSE
        /\ thread' = thread /\ hlock' = hlock /\ todo' = todo /\ known' = {} /\ unread' = {}
        /\ freed' = freed /\ starts' = starts /\ polls' = polls /\ op = "join" /\ op' = "down" /\ thread = "gone"
    BY <1>2 DEF Udev!Join, Udev!outside
  <2>1. UdevTypes'
    BY <1>0, <2>0, EmptySeq DEF UdevTypes
  <2>2. MonitorFacts'
    BY <1>0, <2>0, UdevAssumption DEF MonitorFacts, UdevTypes
  <2>3. Len(sock') = 0
    BY <2>0, EmptySeq
  <2> QED
    BY <2>0, <2>1, <2>2, <2>3 DEF UdevInv, SockFacts, ScanFacts
<1> QED
  BY <1>1, <1>2

\* The thread.
LEMMA ThreadSteps ==
    ASSUME UdevInv, Udev!ThreadPolls \/ Udev!ThreadReceives \/ Udev!ThreadEnds \/ Udev!ThreadFails
    PROVE  UdevInv'
<1>0. UdevTypes /\ MonitorFacts /\ SockFacts /\ ScanFacts
  BY DEF UdevInv
<1>1. CASE Udev!ThreadPolls \/ Udev!ThreadEnds \/ Udev!ThreadFails
  <2>0. /\ ports' = ports /\ changes' = changes /\ sock' = sock /\ parts' = parts /\ byte' \in BOOLEAN
        /\ thread = "poll" /\ thread' \in {"event", "gone"} /\ op' = op
        /\ hlock' = hlock /\ todo' = todo /\ known' = known /\ unread' = unread
        /\ freed' = freed /\ starts' = starts /\ polls' = polls
    BY <1>0, <1>1 DEF Udev!ThreadPolls, Udev!ThreadEnds, Udev!ThreadFails, Udev!outside, UdevTypes
  <2>1. UdevTypes'
    BY <1>0, <2>0 DEF UdevTypes
  <2>2. MonitorFacts'
    BY <1>0, <2>0 DEF MonitorFacts
  <2> QED
    BY <1>0, <2>0, <2>1, <2>2, SockKept DEF ScanFacts, Agrees
<1>2. CASE Udev!ThreadReceives
  <2>0. /\ ports' = ports /\ changes' = changes /\ parts' = parts /\ byte' = byte
        /\ thread = "event" /\ thread' = "poll" /\ op' = op /\ hlock' = hlock /\ hlock = None /\ todo' = todo
        /\ starts' = starts /\ polls' = polls
        /\ freed' = (freed \/ parts = {})
    BY <1>2 DEF Udev!ThreadReceives, Udev!outside
  <2>1. op \notin {"down", "start", "polling"} /\ parts = Made(7) /\ freed = FALSE
    BY <1>0, <2>0, UdevAssumption DEF MonitorFacts
  <2>2. freed' = FALSE
    BY <2>0, <2>1, PartsCounted
  <2>3. CASE sock = <<>>
    <3>1. sock' = sock /\ known' = known /\ unread' = unread
      BY <1>2, <2>3 DEF Udev!ThreadReceives
    <3>2. UdevTypes'
      BY <1>0, <2>0, <3>1 DEF UdevTypes
    <3>3. MonitorFacts'
      BY <1>0, <2>0, <2>1, <2>2, <3>1 DEF MonitorFacts
    <3> QED
      BY <1>0, <2>0, <3>1, <3>2, <3>3, SockKept DEF ScanFacts, Agrees
  <2>4. CASE sock # <<>>
    <3>1. Udev!HotplugEvent(Head(sock)) /\ sock' = Tail(sock)
      BY <1>2, <2>4 DEF Udev!ThreadReceives
    <3>2. /\ known' \in SUBSET Addresses /\ unread' \in SUBSET Addresses
          /\ sock' \in Seq([a : Addresses, action : {"add", "remove"}])
          /\ SockFacts'
          /\ \A b \in Addresses :
               (~\E k \in 1..Len(sock') : sock'[k].a = b) =>
                 \/ b \in unread' \/ (b \in known' <=> b \in ports)
                 \/ ~Awaited(b) /\ (b \in known' <=> b \in known) /\ (b \in unread' <=> b \in unread)
      BY <1>0, <2>0, <2>4, <3>1, EventHandled
    <3>3. UdevTypes'
      BY <1>0, <2>0, <3>2 DEF UdevTypes
    <3>4. MonitorFacts'
      BY <1>0, <2>0, <2>1, <2>2, PartsCounted DEF MonitorFacts
    <3>5. ScanFacts'
      <4> SUFFICES ASSUME NEW b \in Addresses, ~\E k \in 1..Len(sock') : sock'[k].a = b
                   PROVE  /\ op = "scan" /\ b \in known' => b \in ports \/ b \in unread'
                          /\ op \in {"up", "polling"} => b \in unread' \/ (b \in known' <=> b \in ports)
        BY <2>0, UdevAssumption DEF ScanFacts, Awaited, Agrees
      <4> QED
        BY <1>0, <2>0, <3>2 DEF ScanFacts, Agrees
    <3> QED
      BY <3>2, <3>3, <3>4, <3>5 DEF UdevInv
  <2> QED
    BY <2>3, <2>4
<1> QED
  BY <1>1, <1>2

\* The scan of a new context.
LEMMA ScanSteps ==
    ASSUME UdevInv, Udev!Scan \/ (\E a \in Addresses : Udev!ScanDevice(a)) \/ Udev!ScanEnds
    PROVE  UdevInv'
<1>0. UdevTypes /\ MonitorFacts /\ SockFacts /\ ScanFacts
  BY DEF UdevInv
<1>1. CASE Udev!Scan
  <2>0. /\ ports' = ports /\ changes' = changes /\ sock' = sock /\ parts' = parts /\ byte' = byte
        /\ thread' = thread /\ op' = op /\ op = "scan" /\ hlock = None
        /\ hlock' = "user" /\ todo' = ports /\ known' = known /\ unread' = unread
        /\ freed' = freed /\ starts' = starts /\ polls' = polls
    BY <1>1 DEF Udev!Scan, Udev!outside, Udev!monitor
  <2>1. UdevTypes'
    BY <1>0, <2>0 DEF UdevTypes
  <2>2. MonitorFacts'
    BY <1>0, <2>0 DEF MonitorFacts
  <2> QED
    BY <1>0, <2>0, <2>1, <2>2, SockKept, UdevAssumption DEF ScanFacts
<1>2. ASSUME NEW a \in Addresses, Udev!ScanDevice(a) PROVE UdevInv'
  <2>0. /\ ports' = ports /\ changes' = changes /\ sock' = sock /\ parts' = parts /\ byte' = byte
        /\ thread' = thread /\ op' = op /\ op = "scan" /\ hlock' = hlock /\ hlock = "user"
        /\ a \in todo /\ todo' = todo \ {a}
        /\ freed' = freed /\ starts' = starts /\ polls' = polls
    BY <1>2 DEF Udev!ScanDevice, Udev!outside, Udev!monitor
  <2>1. /\ known' \in SUBSET Addresses /\ unread' \in SUBSET Addresses
        /\ a \in known' \/ a \in unread'
        /\ \A b \in Addresses : b # a => (b \in known' <=> b \in known) /\ (b \in unread' <=> b \in unread)
    BY <1>0, <1>2 DEF Udev!ScanDevice, Udev!Enumerate, UdevTypes
  <2>2. UdevTypes'
    BY <1>0, <2>0, <2>1 DEF UdevTypes
  <2>3. MonitorFacts'
    BY <1>0, <2>0 DEF MonitorFacts
  <2> QED
    BY <1>0, <2>0, <2>1, <2>2, <2>3, SockKept, UdevAssumption DEF ScanFacts, Agrees
<1>3. CASE Udev!ScanEnds
  <2>0. /\ ports' = ports /\ changes' = changes /\ sock' = sock /\ parts' = parts /\ byte' = byte
        /\ thread' = thread /\ op = "scan" /\ op' = "up" /\ hlock = "user" /\ hlock' = None
        /\ todo' = todo /\ todo = {} /\ known' = known /\ unread' = unread
        /\ freed' = freed /\ starts' = starts /\ polls' = polls
    BY <1>3 DEF Udev!ScanEnds, Udev!outside, Udev!monitor
  <2>1. UdevTypes'
    BY <1>0, <2>0 DEF UdevTypes
  <2>2. MonitorFacts'
    BY <1>0, <2>0, UdevAssumption DEF MonitorFacts
  <2> QED
    BY <1>0, <2>0, <2>1, <2>2, SockKept, UdevAssumption DEF ScanFacts, Agrees
<1> QED
  BY <1>1, <1>2, <1>3

\* The poll of the application.
LEMMA PollSteps ==
    ASSUME UdevInv, Udev!PollStart \/ Udev!PollEvent \/ Udev!PollEnd
    PROVE  UdevInv'
<1>0. UdevTypes /\ MonitorFacts /\ SockFacts /\ ScanFacts
  BY DEF UdevInv
<1>1. CASE Udev!PollStart \/ Udev!PollEnd
  <2>0. /\ ports' = ports /\ changes' = changes /\ sock' = sock /\ parts' = parts /\ byte' = byte
        /\ thread' = thread /\ todo' = todo /\ known' = known /\ unread' = unread
        /\ freed' = freed /\ starts' = starts /\ op \in {"up", "polling"}
        /\ \/ op' = "up" /\ hlock' = None
           \/ op' = "polling" /\ hlock' = "user"
    BY <1>1 DEF Udev!PollStart, Udev!PollEnd, Udev!outside, Udev!monitor
  <2>1. polls' \in 0..MaxPolls
    BY <1>0, <1>1, UdevAssumption DEF Udev!PollStart, Udev!PollEnd, UdevTypes
  <2>2. UdevTypes'
    BY <1>0, <2>0, <2>1 DEF UdevTypes
  <2>3. MonitorFacts'
    BY <1>0, <2>0, UdevAssumption DEF MonitorFacts
  <2> QED
    BY <1>0, <2>0, <2>2, <2>3, SockKept DEF ScanFacts, Agrees
<1>2. CASE Udev!PollEvent
  <2>0. /\ ports' = ports /\ changes' = changes /\ parts' = parts /\ byte' = byte
        /\ thread' = thread /\ op' = op /\ op = "polling" /\ hlock' = hlock /\ todo' = todo
        /\ freed' = freed /\ starts' = starts /\ polls' = polls
        /\ sock # <<>> /\ Udev!HotplugEvent(Head(sock)) /\ sock' = Tail(sock)
    BY <1>2 DEF Udev!PollEvent, Udev!outside, Udev!monitor
  <2>1. /\ known' \in SUBSET Addresses /\ unread' \in SUBSET Addresses
        /\ sock' \in Seq([a : Addresses, action : {"add", "remove"}])
        /\ SockFacts'
        /\ \A b \in Addresses :
             (~\E k \in 1..Len(sock') : sock'[k].a = b) =>
               \/ b \in unread' \/ (b \in known' <=> b \in ports)
               \/ ~Awaited(b) /\ (b \in known' <=> b \in known) /\ (b \in unread' <=> b \in unread)
    BY <1>0, <2>0, EventHandled
  <2>2. UdevTypes'
    BY <1>0, <2>0, <2>1 DEF UdevTypes
  <2>3. MonitorFacts'
    BY <1>0, <2>0, PartsCounted DEF MonitorFacts
  <2>4. ScanFacts'
    <3> SUFFICES ASSUME NEW b \in Addresses, ~\E k \in 1..Len(sock') : sock'[k].a = b
                 PROVE  b \in unread' \/ (b \in known' <=> b \in ports)
      BY <2>0 DEF ScanFacts, Awaited, Agrees
    <3> QED
      BY <1>0, <2>0, <2>1 DEF ScanFacts, Agrees
  <2> QED
    BY <2>1, <2>2, <2>3, <2>4 DEF UdevInv
<1> QED
  BY <1>1, <1>2

\* Every step of the monitor keeps the invariant.
LEMMA UdevStep == ASSUME UdevInv, [Udev!Next]_udevVars PROVE UdevInv'
<1>1. CASE UNCHANGED udevVars
  <2>1. /\ ports' = ports /\ changes' = changes /\ sock' = sock /\ parts' = parts /\ byte' = byte
        /\ thread' = thread /\ hlock' = hlock /\ op' = op /\ todo' = todo /\ known' = known
        /\ unread' = unread /\ freed' = freed /\ starts' = starts /\ polls' = polls
    BY <1>1 DEF udevVars
  <2>2. UdevTypes' /\ MonitorFacts'
    BY <2>1 DEF UdevInv, UdevTypes, MonitorFacts
  <2> QED
    BY <2>1, <2>2, SockKept DEF UdevInv, ScanFacts, Agrees
<1>2. CASE Udev!Next
  BY <1>2, ChangeStep, StartSteps, StopSteps, ThreadSteps, ScanSteps, PollSteps DEF Udev!Next
<1> QED
  BY <1>1, <1>2

\* It holds in the beginning.
LEMMA UdevInit == Udev!Init => UdevInv
<1> SUFFICES ASSUME Udev!Init PROVE UdevInv
  OBVIOUS
<1> USE DEF Udev!Init
<1>1. Len(sock) = 0 /\ sock \in Seq([a : Addresses, action : {"add", "remove"}])
  BY EmptySeq
<1>2. UdevTypes
  <2>1. 0 \in 0..MaxChanges /\ 0 \in 0..MaxStarts /\ 0 \in 0..MaxPolls
    BY UdevAssumption
  <2> QED
    BY <1>1, <2>1 DEF UdevTypes
<1>3. MonitorFacts
  BY UdevAssumption DEF MonitorFacts
<1> QED
  BY <1>1, <1>2, <1>3 DEF UdevInv, SockFacts, ScanFacts

\* What the invariant says of the run's properties.
LEMMA UdevMeans == UdevInv => Udev!TypeOK /\ Udev!KnownMatchesBus /\ Udev!ThreadHasMonitor
<1> SUFFICES ASSUME UdevInv PROVE Udev!TypeOK /\ Udev!KnownMatchesBus /\ Udev!ThreadHasMonitor
  OBVIOUS
<1>0. UdevTypes /\ MonitorFacts /\ SockFacts /\ ScanFacts
  BY DEF UdevInv
<1>1. Udev!TypeOK
  BY <1>0, PartsCounted DEF Udev!TypeOK, UdevTypes, MonitorFacts
<1>2. Udev!KnownMatchesBus
  <2> SUFFICES ASSUME op = "up", sock = <<>>, NEW a \in (known \ ports) \cup (ports \ known)
               PROVE  a \in unread
    BY DEF Udev!KnownMatchesBus
  <2>1. ~Awaited(a) /\ a \in Addresses
    BY <1>0, EmptySeq DEF Awaited, UdevTypes
  <2> QED
    BY <1>0, <2>1 DEF ScanFacts, Agrees
<1>3. Udev!ThreadHasMonitor
  <2>1. thread \in {"poll", "event"} => parts = Made(7)
    BY <1>0 DEF MonitorFacts
  <2>2. Udev!Cardinality(Made(7)) = 7
    BY PartsCounted DEF Udev!Cardinality, Cardinality
  <2>3. Len(Udev!Parts) = 7
    BY PartsCounted
  <2>4. freed = FALSE
    BY <1>0 DEF MonitorFacts
  <2> QED
    BY <2>1, <2>2, <2>3, <2>4 DEF Udev!ThreadHasMonitor
<1> QED
  BY <1>1, <1>2, <1>3

-----------------------------------------------------------------------------
(* The devices of a context *)

O == 1..MaxObjs

\* What the messages, the holder of linux_hotplug_lock and the user's thread are.
Msgs == [event : {"none"}, o : {0}] \cup [event : {"arrived", "left"}, o : O]
Jobs == {Devices!Free} \cup [pc : {"connect", "arrived", "left"}, o : O, by : {"monitor", "user"}]
Calls == [pc : {"rest", "enumerate", "enumerated", "opening", "unopened"},
          c : Callbacks \cup {None}, o : 0..MaxObjs]

\* The types of the devices' variables.
DevTypes ==
  /\ bus \in BOOLEAN /\ plugs \in 0..MaxPlugs /\ netlink \in Seq({"add", "remove"})
  /\ ctx \in {"none", "listed", "monitor", "scanned", "lists", "ready", "exiting", "failing"}
  /\ ref \in [O -> Nat] /\ attached \in SUBSET O /\ made \in 0..MaxObjs
  /\ devs \in SUBSET O /\ msgs \in Seq(Msgs)
  /\ pipe \in BOOLEAN /\ stray \in BOOLEAN /\ lost \in SUBSET O /\ skipped \in BOOLEAN
  /\ hp \in Jobs /\ usr \in Calls
  /\ held \in SUBSET O /\ opened \in SUBSET O
  /\ ev \in [pc : {"poll", "message", "match"}, m : Msgs, todo : Seq(Callbacks)]

\* Where a device object is on its way from its allocation to its release.
Connecting(o) == hp.pc = "connect" /\ hp.o = o
OnList(o) == o \in devs
Leaves(o) == hp.pc = "left" /\ hp.o = o
Left(m, o) == m.event = "left" /\ m.o = o
Queued(o) == \E k \in 1..Len(msgs) : Left(msgs[k], o)
Handled(o) == Left(ev.m, o)
Lost(o) == o \in lost
Opening(o) == usr.pc \in {"opening", "unopened"} /\ usr.o = o

\* It is at one place at a time, and its removal is in one message.
StageFacts ==
  \A o \in O :
    /\ Connecting(o) => ~OnList(o) /\ ~Queued(o) /\ ~Handled(o) /\ ~Lost(o) /\ o \notin held \cup opened /\ ~Opening(o)
    /\ OnList(o) => ~Leaves(o) /\ ~Queued(o) /\ ~Handled(o) /\ ~Lost(o)
    /\ Leaves(o) => ~Queued(o) /\ ~Handled(o) /\ ~Lost(o)
    /\ Queued(o) => ~Handled(o) /\ ~Lost(o)
    /\ Handled(o) => ~Lost(o)
    /\ o > made => ~Connecting(o) /\ ~OnList(o) /\ ~Leaves(o) /\ ~Queued(o) /\ ~Handled(o)
                   /\ ~Lost(o) /\ o \notin held \cup opened /\ ~Opening(o)
    /\ \A j, k \in 1..Len(msgs) : Left(msgs[j], o) /\ Left(msgs[k], o) => j = k

\* The references that the place stands for, and those of the user: together they
\* are the count.
Stage(o) ==
  IF Leaves(o) THEN 2
  ELSE IF Connecting(o) \/ OnList(o) \/ Queued(o) \/ Handled(o) \/ Lost(o) THEN 1 ELSE 0
Users(o) ==
  Devices!Count(o \in held) + Devices!Count(o \in opened) + Devices!Count(Opening(o))
RefFact(o) == ref[o] = Stage(o) + Users(o)
RefFacts == \A o \in O : RefFact(o)

\* Which threads and lists are in use at which stage of the context.
PlaceFacts ==
  /\ \A a, b \in devs : a = b
  /\ hp.pc = "connect" => devs = {}
  /\ hp.pc = "arrived" => devs = {hp.o}
  /\ hp.pc = "left" => devs = {}
  /\ ctx \in {"none", "listed", "exiting"} => hp = Devices!Free
  /\ ctx \in {"none", "listed"} => devs = {} /\ netlink = <<>>
  /\ ctx \in {"none", "listed", "monitor", "scanned"} => msgs = <<>>
  /\ ctx # "ready" => ev = Devices!Sleeping
  /\ ctx # "ready" => usr = Devices!AtRest /\ opened = {}
  /\ ev.pc = "poll" => ev = Devices!Sleeping
  /\ ctx \in {"listed", "monitor", "scanned", "lists", "failing"} => held = {}

\* A message of an arrival is followed by the device itself, or by the message of its
\* removal, which keeps it alive.
Later(o, k) == OnList(o) \/ Leaves(o) \/ \E j \in (k + 1)..Len(msgs) : Left(msgs[j], o)
LiveFacts ==
  /\ \A k \in 1..Len(msgs) : msgs[k].event = "arrived" => Later(msgs[k].o, k)
  /\ ev.m.event = "arrived" => Later(ev.m.o, 0)

\* The last message about a device says what the list is now.
LastFacts ==
  \A k \in 1..Len(msgs) :
    msgs[k].event # "none" /\ (\A i \in (k + 1)..Len(msgs) : msgs[i].event = "none") =>
      /\ msgs[k].event = "arrived" => hp.pc \notin {"connect", "arrived"} /\ (devs # {} \/ hp.pc = "left")
      /\ msgs[k].event = "left" => hp.pc # "left" /\ (devs = {} \/ hp.pc = "arrived")

\* Messages are signalled, or the signal came too early.
SignalFacts == ctx \in {"lists", "ready"} /\ msgs # <<>> => pipe \/ stray

\* The last event of the socket says what the bus is now; without one the list does.
Present == devs # {} \/ hp.pc = "connect"
BusFacts ==
  /\ netlink # <<>> => netlink[Len(netlink)] = IF bus THEN "add" ELSE "remove"
  /\ ctx = "monitor" /\ netlink = <<>> /\ Present => bus
  /\ ctx \in {"scanned", "lists", "ready"} /\ netlink = <<>> => (Present <=> bus /\ ~skipped)
  /\ skipped => ~Present
  /\ usr.pc = "opening" /\ usr.o \in attached => \E k \in 1..Len(netlink) : netlink[k] = "remove"

\* What the user holds and is attached is on the list.
AttachFacts ==
  /\ \A o \in held \cup opened : ctx = "ready" /\ o \in attached => o \in devs
  /\ usr.pc = "opening" => usr.o \in O /\ (usr.o \in attached => usr.o \in devs)
  /\ usr.pc = "unopened" => usr.o \in O

\* No callback is registered twice, nor called twice for one message.
Injective(s) == \A j, k \in 1..Len(s) : s[j] = s[k] => j = k
CallbackFacts ==
  /\ cbs \in Seq(Callbacks) /\ Injective(cbs)
  /\ \A c \in dying : \E k \in 1..Len(cbs) : cbs[k] = c
  /\ Injective(ev.todo)
DevInv ==
  /\ DevTypes /\ StageFacts /\ RefFacts /\ PlaceFacts /\ LiveFacts /\ LastFacts /\ SignalFacts
  /\ BusFacts /\ AttachFacts /\ CallbackFacts

USE DEF Devices!bussy, Devices!objs, Devices!queue, Devices!user, Devices!Free, Devices!NoMsg,
        Devices!Sleeping, Devices!AtRest, Devices!Objs

\* The next event of the socket.
LEMMA Socket ==
    ASSUME DevTypes, netlink # <<>>
    PROVE  /\ Head(netlink) = netlink[1] /\ Len(netlink) \in Nat /\ Len(netlink) > 0
           /\ netlink[1] \in {"add", "remove"}
           /\ Tail(netlink) \in Seq({"add", "remove"}) /\ Len(Tail(netlink)) = Len(netlink) - 1
           /\ \A k \in 1..(Len(netlink) - 1) : Tail(netlink)[k] = netlink[k + 1]
<1>1. netlink \in Seq({"add", "remove"})
  BY DEF DevTypes
<1> QED
  BY <1>1, HeadTailProperties, EmptySeq

\* linux_enumerate_device() finds the device known, makes it, or rejects it.
LEMMA EnumerateStep ==
    ASSUME DevTypes, StageFacts, RefFacts, LiveFacts, LastFacts, NEW t \in {"monitor", "user"},
           hp = Devices!Free, Devices!Enumerate(t), PlaceFacts,
           UNCHANGED <<attached, devs, msgs, lost, usr, held, opened, ev>>
    PROVE  /\ hp' \in Jobs /\ ref' \in [O -> Nat] /\ made' \in 0..MaxObjs /\ skipped' \in BOOLEAN
           /\ StageFacts' /\ RefFacts' /\ LiveFacts' /\ LastFacts'
<1> USE DEF Connecting, OnList, Leaves, Left, Queued, Handled, Lost, Opening
<1>1. CASE hp' = Devices!Free /\ UNCHANGED <<ref, made>>
  <2>1. skipped' \in BOOLEAN
    BY DEF DevTypes, Devices!Enumerate, Devices!NewDevice, Devices!Rejected
  <2>2. StageFacts'
    BY <1>1 DEF StageFacts
  <2>3. \A o \in O : RefFact(o)'
    BY <1>1 DEF RefFacts, RefFact, Stage, Users
  <2>4. LiveFacts' /\ LastFacts'
    BY <1>1 DEF LiveFacts, LastFacts, Later
  <2> QED
    BY <1>1, <2>1, <2>2, <2>3, <2>4 DEF RefFacts, DevTypes, Jobs
<1>2. CASE devs = {} /\ Devices!NewDevice(t)
  <2> DEFINE n == made + 1
  <2>1. /\ n \in O /\ n = made + 1 /\ made' = n /\ hp' = [pc |-> "connect", o |-> n, by |-> t]
        /\ ref' = [ref EXCEPT ![n] = 1] /\ skipped' = FALSE
    <3>1. n \in O
      BY <1>2, DevicesAssumption DEF DevTypes, Devices!NewDevice, O
    <3> QED
      BY <1>2, <3>1 DEF Devices!NewDevice
  <2> HIDE DEF n
  <2>2. hp' \in Jobs /\ ref' \in [O -> Nat] /\ made' \in 0..MaxObjs /\ skipped' \in BOOLEAN
    <3>1. hp' \in Jobs
      BY <2>1 DEF Jobs
    <3>2. made' \in 0..MaxObjs
      BY <2>1, DevicesAssumption DEF O
    <3> QED
      BY <2>1, <3>1, <3>2 DEF DevTypes
  <2>3. n > made /\ \A o \in O : o > made' => o > made
    BY <2>1, DevicesAssumption DEF DevTypes, O
  <2>4. StageFacts'
    BY <1>2, <2>1, <2>3 DEF StageFacts
  <2>5. \A o \in O : RefFact(o)'
    <3> TAKE o \in O
    <3>1. CASE o = n
      <4>1. Stage(o)' = 1 /\ Users(o)' = 0
        BY <2>1, <2>3, <3>1 DEF Stage, Users, StageFacts, Devices!Count
      <4> QED
        BY <2>1, <3>1, <4>1 DEF RefFact, DevTypes
    <3>2. CASE o # n
      <4>1. Stage(o)' = Stage(o) /\ Users(o)' = Users(o)
        BY <2>1, <3>2 DEF Stage, Users
      <4> QED
        BY <2>1, <3>2, <4>1 DEF RefFact, RefFacts, DevTypes
    <3> QED
      BY <3>1, <3>2
  <2>6. LiveFacts' /\ LastFacts'
    <3>1. LiveFacts'
      BY <2>1 DEF LiveFacts, Later
    <3>2. \A k \in 1..Len(msgs) : (\A i \in (k + 1)..Len(msgs) : msgs[i].event = "none") => msgs[k].event # "arrived"
      BY <1>2 DEF LastFacts
    <3>3. LastFacts'
      BY <2>1, <1>2, <3>2 DEF LastFacts
    <3> QED
      BY <3>1, <3>3
  <2> QED
    BY <2>2, <2>4, <2>5, <2>6 DEF RefFacts
<1> QED
  BY <1>1, <1>2 DEF Devices!Enumerate, Devices!Rejected

\* linux_device_disconnected() finds no device, or takes it off the list.
LEMMA DisconnectStep ==
    ASSUME DevTypes, StageFacts, RefFacts, LiveFacts, LastFacts, NEW t \in {"monitor", "user"},
           hp = Devices!Free, Devices!Disconnect(t), PlaceFacts,
           UNCHANGED <<made, msgs, lost, held, opened, ev>>,
           \A o \in O : Opening(o)' = Opening(o)
    PROVE  /\ hp' \in Jobs /\ ref' \in [O -> Nat] /\ attached' = attached \ devs /\ devs' = {}
           /\ hp' = Devices!Free \/ hp'.pc = "left"
           /\ StageFacts' /\ RefFacts' /\ LiveFacts' /\ LastFacts'
<1> USE DEF Connecting, OnList, Leaves, Left, Queued, Handled, Lost
<1>0. \A o \in O : Devices!Count(Opening(o))' = Devices!Count(Opening(o))
  BY DEF Devices!Count
<1> HIDE DEF Opening
<1>1. CASE devs = {}
  <2>0. hp' = Devices!Free /\ UNCHANGED <<ref, attached, devs>>
    BY <1>1 DEF Devices!Disconnect
  <2>1. StageFacts'
    BY <2>0 DEF StageFacts
  <2>2. \A o \in O : RefFact(o)'
    BY <1>0, <2>0 DEF RefFacts, RefFact, Stage, Users
  <2>3. LiveFacts' /\ LastFacts'
    BY <2>0 DEF LiveFacts, LastFacts, Later
  <2> QED
    BY <1>1, <2>0, <2>1, <2>2, <2>3 DEF RefFacts, DevTypes, Jobs
<1>2. CASE devs # {}
  <2>1. PICK n \in devs : n = CHOOSE d \in devs : TRUE
    BY <1>2
  <2>2. n \in O /\ devs = {n}
    BY <2>1 DEF DevTypes, PlaceFacts
  <2>3. /\ ref' = [ref EXCEPT ![n] = @ + 1] /\ attached' = attached \ {n} /\ devs' = {}
        /\ hp' = [pc |-> "left", o |-> n, by |-> t]
    BY <1>2, <2>1, <2>2 DEF Devices!Disconnect
  <2>4. hp' \in Jobs
    BY <2>2, <2>3 DEF Jobs
  <2>5. ref' \in [O -> Nat]
    BY <2>2, <2>3 DEF DevTypes
  <2>6. StageFacts'
    BY <2>2, <2>3 DEF StageFacts
  <2>7. \A o \in O : RefFact(o)'
    <3> TAKE o \in O
    <3>0. Users(o)' = Users(o)
      BY <1>0 DEF Users
    <3>1. CASE o = n
      <4>1. Stage(o)' = 2 /\ Stage(o) = 1
        BY <2>2, <2>3, <3>1 DEF Stage
      <4>2. ref'[o] = ref[o] + 1
        BY <2>3, <3>1 DEF DevTypes
      <4> QED
        BY <3>0, <4>1, <4>2 DEF RefFact, RefFacts, Users, Devices!Count
    <3>2. CASE o # n
      <4>1. Stage(o)' = Stage(o)
        BY <2>2, <2>3, <3>2 DEF Stage
      <4> QED
        BY <2>3, <3>0, <3>2, <4>1 DEF RefFact, RefFacts, DevTypes
    <3> QED
      BY <3>1, <3>2
  <2>8. LiveFacts'
    BY <2>2, <2>3 DEF LiveFacts, Later
  <2>9. LastFacts'
    BY <2>2, <2>3 DEF LastFacts
  <2> QED
    BY <2>2, <2>3, <2>4, <2>5, <2>6, <2>7, <2>8, <2>9 DEF RefFacts
<1> QED
  BY <1>1, <1>2

\* usbi_hotplug_notification() appends a message.
LEMMA Appended ==
    ASSUME DevTypes, NEW m \in Msgs, msgs' = Append(msgs, m)
    PROVE  /\ msgs' \in Seq(Msgs) /\ Len(msgs) \in Nat /\ Len(msgs') = Len(msgs) + 1
           /\ \A k \in 1..Len(msgs) : msgs'[k] = msgs[k]
           /\ msgs'[Len(msgs) + 1] = m /\ msgs' # <<>>
<1>1. msgs \in Seq(Msgs)
  BY DEF DevTypes
<1> QED
  BY <1>1, AppendProperties, LenProperties

\* usbi_connect_device(): on the list ...
LEMMA ConnectStep == ASSUME DevInv, Devices!Connect PROVE DevInv'
<1> USE DEF Connecting, OnList, Leaves, Left, Queued, Handled, Lost, Opening
<1>0. /\ DevTypes /\ StageFacts /\ RefFacts /\ PlaceFacts /\ LiveFacts /\ LastFacts /\ SignalFacts
      /\ BusFacts /\ AttachFacts /\ CallbackFacts
  BY DEF DevInv
<1>1. PICK n \in O, t \in {"monitor", "user"} :
         hp = [pc |-> "connect", o |-> n, by |-> t] /\ hp' = [pc |-> "arrived", o |-> n, by |-> t]
  <2>1. hp \in [pc : {"connect", "arrived", "left"}, o : O, by : {"monitor", "user"}] /\ hp.pc = "connect"
    BY <1>0 DEF Devices!Connect, DevTypes, Jobs
  <2>2. hp = [pc |-> "connect", o |-> hp.o, by |-> hp.by]
    BY <2>1
  <2>3. hp' = [pc |-> "arrived", o |-> hp.o, by |-> hp.by]
    BY <2>2 DEF Devices!Connect
  <2> QED
    BY <2>1, <2>2, <2>3
<1>2. devs = {} /\ devs' = {n} /\ attached' = attached \cup {n}
  BY <1>0, <1>1 DEF PlaceFacts, Devices!Connect
<1> USE DEF Devices!Connect
<1>3. DevTypes'
  <2>1. hp' \in Jobs
    BY <1>1 DEF Jobs
  <2> QED
    BY <1>0, <1>2, <2>1 DEF DevTypes
<1>4. StageFacts'
  BY <1>0, <1>1, <1>2 DEF StageFacts
<1>5. \A o \in O : RefFact(o)'
  <2> TAKE o \in O
  <2>1. Stage(o)' = Stage(o)
    BY <1>1, <1>2 DEF Stage
  <2>2. Users(o)' = Users(o)
    BY DEF Users
  <2> QED
    BY <1>0, <2>1, <2>2 DEF RefFact, RefFacts
<1>6. PlaceFacts'
  BY <1>0, <1>1, <1>2 DEF PlaceFacts
<1>7. LiveFacts'
  BY <1>0, <1>1, <1>2 DEF LiveFacts, Later
<1>8. LastFacts'
  BY <1>0, <1>1, <1>2 DEF LastFacts
<1>9. SignalFacts' /\ CallbackFacts'
  BY <1>0 DEF SignalFacts, CallbackFacts, Injective
<1>10. BusFacts'
  <2>1. ~Opening(n)
    BY <1>0, <1>1 DEF StageFacts
  <2> QED
    BY <1>0, <1>1, <1>2, <2>1 DEF BusFacts, Present
<1>11. AttachFacts'
  BY <1>0, <1>1, <1>2 DEF AttachFacts, StageFacts
<1> QED
  BY <1>3, <1>4, <1>5, <1>6, <1>7, <1>8, <1>9, <1>10, <1>11 DEF DevInv, RefFacts

\* ... and announced, when the messages are ready.
LEMMA ArrivedStep == ASSUME DevInv, Devices!Arrived PROVE DevInv'
<1> USE DEF Connecting, OnList, Leaves, Left, Queued, Handled, Lost, Opening
<1>0. /\ DevTypes /\ StageFacts /\ RefFacts /\ PlaceFacts /\ LiveFacts /\ LastFacts /\ SignalFacts
      /\ BusFacts /\ AttachFacts /\ CallbackFacts
  BY DEF DevInv
<1>1. PICK n \in O : hp.pc = "arrived" /\ hp.o = n /\ hp' = Devices!Free /\ devs = {n}
  BY <1>0 DEF Devices!Arrived, DevTypes, Jobs, PlaceFacts
<1>2. lost' = lost
  BY DEF Devices!Arrived, Devices!NotifyWhenReady, Devices!Notification
<1>3. CASE UNCHANGED <<msgs, pipe, stray>> /\ ctx \notin {"lists", "ready", "failing"}
  <2> USE DEF Devices!Arrived
  <2>1. DevTypes'
    BY <1>0, <1>1, <1>2, <1>3 DEF DevTypes, Jobs
  <2>2. StageFacts'
    BY <1>0, <1>1, <1>2, <1>3 DEF StageFacts
  <2>3. \A o \in O : RefFact(o)'
    BY <1>0, <1>1, <1>2, <1>3 DEF RefFact, RefFacts, Stage, Users
  <2>4. PlaceFacts'
    BY <1>0, <1>1, <1>2, <1>3 DEF PlaceFacts
  <2>5. msgs = <<>>
    BY <1>0, <1>1, <1>3 DEF PlaceFacts, DevTypes
  <2>6. LiveFacts' /\ LastFacts' /\ SignalFacts'
    BY <1>0, <1>1, <1>2, <1>3, <2>5 DEF LiveFacts, LastFacts, SignalFacts, Later
  <2>7. BusFacts' /\ AttachFacts' /\ CallbackFacts'
    BY <1>0, <1>1, <1>2, <1>3 DEF BusFacts, AttachFacts, CallbackFacts, Present, Injective
  <2> QED
    BY <2>1, <2>2, <2>3, <2>4, <2>6, <2>7 DEF DevInv, RefFacts
<1>4. CASE Devices!Notification("arrived", hp.o) /\ ctx \in {"lists", "ready", "failing"}
  <2> DEFINE m == [event |-> "arrived", o |-> n]
  <2>1. m \in Msgs /\ m.event = "arrived" /\ m.o = n
    BY DEF Msgs
  <2>2. msgs' = Append(msgs, m)
    BY <1>1, <1>4 DEF Devices!Notification
  <2> HIDE DEF m
  <2>3. /\ msgs' \in Seq(Msgs) /\ Len(msgs) \in Nat /\ Len(msgs') = Len(msgs) + 1
        /\ \A k \in 1..Len(msgs) : msgs'[k] = msgs[k]
        /\ msgs'[Len(msgs) + 1] = m /\ msgs' # <<>>
    BY <1>0, <2>1, <2>2, Appended
  <2>4. \A k \in 1..Len(msgs') : k \in 1..Len(msgs) \/ k = Len(msgs) + 1
    BY <2>3
  <2>5. 1..Len(msgs) \subseteq 1..Len(msgs') /\ Len(msgs) + 1 \in 1..Len(msgs')
    BY <2>3
  <2>6. \A o \in O : Queued(o)' = Queued(o)
    BY <2>1, <2>3, <2>4, <2>5
  <2>7. UNCHANGED <<bus, plugs, netlink, ctx, ref, attached, made, devs, skipped, cbs, dying, usr, held, opened, ev>>
    BY DEF Devices!Arrived
  <2>8. DevTypes'
    <3>1. pipe' \in BOOLEAN /\ stray' \in BOOLEAN
      BY <1>0, <1>4 DEF DevTypes, Devices!Notification
    <3> QED
      BY <1>0, <1>1, <1>2, <2>3, <2>7, <3>1 DEF DevTypes, Jobs
  <2>9. StageFacts'
    <3>1. \A o \in O : \A j, k \in 1..Len(msgs') : Left(msgs'[j], o) /\ Left(msgs'[k], o) => j = k
      BY <1>0, <2>1, <2>3, <2>4 DEF StageFacts
    <3> HIDE DEF Queued
    <3> QED
      BY <1>0, <1>1, <1>2, <2>6, <2>7, <3>1 DEF StageFacts
  <2>10. \A o \in O : RefFact(o)'
    <3> HIDE DEF Queued
    <3> QED
      BY <1>0, <1>1, <1>2, <2>6, <2>7 DEF RefFact, RefFacts, Stage, Users
  <2>11. PlaceFacts'
    BY <1>0, <1>1, <1>4, <2>7 DEF PlaceFacts
  <2>12. LiveFacts'
    BY <1>0, <1>1, <2>1, <2>3, <2>4, <2>5, <2>7 DEF LiveFacts, Later
  <2>13. LastFacts'
    BY <1>0, <1>1, <2>1, <2>3, <2>4, <2>5, <2>7 DEF LastFacts
  <2>14. SignalFacts'
    BY <1>0, <1>4, <2>7 DEF SignalFacts, Devices!Notification
  <2>15. BusFacts' /\ AttachFacts' /\ CallbackFacts'
    BY <1>0, <1>1, <2>7 DEF BusFacts, AttachFacts, CallbackFacts, Present, Injective
  <2> QED
    BY <2>8, <2>9, <2>10, <2>11, <2>12, <2>13, <2>14, <2>15 DEF DevInv, RefFacts
<1> QED
  BY <1>3, <1>4 DEF Devices!Arrived, Devices!NotifyWhenReady

\* usbi_disconnect_device() announces the removal; the look-up's reference goes.
LEMMA LeftStep == ASSUME DevInv, Devices!Left PROVE DevInv'
<1> USE DEF Connecting, OnList, Leaves, Left, Queued, Handled, Lost, Opening
<1>0. /\ DevTypes /\ StageFacts /\ RefFacts /\ PlaceFacts /\ LiveFacts /\ LastFacts /\ SignalFacts
      /\ BusFacts /\ AttachFacts /\ CallbackFacts
  BY DEF DevInv
<1>1. PICK n \in O : hp.pc = "left" /\ hp.o = n /\ hp' = Devices!Free /\ devs = {}
  BY <1>0 DEF Devices!Left, DevTypes, Jobs, PlaceFacts
<1>2. UNCHANGED <<bus, plugs, netlink, ctx, attached, made, devs, skipped, cbs, dying, usr, held, opened, ev>>
  BY DEF Devices!Left
<1>3. ref' = [ref EXCEPT ![n] = @ - 1]
  BY <1>1 DEF Devices!Left, Devices!Unref
<1>4. /\ Leaves(n) /\ Stage(n) = 2 /\ ref[n] \in Nat /\ Users(n) \in Nat
  BY <1>0, <1>1 DEF Stage, DevTypes, Users, Devices!Count
<1>5. ref[n] = 2 + Users(n)
  BY <1>0, <1>4 DEF RefFacts, RefFact
<1>6. ref' \in [O -> Nat] /\ ref'[n] = 1 + Users(n) /\ \A o \in O : o # n => ref'[o] = ref[o]
  BY <1>0, <1>3, <1>4, <1>5 DEF DevTypes
<1>7. BusFacts' /\ AttachFacts' /\ CallbackFacts'
  BY <1>0, <1>1, <1>2 DEF BusFacts, AttachFacts, CallbackFacts, Present, Injective
<1>8. \A o \in O : Users(o)' = Users(o)
  BY <1>2 DEF Users
<1>9. CASE /\ lost' = lost \cup {n} /\ UNCHANGED <<msgs, pipe, stray>>
           /\ ctx \notin {"lists", "ready", "failing"}
  <2>1. DevTypes'
    BY <1>0, <1>1, <1>2, <1>6, <1>9 DEF DevTypes, Jobs
  <2>2. StageFacts'
    BY <1>0, <1>1, <1>2, <1>9 DEF StageFacts
  <2>3. \A o \in O : RefFact(o)'
    <3> TAKE o \in O
    <3>1. CASE o = n
      BY <1>1, <1>2, <1>6, <1>8, <1>9, <3>1 DEF RefFact, Stage
    <3>2. CASE o # n
      <4>1. Stage(o)' = Stage(o)
        BY <1>1, <1>2, <1>9, <3>2 DEF Stage
      <4> QED
        BY <1>0, <1>6, <1>8, <3>2, <4>1 DEF RefFact, RefFacts
    <3> QED
      BY <3>1, <3>2
  <2>4. PlaceFacts'
    BY <1>0, <1>1, <1>2, <1>9 DEF PlaceFacts
  <2>5. msgs = <<>> /\ ev = Devices!Sleeping
    BY <1>0, <1>1, <1>9 DEF PlaceFacts, DevTypes
  <2>6. LiveFacts' /\ LastFacts' /\ SignalFacts'
    BY <1>0, <1>1, <1>2, <1>9, <2>5 DEF LiveFacts, LastFacts, SignalFacts, Later
  <2> QED
    BY <1>7, <2>1, <2>2, <2>3, <2>4, <2>6 DEF DevInv, RefFacts
<1>10. CASE Devices!Notification("left", hp.o) /\ ctx \in {"lists", "ready", "failing"}
  <2> DEFINE m == [event |-> "left", o |-> n]
  <2>1. m \in Msgs /\ m.event = "left" /\ m.o = n
    BY DEF Msgs
  <2>2. msgs' = Append(msgs, m) /\ lost' = lost
    BY <1>1, <1>10 DEF Devices!Notification
  <2> HIDE DEF m
  <2>3. /\ msgs' \in Seq(Msgs) /\ Len(msgs) \in Nat /\ Len(msgs') = Len(msgs) + 1
        /\ \A k \in 1..Len(msgs) : msgs'[k] = msgs[k]
        /\ msgs'[Len(msgs) + 1] = m /\ msgs' # <<>>
    BY <1>0, <2>1, <2>2, Appended
  <2>4. \A k \in 1..Len(msgs') : k \in 1..Len(msgs) \/ k = Len(msgs) + 1
    BY <2>3
  <2>5. 1..Len(msgs) \subseteq 1..Len(msgs') /\ Len(msgs) + 1 \in 1..Len(msgs')
    BY <2>3
  <2>6. \A o \in O : Queued(o)' <=> Queued(o) \/ o = n
    BY <2>1, <2>3, <2>4, <2>5
  <2>7. ~Queued(n) /\ ~Handled(n) /\ ~Lost(n)
    BY <1>0, <1>4 DEF StageFacts
  <2>8. DevTypes'
    <3>1. pipe' \in BOOLEAN /\ stray' \in BOOLEAN
      BY <1>0, <1>10 DEF DevTypes, Devices!Notification
    <3> QED
      BY <1>0, <1>1, <1>2, <1>6, <2>2, <2>3, <3>1 DEF DevTypes, Jobs
  <2>9. StageFacts'
    <3>1. \A o \in O : \A j, k \in 1..Len(msgs') : Left(msgs'[j], o) /\ Left(msgs'[k], o) => j = k
      BY <1>0, <2>1, <2>3, <2>4, <2>7 DEF StageFacts
    <3>2. ~(n > made)
      BY <1>0, <1>4 DEF StageFacts
    <3> HIDE DEF Queued
    <3> QED
      BY <1>0, <1>1, <1>2, <2>2, <2>6, <2>7, <3>1, <3>2 DEF StageFacts
  <2>10. \A o \in O : RefFact(o)'
    <3> TAKE o \in O
    <3> HIDE DEF Queued
    <3>1. CASE o = n
      <4>1. Stage(n)' = 1
        BY <1>1, <1>2, <2>2, <2>6 DEF Stage
      <4> QED
        BY <1>6, <1>8, <3>1, <4>1 DEF RefFact
    <3>2. CASE o # n
      <4>1. Stage(o)' = Stage(o)
        BY <1>1, <1>2, <2>2, <2>6, <3>2 DEF Stage
      <4> QED
        BY <1>0, <1>6, <1>8, <3>2, <4>1 DEF RefFact, RefFacts
    <3> QED
      BY <3>1, <3>2
  <2>11. PlaceFacts'
    BY <1>0, <1>1, <1>2, <1>10 DEF PlaceFacts
  <2>12. LiveFacts'
    BY <1>0, <1>1, <1>2, <2>1, <2>3, <2>4, <2>5 DEF LiveFacts, Later
  <2>13. LastFacts'
    BY <1>0, <1>1, <1>2, <2>1, <2>3, <2>4, <2>5 DEF LastFacts
  <2>14. SignalFacts'
    BY <1>0, <1>2, <1>10 DEF SignalFacts, Devices!Notification
  <2> QED
    BY <1>7, <2>8, <2>9, <2>10, <2>11, <2>12, <2>13, <2>14 DEF DevInv, RefFacts
<1> QED
  BY <1>1, <1>9, <1>10 DEF Devices!Left, Devices!NotifyWhenReady

\* One event of the socket, read by the monitor or by libusb_get_device_list().
LEMMA ReadStep ==
    ASSUME DevInv, NEW t \in {"monitor", "user"}, Devices!Read(t), ctx \in {"monitor", "scanned", "lists", "ready", "failing", "exiting"}
    PROVE  DevInv'
<1>0. /\ DevTypes /\ StageFacts /\ RefFacts /\ PlaceFacts /\ LiveFacts /\ LastFacts /\ SignalFacts
      /\ BusFacts /\ AttachFacts /\ CallbackFacts
  BY DEF DevInv
<1>1. /\ hp = Devices!Free /\ netlink # <<>> /\ netlink' = Tail(netlink)
      /\ UNCHANGED <<bus, plugs, ctx, msgs, pipe, stray, lost, cbs, dying, usr, held, opened, ev>>
  BY DEF Devices!Read
<1>2. /\ Head(netlink) = netlink[1] /\ Len(netlink) \in Nat /\ Len(netlink) > 0
      /\ netlink[1] \in {"add", "remove"}
      /\ Tail(netlink) \in Seq({"add", "remove"}) /\ Len(Tail(netlink)) = Len(netlink) - 1
      /\ \A k \in 1..(Len(netlink) - 1) : Tail(netlink)[k] = netlink[k + 1]
  BY <1>0, <1>1, Socket
<1>3. /\ netlink' \in Seq({"add", "remove"}) /\ Len(netlink') = Len(netlink) - 1
      /\ \A k \in 1..Len(netlink') : netlink'[k] = netlink[k + 1]
      /\ netlink' # <<>> => Len(netlink') > 0
      /\ Len(netlink) > 1 \/ netlink' = <<>>
  BY <1>1, <1>2, EmptySeq
<1>4. SignalFacts' /\ CallbackFacts'
  BY <1>0, <1>1 DEF SignalFacts, CallbackFacts, Injective
\* The other events say what the last one says.
<1>5. netlink' # <<>> => netlink'[Len(netlink')] = IF bus' THEN "add" ELSE "remove"
  <2> SUFFICES ASSUME netlink' # <<>> PROVE netlink'[Len(netlink')] = IF bus THEN "add" ELSE "remove"
    BY <1>1
  <2>1. Len(netlink') \in 1..Len(netlink') /\ Len(netlink') + 1 = Len(netlink)
    BY <1>2, <1>3
  <2> QED
    BY <1>0, <1>1, <1>3, <2>1 DEF BusFacts
<1>6. netlink' = <<>> => netlink[1] = IF bus THEN "add" ELSE "remove"
  <2> SUFFICES ASSUME netlink' = <<>> PROVE netlink[1] = IF bus THEN "add" ELSE "remove"
    OBVIOUS
  <2>1. Len(netlink') = 0
    BY EmptySeq
  <2>2. Len(netlink') = Len(netlink) - 1 /\ Len(netlink) \in Nat
    BY <1>2, <1>3
  <2>3. Len(netlink) = 1
    BY <2>1, <2>2
  <2> QED
    BY <1>0, <1>1, <2>3 DEF BusFacts
<1>7. CASE ctx = "exiting"
  <2>1. UNCHANGED <<ref, attached, made, devs, skipped, hp>>
    BY <1>7 DEF Devices!Read, Devices!Listed
  <2>2. DevTypes' /\ StageFacts' /\ PlaceFacts'
    BY <1>0, <1>1, <1>3, <1>7, <2>1 DEF DevTypes, StageFacts, PlaceFacts, Connecting, OnList, Leaves, Left, Queued, Handled, Lost, Opening
  <2>3. \A o \in O : RefFact(o)'
    BY <1>0, <1>1, <2>1 DEF RefFact, RefFacts, Stage, Users, Connecting, OnList, Leaves, Left, Queued, Handled, Lost, Opening
  <2>4. LiveFacts' /\ LastFacts' /\ AttachFacts'
    BY <1>0, <1>1, <2>1 DEF LiveFacts, LastFacts, AttachFacts, Later, OnList, Leaves, Left
  <2>5. BusFacts'
    BY <1>0, <1>1, <1>5, <1>7, <2>1 DEF BusFacts, PlaceFacts, Present
  <2> QED
    BY <1>4, <2>2, <2>3, <2>4, <2>5 DEF DevInv, RefFacts
<1>8. CASE ctx # "exiting" /\ netlink[1] = "add" /\ Devices!Enumerate(t) /\ UNCHANGED <<attached, devs>>
  <2>1. /\ hp' \in Jobs /\ ref' \in [O -> Nat] /\ made' \in 0..MaxObjs /\ skipped' \in BOOLEAN
        /\ StageFacts' /\ RefFacts' /\ LiveFacts' /\ LastFacts'
    BY <1>0, <1>1, <1>8, EnumerateStep
  <2>2. DevTypes'
    BY <1>0, <1>1, <1>3, <1>8, <2>1 DEF DevTypes
  <2>3. \/ devs # {} /\ hp' = Devices!Free /\ skipped' = skipped
        \/ devs = {} /\ hp'.pc = "connect" /\ skipped' = FALSE
        \/ devs = {} /\ hp' = Devices!Free /\ skipped' = TRUE
    BY <1>8 DEF Devices!Enumerate, Devices!NewDevice, Devices!Rejected
  <2>4. PlaceFacts'
    BY <1>0, <1>1, <1>8, <2>3 DEF PlaceFacts
  <2>5. BusFacts'
    <3>1. usr'.pc = "opening" /\ usr'.o \in attached' => \E k \in 1..Len(netlink') : netlink'[k] = "remove"
      <4> SUFFICES ASSUME usr.pc = "opening" /\ usr.o \in attached
                   PROVE  \E k \in 1..Len(netlink') : netlink'[k] = "remove"
        BY <1>1, <1>8
      <4>1. PICK k \in 1..Len(netlink) : netlink[k] = "remove"
        BY <1>0 DEF BusFacts
      <4>2. k # 1 /\ k - 1 \in 1..Len(netlink') /\ (k - 1) + 1 = k
        BY <1>2, <1>3, <1>8, <4>1
      <4> QED
        BY <1>3, <4>1, <4>2
    <3>2. Present' <=> devs # {} \/ hp'.pc = "connect"
      BY <1>8 DEF Present
    <3> QED
      BY <1>0, <1>1, <1>2, <1>5, <1>6, <1>8, <2>3, <3>1, <3>2 DEF BusFacts, Present
  <2>6. AttachFacts'
    BY <1>0, <1>1, <1>8 DEF AttachFacts
  <2> QED
    BY <1>4, <2>1, <2>2, <2>4, <2>5, <2>6 DEF DevInv
<1>9. CASE ctx # "exiting" /\ netlink[1] = "remove" /\ Devices!Disconnect(t) /\ UNCHANGED <<made, skipped>>
  <2>0. \A o \in O : Opening(o)' = Opening(o)
    BY <1>1 DEF Opening
  <2>1. /\ hp' \in Jobs /\ ref' \in [O -> Nat] /\ attached' = attached \ devs /\ devs' = {}
        /\ hp' = Devices!Free \/ hp'.pc = "left"
        /\ StageFacts' /\ RefFacts' /\ LiveFacts' /\ LastFacts'
    BY <1>0, <1>1, <1>9, <2>0, DisconnectStep
  <2>2. DevTypes'
    BY <1>0, <1>1, <1>3, <1>9, <2>1 DEF DevTypes
  <2>3. PlaceFacts'
    BY <1>0, <1>1, <1>9, <2>1 DEF PlaceFacts
  <2>4. BusFacts'
    <3>1. usr.pc = "opening" => usr'.o \notin attached'
      BY <1>0, <1>1, <2>1 DEF AttachFacts
    <3>2. ~Present'
      BY <2>1 DEF Present
    <3> QED
      BY <1>0, <1>1, <1>2, <1>5, <1>6, <1>9, <3>1, <3>2 DEF BusFacts
  <2>5. AttachFacts'
    BY <1>0, <1>1, <2>1 DEF AttachFacts
  <2> QED
    BY <1>4, <2>1, <2>2, <2>3, <2>4, <2>5 DEF DevInv
<1> QED
  BY <1>2, <1>7, <1>8, <1>9 DEF Devices!Read, Devices!Listed, Devices!NextEvent

\* The bus changes, and the socket says so.
LEMMA PlugStep == ASSUME DevInv, Devices!Plug PROVE DevInv'
<1>0. /\ DevTypes /\ StageFacts /\ RefFacts /\ PlaceFacts /\ LiveFacts /\ LastFacts /\ SignalFacts
      /\ BusFacts /\ AttachFacts /\ CallbackFacts
  BY DEF DevInv
<1>1. /\ bus' = ~bus /\ plugs < MaxPlugs /\ plugs' = plugs + 1
      /\ UNCHANGED <<ctx, ref, attached, made, devs, msgs, pipe, stray, lost, skipped, hp, cbs, dying, usr, held, opened, ev>>
  BY DEF Devices!Plug
<1>2. \/ /\ ctx \notin {"none", "listed"}
         /\ netlink' \in Seq({"add", "remove"}) /\ Len(netlink) \in Nat /\ Len(netlink') = Len(netlink) + 1
         /\ \A k \in 1..Len(netlink) : netlink'[k] = netlink[k]
         /\ netlink'[Len(netlink')] = IF bus THEN "remove" ELSE "add"
         /\ netlink' # <<>>
      \/ netlink' = netlink /\ ctx \in {"none", "listed"}
  <2>1. netlink \in Seq({"add", "remove"})
    BY <1>0 DEF DevTypes
  <2>2. PICK e \in {"add", "remove"} : e = IF bus THEN "remove" ELSE "add"
    OBVIOUS
  <2>3. \/ netlink' = Append(netlink, e) /\ ctx \notin {"none", "listed"}
        \/ netlink' = netlink /\ ctx \in {"none", "listed"}
    BY <1>0, <2>2 DEF Devices!Plug, Devices!Monitoring, DevTypes
  <2> QED
    BY <2>1, <2>2, <2>3, AppendProperties, LenProperties
<1>3. DevTypes'
  BY <1>0, <1>1, <1>2, DevicesAssumption DEF DevTypes
<1>4. StageFacts'
  BY <1>0, <1>1 DEF StageFacts, Connecting, OnList, Leaves, Left, Queued, Handled, Lost, Opening
<1>5. \A o \in O : RefFact(o)'
  BY <1>0, <1>1 DEF RefFact, RefFacts, Stage, Users, Connecting, OnList, Leaves, Left, Queued, Handled, Lost, Opening
<1>6. LiveFacts' /\ LastFacts' /\ AttachFacts' /\ SignalFacts' /\ CallbackFacts'
  BY <1>0, <1>1 DEF LiveFacts, LastFacts, AttachFacts, SignalFacts, CallbackFacts, Later, OnList, Leaves, Left, Injective
<1>7. PlaceFacts'
  BY <1>0, <1>1, <1>2 DEF PlaceFacts
<1>8. BusFacts'
  <2>1. CASE netlink' = netlink /\ ctx \in {"none", "listed"}
    BY <1>0, <1>1, <2>1 DEF BusFacts, PlaceFacts, Present
  <2>2. CASE netlink' # <<>> /\ netlink'[Len(netlink')] = (IF bus THEN "remove" ELSE "add")
             /\ Len(netlink) \in Nat /\ Len(netlink') = Len(netlink) + 1
             /\ \A k \in 1..Len(netlink) : netlink'[k] = netlink[k]
    <3>1. netlink'[Len(netlink')] = IF bus' THEN "add" ELSE "remove"
      BY <1>0, <1>1, <2>2 DEF DevTypes
    <3>2. (\E k \in 1..Len(netlink) : netlink[k] = "remove") => \E k \in 1..Len(netlink') : netlink'[k] = "remove"
      BY <2>2
    <3> QED
      BY <1>0, <1>1, <2>2, <3>1, <3>2 DEF BusFacts, Present
  <2> QED
    BY <1>2, <2>1, <2>2
<1> QED
  BY <1>3, <1>4, <1>5, <1>6, <1>7, <1>8 DEF DevInv, RefFacts

\* The steps of libusb_init() that leave the devices alone.
LEMMA InitSteps ==
    ASSUME DevInv, \/ Devices!InitStart \/ Devices!StartMonitor
                   \/ Devices!IoInitLists \/ Devices!IoInitPipe \/ Devices!ExitStart
    PROVE  DevInv'
<1>0. /\ DevTypes /\ StageFacts /\ RefFacts /\ PlaceFacts /\ LiveFacts /\ LastFacts /\ SignalFacts
      /\ BusFacts /\ AttachFacts /\ CallbackFacts
  BY DEF DevInv
<1> USE DEF Devices!InitStart, Devices!StartMonitor, Devices!IoInitLists, Devices!IoInitPipe, Devices!ExitStart
<1>1. /\ UNCHANGED <<bus, plugs, ref, attached, made, devs, msgs, pipe, stray, lost, skipped, hp, cbs, dying, usr, held, opened, ev>>
      /\ netlink' = netlink \/ (netlink' = <<>> /\ ctx = "listed")
  OBVIOUS
<1>2. DevTypes'
  <2>1. netlink' \in Seq({"add", "remove"})
    BY <1>0, <1>1, EmptySeq DEF DevTypes
  <2>2. ctx' \in {"none", "listed", "monitor", "scanned", "lists", "ready", "exiting", "failing"}
    OBVIOUS
  <2> QED
    BY <1>0, <1>1, <2>1, <2>2 DEF DevTypes
<1>3. StageFacts'
  BY <1>0, <1>1 DEF StageFacts, Connecting, OnList, Leaves, Left, Queued, Handled, Lost, Opening
<1>4. \A o \in O : RefFact(o)'
  BY <1>0, <1>1 DEF RefFact, RefFacts, Stage, Users, Connecting, OnList, Leaves, Left, Queued, Handled, Lost, Opening
<1>5. LiveFacts' /\ LastFacts' /\ CallbackFacts'
  BY <1>0, <1>1 DEF LiveFacts, LastFacts, CallbackFacts, Later, OnList, Leaves, Left, Injective
<1>6. PlaceFacts'
  BY <1>0, <1>1 DEF PlaceFacts
<1>7. SignalFacts'
  BY <1>0, <1>1 DEF PlaceFacts, SignalFacts
<1>8. BusFacts'
  BY <1>0, <1>1 DEF PlaceFacts, BusFacts, Present
<1>9. AttachFacts'
  BY <1>0, <1>1 DEF PlaceFacts, AttachFacts
<1> QED
  BY <1>2, <1>3, <1>4, <1>5, <1>6, <1>7, <1>8, <1>9 DEF DevInv, RefFacts

\* linux_scan_devices(): what is on the bus.
LEMMA ScanStep == ASSUME DevInv, Devices!Scan PROVE DevInv'
<1>0. /\ DevTypes /\ StageFacts /\ RefFacts /\ PlaceFacts /\ LiveFacts /\ LastFacts /\ SignalFacts
      /\ BusFacts /\ AttachFacts /\ CallbackFacts
  BY DEF DevInv
<1>1. /\ hp = Devices!Free /\ ctx = "monitor" /\ ctx' \in {"scanned", "failing"}
      /\ UNCHANGED <<bus, plugs, netlink, attached, devs, msgs, pipe, stray, lost, cbs, dying, usr, held, opened, ev>>
  BY DEF Devices!Scan
<1>2. msgs = <<>> /\ held = {} /\ usr = Devices!AtRest /\ opened = {} /\ ev = Devices!Sleeping
  BY <1>0, <1>1 DEF PlaceFacts
<1>3. SignalFacts' /\ CallbackFacts' /\ AttachFacts'
  BY <1>0, <1>1, <1>2 DEF SignalFacts, CallbackFacts, Injective, AttachFacts
<1>4. CASE bus /\ Devices!Enumerate("user")
  <2>1. /\ hp' \in Jobs /\ ref' \in [O -> Nat] /\ made' \in 0..MaxObjs /\ skipped' \in BOOLEAN
        /\ StageFacts' /\ RefFacts' /\ LiveFacts' /\ LastFacts'
    BY <1>0, <1>1, <1>4, EnumerateStep
  <2>2. DevTypes'
    BY <1>0, <1>1, <1>4, <2>1 DEF DevTypes
  <2>3. \/ devs # {} /\ hp' = Devices!Free /\ skipped' = skipped
        \/ devs = {} /\ hp'.pc = "connect" /\ skipped' = FALSE
        \/ devs = {} /\ hp' = Devices!Free /\ skipped' = TRUE
    BY <1>4 DEF Devices!Enumerate, Devices!NewDevice, Devices!Rejected
  <2>4. PlaceFacts'
    BY <1>0, <1>1, <1>2, <2>3 DEF PlaceFacts
  <2>5. BusFacts'
    BY <1>0, <1>1, <1>2, <1>4, <2>3 DEF BusFacts, Present
  <2> QED
    BY <1>3, <2>1, <2>2, <2>4, <2>5 DEF DevInv
<1>5. CASE ~bus /\ UNCHANGED <<ref, made, skipped, hp>>
  <2>1. DevTypes' /\ StageFacts' /\ PlaceFacts'
    BY <1>0, <1>1, <1>2, <1>5 DEF DevTypes, StageFacts, PlaceFacts, Connecting, OnList, Leaves, Left, Queued, Handled, Lost, Opening
  <2>2. \A o \in O : RefFact(o)'
    BY <1>0, <1>1, <1>5 DEF RefFact, RefFacts, Stage, Users, Connecting, OnList, Leaves, Left, Queued, Handled, Lost, Opening
  <2>3. LiveFacts' /\ LastFacts' /\ BusFacts'
    BY <1>0, <1>1, <1>2, <1>5 DEF LiveFacts, LastFacts, BusFacts, Present, Later, OnList, Leaves, Left
  <2> QED
    BY <1>3, <2>1, <2>2, <2>3 DEF DevInv, RefFacts
<1> QED
  BY <1>0, <1>4, <1>5 DEF Devices!Scan, DevTypes

\* The devices whose removal waits in a message.
LEMMA GoneQueued == ASSUME DevTypes, NEW o \in O PROVE o \in Devices!Gone <=> Queued(o)
<1>1. msgs \in Seq(Msgs)
  BY DEF DevTypes
<1>2. DOMAIN msgs = 1..Len(msgs)
  BY <1>1, LenProperties
<1> QED
  BY <1>2 DEF Devices!Gone, Devices!ToSet, Queued, Left

\* The context goes: with libusb_exit(), or because libusb_init() failed.
LEMMA EndSteps == ASSUME DevInv, Devices!ExitEnd \/ Devices!InitFails PROVE DevInv'
<1>0. /\ DevTypes /\ StageFacts /\ RefFacts /\ PlaceFacts /\ LiveFacts /\ LastFacts /\ SignalFacts
      /\ BusFacts /\ AttachFacts /\ CallbackFacts
  BY DEF DevInv
<1>1. /\ hp = Devices!Free /\ ctx \in {"exiting", "failing"} /\ ctx' = "none" /\ netlink' = <<>>
      /\ devs' = {} /\ msgs' = <<>> /\ stray' = FALSE /\ pipe' \in BOOLEAN
      /\ UNCHANGED <<bus, plugs, attached, made, skipped, hp, usr, held, opened, ev>>
  BY <1>0 DEF Devices!ExitEnd, Devices!InitFails, Devices!DropAll, DevTypes
<1>2. ev = Devices!Sleeping /\ usr = Devices!AtRest /\ opened = {}
  BY <1>0, <1>1 DEF PlaceFacts
<1>3. CallbackFacts'
  <2>1. CASE cbs' = <<>> /\ dying' = {}
    BY <1>0, <1>1, <2>1, EmptySeq DEF CallbackFacts, Injective
  <2>2. CASE UNCHANGED <<cbs, dying>>
    BY <1>0, <1>1, <2>2 DEF CallbackFacts, Injective
  <2> QED
    BY <2>1, <2>2 DEF Devices!ExitEnd, Devices!InitFails
<1>4. Len(msgs') = 0 /\ msgs' \in Seq(Msgs) /\ netlink' \in Seq({"add", "remove"})
  BY <1>1, EmptySeq
<1>5. LiveFacts' /\ LastFacts' /\ SignalFacts' /\ BusFacts' /\ PlaceFacts' /\ AttachFacts'
  BY <1>0, <1>1, <1>2, <1>4 DEF LiveFacts, LastFacts, SignalFacts, BusFacts, PlaceFacts, AttachFacts, Present
<1>6. lost' \in SUBSET O /\ \A o \in O : Lost(o)' <=> Lost(o) \/ (Queued(o) /\ ctx = "failing")
  <2>1. CASE Devices!ExitEnd
    BY <1>0, <2>1 DEF Devices!ExitEnd, Lost, DevTypes
  <2>2. CASE Devices!InitFails
    <3>1. Devices!Gone \subseteq O
      <4>1. msgs \in Seq(Msgs)
        BY <1>0 DEF DevTypes
      <4>2. \A k \in 1..Len(msgs) : msgs[k] \in Msgs
        BY <4>1, ElementOfSeq
      <4> QED
        BY <4>1, <4>2, LenProperties DEF Devices!Gone, Devices!ToSet, Msgs
    <3>2. lost' = lost \cup Devices!Gone /\ ctx = "failing"
      BY <2>2 DEF Devices!InitFails
    <3> QED
      BY <1>0, <3>1, <3>2, GoneQueued DEF Lost, DevTypes
  <2> QED
    BY <2>1, <2>2
<1>7. StageFacts'
  BY <1>0, <1>1, <1>2, <1>4, <1>6 DEF StageFacts, Connecting, OnList, Leaves, Left, Queued, Handled, Lost, Opening
<1>8. \A o \in O : ref'[o] \in Nat /\ RefFact(o)'
  <2> TAKE o \in O
  <2>1. Users(o)' = Users(o) /\ Users(o) \in Nat
    BY <1>1 DEF Users, Opening, Devices!Count
  <2>2. ref[o] = Stage(o) + Users(o)
    BY <1>0 DEF RefFacts, RefFact
  <2>3. ref'[o] = IF o \in devs \/ (Queued(o) /\ ctx = "exiting") THEN ref[o] - 1 ELSE ref[o]
    <3>1. CASE Devices!ExitEnd
      <4>1. ref'[o] = ref[o] - (IF o \in devs THEN 1 ELSE 0) - (IF Queued(o) THEN 1 ELSE 0) /\ ctx = "exiting"
        BY <1>0, <3>1, GoneQueued DEF Devices!ExitEnd, Devices!DropAll, O
      <4>2. ~(o \in devs /\ Queued(o)) /\ ref[o] \in Nat
        BY <1>0 DEF StageFacts, OnList, DevTypes
      <4> QED
        BY <4>1, <4>2
    <3>2. CASE Devices!InitFails
      <4>1. ref'[o] = ref[o] - (IF o \in devs THEN 1 ELSE 0) /\ ctx = "failing"
        BY <3>2 DEF Devices!InitFails, O
      <4>2. ref[o] \in Nat
        BY <1>0 DEF DevTypes
      <4> QED
        BY <4>1, <4>2
    <3> QED
      BY <3>1, <3>2
  <2>4. Stage(o)' = IF Lost(o)' THEN 1 ELSE 0
    BY <1>1, <1>2, <1>4 DEF Stage, Connecting, OnList, Leaves, Left, Queued, Handled
  <2>5. Stage(o) = IF OnList(o) \/ Queued(o) \/ Lost(o) THEN 1 ELSE 0
    BY <1>1, <1>2 DEF Stage, Connecting, Leaves, Left, Handled
  <2>6. OnList(o) => ~Queued(o) /\ ~Lost(o)
    BY <1>0 DEF StageFacts
  <2>7. Queued(o) => ~Lost(o)
    BY <1>0 DEF StageFacts
  <2>8. Lost(o)' <=> Lost(o) \/ (Queued(o) /\ ctx = "failing")
    BY <1>6
  <2>9. o \in devs <=> OnList(o)
    BY DEF OnList
  <2>10. ref'[o] = Stage(o)' + Users(o)
    <3>1. CASE OnList(o)
      BY <1>1, <2>1, <2>2, <2>3, <2>4, <2>5, <2>6, <2>8, <2>9, <3>1
    <3>2. CASE ~OnList(o) /\ Queued(o)
      BY <1>1, <2>1, <2>2, <2>3, <2>4, <2>5, <2>7, <2>8, <2>9, <3>2
    <3>3. CASE ~OnList(o) /\ ~Queued(o)
      BY <1>1, <2>1, <2>2, <2>3, <2>4, <2>5, <2>8, <2>9, <3>3
    <3> QED
      BY <3>1, <3>2, <3>3
  <2>11. Stage(o)' \in Nat
    BY <2>4
  <2> QED
    BY <2>1, <2>10, <2>11 DEF RefFact
<1>9. DevTypes'
  <2>1. ref' \in [O -> Nat]
    <3>1. ref' = [o \in O |-> ref'[o]]
      BY DEF Devices!ExitEnd, Devices!InitFails, Devices!DropAll, O
    <3> QED
      BY <1>8, <3>1
  <2> QED
    BY <1>0, <1>1, <1>4, <1>6, <2>1 DEF DevTypes
<1> QED
  BY <1>3, <1>5, <1>7, <1>8, <1>9 DEF DevInv, RefFacts

\* The user's thread takes a reference or gives one up: what the other facts need.
LEMMA UserStep ==
    ASSUME DevInv,
           UNCHANGED <<bus, plugs, netlink, ctx, attached, made, devs, msgs, pipe, stray, lost,
                       skipped, hp, cbs, dying, ev>>,
           ctx = "ready" \/ (usr' = usr /\ opened' = opened /\ held' \subseteq held),
           usr' \in Calls, held' \in SUBSET O, opened' \in SUBSET O,
           held' \subseteq held \cup devs, opened' \subseteq opened \cup held,
           usr'.pc = "opening" => usr' = usr \/ (~bus /\ usr'.o \in held),
           usr'.pc = "unopened" => usr' = usr,
           \A o \in O : ref'[o] \in Nat /\ ref'[o] + Users(o) = ref[o] + Users(o)',
           ref' = [o \in O |-> ref'[o]]
    PROVE  DevInv'
<1>0. /\ DevTypes /\ StageFacts /\ RefFacts /\ PlaceFacts /\ LiveFacts /\ LastFacts /\ SignalFacts
      /\ BusFacts /\ AttachFacts /\ CallbackFacts
  BY DEF DevInv
<1>1. DevTypes'
  <2>1. ref' \in [O -> Nat]
    OBVIOUS
  <2> QED
    BY <1>0, <2>1 DEF DevTypes
<1>2. StageFacts'
  <2>1. \A o \in O : o \in held' \cup opened' \/ Opening(o)' =>
                       o \in held \cup opened \cup devs \/ Opening(o)
    BY DEF Opening
  <2> QED
    BY <1>0, <2>1 DEF StageFacts, Connecting, OnList, Leaves, Left, Queued, Handled, Lost
<1>3. \A o \in O : RefFact(o)'
  <2> TAKE o \in O
  <2>1. Stage(o)' = Stage(o) /\ Stage(o) \in Nat
    BY DEF Stage, Connecting, OnList, Leaves, Left, Queued, Handled, Lost
  <2>2. Users(o) \in Nat /\ Users(o)' \in Nat
    BY DEF Users, Devices!Count
  <2>3. ref[o] = Stage(o) + Users(o) /\ ref'[o] + Users(o) = ref[o] + Users(o)' /\ ref'[o] \in Nat
    BY <1>0 DEF RefFacts, RefFact
  <2> QED
    BY <2>1, <2>2, <2>3 DEF RefFact
<1>4. LiveFacts' /\ LastFacts' /\ SignalFacts' /\ CallbackFacts'
  BY <1>0 DEF LiveFacts, LastFacts, SignalFacts, CallbackFacts, Injective, Later, OnList, Leaves, Left
<1>5. PlaceFacts'
  BY <1>0 DEF PlaceFacts
<1>6. AttachFacts'
  BY <1>0 DEF AttachFacts, PlaceFacts, DevTypes
<1>7. BusFacts'
  <2>1. usr'.pc = "opening" /\ usr'.o \in attached => \E k \in 1..Len(netlink) : netlink[k] = "remove"
    <3> SUFFICES ASSUME usr'.pc = "opening", usr'.o \in attached
                 PROVE  \E k \in 1..Len(netlink) : netlink[k] = "remove"
      OBVIOUS
    <3>1. CASE usr' = usr
      BY <1>0, <3>1 DEF BusFacts
    <3>2. CASE usr'.o \in held /\ ~bus
      <4>1. ctx = "ready" /\ devs # {}
        BY <1>0, <3>2 DEF AttachFacts, PlaceFacts
      <4>2. netlink # <<>> /\ netlink[Len(netlink)] = "remove"
        BY <1>0, <3>2, <4>1 DEF BusFacts, Present
      <4>3. Len(netlink) \in 1..Len(netlink)
        BY <1>0, <4>2, EmptySeq DEF DevTypes
      <4> QED
        BY <4>2, <4>3
    <3> QED
      BY <3>1, <3>2
  <2> QED
    BY <1>0, <2>1 DEF BusFacts, Present
<1> QED
  BY <1>1, <1>2, <1>3, <1>4, <1>5, <1>6, <1>7 DEF DevInv, RefFacts

\* libusb_get_device_list() and libusb_free_device_list()
LEMMA ListSteps ==
    ASSUME DevInv, Devices!GetDeviceList \/ Devices!RegisterEnumerate \/ Devices!FreeDeviceList
    PROVE  DevInv'
<1>0. DevTypes /\ PlaceFacts /\ RefFacts
  BY DEF DevInv
<1>1. CASE Devices!GetDeviceList \/ Devices!RegisterEnumerate
  <2>1. /\ UNCHANGED <<bus, plugs, netlink, ctx, attached, made, devs, msgs, pipe, stray, lost,
                       skipped, hp, cbs, dying, opened, ev>>
        /\ held = {} /\ held' = devs
        /\ ref' = [o \in O |-> ref[o] + (IF o \in devs THEN 1 ELSE 0)]
    BY <1>1 DEF Devices!GetDeviceList, Devices!RegisterEnumerate, Devices!TakeList, O
  <2>2. /\ ctx = "ready" /\ usr' \in Calls /\ usr.pc \in {"rest", "enumerate"}
        /\ usr'.pc \in {"rest", "enumerated"}
    <3>1. CASE usr = Devices!AtRest /\ usr' = Devices!AtRest /\ ctx = "ready"
      BY <1>0, <3>1 DEF DevTypes
    <3>2. CASE usr.pc = "enumerate" /\ usr' = [usr EXCEPT !.pc = "enumerated"]
      <4>1. ctx = "ready"
        BY <1>0, <3>2 DEF PlaceFacts
      <4>2. usr = [pc |-> usr.pc, c |-> usr.c, o |-> usr.o] /\ usr.c \in Callbacks \cup {None} /\ usr.o \in 0..MaxObjs
        BY <1>0 DEF DevTypes, Calls
      <4>3. usr' = [pc |-> "enumerated", c |-> usr.c, o |-> usr.o]
        BY <3>2, <4>2
      <4> QED
        BY <3>2, <4>1, <4>2, <4>3 DEF Calls
    <3> QED
      BY <1>1, <3>1, <3>2 DEF Devices!GetDeviceList, Devices!RegisterEnumerate, Devices!TakeList
  <2>3. \A o \in O : ref'[o] \in Nat /\ ref'[o] + Users(o) = ref[o] + Users(o)'
    <3> TAKE o \in O
    <3>1. ref'[o] = ref[o] + (IF o \in devs THEN 1 ELSE 0) /\ ref[o] \in Nat
      BY <1>0, <2>1 DEF DevTypes
    <3>2. Devices!Count(o \in opened)' = Devices!Count(o \in opened)
      BY <2>1 DEF Devices!Count
    <3>3. ~Opening(o) /\ ~Opening(o)'
      BY <2>2 DEF Opening
    <3>4. Users(o) = Devices!Count(o \in opened) /\ Devices!Count(o \in opened) \in Nat
      BY <2>1, <3>3 DEF Users, Devices!Count
    <3>5. Users(o)' = (IF o \in devs THEN 1 ELSE 0) + Devices!Count(o \in opened)
      BY <2>1, <3>2, <3>3 DEF Users, Devices!Count
    <3> QED
      BY <3>1, <3>4, <3>5
  <2>4. ref' = [o \in O |-> ref'[o]]
    BY <2>1
  <2> QED
    BY <1>0, <2>1, <2>2, <2>3, <2>4, UserStep DEF DevTypes
<1>2. CASE Devices!FreeDeviceList
  <2>1. /\ UNCHANGED <<bus, plugs, netlink, ctx, attached, made, devs, msgs, pipe, stray, lost,
                       skipped, hp, cbs, dying, opened, ev>>
        /\ held' = {} /\ usr' = Devices!AtRest /\ usr.pc \in {"rest", "enumerated"}
        /\ ref' = [o \in O |-> ref[o] - (IF o \in held THEN 1 ELSE 0)]
    BY <1>2 DEF Devices!FreeDeviceList, O
  <2>2. ctx # "ready" => usr' = usr
    BY <1>0, <2>1 DEF PlaceFacts
  <2>3. usr' \in Calls
    BY <2>1, DevicesAssumption DEF Calls
  <2>4. \A o \in O : ref'[o] \in Nat /\ ref'[o] + Users(o) = ref[o] + Users(o)'
    <3> TAKE o \in O
    <3>1. ref'[o] = ref[o] - (IF o \in held THEN 1 ELSE 0) /\ ref[o] \in Nat
      BY <1>0, <2>1 DEF DevTypes
    <3>2. Devices!Count(o \in opened)' = Devices!Count(o \in opened)
      BY <2>1 DEF Devices!Count
    <3>3. ~Opening(o) /\ ~Opening(o)'
      BY <2>1 DEF Opening
    <3>4. Users(o) = (IF o \in held THEN 1 ELSE 0) + Devices!Count(o \in opened)
          /\ Devices!Count(o \in opened) \in Nat
      BY <3>3 DEF Users, Devices!Count
    <3>5. Users(o)' = Devices!Count(o \in opened)
      BY <2>1, <3>2, <3>3 DEF Users, Devices!Count
    <3>6. ref[o] >= Users(o)
      BY <1>0, <3>4 DEF RefFacts, RefFact, Stage
    <3> QED
      BY <3>1, <3>4, <3>5, <3>6
  <2>5. ref' = [o \in O |-> ref'[o]]
    BY <2>1
  <2> QED
    BY <1>0, <2>1, <2>2, <2>3, <2>4, <2>5, UserStep DEF DevTypes
<1> QED
  BY <1>1, <1>2

\* libusb_open() takes a reference, libusb_close() gives it up.
LEMMA OpenSteps ==
    ASSUME DevInv, NEW n \in O, Devices!Open(n) \/ Devices!Close(n)
    PROVE  DevInv'
<1>0. DevTypes /\ PlaceFacts /\ RefFacts
  BY DEF DevInv
<1>1. CASE Devices!Open(n)
  <2>1. /\ UNCHANGED <<bus, plugs, netlink, ctx, attached, made, devs, msgs, pipe, stray, lost,
                       skipped, hp, cbs, dying, held, ev>>
        /\ ctx = "ready" /\ usr = Devices!AtRest /\ n \in held /\ n \notin opened
        /\ ref' = [ref EXCEPT ![n] = @ + 1]
        /\ \/ bus /\ opened' = opened \cup {n} /\ usr' = usr
           \/ ~bus /\ usr' = [Devices!AtRest EXCEPT !.pc = "opening", !.o = n] /\ opened' = opened
    BY <1>0, <1>1 DEF Devices!Open, DevTypes
  <2>2. /\ usr' = usr \/ (usr'.pc = "opening" /\ usr'.o = n)
        /\ usr' \in Calls
    <3> DEFINE v == Devices!AtRest
    <3>1. v \in Calls /\ v = Devices!AtRest
      BY DevicesAssumption DEF Calls
    <3> HIDE DEF v
    <3>2. n \in 0..MaxObjs
      BY DevicesAssumption DEF O
    <3>3. ASSUME usr' = [v EXCEPT !.pc = "opening", !.o = n]
          PROVE  usr' \in Calls /\ usr'.pc = "opening" /\ usr'.o = n
      BY <3>1, <3>2, <3>3 DEF Calls
    <3> QED
      BY <1>0, <2>1, <3>1, <3>3 DEF DevTypes
  <2>3. \A o \in O : ref'[o] \in Nat /\ ref'[o] + Users(o) = ref[o] + Users(o)'
    <3> TAKE o \in O
    <3>0. Devices!Count(o \in held)' = Devices!Count(o \in held) /\ Devices!Count(o \in held) \in Nat
          /\ Devices!Count(o \in opened) \in Nat
      BY <2>1 DEF Devices!Count
    <3>1. ref'[o] = (IF o = n THEN ref[o] + 1 ELSE ref[o]) /\ ref[o] \in Nat
      BY <1>0, <2>1 DEF DevTypes
    <3>2. ~Opening(o)
      BY <2>1 DEF Opening
    <3>3. Users(o) = Devices!Count(o \in held) + Devices!Count(o \in opened)
      BY <3>0, <3>2 DEF Users, Devices!Count
    <3>4. CASE bus /\ opened' = opened \cup {n} /\ usr' = usr
      <4>1. ~Opening(o)'
        BY <2>1, <3>4 DEF Opening
      <4>2. Devices!Count(o \in opened)' = Devices!Count(o \in opened) + (IF o = n THEN 1 ELSE 0)
        BY <2>1, <3>4 DEF Devices!Count
      <4>3. Users(o)' = Devices!Count(o \in held) + Devices!Count(o \in opened)'
        BY <3>0, <4>1, <4>2 DEF Users, Devices!Count
      <4> QED
        BY <3>0, <3>1, <3>3, <4>2, <4>3
    <3>5. CASE ~bus /\ usr'.pc = "opening" /\ usr'.o = n /\ opened' = opened
      <4>1. Opening(o)' <=> o = n
        BY <3>5 DEF Opening
      <4>2. Devices!Count(o \in opened)' = Devices!Count(o \in opened)
        BY <3>5 DEF Devices!Count
      <4>3. Users(o)' = Devices!Count(o \in held) + Devices!Count(o \in opened) + (IF o = n THEN 1 ELSE 0)
        BY <3>0, <4>1, <4>2 DEF Users, Devices!Count
      <4> QED
        BY <3>0, <3>1, <3>3, <4>3
    <3> QED
      BY <2>1, <3>4, <3>5
  <2>4. ref' = [o \in O |-> ref'[o]]
    BY <1>0, <2>1 DEF DevTypes
  <2>5. /\ opened' \in SUBSET O /\ opened' \subseteq opened \cup held /\ held' \in SUBSET O
        /\ usr'.pc = "opening" => usr' = usr \/ (~bus /\ usr'.o \in held)
        /\ usr'.pc = "unopened" => usr' = usr
    BY <1>0, <2>1, <2>2 DEF DevTypes
  <2> QED
    BY <2>1, <2>2, <2>3, <2>4, <2>5, UserStep
<1>2. CASE Devices!Close(n)
  <2>1. /\ UNCHANGED <<bus, plugs, netlink, ctx, attached, made, devs, msgs, pipe, stray, lost,
                       skipped, hp, cbs, dying, usr, held, ev>>
        /\ n \in opened /\ opened' = opened \ {n} /\ ref' = [ref EXCEPT ![n] = @ - 1]
    BY <1>2 DEF Devices!Close, Devices!Unref
  <2>2. ctx = "ready"
    BY <1>0, <2>1 DEF PlaceFacts
  <2>3. \A o \in O : ref'[o] \in Nat /\ ref'[o] + Users(o) = ref[o] + Users(o)'
    <3> TAKE o \in O
    <3>0. /\ Devices!Count(o \in held)' = Devices!Count(o \in held) /\ Devices!Count(o \in held) \in Nat
          /\ Devices!Count(Opening(o))' = Devices!Count(Opening(o)) /\ Devices!Count(Opening(o)) \in Nat
          /\ Devices!Count(o \in opened) = Devices!Count(o \in opened)' + (IF o = n THEN 1 ELSE 0)
          /\ Devices!Count(o \in opened)' \in Nat
      BY <2>1 DEF Devices!Count, Opening
    <3>1. ref'[o] = (IF o = n THEN ref[o] - 1 ELSE ref[o]) /\ ref[o] \in Nat
      BY <1>0, <2>1 DEF DevTypes
    <3>2. ref[o] >= Users(o)
      BY <1>0, <3>0 DEF RefFacts, RefFact, Stage, Users
    <3> QED
      BY <3>0, <3>1, <3>2 DEF Users
  <2>4. ref' = [o \in O |-> ref'[o]]
    BY <1>0, <2>1 DEF DevTypes
  <2>5. opened' \in SUBSET O /\ opened' \subseteq opened \cup held /\ held' \in SUBSET O /\ usr' \in Calls
    BY <1>0, <2>1 DEF DevTypes
  <2> QED
    BY <2>1, <2>2, <2>3, <2>4, <2>5, UserStep
<1> QED
  BY <1>1, <1>2

\* The open that found no device returns.
LEMMA OpenReturnsStep == ASSUME DevInv, Devices!OpenReturns PROVE DevInv'
<1>0. DevTypes /\ PlaceFacts /\ RefFacts /\ AttachFacts
  BY DEF DevInv
<1>1. /\ UNCHANGED <<bus, plugs, netlink, ctx, attached, made, devs, msgs, pipe, stray, lost,
                     skipped, hp, cbs, dying, held, opened, ev>>
      /\ usr.pc = "unopened" /\ usr' = Devices!AtRest /\ ref' = [ref EXCEPT ![usr.o] = @ - 1]
  BY DEF Devices!OpenReturns, Devices!Unref
<1>2. ctx = "ready" /\ usr.o \in O
  BY <1>0, <1>1 DEF PlaceFacts, AttachFacts
<1>3. \A o \in O : ref'[o] \in Nat /\ ref'[o] + Users(o) = ref[o] + Users(o)'
  <2> TAKE o \in O
  <2>0. /\ Devices!Count(o \in held)' = Devices!Count(o \in held) /\ Devices!Count(o \in held) \in Nat
        /\ Devices!Count(o \in opened)' = Devices!Count(o \in opened) /\ Devices!Count(o \in opened) \in Nat
    BY <1>1 DEF Devices!Count
  <2>1. ref'[o] = (IF o = usr.o THEN ref[o] - 1 ELSE ref[o]) /\ ref[o] \in Nat
    BY <1>0, <1>1 DEF DevTypes
  <2>2. Devices!Count(Opening(o)) = (IF o = usr.o THEN 1 ELSE 0) /\ Devices!Count(Opening(o))' = 0
    BY <1>1 DEF Devices!Count, Opening
  <2>3. ref[o] >= Users(o)
    BY <1>0, <2>0, <2>2 DEF RefFacts, RefFact, Stage, Users
  <2> QED
    BY <2>0, <2>1, <2>2, <2>3 DEF Users
<1>4. ref' = [o \in O |-> ref'[o]]
  BY <1>0, <1>1 DEF DevTypes
<1>5. usr' \in Calls /\ held' \in SUBSET O /\ opened' \in SUBSET O
  BY <1>0, <1>1, DevicesAssumption DEF Calls, DevTypes
<1> QED
  BY <1>1, <1>2, <1>3, <1>4, <1>5, UserStep

\* op_open() found no device, and the removal is handled under the lock.
LEMMA OpenFailsStep == ASSUME DevInv, Devices!OpenFails PROVE DevInv'
<1>0. /\ DevTypes /\ StageFacts /\ RefFacts /\ PlaceFacts /\ LiveFacts /\ LastFacts /\ SignalFacts
      /\ BusFacts /\ AttachFacts /\ CallbackFacts
  BY DEF DevInv
<1>1. /\ usr.pc = "opening" /\ hp = Devices!Free /\ usr' = [usr EXCEPT !.pc = "unopened"]
      /\ UNCHANGED <<bus, plugs, netlink, ctx, made, msgs, pipe, stray, lost, skipped, cbs, dying, held, opened, ev>>
  BY DEF Devices!OpenFails
<1>2. usr' \in Calls /\ usr'.pc = "unopened" /\ usr'.o = usr.o
  BY <1>0, <1>1 DEF DevTypes, Calls
<1>3. \A o \in O : Opening(o)' = Opening(o)
  BY <1>1, <1>2 DEF Opening
<1>4. ctx = "ready"
  BY <1>0, <1>1 DEF PlaceFacts
<1>5. SignalFacts' /\ CallbackFacts'
  BY <1>0, <1>1 DEF SignalFacts, CallbackFacts, Injective
<1>6. CASE usr.o \in attached /\ Devices!Disconnect("user")
  <2>1. /\ hp' \in Jobs /\ ref' \in [O -> Nat] /\ attached' = attached \ devs /\ devs' = {}
        /\ hp' = Devices!Free \/ hp'.pc = "left"
        /\ StageFacts' /\ RefFacts' /\ LiveFacts' /\ LastFacts'
    BY <1>0, <1>1, <1>3, <1>6, DisconnectStep
  <2>2. DevTypes'
    BY <1>0, <1>1, <1>2, <2>1 DEF DevTypes
  <2>3. PlaceFacts'
    BY <1>0, <1>1, <1>2, <1>4, <2>1 DEF PlaceFacts
  <2>4. BusFacts'
    <3>1. netlink # <<>>
      BY <1>0, <1>1, <1>6, EmptySeq DEF BusFacts
    <3>2. ~Present'
      BY <2>1 DEF Present
    <3> QED
      BY <1>0, <1>1, <1>2, <1>4, <3>1, <3>2 DEF BusFacts
  <2>5. AttachFacts'
    BY <1>0, <1>1, <1>2, <2>1 DEF AttachFacts
  <2> QED
    BY <1>5, <2>1, <2>2, <2>3, <2>4, <2>5 DEF DevInv
<1>7. CASE UNCHANGED <<ref, attached, devs, hp>>
  <2>1. DevTypes'
    BY <1>0, <1>1, <1>2, <1>7 DEF DevTypes
  <2>2. StageFacts'
    BY <1>0, <1>1, <1>3, <1>7 DEF StageFacts, Connecting, OnList, Leaves, Left, Queued, Handled, Lost
  <2>3. \A o \in O : RefFact(o)'
    <3> TAKE o \in O
    <3>1. Stage(o)' = Stage(o)
      BY <1>1, <1>7 DEF Stage, Connecting, OnList, Leaves, Left, Queued, Handled, Lost
    <3>2. Users(o)' = Users(o)
      BY <1>1, <1>3 DEF Users, Devices!Count
    <3> QED
      BY <1>0, <1>7, <3>1, <3>2 DEF RefFact, RefFacts
  <2>4. PlaceFacts'
    BY <1>0, <1>1, <1>4, <1>7 DEF PlaceFacts
  <2>5. LiveFacts' /\ LastFacts'
    BY <1>0, <1>1, <1>7 DEF LiveFacts, LastFacts, Later, OnList, Leaves, Left
  <2>6. BusFacts' /\ AttachFacts'
    BY <1>0, <1>1, <1>2, <1>7 DEF BusFacts, AttachFacts, Present
  <2> QED
    BY <1>5, <2>1, <2>2, <2>3, <2>4, <2>5, <2>6 DEF DevInv, RefFacts
<1> QED
  BY <1>6, <1>7 DEF Devices!OpenFails

\* libusb_hotplug_register_callback()
LEMMA RegisterStep == ASSUME DevInv, NEW c \in Callbacks, Devices!Register(c) PROVE DevInv'
<1>0. /\ DevTypes /\ StageFacts /\ RefFacts /\ PlaceFacts /\ LiveFacts /\ LastFacts /\ SignalFacts
      /\ BusFacts /\ AttachFacts /\ CallbackFacts
  BY DEF DevInv
<1>1. /\ ctx = "ready" /\ usr = Devices!AtRest /\ cbs' = <<c>> \o cbs /\ c \notin Devices!ToSet(cbs)
      /\ usr' \in {Devices!AtRest, [Devices!AtRest EXCEPT !.pc = "enumerate", !.c = c]}
      /\ UNCHANGED <<bus, plugs, netlink, ctx, ref, attached, made, devs, msgs, pipe, stray, lost, skipped, hp, dying, held, opened, ev>>
  BY DEF Devices!Register
<1>2. usr' \in Calls /\ usr'.pc \in {"rest", "enumerate"}
  <2> DEFINE v == Devices!AtRest
  <2>1. v \in Calls /\ v.pc = "rest"
    BY DevicesAssumption DEF Calls
  <2>2. usr' = v \/ usr' = [v EXCEPT !.pc = "enumerate", !.c = c]
    BY <1>1
  <2> HIDE DEF v
  <2> QED
    BY <2>1, <2>2 DEF Calls
<1>3. CallbackFacts'
  <2>1. cbs \in Seq(Callbacks) /\ <<c>> \in Seq(Callbacks) /\ Len(<<c>>) = 1 /\ <<c>>[1] = c
    BY <1>0 DEF CallbackFacts
  <2>2. /\ cbs' \in Seq(Callbacks) /\ Len(cbs) \in Nat /\ Len(cbs') = Len(cbs) + 1 /\ cbs'[1] = c
        /\ \A k \in 2..(Len(cbs) + 1) : cbs'[k] = cbs[k - 1]
    BY <1>1, <2>1, ConcatProperties, LenProperties
  <2>3. \A k \in 1..Len(cbs) : cbs[k] # c
    BY <1>1, <2>1, LenProperties DEF Devices!ToSet
  <2>4. \A k \in 1..Len(cbs') : k = 1 \/ (k \in 2..(Len(cbs) + 1) /\ k - 1 \in 1..Len(cbs))
    BY <2>2
  <2>5. Injective(cbs')
    <3> SUFFICES ASSUME NEW j \in 1..Len(cbs'), NEW k \in 1..Len(cbs'), cbs'[j] = cbs'[k] PROVE j = k
      BY DEF Injective
    <3>1. CASE j = 1 \/ k = 1
      BY <2>2, <2>3, <2>4, <3>1
    <3>2. CASE j # 1 /\ k # 1
      <4>1. j - 1 = k - 1
        BY <1>0, <2>2, <2>4, <3>2 DEF CallbackFacts, Injective
      <4> QED
        BY <2>2, <4>1
    <3> QED
      BY <3>1, <3>2
  <2>6. \A d \in dying : \E k \in 1..Len(cbs') : cbs'[k] = d
    <3> SUFFICES ASSUME NEW d \in dying PROVE \E k \in 1..Len(cbs') : cbs'[k] = d
      OBVIOUS
    <3>1. PICK k \in 1..Len(cbs) : cbs[k] = d
      BY <1>0 DEF CallbackFacts
    <3>2. k + 1 \in 2..(Len(cbs) + 1) /\ k + 1 \in 1..Len(cbs') /\ (k + 1) - 1 = k
      BY <2>2
    <3> QED
      BY <2>2, <3>1, <3>2
  <2> QED
    BY <1>0, <1>1, <2>2, <2>5, <2>6 DEF CallbackFacts
<1>4. \A o \in O : ~Opening(o) /\ ~Opening(o)'
  BY <1>1, <1>2 DEF Opening
<1>5. DevTypes'
  BY <1>0, <1>1, <1>2 DEF DevTypes
<1>6. StageFacts'
  BY <1>0, <1>1, <1>4 DEF StageFacts, Connecting, OnList, Leaves, Left, Queued, Handled, Lost
<1>7. \A o \in O : RefFact(o)'
  <2> TAKE o \in O
  <2>1. Stage(o)' = Stage(o)
    BY <1>1 DEF Stage, Connecting, OnList, Leaves, Left, Queued, Handled, Lost
  <2>2. Users(o)' = Users(o)
    BY <1>1, <1>4 DEF Users, Devices!Count
  <2> QED
    BY <1>0, <1>1, <2>1, <2>2 DEF RefFact, RefFacts
<1>8. PlaceFacts' /\ SignalFacts'
  BY <1>0, <1>1 DEF PlaceFacts, SignalFacts
<1>9. LiveFacts' /\ LastFacts'
  BY <1>0, <1>1 DEF LiveFacts, LastFacts, Later, OnList, Leaves, Left
<1>10. BusFacts' /\ AttachFacts'
  BY <1>0, <1>1, <1>2 DEF BusFacts, AttachFacts, Present
<1> QED
  BY <1>3, <1>5, <1>6, <1>7, <1>8, <1>9, <1>10 DEF DevInv, RefFacts

\* libusb_hotplug_deregister_callback()
LEMMA DeregisterStep == ASSUME DevInv, NEW c \in Callbacks, Devices!Deregister(c) PROVE DevInv'
<1> USE DEF Connecting, OnList, Leaves, Left, Queued, Handled, Lost, Opening
<1>0. /\ DevTypes /\ StageFacts /\ RefFacts /\ PlaceFacts /\ LiveFacts /\ LastFacts /\ SignalFacts
      /\ BusFacts /\ AttachFacts /\ CallbackFacts
  BY DEF DevInv
<1>1. /\ ctx = "ready" /\ c \in Devices!ToSet(cbs) /\ dying' = dying \cup {c}
      /\ Devices!Notification("none", 0)
      /\ UNCHANGED <<bus, plugs, netlink, ctx, ref, attached, made, devs, skipped, hp, cbs, usr, held, opened, ev>>
  BY DEF Devices!Deregister
<1> DEFINE m == [event |-> "none", o |-> 0]
<1>2. m \in Msgs /\ m.event = "none"
  BY DEF Msgs
<1>3. msgs' = Append(msgs, m) /\ lost' = lost
  BY <1>1 DEF Devices!Notification
<1> HIDE DEF m
<1>4. /\ msgs' \in Seq(Msgs) /\ Len(msgs) \in Nat /\ Len(msgs') = Len(msgs) + 1
      /\ \A k \in 1..Len(msgs) : msgs'[k] = msgs[k]
      /\ msgs'[Len(msgs) + 1] = m /\ msgs' # <<>>
  BY <1>0, <1>2, <1>3, Appended
<1>5. \A k \in 1..Len(msgs') : k \in 1..Len(msgs) \/ k = Len(msgs) + 1
  BY <1>4
<1>6. 1..Len(msgs) \subseteq 1..Len(msgs') /\ Len(msgs) + 1 \in 1..Len(msgs')
  BY <1>4
<1>7. \A o \in O : Queued(o)' = Queued(o)
  BY <1>2, <1>4, <1>5, <1>6
<1>8. DevTypes'
  <2>1. pipe' \in BOOLEAN /\ stray' \in BOOLEAN
    BY <1>0, <1>1 DEF DevTypes, Devices!Notification
  <2> QED
    BY <1>0, <1>1, <1>3, <1>4, <2>1 DEF DevTypes
<1>9. StageFacts'
  <2>1. \A o \in O : \A j, k \in 1..Len(msgs') : Left(msgs'[j], o) /\ Left(msgs'[k], o) => j = k
    BY <1>0, <1>2, <1>4, <1>5 DEF StageFacts
  <2> HIDE DEF Queued
  <2> QED
    BY <1>0, <1>1, <1>3, <1>7, <2>1 DEF StageFacts
<1>10. \A o \in O : RefFact(o)'
  <2> HIDE DEF Queued
  <2> QED
    BY <1>0, <1>1, <1>3, <1>7 DEF RefFact, RefFacts, Stage, Users
<1>11. PlaceFacts' /\ BusFacts' /\ AttachFacts'
  BY <1>0, <1>1 DEF PlaceFacts, BusFacts, AttachFacts, Present
<1>12. LiveFacts'
  BY <1>0, <1>1, <1>2, <1>4, <1>5, <1>6 DEF LiveFacts, Later
<1>13. LastFacts'
  BY <1>0, <1>1, <1>2, <1>4, <1>5, <1>6 DEF LastFacts
<1>14. SignalFacts'
  BY <1>0, <1>1 DEF SignalFacts, Devices!Notification
<1>15. CallbackFacts'
  <2>1. \E k \in 1..Len(cbs) : cbs[k] = c
    BY <1>0, <1>1, LenProperties DEF CallbackFacts, Devices!ToSet
  <2> QED
    BY <1>0, <1>1, <2>1 DEF CallbackFacts, Injective
<1> QED
  BY <1>8, <1>9, <1>10, <1>11, <1>12, <1>13, <1>14, <1>15 DEF DevInv, RefFacts

\* The event thread takes the first message.
LEMMA FishStep == ASSUME DevInv, Devices!Fish PROVE DevInv'
<1> USE DEF Connecting, OnList, Leaves, Left, Queued, Handled, Lost, Opening
<1>0. /\ DevTypes /\ StageFacts /\ RefFacts /\ PlaceFacts /\ LiveFacts /\ LastFacts /\ SignalFacts
      /\ BusFacts /\ AttachFacts /\ CallbackFacts
  BY DEF DevInv
<1>1. /\ ctx = "ready" /\ ev = Devices!Sleeping /\ msgs # <<>>
      /\ msgs' = Tail(msgs) /\ pipe' = (msgs' # <<>>)
      /\ UNCHANGED <<bus, plugs, netlink, ctx, ref, attached, made, devs, stray, lost, skipped, hp, cbs, dying, usr, held, opened>>
  BY <1>0 DEF Devices!Fish, PlaceFacts
<1>2. ev' = [pc |-> "message", m |-> Head(msgs), todo |-> <<>>]
  BY <1>1 DEF Devices!Fish
<1>3. /\ Len(msgs) \in Nat /\ Len(msgs) > 0 /\ msgs' \in Seq(Msgs) /\ Len(msgs') = Len(msgs) - 1
      /\ Head(msgs) = msgs[1] /\ Head(msgs) \in Msgs
      /\ \A k \in 1..Len(msgs') : msgs'[k] = msgs[k + 1]
  BY <1>0, <1>1, HeadTailProperties, EmptySeq DEF DevTypes
<1>4. ev'.m = msgs[1] /\ ev'.todo = <<>> /\ ev'.pc = "message"
  BY <1>2, <1>3
<1>5. /\ \A k \in 1..Len(msgs') : k + 1 \in 1..Len(msgs) /\ k + 1 # 1
      /\ \A k \in 1..Len(msgs) : k # 1 => k - 1 \in 1..Len(msgs') /\ (k - 1) + 1 = k
      /\ 1 \in 1..Len(msgs)
  BY <1>3
<1>6. \A o \in O : Queued(o) <=> Queued(o)' \/ Handled(o)'
  <2> TAKE o \in O
  <2>1. Queued(o) => Queued(o)' \/ Handled(o)'
    <3> SUFFICES ASSUME NEW k \in 1..Len(msgs), Left(msgs[k], o) PROVE Queued(o)' \/ Handled(o)'
      OBVIOUS
    <3>1. CASE k = 1
      BY <1>4, <3>1
    <3>2. CASE k # 1
      BY <1>3, <1>5, <3>2
    <3> QED
      BY <3>1, <3>2
  <2>2. Queued(o)' \/ Handled(o)' => Queued(o)
    BY <1>3, <1>4, <1>5
  <2> QED
    BY <2>1, <2>2
<1>7. \A o \in O : ~Handled(o) /\ ~(Queued(o)' /\ Handled(o)')
  <2> TAKE o \in O
  <2>1. ~Handled(o)
    BY <1>1
  <2>2. ASSUME Queued(o)', Handled(o)' PROVE FALSE
    <3>1. PICK k \in 1..Len(msgs') : Left(msgs'[k], o)
      BY <2>2
    <3>2. Left(msgs[k + 1], o) /\ Left(msgs[1], o) /\ k + 1 \in 1..Len(msgs) /\ 1 \in 1..Len(msgs) /\ k + 1 # 1
      BY <1>3, <1>4, <1>5, <2>2, <3>1
    <3> QED
      BY <1>0, <3>2 DEF StageFacts
  <2> QED
    BY <2>1, <2>2
<1>8. DevTypes'
  <2>1. ev' \in [pc : {"poll", "message", "match"}, m : Msgs, todo : Seq(Callbacks)]
    BY <1>2, <1>3, EmptySeq
  <2> QED
    BY <1>0, <1>1, <1>3, <2>1 DEF DevTypes
<1>9. StageFacts'
  <2>1. \A o \in O : \A j, k \in 1..Len(msgs') : Left(msgs'[j], o) /\ Left(msgs'[k], o) => j = k
    <3> SUFFICES ASSUME NEW o \in O, NEW j \in 1..Len(msgs'), NEW k \in 1..Len(msgs'), Left(msgs'[j], o), Left(msgs'[k], o)
                 PROVE  j = k
      OBVIOUS
    <3>1. j + 1 = k + 1
      BY <1>0, <1>3, <1>5 DEF StageFacts
    <3> QED
      BY <1>3, <3>1
  <2> HIDE DEF Queued, Handled
  <2> QED
    BY <1>0, <1>1, <1>6, <1>7, <2>1 DEF StageFacts
<1>10. \A o \in O : RefFact(o)'
  <2> TAKE o \in O
  <2> HIDE DEF Queued, Handled
  <2>1. Stage(o)' = Stage(o)
    BY <1>1, <1>6, <1>7 DEF Stage
  <2>2. Users(o)' = Users(o)
    BY <1>1 DEF Users
  <2> QED
    BY <1>0, <1>1, <2>1, <2>2 DEF RefFact, RefFacts
<1>11. PlaceFacts' /\ BusFacts' /\ AttachFacts'
  BY <1>0, <1>1, <1>4 DEF PlaceFacts, BusFacts, AttachFacts, Present
<1>12. LiveFacts'
  <2>1. ASSUME NEW k \in 1..Len(msgs), msgs[k].event = "arrived"
        PROVE  \/ msgs[k].o \in devs \/ Leaves(msgs[k].o)
               \/ \E j \in k..Len(msgs') : Left(msgs'[j], msgs[k].o)
    <3>1. Later(msgs[k].o, k)
      BY <1>0, <2>1 DEF LiveFacts
    <3>2. ASSUME NEW j \in (k + 1)..Len(msgs), Left(msgs[j], msgs[k].o)
          PROVE  \E i \in k..Len(msgs') : Left(msgs'[i], msgs[k].o)
      <4>1. j - 1 \in k..Len(msgs') /\ (j - 1) + 1 = j /\ j - 1 \in 1..Len(msgs')
        BY <1>3
      <4> QED
        BY <1>3, <3>2, <4>1
    <3> QED
      BY <3>1, <3>2 DEF Later
  <2>2. ASSUME ev'.m.event = "arrived" PROVE Later(ev.m.o, 0)'
    <3>1. \/ msgs[1].o \in devs \/ Leaves(msgs[1].o) \/ \E j \in 1..Len(msgs') : Left(msgs'[j], msgs[1].o)
      BY <1>4, <1>5, <2>1, <2>2
    <3>2. \A j \in 1..Len(msgs') : j \in (0 + 1)..Len(msgs')
      OBVIOUS
    <3> QED
      BY <1>1, <1>4, <3>1, <3>2 DEF Later
  <2>3. ASSUME NEW k \in 1..Len(msgs'), msgs'[k].event = "arrived" PROVE Later(msgs[k].o, k)'
    <3>1. msgs'[k] = msgs[k + 1] /\ k + 1 \in 1..Len(msgs)
      BY <1>3, <1>5
    <3>2. \/ msgs[k + 1].o \in devs \/ Leaves(msgs[k + 1].o)
          \/ \E j \in (k + 1)..Len(msgs') : Left(msgs'[j], msgs[k + 1].o)
      BY <2>1, <2>3, <3>1
    <3> QED
      BY <1>1, <3>1, <3>2 DEF Later
  <2> QED
    BY <2>2, <2>3 DEF LiveFacts
<1>13. LastFacts'
  <2> SUFFICES ASSUME NEW k \in 1..Len(msgs'), msgs'[k].event # "none",
                      \A i \in (k + 1)..Len(msgs') : msgs'[i].event = "none"
               PROVE  /\ msgs'[k].event = "arrived" => hp.pc \notin {"connect", "arrived"} /\ (devs # {} \/ hp.pc = "left")
                      /\ msgs'[k].event = "left" => hp.pc # "left" /\ (devs = {} \/ hp.pc = "arrived")
    BY <1>1 DEF LastFacts
  <2>1. msgs'[k] = msgs[k + 1] /\ k + 1 \in 1..Len(msgs)
    BY <1>3, <1>5
  <2>2. \A i \in ((k + 1) + 1)..Len(msgs) : msgs[i].event = "none"
    <3> TAKE i \in ((k + 1) + 1)..Len(msgs)
    <3>1. i - 1 \in (k + 1)..Len(msgs') /\ i - 1 \in 1..Len(msgs') /\ (i - 1) + 1 = i
      BY <1>3
    <3> QED
      BY <1>3, <3>1
  <2> QED
    BY <1>0, <2>1, <2>2 DEF LastFacts
<1>14. SignalFacts'
  BY <1>0, <1>1 DEF SignalFacts
<1>15. CallbackFacts'
  BY <1>0, <1>1, <1>4, EmptySeq DEF CallbackFacts, Injective
<1> QED
  BY <1>8, <1>9, <1>10, <1>11, <1>12, <1>13, <1>14, <1>15 DEF DevInv, RefFacts

\* Its callbacks are called, those that are done with freed.
LEMMA MatchSteps == ASSUME DevInv, Devices!MatchStart \/ Devices!Match PROVE DevInv'
<1>0. /\ DevTypes /\ StageFacts /\ RefFacts /\ PlaceFacts /\ LiveFacts /\ LastFacts /\ SignalFacts
      /\ BusFacts /\ AttachFacts /\ CallbackFacts
  BY DEF DevInv
<1>1. UNCHANGED <<bus, plugs, netlink, ctx, ref, attached, made, devs, msgs, pipe, stray, lost, skipped, hp, usr, held, opened>>
  BY DEF Devices!MatchStart, Devices!Match
<1>2. /\ ev.pc # "poll" /\ ev' \in [pc : {"match"}, m : Msgs, todo : Seq(Callbacks)] /\ ev'.m = ev.m
      /\ CallbackFacts'
  <2>1. ev.todo \in Seq(Callbacks) /\ cbs \in Seq(Callbacks)
    BY <1>0 DEF DevTypes, CallbackFacts
  <2>2. CASE Devices!MatchStart
    <3>1. ev.pc = "message" /\ ev' = [ev EXCEPT !.pc = "match", !.todo = cbs] /\ UNCHANGED <<cbs, dying>>
      BY <2>2 DEF Devices!MatchStart
    <3>2. ev' \in [pc : {"match"}, m : Msgs, todo : Seq(Callbacks)] /\ ev'.m = ev.m /\ ev'.todo = cbs
      BY <1>0, <2>1, <3>1 DEF DevTypes
    <3> QED
      BY <1>0, <3>1, <3>2 DEF CallbackFacts, Injective
  <2>3. CASE Devices!Match
    <3>1. /\ ev.pc = "match" /\ ev' = [ev EXCEPT !.todo = Tail(ev.todo)] /\ ev.todo # <<>>
          /\ \/ /\ \E k \in DOMAIN cbs : cbs[k] = Head(ev.todo) /\ cbs' = Devices!RemoveAt(cbs, k)
                /\ dying' = dying \ {Head(ev.todo)}
             \/ UNCHANGED <<cbs, dying>>
      BY <2>3 DEF Devices!Match
    <3>2. /\ Tail(ev.todo) \in Seq(Callbacks) /\ Len(Tail(ev.todo)) = Len(ev.todo) - 1 /\ Len(ev.todo) \in Nat
          /\ \A k \in 1..Len(Tail(ev.todo)) : Tail(ev.todo)[k] = ev.todo[k + 1]
      BY <2>1, <3>1, HeadTailProperties
    <3>3. ev' \in [pc : {"match"}, m : Msgs, todo : Seq(Callbacks)] /\ ev'.m = ev.m /\ ev'.todo = Tail(ev.todo)
      BY <1>0, <3>1, <3>2 DEF DevTypes
    <3>4. Injective(ev'.todo)
      <4> SUFFICES ASSUME NEW j \in 1..Len(ev'.todo), NEW k \in 1..Len(ev'.todo), ev'.todo[j] = ev'.todo[k]
                   PROVE  j = k
        BY DEF Injective
      <4>1. j + 1 \in 1..Len(ev.todo) /\ k + 1 \in 1..Len(ev.todo) /\ ev.todo[j + 1] = ev.todo[k + 1]
        BY <3>2, <3>3
      <4>2. j + 1 = k + 1
        BY <1>0, <4>1 DEF CallbackFacts, Injective
      <4> QED
        BY <4>2
    <3>5. CASE UNCHANGED <<cbs, dying>>
      BY <1>0, <3>1, <3>3, <3>4, <3>5 DEF CallbackFacts, Injective
    <3>6. ASSUME NEW n \in 1..Len(cbs), cbs[n] = Head(ev.todo), cbs' = Devices!RemoveAt(cbs, n),
                 dying' = dying \ {Head(ev.todo)}
          PROVE  CallbackFacts'
      <4> DEFINE a == SubSeq(cbs, 1, n - 1)
                 b == SubSeq(cbs, n + 1, Len(cbs))
      <4>1. Len(cbs) \in Nat /\ \A k \in 1..Len(cbs) : cbs[k] \in Callbacks
        BY <2>1, LenProperties, ElementOfSeq
      <4>2. /\ a \in Seq(Callbacks) /\ Len(a) = n - 1 /\ \A k \in 1..(n - 1) : a[k] = cbs[k]
        <5>1. \A k \in 1..(n - 1) : cbs[k] \in Callbacks
          BY <4>1
        <5>2. /\ a \in Seq(Callbacks) /\ Len(a) = IF 1 <= n - 1 THEN (n - 1) - 1 + 1 ELSE 0
              /\ \A k \in 1..((n - 1) - 1 + 1) : a[k] = cbs[1 + k - 1]
          BY <5>1, SubSeqProperties
        <5> QED
          BY <5>2
      <4>3. /\ b \in Seq(Callbacks) /\ Len(b) = Len(cbs) - n
            /\ \A k \in 1..(Len(cbs) - n) : b[k] = cbs[n + k]
        <5>1. \A k \in (n + 1)..Len(cbs) : cbs[k] \in Callbacks
          BY <4>1
        <5>2. n + 1 \in Int /\ Len(cbs) \in Int
          BY <4>1
        <5>3. /\ b \in Seq(Callbacks) /\ Len(b) = IF n + 1 <= Len(cbs) THEN Len(cbs) - (n + 1) + 1 ELSE 0
              /\ \A k \in 1..(Len(cbs) - (n + 1) + 1) : b[k] = cbs[(n + 1) + k - 1]
          BY <5>1, <5>2, SubSeqProperties
        <5> QED
          BY <4>1, <5>3
      <4> HIDE DEF a, b
      <4>4. cbs' = a \o b
        BY <3>6 DEF a, b, Devices!RemoveAt
      <4>5. /\ cbs' \in Seq(Callbacks) /\ Len(cbs') = Len(cbs) - 1
            /\ \A k \in 1..(Len(cbs) - 1) : cbs'[k] = IF k < n THEN cbs[k] ELSE cbs[k + 1]
        <5>1. /\ cbs' \in Seq(Callbacks) /\ Len(cbs') = Len(a) + Len(b)
              /\ \A k \in 1..(Len(a) + Len(b)) : cbs'[k] = IF k <= Len(a) THEN a[k] ELSE b[k - Len(a)]
          BY <4>2, <4>3, <4>4, ConcatProperties
        <5>2. \A k \in 1..(Len(cbs) - 1) : cbs'[k] = IF k < n THEN cbs[k] ELSE cbs[k + 1]
          <6> TAKE k \in 1..(Len(cbs) - 1)
          <6>1. CASE k < n
            BY <4>1, <4>2, <4>3, <5>1, <6>1
          <6>2. CASE k >= n
            <7>1. k - Len(a) \in 1..(Len(cbs) - n) /\ n + (k - Len(a)) = k + 1 /\ ~(k <= Len(a))
                  /\ k \in 1..(Len(a) + Len(b))
              BY <4>1, <4>2, <4>3, <6>2
            <7>2. cbs'[k] = b[k - Len(a)]
              BY <5>1, <7>1
            <7>3. b[k - Len(a)] = cbs[n + (k - Len(a))]
              BY <4>3, <7>1
            <7>4. ~(k < n)
              BY <6>2
            <7> QED
              BY <7>1, <7>2, <7>3, <7>4
          <6> QED
            BY <6>1, <6>2
        <5> QED
          BY <4>1, <4>2, <4>3, <5>1, <5>2
      <4>6. Injective(cbs')
        <5> SUFFICES ASSUME NEW j \in 1..(Len(cbs) - 1), NEW k \in 1..(Len(cbs) - 1), cbs'[j] = cbs'[k]
                     PROVE  j = k
          BY <4>5 DEF Injective
        <5>1. j \in 1..Len(cbs) /\ k \in 1..Len(cbs) /\ j + 1 \in 1..Len(cbs) /\ k + 1 \in 1..Len(cbs)
          BY <4>1
        <5> QED
          BY <1>0, <4>1, <4>5, <5>1 DEF CallbackFacts, Injective
      <4>7. ASSUME NEW d \in dying' PROVE \E k \in 1..Len(cbs') : cbs'[k] = d
        <5>1. PICK k \in 1..Len(cbs) : cbs[k] = d /\ k # n
          BY <1>0, <3>6, <4>7 DEF CallbackFacts
        <5>2. CASE k < n
          BY <4>1, <4>5, <5>1, <5>2
        <5>3. CASE k > n
          <6>1. k - 1 \in 1..(Len(cbs) - 1) /\ ~(k - 1 < n) /\ (k - 1) + 1 = k
            BY <4>1, <5>3
          <6> QED
            BY <4>5, <5>1, <6>1
        <5> QED
          BY <4>1, <5>1, <5>2, <5>3
      <4> QED
        BY <3>4, <4>5, <4>6, <4>7 DEF CallbackFacts
    <3> QED
      BY <2>1, <3>1, <3>3, <3>5, <3>6, LenProperties
  <2> QED
    BY <2>2, <2>3
<1>3. DevTypes'
  BY <1>0, <1>1, <1>2 DEF DevTypes
<1>4. StageFacts'
  BY <1>0, <1>1, <1>2 DEF StageFacts, Connecting, OnList, Leaves, Left, Queued, Handled, Lost, Opening
<1>5. \A o \in O : RefFact(o)'
  BY <1>0, <1>1, <1>2 DEF RefFact, RefFacts, Stage, Users, Connecting, OnList, Leaves, Left, Queued, Handled, Lost, Opening
<1>6. ctx = "ready"
  BY <1>0, <1>2 DEF PlaceFacts
<1>7. PlaceFacts' /\ SignalFacts'
  BY <1>0, <1>1, <1>2, <1>6 DEF PlaceFacts, SignalFacts
<1>8. LiveFacts' /\ LastFacts' /\ BusFacts' /\ AttachFacts'
  BY <1>0, <1>1, <1>2 DEF LiveFacts, LastFacts, BusFacts, AttachFacts, Present, Later, OnList, Leaves, Left
<1> QED
  BY <1>2, <1>3, <1>4, <1>5, <1>7, <1>8 DEF DevInv, RefFacts

\* The message is done with, and its reference given up.
LEMMA MatchedStep == ASSUME DevInv, Devices!Matched PROVE DevInv'
<1>0. /\ DevTypes /\ StageFacts /\ RefFacts /\ PlaceFacts /\ LiveFacts /\ LastFacts /\ SignalFacts
      /\ BusFacts /\ AttachFacts /\ CallbackFacts
  BY DEF DevInv
<1>1. /\ ev.pc = "match" /\ ev' = Devices!Sleeping
      /\ ref' = IF ev.m.event = "left" THEN Devices!Unref(ref, ev.m.o) ELSE ref
      /\ UNCHANGED <<bus, plugs, netlink, ctx, attached, made, devs, msgs, pipe, stray, lost, skipped, hp, cbs, dying, usr, held, opened>>
  BY DEF Devices!Matched
<1>2. ev'.m.event = "none" /\ ev'.pc = "poll" /\ ev'.todo = <<>>
      /\ ev' \in [pc : {"poll", "message", "match"}, m : Msgs, todo : Seq(Callbacks)]
  <2>1. [event |-> "none", o |-> 0] \in Msgs
    BY DEF Msgs
  <2> QED
    BY <1>1, <2>1, EmptySeq
<1>3. ctx = "ready" /\ ev.m \in Msgs
  BY <1>0, <1>1 DEF PlaceFacts, DevTypes
<1>4. \A o \in O : Stage(o)' = IF Handled(o) THEN 0 ELSE Stage(o)
  <2> TAKE o \in O
  <2>1. CASE Handled(o)
    <3>1. ~Connecting(o) /\ ~OnList(o) /\ ~Leaves(o) /\ ~Queued(o) /\ ~Lost(o)
      BY <1>0, <2>1 DEF StageFacts
    <3>2. ~Connecting(o)' /\ ~OnList(o)' /\ ~Leaves(o)' /\ ~Queued(o)' /\ ~Lost(o)' /\ ~Handled(o)'
      BY <1>1, <1>2, <3>1 DEF Connecting, OnList, Leaves, Queued, Lost, Handled, Left
    <3> QED
      BY <2>1, <3>2 DEF Stage
  <2>2. CASE ~Handled(o)
    BY <1>1, <1>2, <2>2 DEF Stage, Connecting, OnList, Leaves, Queued, Lost, Handled, Left
  <2> QED
    BY <2>1, <2>2
<1>5. \A o \in O : ref'[o] \in Nat /\ RefFact(o)'
  <2> TAKE o \in O
  <2>1. ref[o] = Stage(o) + Users(o) /\ Users(o)' = Users(o) /\ Users(o) \in Nat /\ ref[o] \in Nat
    BY <1>0, <1>1 DEF RefFacts, RefFact, Users, Opening, Devices!Count, DevTypes
  <2>2. CASE Handled(o)
    <3>1. Stage(o) = 1
      BY <1>0, <2>2 DEF Stage, StageFacts
    <3>2. ref'[o] = ref[o] - 1
      BY <1>0, <1>1, <2>2 DEF Handled, Left, Devices!Unref, DevTypes
    <3> QED
      BY <1>4, <2>1, <2>2, <3>1, <3>2 DEF RefFact
  <2>3. CASE ~Handled(o)
    <3>1. ref'[o] = ref[o]
      BY <1>0, <1>1, <2>3 DEF Handled, Left, Devices!Unref, DevTypes
    <3> QED
      BY <1>4, <2>1, <2>3, <3>1 DEF RefFact
  <2> QED
    BY <2>2, <2>3
<1>6. DevTypes'
  <2>1. ref' \in [O -> Nat]
    <3>1. ref' = [o \in O |-> ref'[o]]
      BY <1>0, <1>1 DEF DevTypes, Devices!Unref
    <3> QED
      BY <1>5, <3>1
  <2> QED
    BY <1>0, <1>1, <1>2, <2>1 DEF DevTypes
<1>7. StageFacts'
  BY <1>0, <1>1, <1>2 DEF StageFacts, Connecting, OnList, Leaves, Left, Queued, Handled, Lost, Opening
<1>8. PlaceFacts' /\ SignalFacts'
  BY <1>0, <1>1, <1>3 DEF PlaceFacts, SignalFacts
<1>9. LiveFacts' /\ LastFacts' /\ BusFacts' /\ AttachFacts'
  BY <1>0, <1>1, <1>2 DEF LiveFacts, LastFacts, BusFacts, AttachFacts, Present, Later, OnList, Leaves, Left
<1>10. CallbackFacts'
  BY <1>0, <1>1, <1>2, EmptySeq DEF CallbackFacts, Injective
<1> QED
  BY <1>5, <1>6, <1>7, <1>8, <1>9, <1>10 DEF DevInv, RefFacts

\* Every step of the context's devices keeps the invariant.
LEMMA DevStep == ASSUME DevInv, [Devices!Next]_devicesVars PROVE DevInv'
<1>1. CASE UNCHANGED devicesVars
  <2>1. UNCHANGED <<bus, plugs, netlink, ctx, ref, attached, made, devs, msgs, pipe, stray, lost, skipped, hp, cbs, dying, usr, held, opened, ev>>
    BY <1>1 DEF devicesVars
  <2> USE DEF DevInv, Connecting, OnList, Leaves, Left, Queued, Handled, Lost, Opening
  <2>2. DevTypes' /\ PlaceFacts' /\ SignalFacts' /\ AttachFacts' /\ CallbackFacts'
    BY <2>1 DEF DevTypes, PlaceFacts, SignalFacts, AttachFacts, CallbackFacts, Injective
  <2>3. StageFacts' /\ LiveFacts' /\ LastFacts' /\ BusFacts'
    BY <2>1 DEF StageFacts, LiveFacts, LastFacts, BusFacts, Later, Present
  <2>4. \A o \in O : RefFact(o)'
    BY <2>1 DEF RefFacts, RefFact, Stage, Users
  <2> QED
    BY <2>2, <2>3, <2>4 DEF RefFacts
<1>2. CASE Devices!Monitor
  BY <1>2, ReadStep DEF Devices!Monitor, Devices!Monitoring
<1>3. CASE Devices!HotplugStep
  BY <1>3, ConnectStep, ArrivedStep, LeftStep DEF Devices!HotplugStep
<1>4. CASE Devices!EventStep
  BY <1>4, FishStep, MatchSteps, MatchedStep DEF Devices!EventStep
<1>5. CASE Devices!HotplugPoll
  BY <1>5, ReadStep DEF Devices!HotplugPoll
<1>6. CASE Devices!UserStep
  BY <1>5, <1>6, InitSteps, ScanStep, EndSteps, ListSteps, OpenSteps, OpenFailsStep, OpenReturnsStep,
     RegisterStep, DeregisterStep DEF Devices!UserStep, O
<1> QED
  BY <1>1, <1>2, <1>3, <1>4, <1>6, PlugStep DEF Devices!Next

\* It holds in the beginning.
LEMMA DevInit == Devices!Init => DevInv
<1> SUFFICES ASSUME Devices!Init PROVE DevInv
  OBVIOUS
<1> USE DEF Devices!Init
<1>1. DevTypes
  <2>1. usr \in Calls
    BY DevicesAssumption DEF Calls
  <2>2. [event |-> "none", o |-> 0] \in Msgs /\ <<>> \in Seq(Callbacks) /\ <<>> \in Seq(Msgs) /\ <<>> \in Seq({"add", "remove"})
    BY EmptySeq DEF Msgs
  <2>3. ref \in [O -> Nat] /\ made \in 0..MaxObjs /\ plugs \in 0..MaxPlugs /\ hp \in Jobs
    BY DevicesAssumption DEF O, Jobs
  <2>4. ev \in [pc : {"poll", "message", "match"}, m : Msgs, todo : Seq(Callbacks)]
    BY <2>2
  <2>5. netlink \in Seq({"add", "remove"}) /\ msgs \in Seq(Msgs)
    BY <2>2
  <2> QED
    BY <2>1, <2>3, <2>4, <2>5 DEF DevTypes
<1>2. Len(msgs) = 0 /\ Len(cbs) = 0 /\ Len(ev.todo) = 0 /\ ev.m.event = "none"
  BY EmptySeq
<1>3. \A o \in O : ~Connecting(o) /\ ~OnList(o) /\ ~Leaves(o) /\ ~Queued(o) /\ ~Handled(o) /\ ~Lost(o) /\ ~Opening(o)
  BY <1>2 DEF Connecting, OnList, Leaves, Left, Queued, Handled, Lost, Opening
<1>4. StageFacts
  BY <1>2, <1>3 DEF StageFacts
<1>5. RefFacts
  BY <1>3 DEF RefFacts, RefFact, Stage, Users, Devices!Count, O
<1>6. PlaceFacts /\ LiveFacts /\ LastFacts /\ SignalFacts /\ BusFacts /\ AttachFacts
  BY <1>2 DEF PlaceFacts, LiveFacts, LastFacts, SignalFacts, BusFacts, AttachFacts, Present
<1>7. CallbackFacts
  BY <1>2, EmptySeq DEF CallbackFacts, Injective
<1> QED
  BY <1>1, <1>4, <1>5, <1>6, <1>7 DEF DevInv

\* How a step changes the messages.
LEMMA MsgsStep ==
    ASSUME DevInv, [Devices!Next]_devicesVars
    PROVE  \/ msgs' = msgs \/ msgs' = <<>> \/ (msgs # <<>> /\ msgs' = Tail(msgs))
           \/ \E m \in Msgs :
                /\ msgs' = Append(msgs, m)
                /\ \/ m.event = "none"
                   \/ m.event = "arrived" /\ hp.pc = "arrived"
                   \/ m.event = "left" /\ hp.pc = "left"
<1>0. DevTypes
  BY DEF DevInv
<1>1. CASE Devices!Arrived
  <2>1. hp.pc = "arrived" /\ hp.o \in O
    BY <1>0, <1>1 DEF Devices!Arrived, DevTypes, Jobs
  <2>2. [event |-> "arrived", o |-> hp.o] \in Msgs
    BY <2>1 DEF Msgs
  <2> QED
    BY <1>1, <2>1, <2>2 DEF Devices!Arrived, Devices!NotifyWhenReady, Devices!Notification
<1>2. CASE Devices!Left
  <2>1. hp.pc = "left" /\ hp.o \in O
    BY <1>0, <1>2 DEF Devices!Left, DevTypes, Jobs
  <2>2. [event |-> "left", o |-> hp.o] \in Msgs
    BY <2>1 DEF Msgs
  <2> QED
    BY <1>2, <2>1, <2>2 DEF Devices!Left, Devices!NotifyWhenReady, Devices!Notification
<1>3. ASSUME NEW c \in Callbacks, Devices!Deregister(c)
      PROVE  \E m \in Msgs : msgs' = Append(msgs, m) /\ m.event = "none"
  <2>1. [event |-> "none", o |-> 0] \in Msgs
    BY DEF Msgs
  <2> QED
    BY <1>3, <2>1 DEF Devices!Deregister, Devices!Notification
<1>4. CASE Devices!EventStep
  BY <1>4 DEF Devices!EventStep, Devices!Fish, Devices!MatchStart, Devices!Match, Devices!Matched
<1>5. CASE Devices!Plug \/ Devices!Connect \/ Devices!Monitor
  BY <1>5 DEF Devices!Plug, Devices!Connect, Devices!Monitor, Devices!Read
<1>6. CASE Devices!InitStart \/ Devices!StartMonitor \/ Devices!Scan \/ Devices!IoInitLists \/ Devices!IoInitPipe
           \/ Devices!InitFails \/ Devices!ExitStart \/ Devices!ExitEnd
  BY <1>6 DEF Devices!InitStart, Devices!StartMonitor, Devices!Scan, Devices!IoInitLists, Devices!IoInitPipe,
           Devices!InitFails, Devices!ExitStart, Devices!ExitEnd, Devices!DropAll
<1>7. CASE Devices!HotplugPoll \/ Devices!GetDeviceList \/ Devices!FreeDeviceList \/ Devices!RegisterEnumerate
           \/ Devices!OpenFails \/ Devices!OpenReturns
  BY <1>7 DEF Devices!HotplugPoll, Devices!Read, Devices!GetDeviceList, Devices!FreeDeviceList,
           Devices!RegisterEnumerate, Devices!TakeList, Devices!OpenFails, Devices!OpenReturns
<1>8. ASSUME NEW n \in Devices!Objs, Devices!Open(n) \/ Devices!Close(n) PROVE msgs' = msgs
  BY <1>8 DEF Devices!Open, Devices!Close
<1>9. ASSUME NEW c \in Callbacks, Devices!Register(c) PROVE msgs' = msgs
  BY <1>9 DEF Devices!Register
<1>10. CASE UNCHANGED devicesVars
  BY <1>10 DEF devicesVars
<1>11. CASE Devices!UserStep
  BY <1>3, <1>6, <1>7, <1>8, <1>9, <1>11 DEF Devices!UserStep
<1> QED
  BY <1>1, <1>2, <1>4, <1>5, <1>10, <1>11 DEF Devices!Next, Devices!HotplugStep

\* Arrivals and removals go on alternating.
LEMMA AlternateStep ==
    ASSUME DevInv, Devices!MessagesAlternate, [Devices!Next]_devicesVars
    PROVE  Devices!MessagesAlternate'
<1>0. DevTypes /\ LastFacts /\ PlaceFacts /\ msgs \in Seq(Msgs)
  BY DEF DevInv, DevTypes
<1>1. CASE msgs' = msgs
  BY <1>1 DEF Devices!MessagesAlternate
<1>2. CASE msgs' = <<>>
  <2>1. Len(msgs') = 0
    BY <1>2, EmptySeq
  <2> QED
    BY <2>1 DEF Devices!MessagesAlternate
<1>3. CASE msgs # <<>> /\ msgs' = Tail(msgs)
  <2>1. /\ Len(msgs) \in Nat /\ Len(msgs') = Len(msgs) - 1
        /\ \A k \in 1..Len(msgs') : msgs'[k] = msgs[k + 1]
    BY <1>0, <1>3, HeadTailProperties, LenProperties
  <2> SUFFICES ASSUME NEW j \in 1..Len(msgs'), NEW k \in 1..Len(msgs'), j < k,
                      msgs'[j].event # "none", msgs'[k].event # "none",
                      \A i \in (j + 1)..(k - 1) : msgs'[i].event = "none"
               PROVE  msgs'[j].event # msgs'[k].event
    BY DEF Devices!MessagesAlternate
  <2>2. j + 1 \in 1..Len(msgs) /\ k + 1 \in 1..Len(msgs) /\ j + 1 < k + 1
    BY <2>1
  <2>3. \A i \in ((j + 1) + 1)..((k + 1) - 1) : msgs[i].event = "none"
    <3> TAKE i \in ((j + 1) + 1)..((k + 1) - 1)
    <3>1. i - 1 \in (j + 1)..(k - 1) /\ i - 1 \in 1..Len(msgs') /\ (i - 1) + 1 = i
      BY <2>1
    <3> QED
      BY <2>1, <3>1
  <2> QED
    BY <2>1, <2>2, <2>3 DEF Devices!MessagesAlternate
<1>4. ASSUME NEW m \in Msgs, msgs' = Append(msgs, m),
             \/ m.event = "none"
             \/ m.event = "arrived" /\ hp.pc = "arrived"
             \/ m.event = "left" /\ hp.pc = "left"
      PROVE  Devices!MessagesAlternate'
  <2>1. /\ Len(msgs) \in Nat /\ Len(msgs') = Len(msgs) + 1
        /\ \A k \in 1..Len(msgs) : msgs'[k] = msgs[k]
        /\ msgs'[Len(msgs) + 1] = m
    BY <1>0, <1>4, Appended
  <2> SUFFICES ASSUME NEW j \in 1..Len(msgs'), NEW k \in 1..Len(msgs'), j < k,
                      msgs'[j].event # "none", msgs'[k].event # "none",
                      \A i \in (j + 1)..(k - 1) : msgs'[i].event = "none"
               PROVE  msgs'[j].event # msgs'[k].event
    BY DEF Devices!MessagesAlternate
  <2>2. j \in 1..Len(msgs) /\ msgs'[j] = msgs[j] /\ \A i \in (j + 1)..(k - 1) : i \in 1..Len(msgs)
    BY <2>1
  <2>3. \A i \in (j + 1)..(k - 1) : msgs[i].event = "none"
    BY <2>1, <2>2
  <2>4. CASE k \in 1..Len(msgs)
    BY <2>1, <2>2, <2>3, <2>4 DEF Devices!MessagesAlternate
  <2>5. CASE k = Len(msgs) + 1
    <3>1. \A i \in (j + 1)..Len(msgs) : msgs[i].event = "none"
      <4>1. k - 1 = Len(msgs)
        BY <2>1, <2>5
      <4> QED
        BY <2>3, <4>1
    <3>2. /\ msgs[j].event = "arrived" => hp.pc \notin {"connect", "arrived"}
          /\ msgs[j].event = "left" => hp.pc # "left"
      BY <1>0, <2>2, <3>1 DEF LastFacts
    <3>3. msgs[j].event # "none" /\ msgs'[k] = m
      BY <2>1, <2>2, <2>5
    <3> QED
      BY <1>4, <2>2, <3>2, <3>3
  <2> QED
    BY <2>1, <2>4, <2>5
<1> QED
  BY <1>1, <1>2, <1>3, <1>4, MsgsStep

\* What the invariant says of the run's properties.
LEMMA DevMeans ==
    ASSUME DevInv
    PROVE  /\ Devices!TypeOK /\ Devices!RefsExact
           /\ Devices!MessagesLive /\ Devices!MessagesSignalled /\ Devices!ListMatchesBus
<1>0. /\ DevTypes /\ StageFacts /\ RefFacts /\ PlaceFacts /\ LiveFacts /\ LastFacts /\ SignalFacts
      /\ BusFacts /\ AttachFacts /\ CallbackFacts
  BY DEF DevInv
<1>1. Devices!TypeOK
  <2>1. IsFiniteSet(devs) /\ Cardinality(devs) <= 1
    <3>1. CASE devs = {}
      BY <3>1, FS_EmptySet
    <3>2. ASSUME NEW n \in devs PROVE IsFiniteSet(devs) /\ Cardinality(devs) <= 1
      <4>1. devs = {n}
        BY <1>0 DEF PlaceFacts
      <4>2. IsFiniteSet({n}) /\ Cardinality({n}) = 1
        BY FS_Singleton
      <4> QED
        BY <4>1, <4>2
    <3> QED
      BY <3>1, <3>2
  <2>2. Devices!Cardinality(devs) <= 1
    BY <2>1 DEF Devices!Cardinality, Cardinality
  <2>3. cbs \in Seq(Callbacks) /\ DOMAIN cbs = 1..Len(cbs) /\ \A k \in 1..Len(cbs) : cbs[k] \in Callbacks
    BY <1>0, LenProperties, ElementOfSeq DEF CallbackFacts
  <2>4. Devices!ToSet(cbs) \subseteq Callbacks /\ Devices!IsInjective(cbs) /\ dying \subseteq Devices!ToSet(cbs)
    BY <1>0, <2>3 DEF CallbackFacts, Injective, Devices!ToSet, Devices!IsInjective
  <2> QED
    BY <1>0, <2>2, <2>4 DEF DevTypes, Devices!TypeOK, O
<1>2. Devices!RefsExact
  <2> SUFFICES ASSUME NEW o \in O PROVE ref[o] = Devices!Holders(o) + Devices!Count(o \in lost)
    BY DEF Devices!RefsExact, O
  <2> DEFINE S == {k \in 1..Len(msgs) : msgs[k] = [event |-> "left", o |-> o]}
  <2>1. \A k \in 1..Len(msgs) : msgs[k] \in Msgs
    BY <1>0, ElementOfSeq DEF DevTypes
  <2>2. \A k \in 1..Len(msgs) : k \in S <=> Left(msgs[k], o)
    BY <2>1 DEF Left, Msgs
  <2>3. Handled(o) <=> ev.m = [event |-> "left", o |-> o]
    BY <1>0 DEF Handled, Left, DevTypes, Msgs
  <2>4. Cardinality(S) = IF Queued(o) THEN 1 ELSE 0
    <3>1. CASE Queued(o)
      <4>1. PICK k \in 1..Len(msgs) : Left(msgs[k], o)
        BY <3>1 DEF Queued
      <4>2. S = {k}
        <5>1. \A j \in 1..Len(msgs) : Left(msgs[j], o) => j = k
          BY <1>0, <4>1 DEF StageFacts
        <5> QED
          BY <2>2, <4>1, <5>1
      <4> QED
        BY <3>1, <4>2, FS_Singleton
    <3>2. CASE ~Queued(o)
      <4>1. S = {}
        BY <2>2, <3>2 DEF Queued
      <4> QED
        BY <3>2, <4>1, FS_EmptySet
    <3> QED
      BY <3>1, <3>2
  <2>5. Devices!Cardinality(S) = Cardinality(S)
    BY DEF Devices!Cardinality, Cardinality
  <2> HIDE DEF S
  <2>6. Devices!Holders(o) =
          Devices!Count(OnList(o)) + Cardinality(S) + Devices!Count(Handled(o))
            + Devices!Count(o \in held) + Devices!Count(o \in opened) + Devices!Count(Opening(o))
            + Devices!Count(Connecting(o)) + 2 * Devices!Count(Leaves(o))
    <3>1. Devices!Count(ev.m = [event |-> "left", o |-> o]) = Devices!Count(Handled(o))
      BY <2>3 DEF Devices!Count
    <3> QED
      BY <2>5, <3>1 DEF Devices!Holders, S, OnList, Opening, Connecting, Leaves
  <2>7. ref[o] = Stage(o) + Users(o)
    BY <1>0 DEF RefFacts, RefFact
  <2>8. Users(o) \in Nat /\ Users(o) = Devices!Count(o \in held) + Devices!Count(o \in opened) + Devices!Count(Opening(o))
        /\ Devices!Count(o \in held) \in Nat /\ Devices!Count(o \in opened) \in Nat /\ Devices!Count(Opening(o)) \in Nat
    BY DEF Users, Devices!Count
  <2>9. Stage(o) = Devices!Count(OnList(o)) + (IF Queued(o) THEN 1 ELSE 0) + Devices!Count(Handled(o))
                     + Devices!Count(Connecting(o)) + 2 * Devices!Count(Leaves(o)) + Devices!Count(Lost(o))
    <3>1. /\ Connecting(o) => ~OnList(o) /\ ~Queued(o) /\ ~Handled(o) /\ ~Lost(o) /\ ~Leaves(o)
          /\ OnList(o) => ~Leaves(o) /\ ~Queued(o) /\ ~Handled(o) /\ ~Lost(o)
          /\ Leaves(o) => ~Queued(o) /\ ~Handled(o) /\ ~Lost(o)
          /\ Queued(o) => ~Handled(o) /\ ~Lost(o)
          /\ Handled(o) => ~Lost(o)
      BY <1>0 DEF StageFacts, Connecting, Leaves
    <3> QED
      BY <3>1 DEF Stage, Devices!Count
  <2>10. /\ Devices!Count(OnList(o)) \in Nat /\ Devices!Count(Handled(o)) \in Nat /\ Devices!Count(Connecting(o)) \in Nat
         /\ Devices!Count(Leaves(o)) \in Nat /\ Devices!Count(Lost(o)) \in Nat /\ Cardinality(S) \in Nat
    BY <2>4 DEF Devices!Count
  <2>11. Devices!Count(o \in lost) = Devices!Count(Lost(o))
    BY DEF Lost
  <2> QED
    BY <2>4, <2>6, <2>7, <2>8, <2>9, <2>10, <2>11
<1>3. Devices!MessagesLive
  <2>0. msgs \in Seq(Msgs) /\ DOMAIN msgs = 1..Len(msgs) /\ \A k \in 1..Len(msgs) : msgs[k] \in Msgs
    BY <1>0, ElementOfSeq, LenProperties DEF DevTypes
  <2>1. \A o \in O : OnList(o) \/ Leaves(o) \/ Queued(o) \/ Handled(o) => ref[o] > 0
    <3> TAKE o \in O
    <3>1. ref[o] = Stage(o) + Users(o) /\ Users(o) \in Nat
      BY <1>0 DEF RefFacts, RefFact, Users, Devices!Count
    <3>2. OnList(o) \/ Leaves(o) \/ Queued(o) \/ Handled(o) => Stage(o) \in {1, 2}
      BY DEF Stage
    <3> QED
      BY <3>1, <3>2
  <2>2. \A k \in 1..Len(msgs) : msgs[k].event # "none" => ref[msgs[k].o] > 0
    <3> SUFFICES ASSUME NEW k \in 1..Len(msgs), msgs[k].event # "none" PROVE ref[msgs[k].o] > 0
      OBVIOUS
    <3>1. msgs[k].o \in O /\ msgs[k].event \in {"arrived", "left"}
      BY <2>0 DEF Msgs
    <3>2. CASE msgs[k].event = "left"
      BY <2>1, <3>1, <3>2 DEF Queued, Left
    <3>3. CASE msgs[k].event = "arrived"
      <4>1. Later(msgs[k].o, k)
        BY <1>0, <3>3 DEF LiveFacts
      <4>2. \A j \in (k + 1)..Len(msgs) : j \in 1..Len(msgs)
        BY <2>0, LenProperties
      <4> QED
        BY <2>1, <3>1, <4>1, <4>2 DEF Later, Queued
    <3> QED
      BY <3>1, <3>2, <3>3
  <2>3. ev.m.event # "none" => ref[ev.m.o] > 0
    <3> SUFFICES ASSUME ev.m.event # "none" PROVE ref[ev.m.o] > 0
      OBVIOUS
    <3>1. ev.m.o \in O /\ ev.m.event \in {"arrived", "left"}
      BY <1>0 DEF Msgs, DevTypes
    <3>2. CASE ev.m.event = "left"
      BY <2>1, <3>1, <3>2 DEF Handled, Left
    <3>3. CASE ev.m.event = "arrived"
      <4>1. Later(ev.m.o, 0)
        BY <1>0, <3>3 DEF LiveFacts
      <4> QED
        BY <2>1, <3>1, <4>1 DEF Later, Queued
    <3> QED
      BY <3>1, <3>2, <3>3
  <2> QED
    BY <2>0, <2>2, <2>3 DEF Devices!MessagesLive, Devices!ToSet
<1>4. Devices!MessagesSignalled
  BY <1>0 DEF SignalFacts, Devices!MessagesSignalled
<1>5. Devices!ListMatchesBus
  BY <1>0 DEF BusFacts, Present, Devices!ListMatchesBus, DevTypes
<1> QED
  BY <1>1, <1>2, <1>3, <1>4, <1>5

-----------------------------------------------------------------------------
(* All of them *)

\* Each part keeps its invariant: it moves by its own steps, or not at all.
CoreInv == DescInv /\ SyncInv /\ UdevInv /\ DevInv /\ Devices!MessagesAlternate

\* What a step of the whole is to each part.
LEMMA PartSteps ==
    ASSUME [Next]_vars
    PROVE  /\ [Descriptors!Next]_descVars /\ [Sync!Next]_syncVars /\ [Udev!Next]_udevVars
           /\ [Devices!Next]_devicesVars
<1>1. CASE UNCHANGED vars
  <2>1. UNCHANGED descVars /\ UNCHANGED syncVars /\ UNCHANGED udevVars /\ UNCHANGED devicesVars
    BY <1>1, Zenon DEF vars, moreVars
  <2> QED
    BY <2>1
<1>2. CASE DevicesNext
  <2>1. Devices!Next /\ UNCHANGED descVars /\ UNCHANGED syncVars /\ UNCHANGED udevVars
    BY <1>2, Zenon DEF DevicesNext, moreVars
  <2> QED
    BY <2>1
<1>3. CASE HandleNext
  <2>1. UNCHANGED descVars /\ UNCHANGED syncVars /\ UNCHANGED udevVars /\ UNCHANGED devicesVars
    BY <1>3, Zenon DEF HandleNext, moreVars
  <2> QED
    BY <2>1
<1>4. CASE DescriptorsNext
  <2>1. Descriptors!Next /\ UNCHANGED syncVars /\ UNCHANGED udevVars /\ UNCHANGED devicesVars
    BY <1>4, Zenon DEF DescriptorsNext, moreVars
  <2> QED
    BY <2>1
<1>5. CASE SyncNext
  <2>1. Sync!Next /\ UNCHANGED descVars /\ UNCHANGED udevVars /\ UNCHANGED devicesVars
    BY <1>5, Zenon DEF SyncNext
  <2> QED
    BY <2>1
<1>6. CASE UdevNext
  <2>1. Udev!Next /\ UNCHANGED descVars /\ UNCHANGED syncVars /\ UNCHANGED devicesVars
    BY <1>6, Zenon DEF UdevNext
  <2> QED
    BY <2>1
<1> QED
  BY <1>1, <1>2, <1>3, <1>4, <1>5, <1>6 DEF Next

\* The parts start in their invariants, and keep them.
LEMMA CoreBegins == Init => CoreInv
<1> SUFFICES ASSUME Init PROVE CoreInv
  OBVIOUS
<1>1. Devices!Init /\ Descriptors!Init /\ Sync!Init /\ Udev!Init
  BY DEF Init
<1>2. Devices!MessagesAlternate
  <2>1. Len(msgs) = 0
    BY <1>1, EmptySeq DEF Devices!Init
  <2> QED
    BY <2>1 DEF Devices!MessagesAlternate
<1> QED
  BY <1>1, <1>2, DevInit, DescBegins, SyncInit, UdevInit DEF CoreInv

\* Every step of the whole keeps them.
LEMMA CoreStep == ASSUME CoreInv, [Next]_vars PROVE CoreInv'
<1>1. DescInv /\ SyncInv /\ UdevInv /\ DevInv /\ Devices!MessagesAlternate
  BY DEF CoreInv
<1>2. DescInv' /\ SyncInv' /\ UdevInv' /\ DevInv' /\ Devices!MessagesAlternate'
  BY <1>1, PartSteps, DescStep, SyncStep, UdevStep, DevStep, AlternateStep
<1> QED
  BY <1>2 DEF CoreInv

\* For any number of devices, bus changes, callbacks, threads and calls: a device
\* object has exactly the references that its list, its messages, its look-ups and
\* the user took, those that left before a message could be queued apart; and a
\* synchronous transfer lives as long as its call, which waits for something that
\* ends and then finds a status it knows.
THEOREM RefsAreExact == Spec => []RefsExact
<1>1. CoreInv => RefsExact
  BY DevMeans, DescMeans, SyncMeans, UdevMeans DEF CoreInv, RefsExact
<1>2. CoreInv /\ [Next]_vars => CoreInv'
  BY CoreStep
<1> QED
  BY <1>1, <1>2, CoreBegins, PTL DEF Spec

\* Hotplug messages name devices that exist, alternate between arrivals and removals
\* and are signalled, unless the signal came before the pipe; with the socket empty and
\* the monitor idle the list is what is on the bus; and so with udev, for any number
\* of addresses, whose thread never runs without its monitor.
THEOREM MessagesFollowTheBus == Spec => []MessagesFollowBus
<1>1. CoreInv => MessagesFollowBus
  BY DevMeans, UdevMeans DEF CoreInv, MessagesFollowBus
<1>2. CoreInv /\ [Next]_vars => CoreInv'
  BY CoreStep
<1> QED
  BY <1>1, <1>2, CoreBegins, PTL DEF Spec
=============================================================================
