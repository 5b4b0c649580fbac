------------------------------ MODULE IspShell ------------------------------
(***************************************************************************)
(* IspDrvShellImp and IspEventThreadImp of the MTK camera                  *)
(* (isp_function.cpp): the drivers and buffers that all pipes share, and   *)
(* the thread that waits for the start of a frame.                         *)
(*                                                                         *)
(* The shell keeps tile buffers for each of the current number of burst    *)
(* queues and a virtual driver for each command queue; both are made       *)
(* again when updateBurstQueueNum() changes the number.  Its operations    *)
(* hold mCQBufferLock from end to end and are steps.  Sizes, addresses     *)
(* and the contents of the buffers are left out.                           *)
(***************************************************************************)
EXTENDS Naturals

CONSTANTS
  MaxUsers,  \* bound on init() calls not yet matched by uninit()
  MaxNum,    \* largest number of burst queues
  MaxStarts, \* bound on Start() calls
  MaxFails,  \* bound on failing operations
  None

VARIABLES
  users,   \* mInitCount
  num,     \* the driver's current number of burst queues
  table,   \* number of queues the driver's command-queue table was made for
  mdp,     \* times gMdpBufInfo is allocated
  tpipe,   \* per burst queue: times its tile buffers are allocated
  virt,    \* per command queue: times its virtual driver is initialised
  drivers, \* imem, physical, crz and twin driver: which pointers are set
  cur,     \* command queue whose virtual driver m_pP2IspDrv names
  failed,  \* operations that failed (history)
  th,      \* the event thread
  un,      \* init() or uninit() of the event thread
  sem,     \* m_semIspEventthread
  brk,     \* m_bBreak
  joinable,
  started  \* Start() calls since init() (history)

shell == <<users, num, table, mdp, tpipe, virt, drivers, cur, failed>>
event == <<th, un, sem, brk, joinable, started>>
vars == <<shell, event>>

Total(n) == n + 1  \* ISP_DRV_CQNUMINFO_CTRL_GET_TOTALCQNUM
Queues == 0..(Total(MaxNum) - 1)
Bursts == 0..(MaxNum - 1)
Fails(x) == failed' = (IF x THEN failed + 1 ELSE failed) /\ failed' <= MaxFails
All == {"imem", "phy", "crz", "twin"}

TypeOK ==
  /\ users \in 0..MaxUsers /\ num \in 1..MaxNum /\ table \in 0..MaxNum
  /\ mdp \in Nat /\ tpipe \in [Bursts -> Nat] /\ virt \in [Queues -> Nat]
  /\ drivers \subseteq All /\ cur \in Queues \cup {None} /\ failed \in 0..MaxFails
  /\ th \in {"none", "created", "detached", "loop", "ended"}
  /\ un \in {"idle", "init", "join", "wait"}
  /\ sem \in 0..(MaxStarts + 1) /\ brk \in BOOLEAN /\ joinable \in BOOLEAN
  /\ started \in 0..MaxStarts

Init ==
  /\ users = 0 /\ num = 1 /\ table = 1 /\ mdp = 0
  /\ tpipe = [k \in Bursts |-> 0] /\ virt = [q \in Queues |-> 0]
  /\ drivers = {} /\ cur = None /\ failed = 0
  /\ th = "none" /\ un = "idle" /\ sem = 0 /\ brk = FALSE /\ joinable = FALSE /\ started = 0

-----------------------------------------------------------------------------
(* controlBurstQueBuffer() *)

\* Alloc for n burst queues; init() of the virtual driver of queue `stop' fails.
AllocBuffers(n, stop) ==
  /\ mdp' = mdp + 1
  /\ tpipe' = [k \in Bursts |-> IF k < n THEN tpipe[k] + 1 ELSE tpipe[k]]
  /\ virt' = [q \in Queues |-> IF q < stop THEN virt[q] + 1 ELSE virt[q]]

Less(x) == IF x = 0 THEN 0 ELSE x - 1

\* Free for n burst queues; the virtual drivers are those of the current
\* number, and uninit() of that of queue `stop' fails.
FreeBuffers(n, stop) ==
  /\ mdp' = Less(mdp)
  /\ tpipe' = [k \in Bursts |-> IF k < n THEN Less(tpipe[k]) ELSE tpipe[k]]
  /\ virt' = [q \in Queues |-> IF q < stop THEN Less(virt[q]) ELSE virt[q]]

-----------------------------------------------------------------------------
(* init() and uninit() *)

InitCounted ==
  /\ users \in 1..(MaxUsers - 1) /\ users' = users + 1
  /\ UNCHANGED <<num, table, mdp, tpipe, virt, drivers, cur, failed>>

\* The first user creates everything.  A driver that cannot be created ends
\* init() uncounted, with what it had made; a failing virtual driver is ignored.
InitFirst ==
  /\ users = 0
  /\ \/ \E stop \in 0..Total(num) :
          /\ AllocBuffers(num, stop) /\ users' = 1 /\ drivers' = All
          /\ Fails(stop < Total(num))
     \/ /\ drivers' \in {{}, {"imem"}, {"imem", "phy"}}
        /\ Fails(TRUE) /\ UNCHANGED <<users, mdp, tpipe, virt>>
     \/ /\ AllocBuffers(num, Total(num)) /\ drivers' \in {{"imem", "phy"}, {"imem", "phy", "crz"}}
        /\ Fails(TRUE) /\ UNCHANGED users
  /\ UNCHANGED <<num, table, cur>>

UninitCounted ==
  /\ users \in 2..MaxUsers /\ users' = users - 1
  /\ UNCHANGED <<num, table, mdp, tpipe, virt, drivers, cur, failed>>

\* Mutant: the last user frees the buffers of a single burst queue.
UninitLastMutant ==
  /\ users = 1 /\ users' = 0
  /\ FreeBuffers(1, Total(num))
  /\ drivers' = {"crz"} /\ Fails(FALSE)
  /\ cur' = None /\ UNCHANGED <<num, table>>

\* The last user frees everything but the crz driver.  When the physical
\* driver's uninit() fails, its pointer and the others of that part stay.
UninitLast ==
  /\ users = 1 /\ users' = 0
  /\ \E stop \in 0..Total(num) :
       /\ FreeBuffers(num, stop)
       /\ \/ drivers' = {"crz"} /\ cur' = None /\ Fails(stop < Total(num))
          \/ drivers' = {"crz", "phy"} /\ cur' = cur /\ Fails(TRUE)
  /\ UNCHANGED <<num, table>>

-----------------------------------------------------------------------------
(* updateBurstQueueNum(n) and ispDrvSwitch2Virtual(q) *)

\* The table and the buffers of the old number go, the number changes, and the
\* table and the buffers of the new number come.
Update(n) ==
  /\ users > 0 /\ n # num
  /\ num' = n /\ table' = n
  /\ \E stop \in 0..Total(n) :
       /\ mdp' = Less(mdp) + 1
       /\ tpipe' = [k \in Bursts |->
            (IF k < num THEN Less(tpipe[k]) ELSE tpipe[k]) + (IF k < n THEN 1 ELSE 0)]
       /\ virt' = [q \in Queues |->
            (IF q < Total(num) THEN Less(virt[q]) ELSE virt[q]) + (IF q < stop THEN 1 ELSE 0)]
       /\ Fails(stop < Total(n))
  /\ UNCHANGED <<users, drivers, cur>>

\* A step fails: the table cannot be freed; it has gone and the buffers are
\* freed in part; or there is no table for the new number, and no buffers.
UpdateFails(n) ==
  /\ users > 0 /\ n # num /\ Fails(TRUE)
  /\ \/ UNCHANGED <<num, table, mdp, tpipe, virt>>
     \/ table' = 0 /\ FreeBuffers(num, 0) /\ UNCHANGED num
     \/ num' = n /\ table' = 0 /\ FreeBuffers(num, Total(num))
  /\ UNCHANGED <<users, drivers, cur>>

\* A queue that the current number does not have is refused.
Switch2Virtual(q) ==
  /\ users > 0 /\ q < Total(num) /\ cur' = q
  /\ UNCHANGED <<users, num, table, mdp, tpipe, virt, drivers, failed>>

ShellNext ==
  /\ \/ InitCounted \/ InitFirst \/ UninitCounted \/ UninitLast
     \/ \E n \in 1..MaxNum : Update(n) \/ UpdateFails(n)
     \/ \E q \in Queues : Switch2Virtual(q)
  /\ UNCHANGED event

-----------------------------------------------------------------------------
(* The event thread, with one user *)

EventInit ==
  /\ th \in {"none", "ended"} /\ un = "idle" /\ un' = "init"
  /\ sem' = 0 /\ th' = "created" /\ joinable' = TRUE /\ started' = 0
  /\ UNCHANGED brk

\* m_bBreak is cleared once the thread runs.
EventInitReturns ==
  /\ un = "init" /\ un' = "idle" /\ brk' = FALSE
  /\ UNCHANGED <<th, sem, joinable, started>>

Start ==
  /\ th # "none" /\ un = "idle" /\ started < MaxStarts
  /\ sem' = sem + 1 /\ started' = started + 1
  /\ UNCHANGED <<th, un, brk, joinable>>

\* ispEventThread(): it detaches itself, waits for Start() and loops.
Detach ==
  /\ th = "created" /\ th' = "detached" /\ joinable' = FALSE
  /\ UNCHANGED <<un, sem, brk, started>>

Enter ==
  /\ th = "detached" /\ sem > 0 /\ sem' = sem - 1 /\ th' = "loop"
  /\ UNCHANGED <<un, brk, joinable, started>>

Break ==
  /\ th = "loop" /\ brk /\ th' = "ended" /\ sem' = sem + 1
  /\ UNCHANGED <<un, brk, joinable, started>>

\* uninit(): the join of a thread that is not detached never returns, as the
\* thread ends only once brk is set; that of a detached one fails at once.
EventUninit ==
  /\ th # "none" /\ un = "idle" /\ un' = "join"
  /\ UNCHANGED <<th, sem, brk, joinable, started>>

Join ==
  /\ un = "join" /\ (joinable => th = "ended") /\ brk' = TRUE
  /\ un' = "wait" /\ UNCHANGED <<th, sem, joinable, started>>

UninitReturns ==
  /\ un = "wait" /\ sem > 0 /\ sem' = sem - 1 /\ un' = "idle"
  /\ th' = IF th = "ended" THEN "none" ELSE th
  /\ UNCHANGED <<brk, joinable, started>>

EventNext ==
  /\ \/ EventInit \/ EventInitReturns \/ Start \/ Detach \/ Enter \/ Break
     \/ EventUninit \/ Join \/ UninitReturns
  /\ UNCHANGED shell

Next == ShellNext \/ EventNext

Spec == Init /\ [][Next]_vars

-----------------------------------------------------------------------------
\* While nothing has failed, the shell holds the buffers and virtual drivers of
\* exactly the current number of burst queues while it has users, and none
\* otherwise, however init(), uninit() and updateBurstQueueNum() alternate.
BuffersExact ==
  failed = 0 =>
    LET used == IF users > 0 THEN 1 ELSE 0
    IN /\ table = num /\ mdp = used
       /\ \A k \in Bursts : tpipe[k] = IF k < num THEN used ELSE 0
       /\ \A q \in Queues : virt[q] = IF q < Total(num) THEN used ELSE 0
       /\ users > 0 => drivers = All

\* When Start() was called at most once and uninit() found the thread in its
\* loop, the thread has left the loop, and the driver, when uninit() returns.
ThreadLeavesFirst ==
  th = "loop" /\ un = "idle" => ~brk \/ started > 1
=============================================================================
