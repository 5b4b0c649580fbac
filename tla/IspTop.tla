------------------------------- MODULE IspTop -------------------------------
(***************************************************************************)
(* ISP_TOP_CTRL and ISP_RAW_CENTRAL_CTRL_INFO of the MTK camera            *)
(* (isp_function.cpp): how the pipes of several sensors configure, start   *)
(* and stop the paths of one image processor.                              *)
(*                                                                         *)
(* A pipe is an ISP_TOP_CTRL object with the paths it names in path and    *)
(* pathD: the raw path, the raw-D path or, in twin mode, both; CAMSV,      *)
(* CAMSV_D or both.  Pipes run in threads of their own and share the       *)
(* registers and mEnablePath, the set of open paths.  Registers that only  *)
(* describe a format, and the waits for a vertical sync, are left out.     *)
(***************************************************************************)
EXTENDS Naturals

CONSTANT MaxStarts  \* bound on configurations

VARIABLES
  pipe,     \* per pipe: where it is, its paths, those still to stop, and the
            \* value of mEnablePath that config2() has read
  en,       \* rawCentralCtrl.mEnablePath
  cq,       \* CAM_CTL_CQ_EN
  vf,       \* paths whose VFDATA_EN is set
  dma,      \* paths whose DMA the kernel has as enabled
  wake,     \* the wake lock of the driver
  lock,     \* holder of gPass1TopCtrlLock
  known,    \* pipes whose configuration config2() has accepted (history)
  raced,    \* config2() of a pipe overlapped that of another, or a stop (history)
  broken,   \* a call failed in a way that leaves something on (history)
  camsv,    \* CAMSV was configured (history)
  starts

vars == <<pipe, en, cq, vf, dma, wake, lock, known, raced, broken, camsv, starts>>
hist == <<broken, camsv, starts>>
hw == <<cq, vf, dma, wake>>

Pipes == {"main", "sub", "sv"}
Choices ==
  [main |-> {{"p1"}, {"p1", "p1d"}}, sub |-> {{"p1d"}}, sv |-> {{"sv"}, {"svd"}, {"sv", "svd"}}]
Order == <<"p1", "p1d", "sv", "svd">>
Paths == {"p1", "p1d", "sv", "svd"}
Raw == {"p1", "p1d"}
Cqs == [p1 |-> {"CQ0", "CQ0C"}, p1d |-> {"CQ0_D", "CQ0C_D"}, sv |-> {}, svd |-> {}]

Nobody == "none"
Closed == [at |-> "closed", paths |-> {}, rest |-> {}, seen |-> {}]

TypeOK ==
  /\ pipe \in [Pipes -> [at : {"closed", "config", "config2", "clear", "ready", "vf", "streaming",
                               "failed", "stop", "wait", "fbc", "reset", "unlock"},
                         paths : SUBSET Paths, rest : SUBSET Paths, seen : SUBSET Paths]]
  /\ {en, vf, dma} \subseteq SUBSET Paths
  /\ cq \subseteq UNION {Cqs[x] : x \in Paths} /\ wake \in BOOLEAN
  /\ lock \in Pipes \cup {Nobody}
  /\ known \subseteq Pipes /\ {raced, broken, camsv} \subseteq BOOLEAN
  /\ starts \in 0..MaxStarts

Init ==
  /\ pipe = [p \in Pipes |-> Closed]
  /\ en = {} /\ cq = {} /\ vf = {} /\ dma = {} /\ wake = FALSE /\ lock = Nobody
  /\ camsv = FALSE /\ known = {} /\ raced = FALSE /\ broken = FALSE /\ starts = 0

At(p, s) == pipe[p].at = s
Go(p, s) == pipe' = [pipe EXCEPT ![p].at = s]

Stopping(p) == pipe[p].at \in {"stop", "wait", "fbc", "reset", "unlock"}

-----------------------------------------------------------------------------
(* _config() *)

\* Mutant: the common queues are enabled by the first pipe only.
EnableCqMutant(paths) ==
  cq' = IF paths \cap Raw = {} \/ en # {} THEN cq
        ELSE cq \cup {"CQ0C", "CQ0C_D"} \cup UNION {Cqs[x] : x \in paths}

\* A raw pipe enables its own command queue, and CQ0C and CQ0C_D in any case.
EnableCq(paths) ==
  cq' = IF paths \cap Raw = {} THEN cq
        ELSE cq \cup {"CQ0C", "CQ0C_D"} \cup UNION {Cqs[x] : x \in paths}

\* No two pipes are given the same path.
Config(p, paths) ==
  /\ At(p, "closed") /\ starts < MaxStarts /\ paths \in Choices[p]
  /\ \A q \in Pipes : pipe[q].paths \cap paths = {}
  /\ starts' = starts + 1 /\ camsv' = (camsv \/ p = "sv")
  /\ EnableCq(paths)
  /\ pipe' = [pipe EXCEPT ![p] = [Closed EXCEPT !.at = "config", !.paths = paths]]
  /\ UNCHANGED <<en, vf, dma, wake, lock, known, raced, broken>>

\* config2() reads mEnablePath and writes it, and takes no lock.
Overlaps(p) == \E q \in Pipes \ {p} : At(q, "config2") \/ Stopping(q)

Config2Reads(p) ==
  /\ At(p, "config")
  /\ pipe' = [pipe EXCEPT ![p].at = "config2", ![p].seen = en]
  /\ raced' = (raced \/ Overlaps(p))
  /\ UNCHANGED <<en, hw, lock, known, hist>>

\* It refuses a third path besides the two raw ones, a raw-D path in twin mode
\* as the second, and a CAMSV path that is open.
Accepts(seen, paths) ==
  /\ ~Raw \subseteq seen
  /\ paths = Raw => seen = {}
  /\ paths \cap seen = {}

\* _config() goes on whatever config2() returns; a raw path is enabled again.
Config2Writes(p) ==
  /\ At(p, "config2") /\ Go(p, "clear")
  /\ IF Accepts(pipe[p].seen, pipe[p].paths)
       THEN en' = pipe[p].seen \cup pipe[p].paths /\ known' = known \cup {p}
       ELSE UNCHANGED <<en, known>>
  /\ raced' = (raced \/ Overlaps(p))
  /\ EnableCq(pipe[p].paths)
  /\ UNCHANGED <<vf, dma, wake, lock, hist>>

\* ISP_RT_BUF_CTRL_CLEAR and ISP_RT_BUF_CTRL_DMA_EN, the former may fail.
ConfigDone(p) ==
  /\ At(p, "clear")
  /\ \/ Go(p, "ready") /\ dma' = dma \cup pipe[p].paths
     \/ Go(p, "failed") /\ UNCHANGED dma
  /\ UNCHANGED <<en, cq, vf, wake, lock, known, raced, hist>>

-----------------------------------------------------------------------------
(* _enable(CAM_ISP_PASS1_START): gPass1Lock or gPass1_dLock, which only the   *)
(* starts of one sensor share                                                 *)

\* For one path after the other the interrupt status is cleared, which may fail,
\* and the view finder turned on.
StartVf(p) ==
  /\ At(p, "ready")
  /\ \/ Go(p, "vf") /\ vf' = vf \cup pipe[p].paths
     \/ /\ Go(p, "failed")
        /\ \E k \in DOMAIN Order :
             /\ Order[k] \in pipe[p].paths
             /\ vf' = vf \cup ({Order[j] : j \in 1..(k - 1)} \cap pipe[p].paths)
  /\ UNCHANGED <<en, cq, dma, wake, lock, known, raced, hist>>

\* ISPWakeLockCtrl(MTRUE).
StartWake(p) ==
  /\ At(p, "vf")
  /\ \/ Go(p, "streaming") /\ wake' = TRUE
     \/ Go(p, "failed") /\ UNCHANGED wake
  /\ UNCHANGED <<en, cq, vf, dma, lock, known, raced, hist>>

-----------------------------------------------------------------------------
(* _disable() *)

CanStop(p) == pipe[p].at \in {"ready", "streaming", "failed"}

\* Mutant: every sensor has a lock of its own.
LockFreeMutant(p) == ~Stopping(p)

\* gPass1TopCtrlLock, for all paths of pass 1.
LockFree(p) == lock = Nobody

\* bP1Path does not look for CAMSV_D in pathD: the call ends as one for an
\* unknown path of pass 2.
StopRefused(p) ==
  /\ CanStop(p) /\ LockFree(p) /\ pipe[p].paths = {"svd"}
  /\ pipe' = [pipe EXCEPT ![p] = Closed] /\ broken' = TRUE
  /\ known' = known \ {p}
  /\ UNCHANGED <<en, hw, lock, raced, camsv, starts>>

Stop(p) ==
  /\ CanStop(p) /\ LockFree(p) /\ pipe[p].paths # {"svd"}
  /\ lock' = p
  /\ pipe' = [pipe EXCEPT ![p].at = "stop", ![p].rest = pipe[p].paths]
  /\ raced' = (raced \/ \E q \in Pipes \ {p} : At(q, "config2"))
  /\ UNCHANGED <<en, hw, known, hist>>

Current(p) == Order[CHOOSE k \in 1..4 : Order[k] \in pipe[p].rest
                                        /\ \A j \in 1..(k - 1) : Order[j] \notin pipe[p].rest]

\* clearPath(), and the view finder is turned off; raw turns off those of CAMSV
\* as well, "no matter camsv imgo enable or not".
StopPath(p) ==
  LET x == Current(p)
  IN /\ At(p, "stop") /\ pipe[p].rest # {}
     /\ en' = en \ {x}
     /\ vf' = vf \ (IF x = "p1" THEN {"p1", "sv", "svd"} ELSE {x})
     /\ IF x \in Raw THEN Go(p, "wait") /\ UNCHANGED dma
        ELSE /\ pipe' = [pipe EXCEPT ![p].rest = @ \ {x}]
             /\ dma' = dma \ {x}
     /\ UNCHANGED <<cq, wake, lock, known, raced, hist>>

\* Those of the path, the other's too if it was the last, and CQ0C_D in twin
\* mode.
CqsToStop(x, paths) ==
  Cqs[x] \cup (IF en = {} THEN Cqs["p1"] \cup Cqs["p1d"] ELSE {})
         \cup (IF x = "p1" /\ paths = Raw THEN {"CQ0C_D"} ELSE {})

\* A frame later its queues are turned off.  While another path is open the
\* processor cannot be reset: the path runs for two more frames, in single
\* mode, to reset its FBC.
StopCq(p) ==
  LET x == Current(p)
  IN /\ At(p, "wait")
     /\ cq' = cq \ CqsToStop(x, pipe[p].paths)
     /\ dma' = dma \ {x}
     /\ IF en # {} THEN Go(p, "fbc") /\ vf' = vf \cup {x}
        ELSE pipe' = [pipe EXCEPT ![p].at = "stop", ![p].rest = @ \ {x}] /\ UNCHANGED vf
     /\ UNCHANGED <<en, wake, lock, known, raced, hist>>

StopFbc(p) ==
  /\ At(p, "fbc")
  /\ vf' = vf \ {Current(p)}
  /\ pipe' = [pipe EXCEPT ![p].at = "stop", ![p].rest = @ \ {Current(p)}]
  /\ UNCHANGED <<en, cq, dma, wake, lock, known, raced, hist>>

LastPath == en = {}

\* With no path open the processor is reset.
StopChecks(p) ==
  /\ At(p, "stop") /\ pipe[p].rest = {}
  /\ Go(p, IF LastPath THEN "reset" ELSE "unlock")
  /\ UNCHANGED <<en, hw, lock, known, raced, hist>>

\* HW_RST, and ISPWakeLockCtrl(MFALSE), which may fail.
StopResets(p) ==
  /\ At(p, "reset") /\ Go(p, "unlock")
  /\ \/ wake' = FALSE /\ UNCHANGED broken
     \/ broken' = TRUE /\ UNCHANGED wake
  /\ UNCHANGED <<en, cq, vf, dma, lock, known, raced, camsv, starts>>

\* The rings are cleared, or that fails, and the lock is dropped.
StopReturns(p) ==
  /\ At(p, "unlock")
  /\ lock' = Nobody /\ known' = known \ {p}
  /\ pipe' = [pipe EXCEPT ![p] = Closed]
  /\ UNCHANGED <<en, hw, raced, hist>>

\* What follows an unlocked overlap is not explored.
Next ==
  /\ ~raced
  /\ \E p \in Pipes :
       \/ \E paths \in SUBSET Paths : Config(p, paths)
       \/ Config2Reads(p) \/ Config2Writes(p) \/ ConfigDone(p) \/ StartVf(p) \/ StartWake(p)
       \/ StopRefused(p) \/ Stop(p) \/ StopPath(p) \/ StopCq(p) \/ StopFbc(p)
       \/ StopChecks(p) \/ StopResets(p) \/ StopReturns(p)

Spec == Init /\ [][Next]_vars

-----------------------------------------------------------------------------
\* What one pipe does never disturbs another that streams: its paths stay in
\* mEnablePath, its raw paths keep their queues, DMA and view finder, and the
\* wake lock is held.  (Not for a pipe config2() has refused, nor once config2()
\* overlapped another call of it or a stop: nothing locks mEnablePath then.)
StreamingUndisturbed ==
  ~raced => \A p \in known : At(p, "streaming") =>
    /\ pipe[p].paths \subseteq en /\ wake
    /\ \A x \in pipe[p].paths \cap Raw : Cqs[x] \subseteq cq /\ x \in vf \cap dma

\* "avoid stop have racing issue under multi-sensor (2nd stop use reset when 1st
\* stop r during fbc workaround rst)": no pipe resets the processor while another
\* resets its FBC, or streams.
ResetAlone ==
  \A p \in Pipes : At(p, "reset") =>
    \A q \in Pipes \ {p} :
      /\ ~At(q, "fbc")
      /\ q \in known /\ At(q, "streaming") => raced

\* When all pipes have stopped, however they failed on the way, nothing is left
\* on; the queues may be where CAMSV was stopped last, which leaves them alone.
AllOff ==
  (\A p \in Pipes : At(p, "closed")) /\ ~broken /\ ~raced =>
    en = {} /\ dma = {} /\ ~wake /\ vf = {} /\ (cq = {} \/ camsv)
=============================================================================
