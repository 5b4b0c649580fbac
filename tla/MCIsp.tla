-------------------------------- MODULE MCIsp --------------------------------
(***************************************************************************)
(* One run for the parts of the MTK image processor that keep their state  *)
(* apart from each other.  Each behaviour is one of the part that the      *)
(* initial state chooses.                                                  *)
(***************************************************************************)
EXTENDS Naturals, Sequences, FiniteSets

CONSTANTS
  Buffers, MaxNodes, RingSize, MaxWaits, MaxFrames, MaxConfigs,
  MaxUsers, MaxNum, MaxStarts, MaxFails, None,
  Copies, MaxTunes,
  Slots, MaxJobs, RetunedJobs

ASSUME IspAssumption ==
  /\ MaxUsers \in Nat \ {0} /\ MaxNum \in Nat \ {0} /\ MaxStarts \in Nat /\ MaxFails \in Nat
  /\ MaxConfigs \in Nat
  /\ IsFiniteSet(Buffers) /\ None \notin Buffers
  /\ MaxNodes \in Nat /\ RingSize \in Nat /\ MaxFrames \in Nat
  \* The first wait throws an interrupt away: CAM_INT_WAIT_TIMEOUT_MS allows more.
  /\ MaxWaits \in Nat /\ MaxWaits > 1
  \* One copy of the command queue is loaded while the next is prepared.
  /\ Copies \in Nat /\ Copies > 1 /\ MaxTunes \in Nat

VARIABLES
  part,  \* "buffers", "top", "shell", "event", "tuning" or "pass2"
  path, app, queue, nodes, hdr, enq, deq, irq, frames, stale, lost, missed,
  pipe, en, cq, vf, dma, wake, lock, known, raced, broken, camsv, starts,
  users, num, table, mdp, tpipe, virt, drivers, cur, failed,
  th, un, sem, brk, joinable, started,
  mode, tg, dup, copies, call, kept, dropped, toggled, tunes,
  p2drv, regs, list, top, job, status, tuning, taken, forgot, mixed, jobs, mgr

Buf == INSTANCE IspBuffers
Top == INSTANCE IspTop WITH MaxStarts <- MaxConfigs
Shell == INSTANCE IspShell

\* One module, or all; the last enables no LSC for its DMA, which is refused.
Tunable == {"OBC", "RMG", "BNR", "RPG", "BPCI", "LSC", "LSCI"}
Tuning == INSTANCE IspTuning WITH
  Updates <- {{"LSC"}, Tunable}, Enables <- {{}, Tunable, Tunable \ {"LSCI"}}

\* A preview frame and a capture frame of version 3, and of the earlier interface:
\* one that goes to MDP, one with features, one that is refused, one of face beauty.
Frame(v3, apply, scen, p2, ports) ==
  [v3 |-> v3, apply |-> apply, scen |-> scen, p2 |-> p2, p1 |-> {"OBC", "RPG"}, dma |-> ports,
   crz |-> scen = "ip", out |-> IF scen = "cc" THEN {"WROTO"} ELSE {}, only |-> scen # "cc"]
Preview == {"CFA", "G2G", "GGM", "G2C", "SEEE", "C42"}
Feature == Preview \cup {"SL2", "SL2B", "LCE", "NR3D", "MFB", "C02", "MIX1", "MIX2", "SRZ1"}
Pass2 == INSTANCE IspPass2 WITH
  Frames <- {Frame(TRUE, TRUE, "cc", Feature, {"IMGI", "VIPI", "LCEI", "IMG3O"}),
             Frame(TRUE, FALSE, "ip", Preview, {"IMGI", "UFDI", "TDRI", "IMG2O"}),
             Frame(FALSE, FALSE, "cc", Preview, {"IMGI", "IMG3O"}),
             Frame(FALSE, FALSE, "ip", Feature \ {"LCE"}, {"IMGI", "IMGO", "MFBO"}),
             Frame(FALSE, FALSE, "fb", {"SRZ2", "LCE"}, {"IMGI", "FEO"}),
             Frame(FALSE, FALSE, "other", Preview \cup {"SRZ2"}, {"IMGI", "IMG2O"})},
  Tunings <- {[p2 |-> {"PGN", "GGM"}, p1 |-> {}, upd |-> {"PGN", "GGM_RB", "SL2"}],
              [p2 |-> Feature, p1 |-> {"OBC", "LSC", "LSCI", "BNR", "BPCI"},
               upd |-> {"SL2", "SL2B", "SEEE", "LCE", "NR3D_LMT", "G2C_CONV", "OBC", "LSC", "BNR"}]}

bufVars == <<path, app, queue, nodes, hdr, enq, deq, irq, frames, stale, lost, missed>>
topVars == <<pipe, en, cq, vf, dma, wake, lock, known, raced, broken, camsv, starts>>
shellVars == <<users, num, table, mdp, tpipe, virt, drivers, cur, failed,
               th, un, sem, brk, joinable, started>>
tuningVars == <<mode, tg, dup, copies, call, kept, dropped, toggled, tunes>>
pass2Vars == <<p2drv, regs, list, top, job, status, tuning, taken, forgot, mixed, jobs, mgr>>
vars == <<part, bufVars, topVars, shellVars, tuningVars, pass2Vars>>

Init ==
  /\ part \in {"buffers", "top", "shell", "event", "tuning", "pass2"}
  /\ Buf!Init /\ (part # "buffers" => path = "pass1")
  /\ Top!Init /\ Shell!Init
  /\ Tuning!Init /\ (part # "tuning" => mode = "main")
  /\ IF part = "pass2" THEN Pass2!Init
     ELSE /\ p2drv = None /\ regs = None /\ list = None /\ top = None /\ job = None
          /\ status = None /\ tuning = None /\ taken = None /\ forgot = None
          /\ mixed = None /\ jobs = None /\ mgr = None

BufNext == part = "buffers" /\ Buf!Next /\ UNCHANGED <<part, topVars, shellVars, tuningVars, pass2Vars>>
TopNext == part = "top" /\ Top!Next /\ UNCHANGED <<part, bufVars, shellVars, tuningVars, pass2Vars>>
ShellNext ==
  /\ \/ part = "shell" /\ Shell!ShellNext
     \/ part = "event" /\ Shell!EventNext
  /\ UNCHANGED <<part, bufVars, topVars, tuningVars, pass2Vars>>
TuningNext ==
  part = "tuning" /\ Tuning!Next /\ UNCHANGED <<part, bufVars, topVars, shellVars, pass2Vars>>
Pass2Next ==
  part = "pass2" /\ Pass2!Next /\ UNCHANGED <<part, bufVars, topVars, shellVars, tuningVars>>

Next == BufNext \/ TopNext \/ ShellNext \/ TuningNext \/ Pass2Next

Spec == Init /\ [][Next]_vars

-----------------------------------------------------------------------------
\* The variables of the parts stay in their types.  With dequeueHwBuf() and
\* enqueueHwBuf() in two threads no buffer is lost or at two places, no frame that
\* arrived is missed, the header a buffer came with describes its frame, and a
\* header node that is taken has an owner.
BuffersConserved ==
  /\ Buf!TypeOK /\ Top!TypeOK /\ Shell!TypeOK /\ Tuning!TypeOK
  /\ Buf!BuffersConserved /\ Buf!NoFrameMissed
  /\ Buf!HeaderDescribesBuffer /\ Buf!NodesAccounted

\* A streaming sensor is not disturbed by another's configuration, start or stop.
StreamingUndisturbed == Top!StreamingUndisturbed

\* The processor is reset by the last pipe only, and nothing is left on then.
ResetAlone == Top!ResetAlone /\ Top!AllOff

\* The shared buffers and virtual drivers are those of the current number of
\* burst queues; and uninit() of the event thread returns after the thread.
BuffersExact == Shell!BuffersExact /\ Shell!ThreadLeavesFirst

\* A tuning buffer is applied to a copy of the queue as a whole.
TuningApplied == Tuning!TuningApplied

\* The copy that the hardware loads is not written.
LoadedCopyStable == Tuning!LoadedCopyStable

\* A frame of pass 2 that is started has what it needs in its copy of the queue.
\* The variables of pass 2 stay in their types.
FrameComplete == part = "pass2" => Pass2!TypeOK /\ Pass2!FrameComplete
=============================================================================
