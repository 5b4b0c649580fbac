------------------------------ MODULE IspProofs ------------------------------
(***************************************************************************)
(* Proofs about the parts of the MTK image processor: the shell with its   *)
(* event thread, the paths of the sensors, the copies of the tuning        *)
(* registers and the buffers of a path.  The parts share no variable, so   *)
(* each invariant is one of its part's own steps (Parts).                  *)
(***************************************************************************)
EXTENDS MCIsp, FiniteSetTheorems, SequenceTheorems, WellFoundedInduction, TLAPS

USE DEF Shell!Total, Shell!Queues, Shell!Bursts, Shell!All, Shell!Less

\* Each part leaves the variables of the others.
LEMMA Parts ==
    ASSUME [Next]_vars
    PROVE  /\ UNCHANGED part
           /\ [Buf!Next]_bufVars /\ [Top!Next]_topVars
           /\ [Shell!Next]_shellVars /\ [Tuning!Next]_tuningVars
           /\ part = "pass2" => [Pass2!Next]_pass2Vars
<1>1. CASE BufNext
  BY <1>1 DEF BufNext
<1>2. CASE TopNext
  BY <1>2 DEF TopNext
<1>3. CASE ShellNext
  BY <1>3 DEF ShellNext, Shell!Next
<1>4. CASE TuningNext
  BY <1>4 DEF TuningNext
<1>5. CASE Pass2Next
  BY <1>5 DEF Pass2Next
<1>6. CASE UNCHANGED vars
  BY <1>6 DEF vars
<1> QED
  BY <1>1, <1>2, <1>3, <1>4, <1>5, <1>6 DEF Next

-----------------------------------------------------------------------------
(* The shell *)

\* The event thread: what Enter has taken of the semaphore and Break not given
\* back, and what uninit() has taken, was put there by Start().
Inside == IF th = "loop" THEN 1 ELSE 0

EventInv ==
  /\ sem + Inside <= started
  /\ un = "init" => started = 0 /\ th \in {"created", "detached"}
  /\ brk /\ un \in {"idle", "join"} /\ th \in {"created", "detached", "loop"}
       => sem + Inside < started

ShellInv == Shell!TypeOK /\ Shell!BuffersExact /\ EventInv

\* The types of the shell and of the event thread.
ShellTypes ==
  /\ users \in 0..MaxUsers /\ num \in 1..MaxNum /\ table \in 0..MaxNum
  /\ mdp \in Nat /\ tpipe \in [Shell!Bursts -> Nat] /\ virt \in [Shell!Queues -> Nat]
  /\ drivers \subseteq Shell!All /\ cur \in Shell!Queues \cup {None} /\ failed \in 0..MaxFails

EventTypes ==
  /\ th \in {"none", "created", "detached", "loop", "ended"}
  /\ un \in {"idle", "init", "join", "wait"}
  /\ sem \in 0..(MaxStarts + 1) /\ brk \in BOOLEAN /\ joinable \in BOOLEAN
  /\ started \in 0..MaxStarts

\* The types are those of both.
LEMMA ShellTypesOK == Shell!TypeOK <=> ShellTypes /\ EventTypes
BY DEF Shell!TypeOK, ShellTypes, EventTypes

\* The shell starts in its invariant.
LEMMA ShellInit == Shell!Init => ShellInv
<1> SUFFICES ASSUME Shell!Init PROVE ShellInv
  OBVIOUS
<1> USE IspAssumption
<1>1. ShellTypes
  BY DEF Shell!Init, ShellTypes
<1>2. EventTypes
  <2>1. 0 \in 0..(MaxStarts + 1) /\ 0 \in 0..MaxStarts
    OBVIOUS
  <2> QED
    BY <2>1 DEF Shell!Init, EventTypes
<1>3. Shell!BuffersExact
  BY DEF Shell!Init, Shell!BuffersExact
<1>4. EventInv
  BY DEF Shell!Init, EventInv, Inside
<1> QED
  BY <1>1, <1>2, <1>3, <1>4, ShellTypesOK DEF ShellInv

\* Every step of the shell or of the event thread keeps it.
LEMMA ShellStep ==
    ASSUME ShellInv, [Shell!Next]_shellVars
    PROVE  ShellInv'
<1> USE IspAssumption DEF Shell!shell, Shell!event
<1>0. ShellTypes /\ EventTypes /\ Shell!BuffersExact /\ EventInv
  BY ShellTypesOK DEF ShellInv
<1>t. Shell!TypeOK' <=> ShellTypes' /\ EventTypes'
  BY DEF Shell!TypeOK, ShellTypes, EventTypes
<1>a. ASSUME UNCHANGED Shell!shell PROVE ShellTypes' /\ Shell!BuffersExact'
  <2>1. ShellTypes'
    BY <1>0, <1>a DEF ShellTypes
  <2>2. Shell!BuffersExact'
    BY <1>0, <1>a DEF Shell!BuffersExact
  <2> QED
    BY <2>1, <2>2
<1>b. ASSUME UNCHANGED Shell!event PROVE EventTypes' /\ EventInv'
  BY <1>0, <1>b DEF EventTypes, EventInv, Inside
<1>c. ASSUME NEW n \in 1..MaxNum, NEW stop \in Nat,
             Shell!AllocBuffers(n, stop) \/ Shell!FreeBuffers(n, stop)
      PROVE  mdp' \in Nat /\ tpipe' \in [Shell!Bursts -> Nat] /\ virt' \in [Shell!Queues -> Nat]
  <2>1. CASE Shell!AllocBuffers(n, stop)
    BY <1>0, <2>1 DEF Shell!AllocBuffers, ShellTypes
  <2>2. CASE Shell!FreeBuffers(n, stop)
    BY <1>0, <2>2 DEF Shell!FreeBuffers, ShellTypes
  <2> QED
    BY <1>c, <2>1, <2>2
<1>d. ASSUME NEW x, Shell!Fails(x) PROVE failed' \in 0..MaxFails
  BY <1>0, <1>d DEF Shell!Fails, ShellTypes
<1>1. CASE Shell!EventNext
  <2>1. UNCHANGED Shell!shell
    BY <1>1 DEF Shell!EventNext
  <2> USE <1>0 DEF EventTypes, EventInv, Inside
  <2>2. ASSUME Shell!EventInit PROVE EventTypes' /\ EventInv'
    BY <2>2 DEF Shell!EventInit
  <2>3. ASSUME Shell!EventInitReturns PROVE EventTypes' /\ EventInv'
    BY <2>3 DEF Shell!EventInitReturns
  <2>4. ASSUME Shell!Start PROVE EventTypes' /\ EventInv'
    BY <2>4 DEF Shell!Start
  <2>5. ASSUME Shell!Detach PROVE EventTypes' /\ EventInv'
    BY <2>5 DEF Shell!Detach
  <2>6. ASSUME Shell!Enter PROVE EventTypes' /\ EventInv'
    BY <2>6 DEF Shell!Enter
  <2>7. ASSUME Shell!Break PROVE EventTypes' /\ EventInv'
    BY <2>7 DEF Shell!Break
  <2>8. ASSUME Shell!EventUninit PROVE EventTypes' /\ EventInv'
    BY <2>8 DEF Shell!EventUninit
  <2>9. ASSUME Shell!Join PROVE EventTypes' /\ EventInv'
    BY <2>9 DEF Shell!Join
  <2>10. ASSUME Shell!UninitReturns PROVE EventTypes' /\ EventInv'
    BY <2>10 DEF Shell!UninitReturns
  <2>11. EventTypes' /\ EventInv'
    BY <1>1, <2>2, <2>3, <2>4, <2>5, <2>6, <2>7, <2>8, <2>9, <2>10 DEF Shell!EventNext
  <2> QED
    BY <1>a, <2>1, <2>11, <1>t DEF ShellInv
<1>2. CASE Shell!ShellNext
  <2>1. EventTypes' /\ EventInv'
    BY <1>2, <1>b DEF Shell!ShellNext
  <2>2. CASE Shell!InitCounted
    <3>1. ShellTypes'
      BY <1>0, <2>2 DEF Shell!InitCounted, ShellTypes
    <3>2. Shell!BuffersExact'
      BY <1>0, <2>2 DEF Shell!InitCounted, ShellTypes, Shell!BuffersExact
    <3> QED
      BY <2>1, <3>1, <3>2, <1>t DEF ShellInv
  <2>3. CASE Shell!InitFirst
    <3>1. ShellTypes'
      <4>1. num \in 1..MaxNum /\ 0..Shell!Total(num) \subseteq Nat
        BY <1>0 DEF ShellTypes
      <4>2. mdp' \in Nat /\ tpipe' \in [Shell!Bursts -> Nat] /\ virt' \in [Shell!Queues -> Nat]
        <5>1. CASE UNCHANGED <<mdp, tpipe, virt>>
          BY <1>0, <5>1 DEF ShellTypes
        <5>2. CASE \E stop \in Nat : Shell!AllocBuffers(num, stop)
          BY <1>c, <4>1, <5>2
        <5>3. Shell!Total(num) \in 0..Shell!Total(num)
          BY <4>1
        <5> HIDE DEF Shell!Total
        <5> QED
          BY <2>3, <4>1, <5>1, <5>2, <5>3 DEF Shell!InitFirst
      <4>3. failed' \in 0..MaxFails
        <5>1. \E x : Shell!Fails(x)
          BY <2>3 DEF Shell!InitFirst
        <5> QED
          BY <1>d, <5>1
      <4>4. users' \in {0, 1} /\ drivers' \subseteq Shell!All /\ UNCHANGED <<num, table, cur>>
        BY <2>3 DEF Shell!InitFirst
      <4>5. users' \in 0..MaxUsers
        BY <4>4
      <4> QED
        BY <1>0, <4>2, <4>3, <4>4, <4>5 DEF ShellTypes
    <3>2. Shell!BuffersExact'
      BY <1>0, <2>3 DEF Shell!InitFirst, Shell!AllocBuffers, Shell!Fails, ShellTypes, Shell!BuffersExact
    <3> QED
      BY <2>1, <3>1, <3>2, <1>t DEF ShellInv
  <2>4. CASE Shell!UninitCounted
    <3>1. ShellTypes'
      BY <1>0, <2>4 DEF Shell!UninitCounted, ShellTypes
    <3>2. Shell!BuffersExact'
      BY <1>0, <2>4 DEF Shell!UninitCounted, ShellTypes, Shell!BuffersExact
    <3> QED
      BY <2>1, <3>1, <3>2, <1>t DEF ShellInv
  <2>5. CASE Shell!UninitLast
    <3>1. ShellTypes'
      BY <1>0, <2>5 DEF Shell!UninitLast, Shell!FreeBuffers, Shell!Fails, ShellTypes
    <3>2. Shell!BuffersExact'
      BY <1>0, <2>5 DEF Shell!UninitLast, Shell!FreeBuffers, Shell!Fails, ShellTypes, Shell!BuffersExact
    <3> QED
      BY <2>1, <3>1, <3>2, <1>t DEF ShellInv
  <2>6. ASSUME NEW n \in 1..MaxNum, Shell!Update(n) PROVE ShellInv'
    <3>1. ShellTypes'
      <4>1. mdp' \in Nat /\ tpipe' \in [Shell!Bursts -> Nat] /\ virt' \in [Shell!Queues -> Nat]
        <5>1. PICK stop \in 0..Shell!Total(n) :
                /\ mdp' = Shell!Less(mdp) + 1
                /\ tpipe' = [k \in Shell!Bursts |->
                     (IF k < num THEN Shell!Less(tpipe[k]) ELSE tpipe[k]) + (IF k < n THEN 1 ELSE 0)]
                /\ virt' = [q \in Shell!Queues |->
                     (IF q < Shell!Total(num) THEN Shell!Less(virt[q]) ELSE virt[q])
                       + (IF q < stop THEN 1 ELSE 0)]
          BY <2>6 DEF Shell!Update
        <5>2. ASSUME NEW k \in Shell!Bursts
              PROVE  (IF k < num THEN Shell!Less(tpipe[k]) ELSE tpipe[k]) + (IF k < n THEN 1 ELSE 0) \in Nat
          BY <1>0 DEF ShellTypes
        <5>3. ASSUME NEW q \in Shell!Queues
              PROVE  (IF q < Shell!Total(num) THEN Shell!Less(virt[q]) ELSE virt[q])
                       + (IF q < stop THEN 1 ELSE 0) \in Nat
          BY <1>0 DEF ShellTypes
        <5>4. Shell!Less(mdp) + 1 \in Nat
          BY <1>0 DEF ShellTypes
        <5> HIDE DEF Shell!Less, Shell!Total, Shell!Queues, Shell!Bursts
        <5> QED
          BY <5>1, <5>2, <5>3, <5>4
      <4>2. failed' \in 0..MaxFails
        <5>1. \E x : Shell!Fails(x)
          BY <2>6 DEF Shell!Update
        <5> QED
          BY <1>d, <5>1
      <4>3. num' = n /\ table' = n /\ UNCHANGED <<users, drivers, cur>>
        BY <2>6 DEF Shell!Update
      <4> QED
        BY <1>0, <4>1, <4>2, <4>3 DEF ShellTypes
    <3>2. Shell!BuffersExact'
      BY <1>0, <2>6 DEF Shell!Update, Shell!Fails, ShellTypes, Shell!BuffersExact
    <3> QED
      BY <2>1, <3>1, <3>2, <1>t DEF ShellInv
  <2>7. ASSUME NEW n \in 1..MaxNum, Shell!UpdateFails(n) PROVE ShellInv'
    <3>1. ShellTypes'
      <4>1. num \in 1..MaxNum /\ 0 \in Nat /\ Shell!Total(num) \in Nat
        BY <1>0 DEF ShellTypes
      <4>2. mdp' \in Nat /\ tpipe' \in [Shell!Bursts -> Nat] /\ virt' \in [Shell!Queues -> Nat]
        BY <1>0, <1>c, <2>7, <4>1 DEF Shell!UpdateFails, ShellTypes
      <4>3. failed' \in 0..MaxFails
        BY <1>d, <2>7 DEF Shell!UpdateFails
      <4>4. num' \in 1..MaxNum /\ table' \in 0..MaxNum /\ UNCHANGED <<users, drivers, cur>>
        <5>1. num' \in {num, n} /\ table' \in {table, 0} /\ UNCHANGED <<users, drivers, cur>>
          BY <2>7 DEF Shell!UpdateFails
        <5>2. num \in 1..MaxNum /\ table \in 0..MaxNum /\ 0 \in 0..MaxNum
          BY <1>0 DEF ShellTypes
        <5> QED
          BY <5>1, <5>2
      <4> QED
        BY <1>0, <4>2, <4>3, <4>4 DEF ShellTypes
    <3>2. failed' # 0
      BY <1>0, <2>7 DEF Shell!UpdateFails, Shell!Fails, ShellTypes
    <3> QED
      BY <2>1, <3>1, <3>2, <1>t DEF ShellInv, Shell!BuffersExact
  <2>8. ASSUME NEW q \in Shell!Queues, Shell!Switch2Virtual(q) PROVE ShellInv'
    <3>1. ShellTypes'
      BY <1>0, <2>8 DEF Shell!Switch2Virtual, ShellTypes
    <3>2. Shell!BuffersExact'
      BY <1>0, <2>8 DEF Shell!Switch2Virtual, ShellTypes, Shell!BuffersExact
    <3> QED
      BY <2>1, <3>1, <3>2, <1>t DEF ShellInv
  <2> QED
    BY <1>2, <2>2, <2>3, <2>4, <2>5, <2>6, <2>7, <2>8 DEF Shell!ShellNext
<1>3. CASE UNCHANGED shellVars
  <2>1. UNCHANGED Shell!shell /\ UNCHANGED Shell!event
    BY <1>3 DEF shellVars
  <2> QED
    BY <1>a, <1>b, <2>1, <1>t DEF ShellInv
<1> QED
  BY <1>1, <1>2, <1>3 DEF Shell!Next

\* The shell's buffers and virtual drivers are those of the current number of
\* burst queues on every run, for any number of users, queues and failures
\* (controlBurstQueBuffer, updateBurstQueueNum), and uninit() of the event
\* thread never returns before the thread has left its loop (m_semIspEventthread).
THEOREM ShellBuffersAreExact == Spec => []BuffersExact
<1>1. Init => ShellInv
  BY ShellInit DEF Init
<1>2. ShellInv /\ [Next]_vars => ShellInv'
  BY Parts, ShellStep
<1>3. ShellInv => BuffersExact
  BY IspAssumption, ShellTypesOK DEF ShellInv, BuffersExact, EventInv, Inside, Shell!ThreadLeavesFirst, EventTypes
<1> QED
  BY <1>1, <1>2, <1>3, PTL DEF Spec

-----------------------------------------------------------------------------
(* The paths of the sensors *)

Pipes == Top!Pipes
At(p) == pipe[p].at
\* What a pipe has still to give back, and the path that is being stopped.
Holds(p) == IF Top!Stopping(p) THEN pipe[p].rest ELSE pipe[p].paths
Cur(r) == Top!Order[CHOOSE k \in 1..4 : Top!Order[k] \in r
                                        /\ \A j \in 1..(k - 1) : Top!Order[j] \notin r]
Now(p) == Cur(pipe[p].rest)

\* A pipe's own state, its paths and the lock.
PipeOf(p) ==
  /\ At(p) = "closed" => pipe[p].paths = {}
  /\ At(p) # "closed" => pipe[p].paths \in Top!Choices[p]
  /\ p = "sv" /\ At(p) # "closed" => camsv
  /\ Top!Stopping(p) <=> lock = p
  /\ Top!Stopping(p) => pipe[p].rest \subseteq pipe[p].paths
  /\ At(p) \in {"wait", "fbc"} => pipe[p].rest # {} /\ Now(p) \in Top!Raw
  /\ At(p) \in {"reset", "unlock"} => pipe[p].rest = {}
  /\ p \in known => At(p) \notin {"closed", "config", "config2"}

PipeInv ==
  /\ \A p \in Pipes : PipeOf(p)
  /\ \A p, q \in Pipes : p # q => pipe[p].paths \cap pipe[q].paths = {}

\* mEnablePath: nobody changes it between the two halves of config2(); it has
\* the paths of the accepted pipes, until they are stopped, and no others.
PathInv ==
  /\ \A p \in Pipes : At(p) = "config2" =>
       pipe[p].seen = en /\ lock = Top!Nobody /\ \A q \in Pipes \ {p} : At(q) # "config2"
  /\ \A p \in known : ~Top!Stopping(p) => pipe[p].paths \subseteq en
  /\ \A p \in Pipes : Top!Stopping(p) => en \cap pipe[p].paths \subseteq pipe[p].rest
  /\ \A p \in Pipes : At(p) \in {"wait", "fbc"} => Now(p) \notin en
  /\ \A p \in Pipes : At(p) = "reset" => en = {}
  /\ \A p \in Pipes : At(p) = "fbc" => en # {}
  /\ ~broken => \A x \in en : \E p \in known : x \in Holds(p)

\* What a pipe has turned on, ...
OnInv ==
  /\ \A p \in known : ~Top!Stopping(p) =>
       \A x \in pipe[p].paths \cap Top!Raw : Top!Cqs[x] \subseteq cq
  /\ \A p \in Pipes : At(p) \in {"ready", "vf", "streaming"} => pipe[p].paths \subseteq dma
  /\ \A p \in Pipes : At(p) \in {"vf", "streaming"} => pipe[p].paths \cap Top!Raw \subseteq vf
  /\ \A p \in known : At(p) = "streaming" => wake

\* ... and that nothing else is on.
OffInv ==
  /\ \A x \in dma : \E p \in Pipes : x \in Holds(p)
  /\ \A x \in vf : \E p \in Pipes : x \in Holds(p)
  /\ \A p \in Pipes : At(p) = "wait" => Now(p) \notin vf
  /\ wake => \E p \in Pipes : At(p) \notin {"closed", "unlock"}
  /\ cq # {} /\ ~camsv => \E p \in Pipes : At(p) # "closed" /\ Holds(p) # {}

TopInv ==
  /\ Top!TypeOK /\ PipeInv
  /\ ~raced => PathInv /\ OnInv /\ (~broken => OffInv)

\* The path that is being stopped is one that is left to stop.
LEMMA CurrentLeft ==
    ASSUME NEW r \in SUBSET Top!Paths, r # {}
    PROVE  Cur(r) \in r
<1> DEFINE K(k) == Top!Order[k] \in r /\ \A j \in 1..(k - 1) : Top!Order[j] \notin r
<1>0. Top!Order[1] = "p1" /\ Top!Order[2] = "p1d" /\ Top!Order[3] = "sv" /\ Top!Order[4] = "svd"
  BY DEF Top!Order
<1>1. K(1) \/ K(2) \/ K(3) \/ K(4)
  <2>1. 1..(1 - 1) = {} /\ 1..(2 - 1) = {1} /\ 1..(3 - 1) = {1, 2} /\ 1..(4 - 1) = {1, 2, 3}
    OBVIOUS
  <2>2. "p1" \in r \/ "p1d" \in r \/ "sv" \in r \/ "svd" \in r
    BY DEF Top!Paths
  <2> QED
    BY <1>0, <2>1, <2>2
<1>2. \E k \in 1..4 : K(k)
  BY <1>1
<1>3. K(CHOOSE k \in 1..4 : K(k))
  BY <1>2
<1> QED
  BY <1>3 DEF Cur

\* The common queues of a path.
LEMMA Queues ==
  /\ Top!Cqs["p1"] = {"CQ0", "CQ0C"} /\ Top!Cqs["p1d"] = {"CQ0_D", "CQ0C_D"}
  /\ Top!Cqs["sv"] = {} /\ Top!Cqs["svd"] = {}
  /\ UNION {Top!Cqs[x] : x \in Top!Paths} = {"CQ0", "CQ0C", "CQ0_D", "CQ0C_D"}
<1>1. /\ Top!Cqs["p1"] = {"CQ0", "CQ0C"} /\ Top!Cqs["p1d"] = {"CQ0_D", "CQ0C_D"}
      /\ Top!Cqs["sv"] = {} /\ Top!Cqs["svd"] = {}
  BY DEF Top!Cqs
<1> QED
  BY <1>1 DEF Top!Paths

\* The paths a pipe can be given.
LEMMA ChoicesOfPipe ==
  ASSUME NEW p \in Top!Pipes, NEW c \in Top!Choices[p]
  PROVE  c \in SUBSET Top!Paths /\ c # {} /\ (p # "sv" => c \subseteq Top!Raw)
BY DEF Top!Pipes, Top!Choices, Top!Paths, Top!Raw
\* Where a pipe can be.
Places == {"closed", "config", "config2", "clear", "ready", "vf", "streaming",
           "failed", "stop", "wait", "fbc", "reset", "unlock"}

\* What the invariant says before a step.
TopFacts ==
  /\ pipe \in [Top!Pipes -> [at : Places, paths : SUBSET Top!Paths, rest : SUBSET Top!Paths,
                              seen : SUBSET Top!Paths]]
  /\ en \in SUBSET Top!Paths /\ known \subseteq Top!Pipes
  /\ lock \in Top!Pipes \cup {Top!Nobody} /\ Top!Nobody \notin Top!Pipes
  /\ PipeInv /\ PathInv /\ OnInv /\ (~broken => OffInv)
  /\ \A q \in Top!Pipes : Now(q) = Top!Current(q) /\ (pipe[q].rest # {} => Now(q) \in pipe[q].rest)

\* It holds as long as no call has overlapped.
LEMMA TopFactsHold == TopInv /\ ~raced => TopFacts
<1> SUFFICES ASSUME TopInv, ~raced PROVE TopFacts
  OBVIOUS
<1>1. /\ pipe \in [Top!Pipes -> [at : Places, paths : SUBSET Top!Paths, rest : SUBSET Top!Paths,
                                 seen : SUBSET Top!Paths]]
      /\ en \in SUBSET Top!Paths /\ known \subseteq Top!Pipes
      /\ lock \in Top!Pipes \cup {Top!Nobody} /\ Top!Nobody \notin Top!Pipes
  BY DEF TopInv, Top!TypeOK, Places, Top!Pipes, Top!Nobody
<1>2. \A q \in Top!Pipes : Now(q) = Top!Current(q)
  BY DEF Now, Cur, Top!Current
<1>3. \A q \in Top!Pipes : pipe[q].rest # {} => Now(q) \in pipe[q].rest
  BY <1>1, CurrentLeft DEF Now
<1> QED
  BY <1>1, <1>2, <1>3 DEF TopFacts, TopInv

\* One pipe moves, and the others do not.
Moves(p, a, ps, r, s) ==
  /\ pipe' \in [Top!Pipes -> [at : Places, paths : SUBSET Top!Paths, rest : SUBSET Top!Paths,
                               seen : SUBSET Top!Paths]]
  /\ pipe'[p].at = a /\ pipe'[p].paths = ps /\ pipe'[p].rest = r /\ pipe'[p].seen = s
  /\ \A q \in Top!Pipes \ {p} : pipe'[q] = pipe[q]

\* The queues that a configuration enables are queues of a path.
LEMMA QueuesEnabled ==
    ASSUME NEW c \in SUBSET Top!Paths, Top!EnableCq(c), cq \subseteq UNION {Top!Cqs[x] : x \in Top!Paths}
    PROVE  cq' \subseteq UNION {Top!Cqs[x] : x \in Top!Paths}
BY Queues DEF Top!EnableCq

\* Config keeps the invariant.
LEMMA TopConfig ==
    ASSUME TopInv, ~raced, NEW p \in Top!Pipes, NEW c \in SUBSET Top!Paths, Top!Config(p, c)
    PROVE  TopInv'
<1> USE DEF Pipes, At, Holds, Now, Moves, Places, Top!At, Top!Go, Top!hw, Top!hist
<1>1. TopFacts
  BY TopFactsHold
<1>2. Moves(p, "config", c, {}, {})
  BY <1>1 DEF TopFacts, Top!Config, Top!Closed
<1>3. Top!TypeOK'
  <2>1. (pipe \in [Top!Pipes -> [at : Places, paths : SUBSET Top!Paths, rest : SUBSET Top!Paths, seen : SUBSET Top!Paths]])'
    BY <1>1, <1>2 DEF TopInv, TopFacts, Top!TypeOK, Top!Config, Top!EnableCq
  <2>2. (en \in SUBSET Top!Paths /\ vf \in SUBSET Top!Paths /\ dma \in SUBSET Top!Paths)'
    BY <1>1, <1>2 DEF TopInv, TopFacts, Top!TypeOK, Top!Config, Top!EnableCq
  <2>3. (cq \subseteq UNION {Top!Cqs[x] : x \in Top!Paths})'
    BY QueuesEnabled DEF TopInv, Top!TypeOK, Top!Config
  <2>4. (wake \in BOOLEAN)'
    BY <1>1, <1>2 DEF TopInv, TopFacts, Top!TypeOK, Top!Config, Top!EnableCq
  <2>5. (lock \in Top!Pipes \cup {Top!Nobody})'
    BY <1>1, <1>2 DEF TopInv, TopFacts, Top!TypeOK, Top!Config, Top!EnableCq
  <2>6. (known \subseteq Top!Pipes)'
    BY <1>1, <1>2 DEF TopInv, TopFacts, Top!TypeOK, Top!Config, Top!EnableCq
  <2>7. (raced \in BOOLEAN /\ broken \in BOOLEAN /\ camsv \in BOOLEAN)'
    BY <1>1, <1>2 DEF TopInv, TopFacts, Top!TypeOK, Top!Config, Top!EnableCq
  <2>8. (starts \in 0..MaxConfigs)'
    BY IspAssumption DEF TopInv, Top!TypeOK, Top!Config
  <2> QED
    BY <2>1, <2>2, <2>3, <2>4, <2>5, <2>6, <2>7, <2>8 DEF Top!TypeOK, Places
<1>4. PipeInv'
  <2>1. (\A q \in Pipes : PipeOf(q))'
    <3> SUFFICES ASSUME NEW q \in Pipes PROVE PipeOf(q)'
      OBVIOUS
    <3>1. CASE q = p
      <4>1. c \in Top!Choices[p] /\ At(p) = "closed"
        BY DEF Top!Config
      <4>2. c # {}
        BY <4>1, ChoicesOfPipe
      <4> QED
        BY <1>1, <1>2, <3>1, <4>1, <4>2 DEF TopFacts, PipeInv, PipeOf, Top!Config, Top!Stopping
    <3>2. CASE q # p
      BY <3>2, <1>1, <1>2, ChoicesOfPipe DEF TopFacts, PipeInv, PipeOf, Top!Config, Top!Stopping
    <3> QED
      BY <3>1, <3>2
  <2>2. (\A q, r \in Pipes : q # r => pipe[q].paths \cap pipe[r].paths = {})'
    BY <1>1, <1>2, ChoicesOfPipe DEF TopFacts, PipeInv, PipeOf, Top!Config, Top!Stopping
  <2> QED
    BY <2>1, <2>2 DEF PipeInv
<1>5. ~raced' => PathInv'
  BY <1>1, <1>2, ChoicesOfPipe DEF TopFacts, PipeInv, PipeOf, PathInv, Top!Config, Top!Stopping
<1>6. ~raced' => OnInv'
  BY <1>1, <1>2, ChoicesOfPipe, Queues DEF TopFacts, PipeInv, PipeOf, PathInv, OnInv, Top!Config, Top!Stopping, Top!EnableCq
<1>7. ~raced' /\ ~broken' => OffInv'
  BY <1>1, <1>2, ChoicesOfPipe, Queues DEF TopFacts, PipeInv, PipeOf, PathInv, OffInv, Top!Config, Top!Stopping, Top!EnableCq
<1> QED
  BY <1>3, <1>4, <1>5, <1>6, <1>7 DEF TopInv

\* Config2Reads keeps the invariant.
LEMMA TopConfig2Reads ==
    ASSUME TopInv, ~raced, NEW p \in Top!Pipes, Top!Config2Reads(p)
    PROVE  TopInv'
<1> USE DEF Pipes, At, Holds, Now, Moves, Places, Top!At, Top!Go, Top!hw, Top!hist
<1>1. TopFacts
  BY TopFactsHold
<1>2. Moves(p, "config2", pipe[p].paths, pipe[p].rest, en)
  BY <1>1 DEF TopFacts, Top!Config2Reads
<1>3. Top!TypeOK'
  BY <1>1, <1>2 DEF TopInv, TopFacts, Top!TypeOK, Top!Config2Reads
<1>4. PipeInv'
  BY <1>1, <1>2 DEF TopFacts, PipeInv, PipeOf, Top!Config2Reads, Top!Stopping, Top!Overlaps
<1>5. ~raced' => PathInv'
  <2> SUFFICES ASSUME ~raced' PROVE PathInv'
    OBVIOUS
  <2>1. (\A q \in Pipes : At(q) = "config2" =>
         pipe[q].seen = en /\ lock = Top!Nobody /\ \A r \in Pipes \ {q} : At(r) # "config2")'
    <3>1. ~Top!Overlaps(p) /\ At(p) = "config" /\ UNCHANGED <<en, lock>>
      BY DEF Top!Config2Reads
    <3>2. \A r \in Pipes : r # p => At(r) # "config2" /\ ~Top!Stopping(r)
      BY <3>1 DEF Top!Overlaps
    <3>3. lock = Top!Nobody
      <4>1. ~Top!Stopping(p)
        BY <3>1 DEF Top!Stopping
      <4> QED
        BY <1>1, <3>2, <4>1 DEF TopFacts, PipeInv, PipeOf
    <3> QED
      BY <1>2, <3>1, <3>2, <3>3
  <2>2. (\A q \in known : ~Top!Stopping(q) => pipe[q].paths \subseteq en)'
    BY <1>1, <1>2 DEF TopFacts, PipeInv, PipeOf, PathInv, Top!Config2Reads, Top!Stopping, Top!Overlaps
  <2>3. (\A q \in Pipes : Top!Stopping(q) => en \cap pipe[q].paths \subseteq pipe[q].rest)'
    BY <1>1, <1>2 DEF TopFacts, PipeInv, PipeOf, PathInv, Top!Config2Reads, Top!Stopping, Top!Overlaps
  <2>4. (\A q \in Pipes : At(q) \in {"wait", "fbc"} => Now(q) \notin en)'
    BY <1>1, <1>2 DEF TopFacts, PipeInv, PipeOf, PathInv, Top!Config2Reads, Top!Stopping, Top!Overlaps
  <2>5. (\A q \in Pipes : At(q) = "reset" => en = {})'
    BY <1>1, <1>2 DEF TopFacts, PipeInv, PipeOf, PathInv, Top!Config2Reads, Top!Stopping, Top!Overlaps
  <2>6. (\A q \in Pipes : At(q) = "fbc" => en # {})'
    BY <1>1, <1>2 DEF TopFacts, PipeInv, PipeOf, PathInv, Top!Config2Reads, Top!Stopping, Top!Overlaps
  <2>7. (~broken => \A x \in en : \E q \in known : x \in Holds(q))'
    BY <1>1, <1>2 DEF TopFacts, PipeInv, PipeOf, PathInv, Top!Config2Reads, Top!Stopping, Top!Overlaps
  <2> QED
    BY <2>1, <2>2, <2>3, <2>4, <2>5, <2>6, <2>7 DEF PathInv
<1>6. ~raced' => OnInv'
  BY <1>1, <1>2 DEF TopFacts, PipeInv, PipeOf, PathInv, OnInv, Top!Config2Reads, Top!Stopping, Top!Overlaps
<1>7. ~raced' /\ ~broken' => OffInv'
  BY <1>1, <1>2 DEF TopFacts, PipeInv, PipeOf, PathInv, OffInv, Top!Config2Reads, Top!Stopping, Top!Overlaps
<1> QED
  BY <1>3, <1>4, <1>5, <1>6, <1>7 DEF TopInv

\* Config2Writes keeps the invariant.
LEMMA TopConfig2Writes ==
    ASSUME TopInv, ~raced, NEW p \in Top!Pipes, Top!Config2Writes(p)
    PROVE  TopInv'
<1> USE DEF Pipes, At, Holds, Now, Moves, Places, Top!At, Top!Go, Top!hw, Top!hist
<1>1. TopFacts
  BY TopFactsHold
<1>2. Moves(p, "clear", pipe[p].paths, pipe[p].rest, pipe[p].seen)
  BY <1>1 DEF TopFacts, Top!Config2Writes
<1>3. Top!TypeOK'
  <2>1. (pipe \in [Top!Pipes -> [at : Places, paths : SUBSET Top!Paths, rest : SUBSET Top!Paths, seen : SUBSET Top!Paths]])'
    BY <1>1, <1>2 DEF TopInv, TopFacts, Top!TypeOK, Top!Config2Writes, Top!EnableCq
  <2>2. (en \in SUBSET Top!Paths /\ vf \in SUBSET Top!Paths /\ dma \in SUBSET Top!Paths)'
    BY <1>1, <1>2 DEF TopInv, TopFacts, Top!TypeOK, Top!Config2Writes, Top!EnableCq
  <2>3. (cq \subseteq UNION {Top!Cqs[x] : x \in Top!Paths})'
    BY <1>1, QueuesEnabled DEF TopInv, TopFacts, Top!TypeOK, Top!Config2Writes
  <2>4. (wake \in BOOLEAN)'
    BY <1>1, <1>2 DEF TopInv, TopFacts, Top!TypeOK, Top!Config2Writes, Top!EnableCq
  <2>5. (lock \in Top!Pipes \cup {Top!Nobody})'
    BY <1>1, <1>2 DEF TopInv, TopFacts, Top!TypeOK, Top!Config2Writes, Top!EnableCq
  <2>6. (known \subseteq Top!Pipes)'
    BY <1>1, <1>2 DEF TopInv, TopFacts, Top!TypeOK, Top!Config2Writes, Top!EnableCq
  <2>7. (raced \in BOOLEAN /\ broken \in BOOLEAN /\ camsv \in BOOLEAN)'
    BY <1>1, <1>2 DEF TopInv, TopFacts, Top!TypeOK, Top!Config2Writes, Top!EnableCq
  <2>8. (starts \in 0..MaxConfigs)'
    BY <1>1, <1>2 DEF TopInv, TopFacts, Top!TypeOK, Top!Config2Writes, Top!EnableCq
  <2> QED
    BY <2>1, <2>2, <2>3, <2>4, <2>5, <2>6, <2>7, <2>8 DEF Top!TypeOK, Places
<1>4. PipeInv'
  BY <1>1, <1>2 DEF TopFacts, PipeInv, PipeOf, Top!Config2Writes, Top!Stopping, Top!Overlaps, Top!Accepts
<1>5. ~raced' => PathInv'
  <2> SUFFICES ASSUME ~raced' PROVE PathInv'
    OBVIOUS
  <2>1. (\A q \in Pipes : At(q) = "config2" =>
         pipe[q].seen = en /\ lock = Top!Nobody /\ \A r \in Pipes \ {q} : At(r) # "config2")'
    BY <1>1, <1>2 DEF TopFacts, PipeInv, PipeOf, PathInv, Top!Config2Writes, Top!Stopping, Top!Overlaps, Top!Accepts
  <2>2. (\A q \in known : ~Top!Stopping(q) => pipe[q].paths \subseteq en)'
    BY <1>1, <1>2 DEF TopFacts, PipeInv, PipeOf, PathInv, Top!Config2Writes, Top!Stopping, Top!Overlaps, Top!Accepts
  <2>3. (\A q \in Pipes : Top!Stopping(q) => en \cap pipe[q].paths \subseteq pipe[q].rest)'
    BY <1>1, <1>2 DEF TopFacts, PipeInv, PipeOf, PathInv, Top!Config2Writes, Top!Stopping, Top!Overlaps, Top!Accepts
  <2>4. (\A q \in Pipes : At(q) \in {"wait", "fbc"} => Now(q) \notin en)'
    BY <1>1, <1>2 DEF TopFacts, PipeInv, PipeOf, PathInv, Top!Config2Writes, Top!Stopping, Top!Overlaps, Top!Accepts
  <2>5. (\A q \in Pipes : At(q) = "reset" => en = {})'
    BY <1>1, <1>2 DEF TopFacts, PipeInv, PipeOf, PathInv, Top!Config2Writes, Top!Stopping, Top!Overlaps, Top!Accepts
  <2>6. (\A q \in Pipes : At(q) = "fbc" => en # {})'
    BY <1>1, <1>2 DEF TopFacts, PipeInv, PipeOf, PathInv, Top!Config2Writes, Top!Stopping, Top!Overlaps, Top!Accepts
  <2>7. (~broken => \A x \in en : \E q \in known : x \in Holds(q))'
    BY <1>1, <1>2 DEF TopFacts, PipeInv, PipeOf, PathInv, Top!Config2Writes, Top!Stopping, Top!Overlaps, Top!Accepts
  <2> QED
    BY <2>1, <2>2, <2>3, <2>4, <2>5, <2>6, <2>7 DEF PathInv
<1>6. ~raced' => OnInv'
  BY <1>1, <1>2, Queues DEF TopFacts, PipeInv, PipeOf, PathInv, OnInv, Top!Config2Writes, Top!Stopping, Top!Overlaps, Top!Accepts, Top!EnableCq
<1>7. ~raced' /\ ~broken' => OffInv'
  BY <1>1, <1>2, Queues DEF TopFacts, PipeInv, PipeOf, PathInv, OffInv, Top!Config2Writes, Top!Stopping, Top!Overlaps, Top!Accepts, Top!EnableCq
<1> QED
  BY <1>3, <1>4, <1>5, <1>6, <1>7 DEF TopInv

\* ConfigDone keeps the invariant.
LEMMA TopConfigDone ==
    ASSUME TopInv, ~raced, NEW p \in Top!Pipes, Top!ConfigDone(p)
    PROVE  TopInv'
<1> USE DEF Pipes, At, Holds, Now, Moves, Places, Top!At, Top!Go, Top!hw, Top!hist
<1>1. TopFacts
  BY TopFactsHold
<1>2. \/ Moves(p, "ready", pipe[p].paths, pipe[p].rest, pipe[p].seen) /\ dma' = dma \cup pipe[p].paths
      \/ Moves(p, "failed", pipe[p].paths, pipe[p].rest, pipe[p].seen) /\ dma' = dma
  BY <1>1 DEF TopFacts, Top!ConfigDone
<1>3. Top!TypeOK'
  BY <1>1, <1>2 DEF TopInv, TopFacts, Top!TypeOK, Top!ConfigDone
<1>4. PipeInv'
  BY <1>1, <1>2 DEF TopFacts, PipeInv, PipeOf, Top!ConfigDone, Top!Stopping
<1>5. ~raced' => PathInv'
  BY <1>1, <1>2 DEF TopFacts, PipeInv, PipeOf, PathInv, Top!ConfigDone, Top!Stopping
<1>6. ~raced' => OnInv'
  <2> SUFFICES ASSUME ~raced' PROVE OnInv'
    OBVIOUS
  <2>1. (\A q \in known : ~Top!Stopping(q) =>
         \A x \in pipe[q].paths \cap Top!Raw : Top!Cqs[x] \subseteq cq)'
    BY <1>1, <1>2 DEF TopFacts, PipeInv, PipeOf, PathInv, OnInv, Top!ConfigDone, Top!Stopping
  <2>2. (\A q \in Pipes : At(q) \in {"ready", "vf", "streaming"} => pipe[q].paths \subseteq dma)'
    BY <1>1, <1>2 DEF TopFacts, PipeInv, PipeOf, PathInv, OnInv, Top!ConfigDone, Top!Stopping
  <2>3. (\A q \in Pipes : At(q) \in {"vf", "streaming"} => pipe[q].paths \cap Top!Raw \subseteq vf)'
    BY <1>1, <1>2 DEF TopFacts, PipeInv, PipeOf, PathInv, OnInv, Top!ConfigDone, Top!Stopping
  <2>4. (\A q \in known : At(q) = "streaming" => wake)'
    BY <1>1, <1>2 DEF TopFacts, PipeInv, PipeOf, PathInv, OnInv, Top!ConfigDone, Top!Stopping
  <2> QED
    BY <2>1, <2>2, <2>3, <2>4 DEF OnInv
<1>7. ~raced' /\ ~broken' => OffInv'
  BY <1>1, <1>2 DEF TopFacts, PipeInv, PipeOf, PathInv, OffInv, Top!ConfigDone, Top!Stopping
<1> QED
  BY <1>3, <1>4, <1>5, <1>6, <1>7 DEF TopInv

\* StartVf keeps the invariant.
LEMMA TopStartVf ==
    ASSUME TopInv, ~raced, NEW p \in Top!Pipes, Top!StartVf(p)
    PROVE  TopInv'
<1> USE DEF Pipes, At, Holds, Now, Moves, Places, Top!At, Top!Go, Top!hw, Top!hist
<1>1. TopFacts
  BY TopFactsHold
<1>2. \/ Moves(p, "vf", pipe[p].paths, pipe[p].rest, pipe[p].seen) /\ vf' = vf \cup pipe[p].paths
      \/ Moves(p, "failed", pipe[p].paths, pipe[p].rest, pipe[p].seen) /\ vf \subseteq vf' /\ vf' \subseteq vf \cup pipe[p].paths
  BY <1>1 DEF TopFacts, Top!StartVf
<1>3. Top!TypeOK'
  BY <1>1, <1>2 DEF TopInv, TopFacts, Top!TypeOK, Top!StartVf
<1>4. PipeInv'
  BY <1>1, <1>2 DEF TopFacts, PipeInv, PipeOf, Top!StartVf, Top!Stopping
<1>5. ~raced' => PathInv'
  <2> SUFFICES ASSUME ~raced' PROVE PathInv'
    OBVIOUS
  <2>1. (\A q \in Pipes : At(q) = "config2" =>
         pipe[q].seen = en /\ lock = Top!Nobody /\ \A r \in Pipes \ {q} : At(r) # "config2")'
    BY <1>1, <1>2 DEF TopFacts, PipeInv, PipeOf, PathInv, Top!StartVf, Top!Stopping
  <2>2. (\A q \in known : ~Top!Stopping(q) => pipe[q].paths \subseteq en)'
    BY <1>1, <1>2 DEF TopFacts, PipeInv, PipeOf, PathInv, Top!StartVf, Top!Stopping
  <2>3. (\A q \in Pipes : Top!Stopping(q) => en \cap pipe[q].paths \subseteq pipe[q].rest)'
    BY <1>1, <1>2 DEF TopFacts, PipeInv, PipeOf, PathInv, Top!StartVf, Top!Stopping
  <2>4. (\A q \in Pipes : At(q) \in {"wait", "fbc"} => Now(q) \notin en)'
    BY <1>1, <1>2 DEF TopFacts, PipeInv, PipeOf, PathInv, Top!StartVf, Top!Stopping
  <2>5. (\A q \in Pipes : At(q) = "reset" => en = {})'
    BY <1>1, <1>2 DEF TopFacts, PipeInv, PipeOf, PathInv, Top!StartVf, Top!Stopping
  <2>6. (\A q \in Pipes : At(q) = "fbc" => en # {})'
    BY <1>1, <1>2 DEF TopFacts, PipeInv, PipeOf, PathInv, Top!StartVf, Top!Stopping
  <2>7. (~broken => \A x \in en : \E q \in known : x \in Holds(q))'
    BY <1>1, <1>2 DEF TopFacts, PipeInv, PipeOf, PathInv, Top!StartVf, Top!Stopping
  <2> QED
    BY <2>1, <2>2, <2>3, <2>4, <2>5, <2>6, <2>7 DEF PathInv
<1>6. ~raced' => OnInv'
  <2> SUFFICES ASSUME ~raced' PROVE OnInv'
    OBVIOUS
  <2>1. (\A q \in known : ~Top!Stopping(q) =>
         \A x \in pipe[q].paths \cap Top!Raw : Top!Cqs[x] \subseteq cq)'
    BY <1>1, <1>2 DEF TopFacts, PipeInv, PipeOf, PathInv, OnInv, Top!StartVf, Top!Stopping
  <2>2. (\A q \in Pipes : At(q) \in {"ready", "vf", "streaming"} => pipe[q].paths \subseteq dma)'
    BY <1>1, <1>2 DEF TopFacts, PipeInv, PipeOf, PathInv, OnInv, Top!StartVf, Top!Stopping
  <2>3. (\A q \in Pipes : At(q) \in {"vf", "streaming"} => pipe[q].paths \cap Top!Raw \subseteq vf)'
    BY <1>1, <1>2 DEF TopFacts, PipeInv, PipeOf, PathInv, OnInv, Top!StartVf, Top!Stopping
  <2>4. (\A q \in known : At(q) = "streaming" => wake)'
    BY <1>1, <1>2 DEF TopFacts, PipeInv, PipeOf, PathInv, OnInv, Top!StartVf, Top!Stopping
  <2> QED
    BY <2>1, <2>2, <2>3, <2>4 DEF OnInv
<1>7. ~raced' /\ ~broken' => OffInv'
  <2> SUFFICES ASSUME ~raced', ~broken' PROVE OffInv'
    OBVIOUS
  <2>1. (\A x \in dma : \E q \in Pipes : x \in Holds(q))'
    BY <1>1, <1>2 DEF TopFacts, PipeInv, PipeOf, PathInv, OffInv, Top!StartVf, Top!Stopping
  <2>2. (\A x \in vf : \E q \in Pipes : x \in Holds(q))'
    BY <1>1, <1>2 DEF TopFacts, PipeInv, PipeOf, PathInv, OffInv, Top!StartVf, Top!Stopping
  <2>3. (\A q \in Pipes : At(q) = "wait" => Now(q) \notin vf)'
    BY <1>1, <1>2 DEF TopFacts, PipeInv, PipeOf, PathInv, OffInv, Top!StartVf, Top!Stopping
  <2>4. (wake => \E q \in Pipes : At(q) \notin {"closed", "unlock"})'
    BY <1>1, <1>2 DEF TopFacts, PipeInv, PipeOf, PathInv, OffInv, Top!StartVf, Top!Stopping
  <2>5. (cq # {} /\ ~camsv => \E q \in Pipes : At(q) # "closed" /\ Holds(q) # {})'
    BY <1>1, <1>2 DEF TopFacts, PipeInv, PipeOf, PathInv, OffInv, Top!StartVf, Top!Stopping
  <2> QED
    BY <2>1, <2>2, <2>3, <2>4, <2>5 DEF OffInv
<1> QED
  BY <1>3, <1>4, <1>5, <1>6, <1>7 DEF TopInv

\* StartWake keeps the invariant.
LEMMA TopStartWake ==
    ASSUME TopInv, ~raced, NEW p \in Top!Pipes, Top!StartWake(p)
    PROVE  TopInv'
<1> USE DEF Pipes, At, Holds, Now, Moves, Places, Top!At, Top!Go, Top!hw, Top!hist
<1>1. TopFacts
  BY TopFactsHold
<1>2. \/ Moves(p, "streaming", pipe[p].paths, pipe[p].rest, pipe[p].seen) /\ wake'
      \/ Moves(p, "failed", pipe[p].paths, pipe[p].rest, pipe[p].seen) /\ wake' = wake
  BY <1>1 DEF TopFacts, Top!StartWake
<1>3. Top!TypeOK'
  BY <1>1, <1>2 DEF TopInv, TopFacts, Top!TypeOK, Top!StartWake
<1>4. PipeInv'
  BY <1>1, <1>2 DEF TopFacts, PipeInv, PipeOf, Top!StartWake, Top!Stopping
<1>5. ~raced' => PathInv'
  <2> SUFFICES ASSUME ~raced' PROVE PathInv'
    OBVIOUS
  <2>1. (\A q \in Pipes : At(q) = "config2" =>
         pipe[q].seen = en /\ lock = Top!Nobody /\ \A r \in Pipes \ {q} : At(r) # "config2")'
    BY <1>1, <1>2 DEF TopFacts, PipeInv, PipeOf, PathInv, Top!StartWake, Top!Stopping
  <2>2. (\A q \in known : ~Top!Stopping(q) => pipe[q].paths \subseteq en)'
    BY <1>1, <1>2 DEF TopFacts, PipeInv, PipeOf, PathInv, Top!StartWake, Top!Stopping
  <2>3. (\A q \in Pipes : Top!Stopping(q) => en \cap pipe[q].paths \subseteq pipe[q].rest)'
    BY <1>1, <1>2 DEF TopFacts, PipeInv, PipeOf, PathInv, Top!StartWake, Top!Stopping
  <2>4. (\A q \in Pipes : At(q) \in {"wait", "fbc"} => Now(q) \notin en)'
    BY <1>1, <1>2 DEF TopFacts, PipeInv, PipeOf, PathInv, Top!StartWake, Top!Stopping
  <2>5. (\A q \in Pipes : At(q) = "reset" => en = {})'
    BY <1>1, <1>2 DEF TopFacts, PipeInv, PipeOf, PathInv, Top!StartWake, Top!Stopping
  <2>6. (\A q \in Pipes : At(q) = "fbc" => en # {})'
    BY <1>1, <1>2 DEF TopFacts, PipeInv, PipeOf, PathInv, Top!StartWake, Top!Stopping
  <2>7. (~broken => \A x \in en : \E q \in known : x \in Holds(q))'
    BY <1>1, <1>2 DEF TopFacts, PipeInv, PipeOf, PathInv, Top!StartWake, Top!Stopping
  <2> QED
    BY <2>1, <2>2, <2>3, <2>4, <2>5, <2>6, <2>7 DEF PathInv
<1>6. ~raced' => OnInv'
  <2> SUFFICES ASSUME ~raced' PROVE OnInv'
    OBVIOUS
  <2>1. (\A q \in known : ~Top!Stopping(q) =>
         \A x \in pipe[q].paths \cap Top!Raw : Top!Cqs[x] \subseteq cq)'
    BY <1>1, <1>2 DEF TopFacts, PipeInv, PipeOf, PathInv, OnInv, Top!StartWake, Top!Stopping
  <2>2. (\A q \in Pipes : At(q) \in {"ready", "vf", "streaming"} => pipe[q].paths \subseteq dma)'
    BY <1>1, <1>2 DEF TopFacts, PipeInv, PipeOf, PathInv, OnInv, Top!StartWake, Top!Stopping
  <2>3. (\A q \in Pipes : At(q) \in {"vf", "streaming"} => pipe[q].paths \cap Top!Raw \subseteq vf)'
    BY <1>1, <1>2 DEF TopFacts, PipeInv, PipeOf, PathInv, OnInv, Top!StartWake, Top!Stopping
  <2>4. (\A q \in known : At(q) = "streaming" => wake)'
    BY <1>1, <1>2 DEF TopFacts, PipeInv, PipeOf, PathInv, OnInv, Top!StartWake, Top!Stopping
  <2> QED
    BY <2>1, <2>2, <2>3, <2>4 DEF OnInv
<1>7. ~raced' /\ ~broken' => OffInv'
  <2> SUFFICES ASSUME ~raced', ~broken' PROVE OffInv'
    OBVIOUS
  <2>1. (\A x \in dma : \E q \in Pipes : x \in Holds(q))'
    BY <1>1, <1>2 DEF TopFacts, PipeInv, PipeOf, PathInv, OffInv, Top!StartWake, Top!Stopping
  <2>2. (\A x \in vf : \E q \in Pipes : x \in Holds(q))'
    BY <1>1, <1>2 DEF TopFacts, PipeInv, PipeOf, PathInv, OffInv, Top!StartWake, Top!Stopping
  <2>3. (\A q \in Pipes : At(q) = "wait" => Now(q) \notin vf)'
    BY <1>1, <1>2 DEF TopFacts, PipeInv, PipeOf, PathInv, OffInv, Top!StartWake, Top!Stopping
  <2>4. (wake => \E q \in Pipes : At(q) \notin {"closed", "unlock"})'
    BY <1>1, <1>2 DEF TopFacts, PipeInv, PipeOf, PathInv, OffInv, Top!StartWake, Top!Stopping
  <2>5. (cq # {} /\ ~camsv => \E q \in Pipes : At(q) # "closed" /\ Holds(q) # {})'
    BY <1>1, <1>2 DEF TopFacts, PipeInv, PipeOf, PathInv, OffInv, Top!StartWake, Top!Stopping
  <2> QED
    BY <2>1, <2>2, <2>3, <2>4, <2>5 DEF OffInv
<1> QED
  BY <1>3, <1>4, <1>5, <1>6, <1>7 DEF TopInv

\* StopRefused keeps the invariant.
LEMMA TopStopRefused ==
    ASSUME TopInv, ~raced, NEW p \in Top!Pipes, Top!StopRefused(p)
    PROVE  TopInv'
<1> USE DEF Pipes, At, Holds, Now, Moves, Places, Top!At, Top!Go, Top!hw, Top!hist
<1>1. TopFacts
  BY TopFactsHold
<1>2. Moves(p, "closed", {}, {}, {})
  BY <1>1 DEF TopFacts, Top!StopRefused, Top!Closed
<1>3. Top!TypeOK'
  BY <1>1, <1>2 DEF TopInv, TopFacts, Top!TypeOK, Top!StopRefused
<1>4. PipeInv'
  BY <1>1, <1>2, ChoicesOfPipe DEF TopFacts, PipeInv, PipeOf, Top!StopRefused, Top!Stopping, Top!CanStop, Top!LockFree
<1>5. ~raced' => PathInv'
  BY <1>1, <1>2, ChoicesOfPipe DEF TopFacts, PipeInv, PipeOf, PathInv, Top!StopRefused, Top!Stopping, Top!CanStop, Top!LockFree
<1>6. ~raced' => OnInv'
  BY <1>1, <1>2, ChoicesOfPipe DEF TopFacts, PipeInv, PipeOf, PathInv, OnInv, Top!StopRefused, Top!Stopping, Top!CanStop, Top!LockFree
<1>7. ~raced' /\ ~broken' => OffInv'
  BY <1>1, <1>2, ChoicesOfPipe DEF TopFacts, PipeInv, PipeOf, PathInv, OffInv, Top!StopRefused, Top!Stopping, Top!CanStop, Top!LockFree
<1> QED
  BY <1>3, <1>4, <1>5, <1>6, <1>7 DEF TopInv

\* Stop keeps the invariant.
LEMMA TopStop ==
    ASSUME TopInv, ~raced, NEW p \in Top!Pipes, Top!Stop(p)
    PROVE  TopInv'
<1> USE DEF Pipes, At, Holds, Now, Moves, Places, Top!At, Top!Go, Top!hw, Top!hist
<1>1. TopFacts
  BY TopFactsHold
<1>2. Moves(p, "stop", pipe[p].paths, pipe[p].paths, pipe[p].seen)
  BY <1>1 DEF TopFacts, Top!Stop
<1>3. Top!TypeOK'
  BY <1>1, <1>2 DEF TopInv, TopFacts, Top!TypeOK, Top!Stop
<1>4. PipeInv'
  <2>1. (\A q \in Pipes : PipeOf(q))'
    <3> SUFFICES ASSUME NEW q \in Pipes PROVE PipeOf(q)'
      OBVIOUS
    <3>1. CASE q = p
      BY <3>1, <1>1, <1>2, ChoicesOfPipe DEF TopFacts, PipeInv, PipeOf, Top!Stop, Top!Stopping, Top!CanStop, Top!LockFree
    <3>2. CASE q # p
      BY <3>2, <1>1, <1>2, ChoicesOfPipe DEF TopFacts, PipeInv, PipeOf, Top!Stop, Top!Stopping, Top!CanStop, Top!LockFree
    <3> QED
      BY <3>1, <3>2
  <2>2. (\A q, r \in Pipes : q # r => pipe[q].paths \cap pipe[r].paths = {})'
    BY <1>1, <1>2, ChoicesOfPipe DEF TopFacts, PipeInv, PipeOf, Top!Stop, Top!Stopping, Top!CanStop, Top!LockFree
  <2> QED
    BY <2>1, <2>2 DEF PipeInv
<1>5. ~raced' => PathInv'
  <2> SUFFICES ASSUME ~raced' PROVE PathInv'
    OBVIOUS
  <2>1. (\A q \in Pipes : At(q) = "config2" =>
         pipe[q].seen = en /\ lock = Top!Nobody /\ \A r \in Pipes \ {q} : At(r) # "config2")'
    <3>1. \A q \in Pipes : At(q) # "config2"
      BY DEF Top!Stop, Top!CanStop
    <3> QED
      BY <1>2, <3>1
  <2>2. (\A q \in known : ~Top!Stopping(q) => pipe[q].paths \subseteq en)'
    BY <1>1, <1>2, ChoicesOfPipe DEF TopFacts, PipeInv, PipeOf, PathInv, Top!Stop, Top!Stopping, Top!CanStop, Top!LockFree
  <2>3. (\A q \in Pipes : Top!Stopping(q) => en \cap pipe[q].paths \subseteq pipe[q].rest)'
    BY <1>1, <1>2, ChoicesOfPipe DEF TopFacts, PipeInv, PipeOf, PathInv, Top!Stop, Top!Stopping, Top!CanStop, Top!LockFree
  <2>4. (\A q \in Pipes : At(q) \in {"wait", "fbc"} => Now(q) \notin en)'
    BY <1>1, <1>2, ChoicesOfPipe DEF TopFacts, PipeInv, PipeOf, PathInv, Top!Stop, Top!Stopping, Top!CanStop, Top!LockFree
  <2>5. (\A q \in Pipes : At(q) = "reset" => en = {})'
    BY <1>1, <1>2, ChoicesOfPipe DEF TopFacts, PipeInv, PipeOf, PathInv, Top!Stop, Top!Stopping, Top!CanStop, Top!LockFree
  <2>6. (\A q \in Pipes : At(q) = "fbc" => en # {})'
    BY <1>1, <1>2, ChoicesOfPipe DEF TopFacts, PipeInv, PipeOf, PathInv, Top!Stop, Top!Stopping, Top!CanStop, Top!LockFree
  <2>7. (~broken => \A x \in en : \E q \in known : x \in Holds(q))'
    BY <1>1, <1>2, ChoicesOfPipe DEF TopFacts, PipeInv, PipeOf, PathInv, Top!Stop, Top!Stopping, Top!CanStop, Top!LockFree
  <2> QED
    BY <2>1, <2>2, <2>3, <2>4, <2>5, <2>6, <2>7 DEF PathInv
<1>6. ~raced' => OnInv'
  BY <1>1, <1>2, ChoicesOfPipe DEF TopFacts, PipeInv, PipeOf, PathInv, OnInv, Top!Stop, Top!Stopping, Top!CanStop, Top!LockFree
<1>7. ~raced' /\ ~broken' => OffInv'
  <2> SUFFICES ASSUME ~raced', ~broken' PROVE OffInv'
    OBVIOUS
  <2>1. (\A x \in dma : \E q \in Pipes : x \in Holds(q))'
    BY <1>1, <1>2, ChoicesOfPipe DEF TopFacts, PipeInv, PipeOf, PathInv, OffInv, Top!Stop, Top!Stopping, Top!CanStop, Top!LockFree
  <2>2. (\A x \in vf : \E q \in Pipes : x \in Holds(q))'
    BY <1>1, <1>2, ChoicesOfPipe DEF TopFacts, PipeInv, PipeOf, PathInv, OffInv, Top!Stop, Top!Stopping, Top!CanStop, Top!LockFree
  <2>3. (\A q \in Pipes : At(q) = "wait" => Now(q) \notin vf)'
    BY <1>1, <1>2, ChoicesOfPipe DEF TopFacts, PipeInv, PipeOf, PathInv, OffInv, Top!Stop, Top!Stopping, Top!CanStop, Top!LockFree
  <2>4. (wake => \E q \in Pipes : At(q) \notin {"closed", "unlock"})'
    BY <1>1, <1>2, ChoicesOfPipe DEF TopFacts, PipeInv, PipeOf, PathInv, OffInv, Top!Stop, Top!Stopping, Top!CanStop, Top!LockFree
  <2>5. (cq # {} /\ ~camsv => \E q \in Pipes : At(q) # "closed" /\ Holds(q) # {})'
    BY <1>1, <1>2, ChoicesOfPipe DEF TopFacts, PipeInv, PipeOf, PathInv, OffInv, Top!Stop, Top!Stopping, Top!CanStop, Top!LockFree
  <2> QED
    BY <2>1, <2>2, <2>3, <2>4, <2>5 DEF OffInv
<1> QED
  BY <1>3, <1>4, <1>5, <1>6, <1>7 DEF TopInv

\* StopPath keeps the invariant.
LEMMA TopStopPath ==
    ASSUME TopInv, ~raced, NEW p \in Top!Pipes, Top!StopPath(p)
    PROVE  TopInv'
<1> USE DEF Pipes, At, Holds, Now, Moves, Places, Top!At, Top!Go, Top!hw, Top!hist
<1>1. TopFacts
  BY TopFactsHold
<1>2. \/ Moves(p, "wait", pipe[p].paths, pipe[p].rest, pipe[p].seen) /\ Now(p) \in Top!Raw
      \/ Moves(p, "stop", pipe[p].paths, pipe[p].rest \ {Now(p)}, pipe[p].seen) /\ Now(p) \notin Top!Raw
  BY <1>1 DEF TopFacts, Top!StopPath
<1>3. Top!TypeOK'
  BY <1>1, <1>2 DEF TopInv, TopFacts, Top!TypeOK, Top!StopPath
<1>4. PipeInv'
  BY <1>1, <1>2 DEF TopFacts, PipeInv, PipeOf, Top!StopPath, Top!Stopping
<1>5. ~raced' => PathInv'
  <2> SUFFICES ASSUME ~raced' PROVE PathInv'
    OBVIOUS
  <2>1. (\A q \in Pipes : At(q) = "config2" =>
         pipe[q].seen = en /\ lock = Top!Nobody /\ \A r \in Pipes \ {q} : At(r) # "config2")'
    BY <1>1, <1>2 DEF TopFacts, PipeInv, PipeOf, PathInv, Top!StopPath, Top!Stopping
  <2>2. (\A q \in known : ~Top!Stopping(q) => pipe[q].paths \subseteq en)'
    BY <1>1, <1>2 DEF TopFacts, PipeInv, PipeOf, PathInv, Top!StopPath, Top!Stopping
  <2>3. (\A q \in Pipes : Top!Stopping(q) => en \cap pipe[q].paths \subseteq pipe[q].rest)'
    BY <1>1, <1>2 DEF TopFacts, PipeInv, PipeOf, PathInv, Top!StopPath, Top!Stopping
  <2>4. (\A q \in Pipes : At(q) \in {"wait", "fbc"} => Now(q) \notin en)'
    BY <1>1, <1>2 DEF TopFacts, PipeInv, PipeOf, PathInv, Top!StopPath, Top!Stopping
  <2>5. (\A q \in Pipes : At(q) = "reset" => en = {})'
    BY <1>1, <1>2 DEF TopFacts, PipeInv, PipeOf, PathInv, Top!StopPath, Top!Stopping
  <2>6. (\A q \in Pipes : At(q) = "fbc" => en # {})'
    BY <1>1, <1>2 DEF TopFacts, PipeInv, PipeOf, PathInv, Top!StopPath, Top!Stopping
  <2>7. (~broken => \A x \in en : \E q \in known : x \in Holds(q))'
    BY <1>1, <1>2 DEF TopFacts, PipeInv, PipeOf, PathInv, Top!StopPath, Top!Stopping
  <2> QED
    BY <2>1, <2>2, <2>3, <2>4, <2>5, <2>6, <2>7 DEF PathInv
<1>6. ~raced' => OnInv'
  <2> SUFFICES ASSUME ~raced' PROVE OnInv'
    OBVIOUS
  <2>1. (\A q \in known : ~Top!Stopping(q) =>
         \A x \in pipe[q].paths \cap Top!Raw : Top!Cqs[x] \subseteq cq)'
    BY <1>1, <1>2 DEF TopFacts, PipeInv, PipeOf, PathInv, OnInv, Top!StopPath, Top!Stopping
  <2>2. (\A q \in Pipes : At(q) \in {"ready", "vf", "streaming"} => pipe[q].paths \subseteq dma)'
    BY <1>1, <1>2 DEF TopFacts, PipeInv, PipeOf, PathInv, OnInv, Top!StopPath, Top!Stopping
  <2>3. (\A q \in Pipes : At(q) \in {"vf", "streaming"} => pipe[q].paths \cap Top!Raw \subseteq vf)'
    <3> SUFFICES ASSUME NEW q \in Pipes, At(q)' \in {"vf", "streaming"}
                 PROVE  pipe'[q].paths \cap Top!Raw \subseteq vf'
      OBVIOUS
    <3>1. q # p /\ pipe'[q] = pipe[q] /\ pipe[q].paths \cap Top!Raw \subseteq vf
      BY <1>1, <1>2 DEF TopFacts, OnInv
    <3>2. Now(p) \notin pipe[q].paths
      BY <1>1, <3>1 DEF TopFacts, PipeInv, PipeOf, Top!StopPath, Top!Stopping
    <3>3. vf \ vf' \subseteq {Now(p), "sv", "svd"}
      BY <1>1 DEF TopFacts, Top!StopPath
    <3> QED
      BY <3>1, <3>2, <3>3 DEF Top!Raw
  <2>4. (\A q \in known : At(q) = "streaming" => wake)'
    BY <1>1, <1>2 DEF TopFacts, PipeInv, PipeOf, PathInv, OnInv, Top!StopPath, Top!Stopping
  <2> QED
    BY <2>1, <2>2, <2>3, <2>4 DEF OnInv
<1>7. ~raced' /\ ~broken' => OffInv'
  <2> SUFFICES ASSUME ~raced', ~broken' PROVE OffInv'
    OBVIOUS
  <2>1. (\A x \in dma : \E q \in Pipes : x \in Holds(q))'
    BY <1>1, <1>2 DEF TopFacts, PipeInv, PipeOf, PathInv, OffInv, Top!StopPath, Top!Stopping
  <2>2. (\A x \in vf : \E q \in Pipes : x \in Holds(q))'
    BY <1>1, <1>2 DEF TopFacts, PipeInv, PipeOf, PathInv, OffInv, Top!StopPath, Top!Stopping
  <2>3. (\A q \in Pipes : At(q) = "wait" => Now(q) \notin vf)'
    BY <1>1, <1>2 DEF TopFacts, PipeInv, PipeOf, PathInv, OffInv, Top!StopPath, Top!Stopping
  <2>4. (wake => \E q \in Pipes : At(q) \notin {"closed", "unlock"})'
    BY <1>1, <1>2 DEF TopFacts, PipeInv, PipeOf, PathInv, OffInv, Top!StopPath, Top!Stopping
  <2>5. (cq # {} /\ ~camsv => \E q \in Pipes : At(q) # "closed" /\ Holds(q) # {})'
    <3>1. CASE Now(p) \in Top!Raw
      BY <1>1, <1>2, <3>1 DEF TopFacts, Top!StopPath, Top!Stopping
    <3>2. CASE Now(p) \notin Top!Raw
      <4>1. Now(p) \in pipe[p].paths /\ pipe[p].paths \in Top!Choices[p]
        BY <1>1 DEF TopFacts, PipeInv, PipeOf, Top!StopPath, Top!Stopping
      <4>2. p = "sv"
        BY <3>2, <4>1, ChoicesOfPipe
      <4> QED
        BY <1>1, <4>2 DEF TopFacts, PipeInv, PipeOf, Top!StopPath
    <3> QED
      BY <3>1, <3>2
  <2> QED
    BY <2>1, <2>2, <2>3, <2>4, <2>5 DEF OffInv
<1> QED
  BY <1>3, <1>4, <1>5, <1>6, <1>7 DEF TopInv

\* StopCq keeps the invariant.
LEMMA TopStopCq ==
    ASSUME TopInv, ~raced, NEW p \in Top!Pipes, Top!StopCq(p)
    PROVE  TopInv'
<1> USE DEF Pipes, At, Holds, Now, Moves, Places, Top!At, Top!Go, Top!hw, Top!hist
<1>1. TopFacts
  BY TopFactsHold
<1>2. \/ Moves(p, "fbc", pipe[p].paths, pipe[p].rest, pipe[p].seen) /\ en # {}
      \/ Moves(p, "stop", pipe[p].paths, pipe[p].rest \ {Now(p)}, pipe[p].seen) /\ en = {}
  BY <1>1 DEF TopFacts, Top!StopCq
<1>3. Top!TypeOK'
  <2>1. (pipe \in [Top!Pipes -> [at : Places, paths : SUBSET Top!Paths, rest : SUBSET Top!Paths, seen : SUBSET Top!Paths]])'
    BY <1>1, <1>2 DEF TopInv, TopFacts, Top!TypeOK, Top!StopCq, Top!CqsToStop
  <2>2. (en \in SUBSET Top!Paths /\ vf \in SUBSET Top!Paths /\ dma \in SUBSET Top!Paths)'
    <3>1. Now(p) \in Top!Paths
      BY <1>1 DEF TopFacts, PipeInv, PipeOf, Top!StopCq
    <3> QED
      BY <1>1, <3>1 DEF TopInv, TopFacts, Top!TypeOK, Top!StopCq
  <2>3. (cq \subseteq UNION {Top!Cqs[x] : x \in Top!Paths})'
    BY <1>1, <1>2 DEF TopInv, TopFacts, Top!TypeOK, Top!StopCq, Top!CqsToStop
  <2>4. (wake \in BOOLEAN)'
    BY <1>1, <1>2 DEF TopInv, TopFacts, Top!TypeOK, Top!StopCq, Top!CqsToStop
  <2>5. (lock \in Top!Pipes \cup {Top!Nobody})'
    BY <1>1, <1>2 DEF TopInv, TopFacts, Top!TypeOK, Top!StopCq, Top!CqsToStop
  <2>6. (known \subseteq Top!Pipes)'
    BY <1>1, <1>2 DEF TopInv, TopFacts, Top!TypeOK, Top!StopCq, Top!CqsToStop
  <2>7. (raced \in BOOLEAN /\ broken \in BOOLEAN /\ camsv \in BOOLEAN)'
    BY <1>1, <1>2 DEF TopInv, TopFacts, Top!TypeOK, Top!StopCq, Top!CqsToStop
  <2>8. (starts \in 0..MaxConfigs)'
    BY <1>1, <1>2 DEF TopInv, TopFacts, Top!TypeOK, Top!StopCq, Top!CqsToStop
  <2> QED
    BY <2>1, <2>2, <2>3, <2>4, <2>5, <2>6, <2>7, <2>8 DEF Top!TypeOK, Places
<1>4. PipeInv'
  BY <1>1, <1>2 DEF TopFacts, PipeInv, PipeOf, Top!StopCq, Top!Stopping
<1>5. ~raced' => PathInv'
  BY <1>1, <1>2 DEF TopFacts, PipeInv, PipeOf, PathInv, Top!StopCq, Top!Stopping
<1>6. ~raced' => OnInv'
  <2> SUFFICES ASSUME ~raced' PROVE OnInv'
    OBVIOUS
  <2>1. (\A q \in known : ~Top!Stopping(q) =>
         \A x \in pipe[q].paths \cap Top!Raw : Top!Cqs[x] \subseteq cq)'
    <3> SUFFICES ASSUME NEW q \in known, ~Top!Stopping(q)', NEW x \in pipe'[q].paths \cap Top!Raw
                 PROVE  Top!Cqs[x] \subseteq cq'
      BY DEF Top!StopCq
    <3>1. q \in Pipes /\ q # p /\ pipe'[q] = pipe[q] /\ ~Top!Stopping(q)
      BY <1>1, <1>2 DEF TopFacts, Top!Stopping
    <3>2. Top!Cqs[x] \subseteq cq /\ pipe[q].paths \subseteq en
      BY <1>1, <3>1 DEF TopFacts, OnInv, PathInv
    <3>3. Now(p) \in pipe[p].paths /\ Now(p) \in Top!Raw /\ x \notin pipe[p].paths
      BY <1>1, <3>1 DEF TopFacts, PipeInv, PipeOf, Top!StopCq, Top!Stopping
    <3>4. cq' = cq \ Top!CqsToStop(Now(p), pipe[p].paths) /\ en # {}
      BY <1>1, <3>1, <3>2 DEF TopFacts, Top!StopCq
    <3> QED
      BY <3>1, <3>2, <3>3, <3>4, Queues DEF Top!CqsToStop, Top!Raw
  <2>2. (\A q \in Pipes : At(q) \in {"ready", "vf", "streaming"} => pipe[q].paths \subseteq dma)'
    BY <1>1, <1>2, Queues DEF TopFacts, PipeInv, PipeOf, PathInv, OnInv, Top!StopCq, Top!Stopping, Top!CqsToStop
  <2>3. (\A q \in Pipes : At(q) \in {"vf", "streaming"} => pipe[q].paths \cap Top!Raw \subseteq vf)'
    BY <1>1, <1>2, Queues DEF TopFacts, PipeInv, PipeOf, PathInv, OnInv, Top!StopCq, Top!Stopping, Top!CqsToStop
  <2>4. (\A q \in known : At(q) = "streaming" => wake)'
    BY <1>1, <1>2, Queues DEF TopFacts, PipeInv, PipeOf, PathInv, OnInv, Top!StopCq, Top!Stopping, Top!CqsToStop
  <2> QED
    BY <2>1, <2>2, <2>3, <2>4 DEF OnInv
<1>7. ~raced' /\ ~broken' => OffInv'
  BY <1>1, <1>2, Queues DEF TopFacts, PipeInv, PipeOf, PathInv, OffInv, Top!StopCq, Top!Stopping, Top!CqsToStop
<1> QED
  BY <1>3, <1>4, <1>5, <1>6, <1>7 DEF TopInv

\* StopFbc keeps the invariant.
LEMMA TopStopFbc ==
    ASSUME TopInv, ~raced, NEW p \in Top!Pipes, Top!StopFbc(p)
    PROVE  TopInv'
<1> USE DEF Pipes, At, Holds, Now, Moves, Places, Top!At, Top!Go, Top!hw, Top!hist
<1>1. TopFacts
  BY TopFactsHold
<1>2. Moves(p, "stop", pipe[p].paths, pipe[p].rest \ {Now(p)}, pipe[p].seen)
  BY <1>1 DEF TopFacts, Top!StopFbc
<1>3. Top!TypeOK'
  BY <1>1, <1>2 DEF TopInv, TopFacts, Top!TypeOK, Top!StopFbc
<1>4. PipeInv'
  BY <1>1, <1>2 DEF TopFacts, PipeInv, PipeOf, Top!StopFbc, Top!Stopping
<1>5. ~raced' => PathInv'
  BY <1>1, <1>2 DEF TopFacts, PipeInv, PipeOf, PathInv, Top!StopFbc, Top!Stopping
<1>6. ~raced' => OnInv'
  BY <1>1, <1>2 DEF TopFacts, PipeInv, PipeOf, PathInv, OnInv, Top!StopFbc, Top!Stopping
<1>7. ~raced' /\ ~broken' => OffInv'
  BY <1>1, <1>2 DEF TopFacts, PipeInv, PipeOf, PathInv, OffInv, Top!StopFbc, Top!Stopping
<1> QED
  BY <1>3, <1>4, <1>5, <1>6, <1>7 DEF TopInv

\* StopChecks keeps the invariant.
LEMMA TopStopChecks ==
    ASSUME TopInv, ~raced, NEW p \in Top!Pipes, Top!StopChecks(p)
    PROVE  TopInv'
<1> USE DEF Pipes, At, Holds, Now, Moves, Places, Top!At, Top!Go, Top!hw, Top!hist
<1>1. TopFacts
  BY TopFactsHold
<1>2. \/ Moves(p, "reset", pipe[p].paths, pipe[p].rest, pipe[p].seen) /\ en = {}
      \/ Moves(p, "unlock", pipe[p].paths, pipe[p].rest, pipe[p].seen) /\ en # {}
  BY <1>1 DEF TopFacts, Top!StopChecks, Top!LastPath
<1>3. Top!TypeOK'
  BY <1>1, <1>2 DEF TopInv, TopFacts, Top!TypeOK, Top!StopChecks
<1>4. PipeInv'
  BY <1>1, <1>2 DEF TopFacts, PipeInv, PipeOf, Top!StopChecks, Top!Stopping
<1>5. ~raced' => PathInv'
  <2> SUFFICES ASSUME ~raced' PROVE PathInv'
    OBVIOUS
  <2>1. (\A q \in Pipes : At(q) = "config2" =>
         pipe[q].seen = en /\ lock = Top!Nobody /\ \A r \in Pipes \ {q} : At(r) # "config2")'
    BY <1>1, <1>2 DEF TopFacts, PipeInv, PipeOf, PathInv, Top!StopChecks, Top!Stopping
  <2>2. (\A q \in known : ~Top!Stopping(q) => pipe[q].paths \subseteq en)'
    BY <1>1, <1>2 DEF TopFacts, PipeInv, PipeOf, PathInv, Top!StopChecks, Top!Stopping
  <2>3. (\A q \in Pipes : Top!Stopping(q) => en \cap pipe[q].paths \subseteq pipe[q].rest)'
    BY <1>1, <1>2 DEF TopFacts, PipeInv, PipeOf, PathInv, Top!StopChecks, Top!Stopping
  <2>4. (\A q \in Pipes : At(q) \in {"wait", "fbc"} => Now(q) \notin en)'
    BY <1>1, <1>2 DEF TopFacts, PipeInv, PipeOf, PathInv, Top!StopChecks, Top!Stopping
  <2>5. (\A q \in Pipes : At(q) = "reset" => en = {})'
    BY <1>1, <1>2 DEF TopFacts, PipeInv, PipeOf, PathInv, Top!StopChecks, Top!Stopping
  <2>6. (\A q \in Pipes : At(q) = "fbc" => en # {})'
    BY <1>1, <1>2 DEF TopFacts, PipeInv, PipeOf, PathInv, Top!StopChecks, Top!Stopping
  <2>7. (~broken => \A x \in en : \E q \in known : x \in Holds(q))'
    BY <1>1, <1>2 DEF TopFacts, PipeInv, PipeOf, PathInv, Top!StopChecks, Top!Stopping
  <2> QED
    BY <2>1, <2>2, <2>3, <2>4, <2>5, <2>6, <2>7 DEF PathInv
<1>6. ~raced' => OnInv'
  BY <1>1, <1>2 DEF TopFacts, PipeInv, PipeOf, PathInv, OnInv, Top!StopChecks, Top!Stopping
<1>7. ~raced' /\ ~broken' => OffInv'
  <2> SUFFICES ASSUME ~raced', ~broken' PROVE OffInv'
    OBVIOUS
  <2>1. (\A x \in dma : \E q \in Pipes : x \in Holds(q))'
    BY <1>1, <1>2 DEF TopFacts, PipeInv, PipeOf, PathInv, OffInv, Top!StopChecks, Top!Stopping
  <2>2. (\A x \in vf : \E q \in Pipes : x \in Holds(q))'
    BY <1>1, <1>2 DEF TopFacts, PipeInv, PipeOf, PathInv, OffInv, Top!StopChecks, Top!Stopping
  <2>3. (\A q \in Pipes : At(q) = "wait" => Now(q) \notin vf)'
    BY <1>1, <1>2 DEF TopFacts, PipeInv, PipeOf, PathInv, OffInv, Top!StopChecks, Top!Stopping
  <2>4. (wake => \E q \in Pipes : At(q) \notin {"closed", "unlock"})'
    BY <1>1, <1>2 DEF TopFacts, PipeInv, PipeOf, PathInv, OffInv, Top!StopChecks, Top!Stopping
  <2>5. (cq # {} /\ ~camsv => \E q \in Pipes : At(q) # "closed" /\ Holds(q) # {})'
    BY <1>1, <1>2 DEF TopFacts, PipeInv, PipeOf, PathInv, OffInv, Top!StopChecks, Top!Stopping
  <2> QED
    BY <2>1, <2>2, <2>3, <2>4, <2>5 DEF OffInv
<1> QED
  BY <1>3, <1>4, <1>5, <1>6, <1>7 DEF TopInv

\* StopResets keeps the invariant.
LEMMA TopStopResets ==
    ASSUME TopInv, ~raced, NEW p \in Top!Pipes, Top!StopResets(p)
    PROVE  TopInv'
<1> USE DEF Pipes, At, Holds, Now, Moves, Places, Top!At, Top!Go, Top!hw, Top!hist
<1>1. TopFacts
  BY TopFactsHold
<1>2. Moves(p, "unlock", pipe[p].paths, pipe[p].rest, pipe[p].seen)
  BY <1>1 DEF TopFacts, Top!StopResets
<1>3. Top!TypeOK'
  BY <1>1, <1>2 DEF TopInv, TopFacts, Top!TypeOK, Top!StopResets
<1>4. PipeInv'
  BY <1>1, <1>2 DEF TopFacts, PipeInv, PipeOf, Top!StopResets, Top!Stopping
<1>5. ~raced' => PathInv'
  BY <1>1, <1>2 DEF TopFacts, PipeInv, PipeOf, PathInv, Top!StopResets, Top!Stopping
<1>6. ~raced' => OnInv'
  <2>1. ASSUME NEW q \in known, At(q) = "streaming" PROVE FALSE
    <3>1. pipe[q].paths \subseteq en /\ pipe[q].paths \in Top!Choices[q] /\ q \in Pipes
      BY <1>1, <2>1 DEF TopFacts, PipeInv, PipeOf, PathInv, Top!Stopping
    <3>2. en = {}
      BY <1>1 DEF TopFacts, PathInv, Top!StopResets
    <3> QED
      BY <3>1, <3>2, ChoicesOfPipe
  <2> QED
    BY <1>1, <1>2, <2>1 DEF TopFacts, PathInv, OnInv, Top!StopResets, Top!Stopping
<1>7. ~raced' /\ ~broken' => OffInv'
  BY <1>1, <1>2 DEF TopFacts, PipeInv, PipeOf, PathInv, OffInv, Top!StopResets, Top!Stopping
<1> QED
  BY <1>3, <1>4, <1>5, <1>6, <1>7 DEF TopInv

\* StopReturns keeps the invariant.
LEMMA TopStopReturns ==
    ASSUME TopInv, ~raced, NEW p \in Top!Pipes, Top!StopReturns(p)
    PROVE  TopInv'
<1> USE DEF Pipes, At, Holds, Now, Moves, Places, Top!At, Top!Go, Top!hw, Top!hist
<1>1. TopFacts
  BY TopFactsHold
<1>2. Moves(p, "closed", {}, {}, {})
  BY <1>1 DEF TopFacts, Top!StopReturns, Top!Closed
<1>3. Top!TypeOK'
  BY <1>1, <1>2 DEF TopInv, TopFacts, Top!TypeOK, Top!StopReturns
<1>4. PipeInv'
  <2>1. (\A q \in Pipes : PipeOf(q))'
    <3> SUFFICES ASSUME NEW q \in Pipes PROVE PipeOf(q)'
      OBVIOUS
    <3>1. CASE q = p
      BY <3>1, <1>1, <1>2 DEF TopFacts, PipeInv, PipeOf, Top!StopReturns, Top!Stopping
    <3>2. CASE q # p
      BY <3>2, <1>1, <1>2 DEF TopFacts, PipeInv, PipeOf, Top!StopReturns, Top!Stopping
    <3> QED
      BY <3>1, <3>2
  <2>2. (\A q, r \in Pipes : q # r => pipe[q].paths \cap pipe[r].paths = {})'
    BY <1>1, <1>2 DEF TopFacts, PipeInv, PipeOf, Top!StopReturns, Top!Stopping
  <2> QED
    BY <2>1, <2>2 DEF PipeInv
<1>5. ~raced' => PathInv'
  BY <1>1, <1>2 DEF TopFacts, PipeInv, PipeOf, PathInv, Top!StopReturns, Top!Stopping
<1>6. ~raced' => OnInv'
  BY <1>1, <1>2 DEF TopFacts, PipeInv, PipeOf, PathInv, OnInv, Top!StopReturns, Top!Stopping
<1>7. ~raced' /\ ~broken' => OffInv'
  BY <1>1, <1>2 DEF TopFacts, PipeInv, PipeOf, PathInv, OffInv, Top!StopReturns, Top!Stopping
<1> QED
  BY <1>3, <1>4, <1>5, <1>6, <1>7 DEF TopInv

\* The paths start in their invariant.
LEMMA TopInit == Top!Init => TopInv
<1> SUFFICES ASSUME Top!Init PROVE TopInv
  OBVIOUS
<1>1. Top!TypeOK
  <2>1. Top!Closed \in [at : Places, paths : SUBSET Top!Paths, rest : SUBSET Top!Paths,
                        seen : SUBSET Top!Paths]
    BY DEF Top!Closed, Places
  <2>2. starts \in 0..MaxConfigs
    BY IspAssumption DEF Top!Init
  <2> QED
    BY <2>1, <2>2 DEF Top!Init, Top!TypeOK, Top!Nobody, Places
<1>2. PipeInv
  BY DEF Top!Init, PipeInv, PipeOf, Pipes, At, Top!Stopping, Top!Closed, Top!Pipes, Top!Nobody
<1>3. PathInv /\ OnInv
  BY DEF Top!Init, PathInv, OnInv, Pipes, At, Top!Stopping, Top!Closed
<1>4. OffInv
  BY DEF Top!Init, OffInv, Pipes, At, Top!Closed
<1> QED
  BY <1>1, <1>2, <1>3, <1>4 DEF TopInv

\* Every step of a pipe keeps it.
LEMMA TopStep ==
    ASSUME TopInv, [Top!Next]_topVars
    PROVE  TopInv'
<1>1. CASE Top!Next
  <2>1. PICK p \in Top!Pipes :
          \/ \E c \in SUBSET Top!Paths : Top!Config(p, c)
          \/ Top!Config2Reads(p) \/ Top!Config2Writes(p) \/ Top!ConfigDone(p)
          \/ Top!StartVf(p) \/ Top!StartWake(p) \/ Top!StopRefused(p) \/ Top!Stop(p)
          \/ Top!StopPath(p) \/ Top!StopCq(p) \/ Top!StopFbc(p)
          \/ Top!StopChecks(p) \/ Top!StopResets(p) \/ Top!StopReturns(p)
    BY <1>1 DEF Top!Next
  <2>2. ~raced
    BY <1>1 DEF Top!Next
  <2> QED
    BY <2>1, <2>2, TopConfig, TopConfig2Reads, TopConfig2Writes, TopConfigDone, TopStartVf,
       TopStartWake, TopStopRefused, TopStop, TopStopPath, TopStopCq, TopStopFbc,
       TopStopChecks, TopStopResets, TopStopReturns
<1>2. CASE UNCHANGED topVars
  <2>1. Top!TypeOK'
    BY <1>2 DEF topVars, TopInv, Top!TypeOK
  <2>2. PipeInv'
    BY <1>2 DEF topVars, TopInv, PipeInv, PipeOf, At, Now, Top!Stopping
  <2>3. ~raced' => PathInv'
    BY <1>2 DEF topVars, TopInv, PathInv, At, Now, Holds, Top!Stopping
  <2>4. ~raced' => OnInv'
    BY <1>2 DEF topVars, TopInv, OnInv, At, Top!Stopping
  <2>5. ~raced' /\ ~broken' => OffInv'
    BY <1>2 DEF topVars, TopInv, OffInv, At, Now, Holds, Top!Stopping
  <2> QED
    BY <2>1, <2>2, <2>3, <2>4, <2>5 DEF TopInv
<1> QED
  BY <1>1, <1>2

\* TopInv is an invariant.
LEMMA TopInvariance == Spec => []TopInv
<1>1. Init => TopInv
  BY TopInit DEF Init
<1>2. TopInv /\ [Next]_vars => TopInv'
  BY Parts, TopStep
<1> QED
  BY <1>1, <1>2, PTL DEF Spec

\* Whatever the other pipes do, for any number of configurations, a pipe that
\* streams keeps its paths in mEnablePath, its common queues, DMA, view finder
\* and the wake lock, as long as no config2() overlapped another one or a stop.
THEOREM StreamingIsUndisturbed == Spec => []StreamingUndisturbed
<1>1. TopInv => StreamingUndisturbed
  <2> SUFFICES ASSUME TopInv, ~raced, NEW p \in known, At(p) = "streaming"
               PROVE  /\ pipe[p].paths \subseteq en /\ wake
                      /\ \A x \in pipe[p].paths \cap Top!Raw : Top!Cqs[x] \subseteq cq /\ x \in vf \cap dma
    BY DEF StreamingUndisturbed, Top!StreamingUndisturbed, Top!At, At
  <2>1. p \in Pipes /\ ~Top!Stopping(p) /\ PathInv /\ OnInv
    BY DEF TopInv, Top!TypeOK, Pipes, At, Top!Stopping
  <2> QED
    BY <2>1 DEF PathInv, OnInv
<1> QED
  BY <1>1, TopInvariance, PTL

\* With gPass1TopCtrlLock no pipe resets the processor while another resets its
\* FBC or streams, and when all have stopped nothing is left on.
THEOREM ResetsAreAlone == Spec => []ResetAlone
<1>1. TopInv => Top!ResetAlone
  <2> SUFFICES ASSUME TopInv, NEW p \in Pipes, At(p) = "reset", NEW q \in Pipes \ {p}
               PROVE  At(q) # "fbc" /\ (q \in known /\ At(q) = "streaming" => raced)
    BY DEF Top!ResetAlone, Top!At, At, Pipes
  <2>1. lock = p /\ ~Top!Stopping(q)
    BY DEF TopInv, PipeInv, PipeOf, Top!Stopping, At
  <2>2. At(q) # "fbc"
    BY <2>1 DEF Top!Stopping, At
  <2>3. ASSUME q \in known, At(q) = "streaming", ~raced PROVE FALSE
    <3>1. en = {} /\ pipe[q].paths \subseteq en /\ pipe[q].paths \in Top!Choices[q]
      BY <2>1, <2>3 DEF TopInv, PathInv, PipeInv, PipeOf
    <3> QED
      BY <3>1, ChoicesOfPipe DEF Pipes
  <2>4. raced \in BOOLEAN
    BY DEF TopInv, Top!TypeOK
  <2> QED
    BY <2>2, <2>3, <2>4
<1>2. TopInv => Top!AllOff
  <2> SUFFICES ASSUME TopInv, \A p \in Pipes : At(p) = "closed", ~broken, ~raced
               PROVE  en = {} /\ dma = {} /\ ~wake /\ vf = {} /\ (cq = {} \/ camsv)
    BY DEF Top!AllOff, Top!At, At, Pipes
  <2>1. \A p \in Pipes : Holds(p) = {}
    BY DEF TopInv, PipeInv, PipeOf, Holds, At, Top!Stopping
  <2>2. known = {}
    BY DEF TopInv, Top!TypeOK, PipeInv, PipeOf, Pipes
  <2>3. PathInv /\ OffInv /\ wake \in BOOLEAN /\ camsv \in BOOLEAN
    BY DEF TopInv, Top!TypeOK
  <2> QED
    BY <2>1, <2>2, <2>3 DEF PathInv, OffInv
<1>3. TopInv => ResetAlone
  BY <1>1, <1>2 DEF ResetAlone
<1> QED
  BY <1>3, TopInvariance, PTL

-----------------------------------------------------------------------------
(* The tuning registers *)

\* The data of a copy, of the copies of a side, and of the call under way.
Sides == Tuning!Sides
CopyIds == 0..(Copies - 1)
Values == [en : BOOLEAN, frame : 0..MaxTunes, regs : 0..MaxTunes]
Copy == [Tuning!All -> Values]
Calls == [at : Tuning!Steps, side : Sides, target : CopyIds,
          upd : {{"LSC"}, Tunable}, on : {{}, Tunable, Tunable \ {"LSCI"}}]

\* What the step that comes next in a copy has still to write.
Place(s, c) ==
  IF call # Tuning!Idle /\ call.side = s /\ call.target = c THEN call.at ELSE "next"

\* A copy at a place of the call: BPCI waits for its registers from "bpci" to
\* "bpci config", LSC and LSCI for each other from "lsci config" to "lsc en".
LscFacts(cp, s, at) ==
  /\ cp["LSC"].en = cp["LSCI"].en
  /\ cp["LSC"].en => cp["LSC"].regs = cp["LSC"].frame
  /\ cp["LSCI_D"].en => mode = "twin" /\ s = "p1"
  /\ at # "lsc en" =>
       /\ cp["LSC"].en => cp["LSC"].regs = cp["LSCI"].regs
       /\ cp["LSCI"].en => cp["LSCI"].regs = cp["LSCI"].frame
       /\ cp["LSCI_D"].en => cp["LSCI_D"] = cp["LSCI"]
  /\ at = "lsc en" => cp["LSCI"].regs = IF "LSC" \in call.on THEN tunes ELSE 0

OtherFacts(cp, at) ==
  /\ \A m \in Tuning!Plain : cp[m].en => cp[m].regs = cp[m].frame
  /\ at # "bpci config" => (cp["BPCI"].en => cp["BPCI"].regs = cp["BPCI"].frame)
  /\ at = "bpci config" => cp["BPCI"].frame = tunes

TuneTypes ==
  /\ mode \in {"main", "sub", "twin"} /\ tg \subseteq Sides /\ dup \in CopyIds
  /\ copies \in [Sides -> [CopyIds -> Copy]]
  /\ call \in {Tuning!Idle} \cup Calls
  /\ toggled \in BOOLEAN /\ tunes \in 0..MaxTunes /\ kept \in Nat /\ dropped \in Nat /\ kept <= tunes
  /\ call = Tuning!Idle => kept = dropped
  /\ call # Tuning!Idle => kept = dropped + 1

\* The call keeps to one copy, and has checked LSC before it writes it.
CallFacts ==
  call # Tuning!Idle =>
    /\ call.target = Tuning!Target(call.side)
    /\ call.at \in {"lsci config", "lsc en"} => Tuning!LscValid(call.on)

CopyFacts ==
  \A s \in Sides, c \in CopyIds : LscFacts(copies[s][c], s, Place(s, c)) /\ OtherFacts(copies[s][c], Place(s, c))

TuneInv == TuneTypes /\ (~toggled => CallFacts /\ CopyFacts)

\* Membership is a truth value.
LEMMA Truth == ASSUME NEW m, NEW S PROVE \E b \in BOOLEAN : b = (m \in S)
<1>1. CASE m \in S
  <2>1. (m \in S) = TRUE
    BY <1>1
  <2> QED
    BY <2>1
<1>2. CASE m \notin S
  <2>1. (m \in S) = FALSE
    BY <1>2
  <2> QED
    BY <2>1
<1> QED
  BY <1>1, <1>2

\* The copy a write goes to is one of the copies, and not the one that is loaded
\* while the sensor streams.
LEMMA TargetIsOther ==
    ASSUME dup \in CopyIds, NEW s
    PROVE  /\ Tuning!Target(s) \in CopyIds
           /\ (dup + 1) % Copies \in CopyIds
           /\ s \in tg => Tuning!Target(s) # dup
<1> USE IspAssumption DEF CopyIds
<1>1. dup \in Nat /\ dup < Copies /\ Copies \in Nat /\ Copies > 1
  OBVIOUS
<1>2. (dup + 1) % Copies \in 0..(Copies - 1) /\ (dup + 1) % Copies # dup
  <2>1. CASE dup + 1 < Copies
    <3>1. (dup + 1) % Copies = dup + 1
      BY <1>1, <2>1
    <3> QED
      BY <1>1, <2>1, <3>1
  <2>2. CASE dup + 1 = Copies
    <3>1. (dup + 1) % Copies = 0
      BY <1>1, <2>2
    <3> QED
      BY <1>1, <2>2, <3>1
  <2> QED
    BY <1>1, <2>1, <2>2
<1> QED
  BY <1>2 DEF Tuning!Target

\* The copy that the call writes.
Now1 == copies[call.side][call.target]

\* What is known of it and of the call.
LEMMA CopyUnderWrite ==
    ASSUME TuneTypes, CopyFacts, call # Tuning!Idle
    PROVE  /\ call \in Calls /\ Now1 \in Copy
           /\ LscFacts(Now1, call.side, call.at) /\ OtherFacts(Now1, call.at)
<1>1. call \in Calls
  BY DEF TuneTypes
<1>2. call.side \in Sides /\ call.target \in CopyIds
  BY <1>1 DEF Calls
<1>3. Place(call.side, call.target) = call.at
  BY DEF Place
<1> QED
  BY <1>1, <1>2, <1>3 DEF CopyFacts, TuneTypes, Now1

\* A step of a call that writes its copy leaves the others.
LEMMA StepCopy ==
    ASSUME TuneTypes, CallFacts, CopyFacts, ~toggled, call # Tuning!Idle,
           NEW new \in Copy, NEW next \in Tuning!Steps, Tuning!Go(next), Tuning!Rest,
           copies' = [copies EXCEPT ![call.side][call.target] = new],
           LscFacts(new, call.side, next), OtherFacts(new, next),
           next \in {"lsci config", "lsc en"} => Tuning!LscValid(call.on)
    PROVE  TuneInv'
<1>1. call \in Calls /\ call # Tuning!Idle /\ call' \in Calls /\ call' # Tuning!Idle
  <2>1. call \in Calls
    BY DEF TuneTypes
  <2>2. call' \in Calls /\ call'.at = next
    BY <2>1 DEF Calls, Tuning!Go
  <2>3. call'.side = call.side
    BY <2>1 DEF Calls, Tuning!Go
  <2>4. call' # Tuning!Idle
    <3>1. Tuning!Idle.at = "idle" /\ "idle" \notin Tuning!Steps
      BY DEF Tuning!Idle, Tuning!Steps
    <3> QED
      BY <2>2, <3>1
  <2> QED
    BY <2>1, <2>2, <2>4
<1>2. call' = [call EXCEPT !.at = next]
  BY DEF Tuning!Go
<1>3. /\ call'.at = next /\ call'.side = call.side /\ call'.target = call.target
      /\ call'.on = call.on /\ call.side \in Sides /\ call.target \in CopyIds
  BY <1>1, <1>2 DEF Calls
<1>4. /\ copies' \in [Sides -> [CopyIds -> Copy]]
      /\ copies'[call.side][call.target] = new
      /\ \A s \in Sides, c \in CopyIds :
           s # call.side \/ c # call.target => copies'[s][c] = copies[s][c]
  BY <1>3 DEF TuneTypes
<1>5. UNCHANGED <<mode, tg, dup, kept, dropped, toggled, tunes>>
  BY DEF Tuning!Rest
<1>6. TuneTypes'
  BY <1>1, <1>4, <1>5 DEF TuneTypes
<1>7. CallFacts'
  BY <1>3, <1>5 DEF CallFacts, Tuning!Target, Tuning!LscValid
<1>8. ASSUME NEW s \in Sides, NEW c \in CopyIds
      PROVE  LscFacts(copies[s][c], s, Place(s, c))' /\ OtherFacts(copies[s][c], Place(s, c))'
  <2>1. CASE s = call.side /\ c = call.target
    <3>1. Place(s, c)' = next
      BY <1>1, <1>3, <2>1 DEF Place
    <3>2. copies'[s][c] = new
      BY <1>4, <2>1
    <3>3. /\ LscFacts(copies[s][c], s, Place(s, c))' <=> LscFacts(new, s, next)
          /\ OtherFacts(copies[s][c], Place(s, c))' <=> OtherFacts(new, next)
      BY <1>3, <1>5, <3>1, <3>2 DEF LscFacts, OtherFacts
    <3> QED
      BY <2>1, <3>3
  <2>2. CASE ~(s = call.side /\ c = call.target)
    <3>1. Place(s, c)' = "next" /\ Place(s, c) = "next"
      BY <1>1, <1>3, <2>2 DEF Place
    <3>2. copies'[s][c] = copies[s][c]
      BY <1>4, <2>2
    <3>3. LscFacts(copies[s][c], s, "next") /\ OtherFacts(copies[s][c], "next")
      BY <3>1 DEF CopyFacts
    <3> QED
      BY <1>5, <3>1, <3>2, <3>3 DEF LscFacts, OtherFacts
  <2> QED
    BY <2>1, <2>2
<1> QED
  BY <1>6, <1>7, <1>8 DEF TuneInv, CopyFacts

\* One that writes no copy.
LEMMA StepOn ==
    ASSUME TuneTypes, CallFacts, CopyFacts, ~toggled, call # Tuning!Idle,
           NEW next \in Tuning!Steps, Tuning!Go(next), Tuning!Rest, UNCHANGED copies,
           LscFacts(Now1, call.side, next), OtherFacts(Now1, next),
           next \in {"lsci config", "lsc en"} => Tuning!LscValid(call.on)
    PROVE  TuneInv'
<1>1. call \in Calls /\ Now1 \in Copy
  BY CopyUnderWrite
<1>2. copies' = [copies EXCEPT ![call.side][call.target] = Now1]
  BY <1>1 DEF TuneTypes, Calls, Now1
<1> QED
  BY <1>1, <1>2, StepCopy

\* A plain module.
LEMMA StepModule ==
    ASSUME TuneTypes, CallFacts, CopyFacts, ~toggled, call # Tuning!Idle,
           NEW m \in Tuning!Plain, NEW step, NEW next \in Tuning!Steps,
           step \notin {"bpci config", "lsc en"},
           next \notin {"bpci config", "lsc en", "lsci config"},
           Tuning!Module(m, step, next)
    PROVE  TuneInv'
<1> DEFINE new == [Now1 EXCEPT ![m] = Tuning!Tuned(m)]
<1>1. /\ call.at = step /\ Tuning!Go(next) /\ Tuning!Rest
      /\ copies' = IF m \in call.upd THEN Tuning!Write(call.side, call.target, m, Tuning!Tuned(m)) ELSE copies
  BY DEF Tuning!Module
<1>2. /\ call \in Calls /\ Now1 \in Copy
      /\ LscFacts(Now1, call.side, step) /\ OtherFacts(Now1, step)
  BY <1>1, CopyUnderWrite
<1>3. LscFacts(Now1, call.side, next) /\ OtherFacts(Now1, next)
  BY <1>2 DEF LscFacts, OtherFacts
<1>4. CASE m \notin call.upd
  BY <1>1, <1>3, <1>4, StepOn
<1>5. CASE m \in call.upd
  <2>1. m \in Tuning!All /\ m \notin {"BPCI", "LSC", "LSCI", "LSCI_D"}
    BY DEF Tuning!Plain, Tuning!All, Tuning!Modules
  <2>2. Tuning!Tuned(m) \in Values /\ Tuning!Tuned(m).regs = Tuning!Tuned(m).frame
    <3>1. PICK b \in BOOLEAN : b = (m \in call.on)
      BY Truth
    <3>2. [en |-> b, frame |-> tunes, regs |-> tunes] \in Values
      BY DEF Values, TuneTypes
    <3> QED
      BY <3>1, <3>2 DEF Tuning!Tuned
  <2>3. new \in Copy
    BY <1>2, <2>1, <2>2 DEF Copy
  <2>4. new[m] = Tuning!Tuned(m) /\ \A n \in Tuning!All \ {m} : new[n] = Now1[n]
    BY <1>2, <2>1 DEF Copy
  <2>5. copies' = [copies EXCEPT ![call.side][call.target] = new]
    BY <1>1, <1>2, <1>5 DEF Tuning!Write, Now1, TuneTypes, Calls
  <2> HIDE DEF new
  <2>6. LscFacts(new, call.side, next)
    <3>1. new["LSC"] = Now1["LSC"] /\ new["LSCI"] = Now1["LSCI"] /\ new["LSCI_D"] = Now1["LSCI_D"]
      BY <2>1, <2>4 DEF Tuning!All, Tuning!Modules
    <3> QED
      BY <1>3, <3>1 DEF LscFacts
  <2>7. OtherFacts(new, next)
    <3>1. new["BPCI"] = Now1["BPCI"]
      BY <2>1, <2>4 DEF Tuning!All, Tuning!Modules
    <3>2. \A n \in Tuning!Plain : n # m => new[n] = Now1[n]
      BY <2>4 DEF Tuning!All, Tuning!Modules
    <3> QED
      BY <1>3, <2>2, <2>4, <3>1, <3>2 DEF OtherFacts
  <2> QED
    BY <1>1, <2>3, <2>5, <2>6, <2>7, StepCopy
<1> QED
  BY <1>4, <1>5

\* BPCI with BNR.
LEMMA StepBpci ==
    ASSUME TuneTypes, CallFacts, CopyFacts, ~toggled, call # Tuning!Idle,
           Tuning!BpciStep
    PROVE  TuneInv'
<1> DEFINE cp == Now1
           on == "BPCI" \in call.on
           new == [cp EXCEPT !["BPCI"].en = on, !["BPCI"].frame = tunes]
           twin == [en |-> on, frame |-> tunes, regs |-> IF on THEN cp["BPCI"].regs ELSE new["BPCI_D"].regs]
           newD == [new EXCEPT !["BPCI_D"] = twin]
           next == IF "BNR" \in call.upd THEN "bpci config" ELSE "lsc"
<1>1. /\ call.at = "bpci" /\ Tuning!Go(next) /\ Tuning!Rest
      /\ copies' = IF "BNR" \notin call.upd THEN copies
                   ELSE [copies EXCEPT ![call.side][call.target] = IF ~Tuning!Twin THEN new ELSE newD]
  BY DEF Tuning!BpciStep, Now1
<1>2. /\ call \in Calls /\ Now1 \in Copy
      /\ LscFacts(Now1, call.side, "bpci") /\ OtherFacts(Now1, "bpci")
  BY <1>1, CopyUnderWrite
<1>3. next \in Tuning!Steps
  BY DEF Tuning!Steps
<1>4. CASE "BNR" \notin call.upd
  <2>1. LscFacts(Now1, call.side, "lsc") /\ OtherFacts(Now1, "lsc")
    BY <1>2 DEF LscFacts, OtherFacts
  <2> QED
    BY <1>1, <1>3, <1>4, <2>1, StepOn
<1>5. CASE "BNR" \in call.upd
  <2>1. PICK b \in BOOLEAN : b = on
    BY Truth
  <2>2. cp["BPCI"] \in Values /\ cp["BPCI_D"] \in Values /\ tunes \in 0..MaxTunes
    BY <1>2 DEF Copy, Tuning!All, Tuning!Modules, TuneTypes
  <2>4. PICK v \in Values : v = [[cp["BPCI"] EXCEPT !.en = b] EXCEPT !.frame = tunes]
    BY <2>2 DEF Values
  <2>5. new = [cp EXCEPT !["BPCI"] = v]
    <3>1. new = [cp EXCEPT !["BPCI"].en = b, !["BPCI"].frame = tunes]
      BY <2>1
    <3>2. [cp EXCEPT !["BPCI"].en = b, !["BPCI"].frame = tunes] = [cp EXCEPT !["BPCI"] = v]
      BY <1>2, <2>2, <2>4 DEF Copy, Tuning!All, Tuning!Modules
    <3> QED
      BY <3>1, <3>2
  <2>6. v.frame = tunes
    BY <2>2, <2>4 DEF Values
  <2> HIDE DEF new
  <2>3. twin \in Values
    <3>1. new["BPCI_D"] \in Values
      BY <1>2, <2>2, <2>5 DEF Copy, Tuning!All, Tuning!Modules
    <3>2. [en |-> b, frame |-> tunes, regs |-> IF b THEN cp["BPCI"].regs ELSE new["BPCI_D"].regs] \in Values
      BY <2>2, <3>1 DEF Values
    <3> QED
      BY <2>1, <3>2
  <2> HIDE DEF twin, Values
  <2>7. /\ new \in Copy /\ newD \in Copy
        /\ new["BPCI"] = v /\ newD["BPCI"] = v
        /\ \A m \in Tuning!All \ {"BPCI", "BPCI_D"} : new[m] = cp[m] /\ newD[m] = cp[m]
    BY <1>2, <2>3, <2>5 DEF Copy, Tuning!All, Tuning!Modules
  <2> HIDE DEF newD
  <2>8. ASSUME NEW x \in {new, newD}
        PROVE  LscFacts(x, call.side, next) /\ OtherFacts(x, next)
    <3>1. x["LSC"] = cp["LSC"] /\ x["LSCI"] = cp["LSCI"] /\ x["LSCI_D"] = cp["LSCI_D"]
      BY <2>7 DEF Tuning!All, Tuning!Modules
    <3>2. \A m \in Tuning!Plain : x[m] = cp[m]
      BY <2>7 DEF Tuning!All, Tuning!Modules, Tuning!Plain
    <3>3. x["BPCI"].frame = tunes
      BY <2>6, <2>7
    <3> QED
      BY <1>2, <1>5, <3>1, <3>2, <3>3 DEF LscFacts, OtherFacts
  <2>9. PICK x \in {new, newD} : copies' = [copies EXCEPT ![call.side][call.target] = x]
    BY <1>1, <1>5
  <2>10. next \notin {"lsci config", "lsc en"}
    OBVIOUS
  <2> HIDE DEF next
  <2> QED
    BY <1>1, <1>3, <2>7, <2>8, <2>9, <2>10, StepCopy
<1> QED
  BY <1>4, <1>5

\* The registers of its DMA.
LEMMA StepBpciConfig ==
    ASSUME TuneTypes, CallFacts, CopyFacts, ~toggled, call # Tuning!Idle,
           Tuning!BpciConfigStep
    PROVE  TuneInv'
<1> DEFINE cp == Now1
<1>1. /\ call.at = "bpci config" /\ Tuning!Go("lsc") /\ Tuning!Rest
      /\ copies' = [copies EXCEPT ![call.side][call.target]["BPCI"].regs = tunes]
  BY DEF Tuning!BpciConfigStep, Tuning!DmaTarget, CallFacts
<1>2. /\ call \in Calls /\ Now1 \in Copy
      /\ LscFacts(Now1, call.side, "bpci config") /\ OtherFacts(Now1, "bpci config")
  BY <1>1, CopyUnderWrite
<1>3. "lsc" \in Tuning!Steps
  BY DEF Tuning!Steps
<1>4. cp["BPCI"] \in Values /\ tunes \in 0..MaxTunes
  BY <1>2 DEF Copy, Tuning!All, Tuning!Modules, TuneTypes
<1>5. PICK v \in Values : v = [cp["BPCI"] EXCEPT !.regs = tunes]
  BY <1>4 DEF Values
<1>6. v.regs = tunes /\ v.frame = tunes
  BY <1>2, <1>4, <1>5 DEF Values, OtherFacts
<1> DEFINE new == [cp EXCEPT !["BPCI"] = v]
<1>7. copies' = [copies EXCEPT ![call.side][call.target] = new]
  BY <1>1, <1>2, <1>4, <1>5 DEF Now1, TuneTypes, Calls, Copy, Tuning!All, Tuning!Modules
<1>8. new \in Copy /\ new["BPCI"] = v /\ \A m \in Tuning!All \ {"BPCI"} : new[m] = cp[m]
  BY <1>2 DEF Copy, Tuning!All, Tuning!Modules
<1> HIDE DEF new
<1>9. LscFacts(new, call.side, "lsc") /\ OtherFacts(new, "lsc")
  <2>1. new["LSC"] = cp["LSC"] /\ new["LSCI"] = cp["LSCI"] /\ new["LSCI_D"] = cp["LSCI_D"]
    BY <1>8 DEF Tuning!All, Tuning!Modules
  <2>2. \A m \in Tuning!Plain : new[m] = cp[m]
    BY <1>8 DEF Tuning!All, Tuning!Modules, Tuning!Plain
  <2> QED
    BY <1>2, <1>6, <1>8, <2>1, <2>2 DEF LscFacts, OtherFacts
<1> QED
  BY <1>1, <1>3, <1>7, <1>8, <1>9, StepCopy

\* The shading tables ...
LEMMA StepLsc ==
    ASSUME TuneTypes, CallFacts, CopyFacts, ~toggled, call # Tuning!Idle,
           Tuning!LscStep
    PROVE  TuneInv'
<1>1. /\ call.at = "lsc" /\ Tuning!Rest /\ UNCHANGED copies
      /\ LscFacts(Now1, call.side, "lsc") /\ OtherFacts(Now1, "lsc")
  BY CopyUnderWrite DEF Tuning!LscStep
<1>2. PICK next \in {"rpg", "lsci config"} :
        /\ Tuning!Go(next)
        /\ next = "lsci config" => Tuning!LscValid(call.on)
  BY DEF Tuning!LscStep
<1>3. next \in Tuning!Steps /\ LscFacts(Now1, call.side, next) /\ OtherFacts(Now1, next)
  BY <1>1, <1>2 DEF Tuning!Steps, LscFacts, OtherFacts
<1> QED
  BY <1>1, <1>2, <1>3, StepOn

\* ... their DMA ...
LEMMA StepLsciConfig ==
    ASSUME TuneTypes, CallFacts, CopyFacts, ~toggled, call # Tuning!Idle,
           Tuning!LsciConfigStep
    PROVE  TuneInv'
<1> DEFINE cp == Now1
           r == IF "LSC" \in call.on THEN tunes ELSE 0
<1>1. /\ call.at = "lsci config" /\ Tuning!Go("lsc en") /\ Tuning!Rest
      /\ copies' = [copies EXCEPT ![call.side][call.target]["LSCI"].regs = r]
      /\ Tuning!LscValid(call.on)
  BY DEF Tuning!LsciConfigStep, Tuning!DmaTarget, CallFacts
<1>2. /\ call \in Calls /\ Now1 \in Copy
      /\ LscFacts(Now1, call.side, "lsci config") /\ OtherFacts(Now1, "lsci config")
  BY <1>1, CopyUnderWrite
<1>3. "lsc en" \in Tuning!Steps
  BY DEF Tuning!Steps
<1>r. r \in 0..MaxTunes
  <2>1. tunes \in 0..MaxTunes /\ 0 \in 0..MaxTunes
    BY IspAssumption DEF TuneTypes
  <2> QED
    BY <2>1
<1>4. cp["LSCI"] \in Values
  BY <1>2 DEF Copy, Tuning!All, Tuning!Modules, TuneTypes
<1> HIDE DEF r
<1>5. PICK v \in Values : v = [cp["LSCI"] EXCEPT !.regs = r]
  BY <1>4, <1>r DEF Values
<1>6. v.regs = r /\ v.en = cp["LSCI"].en
  BY <1>4, <1>5, <1>r DEF Values
<1> DEFINE new == [cp EXCEPT !["LSCI"] = v]
<1>7. copies' = [copies EXCEPT ![call.side][call.target] = new]
  BY <1>1, <1>2, <1>4, <1>5 DEF Now1, TuneTypes, Calls, Copy, Tuning!All, Tuning!Modules
<1>8. new \in Copy /\ new["LSCI"] = v /\ \A m \in Tuning!All \ {"LSCI"} : new[m] = cp[m]
  BY <1>2 DEF Copy, Tuning!All, Tuning!Modules
<1> HIDE DEF new
<1>9. LscFacts(new, call.side, "lsc en") /\ OtherFacts(new, "lsc en")
  <2>1. new["LSC"] = cp["LSC"] /\ new["BPCI"] = cp["BPCI"] /\ new["LSCI_D"] = cp["LSCI_D"]
    BY <1>8 DEF Tuning!All, Tuning!Modules
  <2>2. \A m \in Tuning!Plain : new[m] = cp[m]
    BY <1>8 DEF Tuning!All, Tuning!Modules, Tuning!Plain
  <2>3. new["LSCI"].regs = IF "LSC" \in call.on THEN tunes ELSE 0
    BY <1>6, <1>8 DEF r
  <2> QED
    BY <1>2, <1>6, <1>8, <2>1, <2>2, <2>3 DEF LscFacts, OtherFacts
<1> QED
  BY <1>1, <1>3, <1>7, <1>8, <1>9, StepCopy

\* ... and both are turned on or off.
LEMMA StepLscEn ==
    ASSUME TuneTypes, CallFacts, CopyFacts, ~toggled, call # Tuning!Idle,
           Tuning!LscEnStep
    PROVE  TuneInv'
<1> DEFINE cp == Now1
           on == "LSC" \in call.on
           lsci == [cp["LSCI"] EXCEPT !.en = "LSCI" \in call.on, !.frame = tunes]
           new == [cp EXCEPT !["LSC"] = [en |-> on, frame |-> tunes, regs |-> tunes], !["LSCI"] = lsci]
           newD == [new EXCEPT !["LSCI_D"] = lsci]
<1>1. /\ call.at = "lsc en" /\ Tuning!Go("rpg") /\ Tuning!Rest
      /\ copies' = [copies EXCEPT ![call.side][call.target] = IF Tuning!Twin THEN newD ELSE new]
      /\ Tuning!LscValid(call.on)
  BY DEF Tuning!LscEnStep, Now1, CallFacts
<1>2. /\ call \in Calls /\ Now1 \in Copy
      /\ LscFacts(Now1, call.side, "lsc en") /\ OtherFacts(Now1, "lsc en")
  BY <1>1, CopyUnderWrite
<1>3. "rpg" \in Tuning!Steps
  BY DEF Tuning!Steps
<1>4. cp["LSCI"] \in Values /\ tunes \in 0..MaxTunes
  BY <1>2 DEF Copy, Tuning!All, Tuning!Modules, TuneTypes
<1>5. PICK b \in BOOLEAN : b = on /\ b = ("LSCI" \in call.on)
  <2>1. PICK c \in BOOLEAN : c = on
    BY Truth
  <2>2. PICK d \in BOOLEAN : d = ("LSCI" \in call.on)
    BY Truth
  <2>3. c = d
    <3>1. on <=> "LSCI" \in call.on
      BY <1>1 DEF Tuning!LscValid
    <3>2. (c <=> on) /\ (d <=> "LSCI" \in call.on)
      BY <2>1, <2>2
    <3>3. c <=> d
      BY <3>1, <3>2
    <3> QED
      BY <3>3
  <2> QED
    BY <2>1, <2>2, <2>3
<1>6. PICK v \in Values : v = [en |-> b, frame |-> tunes, regs |-> tunes]
  BY <1>4 DEF Values
<1>7. PICK w \in Values : w = [[cp["LSCI"] EXCEPT !.en = b] EXCEPT !.frame = tunes]
  BY <1>4 DEF Values
<1>8. /\ v.en = b /\ v.regs = tunes /\ v.frame = tunes
      /\ w.en = b /\ w.frame = tunes /\ w.regs = cp["LSCI"].regs
  BY <1>4, <1>6, <1>7 DEF Values
<1>9. new = [[cp EXCEPT !["LSC"] = v] EXCEPT !["LSCI"] = w] /\ lsci = w
  <2>1. lsci = w
    BY <1>5, <1>7
  <2>2. [en |-> on, frame |-> tunes, regs |-> tunes] = v
    BY <1>5, <1>6
  <2> HIDE DEF lsci
  <2> QED
    BY <2>1, <2>2
<1> HIDE DEF new, lsci, Values
<1>10. /\ new \in Copy /\ newD \in Copy
       /\ new["LSC"] = v /\ newD["LSC"] = v /\ new["LSCI"] = w /\ newD["LSCI"] = w
       /\ newD["LSCI_D"] = w /\ new["LSCI_D"] = cp["LSCI_D"]
       /\ \A m \in Tuning!All \ {"LSC", "LSCI", "LSCI_D"} : new[m] = cp[m] /\ newD[m] = cp[m]
  BY <1>2, <1>9 DEF Copy, Tuning!All, Tuning!Modules
<1> HIDE DEF newD
<1>11. ASSUME NEW x \in {new, newD}, x = IF Tuning!Twin THEN newD ELSE new
       PROVE  LscFacts(x, call.side, "rpg") /\ OtherFacts(x, "rpg")
  <2>1. x["LSC"] = v /\ x["LSCI"] = w /\ x["BPCI"] = cp["BPCI"]
    BY <1>10, <1>11 DEF Tuning!All, Tuning!Modules
  <2>2. \A m \in Tuning!Plain : x[m] = cp[m]
    BY <1>10, <1>11 DEF Tuning!All, Tuning!Modules, Tuning!Plain
  <2>3. OtherFacts(x, "rpg")
    BY <1>2, <2>1, <2>2 DEF OtherFacts
  <2>4. cp["LSCI"].regs = IF b THEN tunes ELSE 0
    BY <1>2, <1>5 DEF LscFacts
  <2>5. CASE Tuning!Twin
    <3>1. x["LSCI_D"] = w /\ mode = "twin" /\ call.side = "p1"
      BY <1>10, <1>11, <2>5 DEF Tuning!Twin
    <3> QED
      BY <1>8, <2>1, <2>3, <2>4, <3>1 DEF LscFacts
  <2>6. CASE ~Tuning!Twin
    <3>1. x["LSCI_D"] = cp["LSCI_D"] /\ ~cp["LSCI_D"].en
      BY <1>2, <1>10, <1>11, <2>6 DEF Tuning!Twin, LscFacts
    <3> QED
      BY <1>8, <2>1, <2>3, <2>4, <3>1 DEF LscFacts
  <2> QED
    BY <2>5, <2>6
<1>12. PICK x \in {new, newD} :
         x = (IF Tuning!Twin THEN newD ELSE new) /\ copies' = [copies EXCEPT ![call.side][call.target] = x]
  BY <1>1
<1>13. "rpg" \notin {"lsci config", "lsc en"} /\ x \in Copy
  BY <1>10, <1>12
<1> QED
  BY <1>1, <1>3, <1>11, <1>12, <1>13, StepCopy

\* A call begins, on a side, with the copy that is the target then.
LEMMA StepStart ==
    ASSUME TuneTypes, CopyFacts, ~toggled, NEW s \in Sides,
           NEW upd \in {{"LSC"}, Tunable}, NEW on \in {{}, Tunable, Tunable \ {"LSCI"}},
           Tuning!StartSide(s, upd, on), UNCHANGED <<mode, tg, dup, copies>>,
           call = Tuning!Idle \/ call.at = "next"
    PROVE  call' \in Calls /\ call' # Tuning!Idle /\ CallFacts' /\ CopyFacts'
<1>1. /\ call' = [at |-> "obc", side |-> s, target |-> Tuning!Target(s), upd |-> upd, on |-> on]
      /\ Tuning!Target(s) \in CopyIds
  BY TargetIsOther DEF Tuning!StartSide, TuneTypes
<1>2. call'.at = "obc" /\ call'.side = s /\ call'.target = Tuning!Target(s)
  BY <1>1
<1>3. call' \in Calls
  BY <1>1 DEF Calls, Tuning!Steps
<1>4. call' # Tuning!Idle
  <2>1. Tuning!Idle.at = "idle"
    BY DEF Tuning!Idle
  <2> QED
    BY <1>2, <2>1
<1>5. CallFacts'
  BY <1>2 DEF CallFacts, Tuning!Target
<1>6. ASSUME NEW r \in Sides, NEW c \in CopyIds
      PROVE  LscFacts(copies[r][c], r, Place(r, c))' /\ OtherFacts(copies[r][c], Place(r, c))'
  <2>1. Place(r, c) = "next" /\ Place(r, c)' \in {"next", "obc"}
    BY <1>2, <1>4 DEF Place
  <2>2. LscFacts(copies[r][c], r, "next") /\ OtherFacts(copies[r][c], "next")
    BY <2>1 DEF CopyFacts
  <2> QED
    BY <2>1, <2>2 DEF LscFacts, OtherFacts
<1> QED
  BY <1>3, <1>4, <1>5, <1>6 DEF CopyFacts

\* Nothing is half written.
Whole == \A r \in Sides, c \in CopyIds : Place(r, c) \notin {"bpci config", "lsc en"}

\* A call that is not between the two steps of a DMA.
LEMMA WholeAt ==
    ASSUME call.at \notin {"bpci config", "lsc en"}
    PROVE  Whole
BY DEF Whole, Place

\* A call ends, at a step that leaves no copy half written.
LEMMA StepEnd ==
    ASSUME TuneTypes, CopyFacts, ~toggled, call # Tuning!Idle, Whole, call' = Tuning!Idle,
           UNCHANGED <<mode, tg, dup, copies, toggled, tunes>>,
           \/ kept' = kept - 1 /\ dropped' = dropped
           \/ dropped' = dropped + 1 /\ kept' = kept
    PROVE  TuneInv'
<1>1. TuneTypes'
  <2>1. kept = dropped + 1 /\ kept \in Nat /\ dropped \in Nat
    BY DEF TuneTypes
  <2>2. kept' = dropped' /\ kept' \in Nat /\ dropped' \in Nat /\ kept' <= kept
    <3>1. CASE kept' = kept - 1 /\ dropped' = dropped
      BY <2>1, <3>1
    <3>2. CASE dropped' = dropped + 1 /\ kept' = kept
      BY <2>1, <3>2
    <3> QED
      BY <3>1, <3>2
  <2>3. /\ mode' = mode /\ tg' = tg /\ dup' = dup /\ copies' = copies
        /\ toggled' = toggled /\ tunes' = tunes
    OBVIOUS
  <2>4. kept' <= tunes'
    <3>1. tunes \in Nat /\ kept <= tunes
      BY IspAssumption DEF TuneTypes
    <3> QED
      BY <2>1, <2>2, <2>3, <3>1
  <2>5. /\ mode' \in {"main", "sub", "twin"} /\ tg' \subseteq Sides /\ dup' \in CopyIds
        /\ copies' \in [Sides -> [CopyIds -> Copy]] /\ toggled' \in BOOLEAN /\ tunes' \in 0..MaxTunes
    BY <2>3 DEF TuneTypes
  <2>6. call' \in {Tuning!Idle} \cup Calls
    OBVIOUS
  <2> QED
    BY <2>2, <2>4, <2>5, <2>6 DEF TuneTypes
<1>2. CallFacts'
  BY DEF CallFacts
<1>3. ASSUME NEW r \in Sides, NEW c \in CopyIds
      PROVE  LscFacts(copies[r][c], r, Place(r, c))' /\ OtherFacts(copies[r][c], Place(r, c))'
  <2>1. Place(r, c) \notin {"bpci config", "lsc en"} /\ Place(r, c)' = "next"
    BY DEF Place, Whole
  <2>2. LscFacts(copies[r][c], r, Place(r, c)) /\ OtherFacts(copies[r][c], Place(r, c))
    BY DEF CopyFacts
  <2> QED
    BY <2>1, <2>2 DEF LscFacts, OtherFacts
<1> QED
  BY <1>1, <1>2, <1>3 DEF TuneInv, CopyFacts

\* A step of the call.
LEMMA StepCall ==
    ASSUME TuneTypes, CallFacts, CopyFacts, ~toggled, Tuning!CallStep
    PROVE  TuneInv'
<1>0. call # Tuning!Idle
  BY DEF Tuning!CallStep
<1>1. CASE Tuning!NoModuleInfo
  BY <1>0, <1>1, WholeAt, StepEnd DEF Tuning!NoModuleInfo
<1>2. ASSUME NEW m \in {"OBC", "RMG", "BNR", "RPG"},
             NEW step \in {"obc", "rmg", "bnr", "rpg"}, NEW next \in {"rmg", "bnr", "bpci", "next"},
             Tuning!Module(m, step, next)
      PROVE  TuneInv'
  <2>1. m \in Tuning!Plain /\ next \in Tuning!Steps
    BY DEF Tuning!Plain, Tuning!Steps
  <2> QED
    BY <1>0, <1>2, <2>1, StepModule
<1>3. CASE Tuning!Obc \/ Tuning!ObcD
  BY <1>2, <1>3 DEF Tuning!Obc, Tuning!ObcD
<1>4. CASE Tuning!Rmg \/ Tuning!RmgD
  BY <1>2, <1>4 DEF Tuning!Rmg, Tuning!RmgD
<1>5. CASE Tuning!Bnr \/ Tuning!BnrD
  BY <1>2, <1>5 DEF Tuning!Bnr, Tuning!BnrD
<1>6. CASE Tuning!Rpg \/ Tuning!RpgD
  BY <1>2, <1>6 DEF Tuning!Rpg, Tuning!RpgD
<1>7. CASE Tuning!Bpci \/ Tuning!BpciConfig \/ Tuning!BpciD
  BY <1>0, <1>7, StepBpci, StepBpciConfig DEF Tuning!Bpci, Tuning!BpciConfig, Tuning!BpciD
<1>8. CASE Tuning!Lsc \/ Tuning!LsciConfig \/ Tuning!LscEn \/ Tuning!LscD
  BY <1>0, <1>8, StepLsc, StepLsciConfig, StepLscEn
  DEF Tuning!Lsc, Tuning!LsciConfig, Tuning!LscEn, Tuning!LscD
<1>9. CASE Tuning!StartD
  <2>1. call \in Calls /\ "p1d" \in Sides /\ UNCHANGED copies
    BY <1>0, <1>9 DEF TuneTypes, Sides, Tuning!Sides, Tuning!StartD
  <2>2. /\ call.at = "next" /\ Tuning!StartSide("p1d", call.upd, call.on)
        /\ UNCHANGED <<mode, tg, dup, kept, dropped, toggled, tunes>>
    BY <1>9 DEF Tuning!StartD, Tuning!Rest
  <2>3. call.upd \in {{"LSC"}, Tunable} /\ call.on \in {{}, Tunable, Tunable \ {"LSCI"}}
    BY <2>1 DEF Calls
  <2>4. call' \in Calls /\ call' # Tuning!Idle /\ CallFacts' /\ CopyFacts'
    BY <2>1, <2>2, <2>3, StepStart
  <2>5. TuneTypes'
    BY <1>0, <2>1, <2>2, <2>4 DEF TuneTypes
  <2> QED
    BY <2>4, <2>5 DEF TuneInv
<1>10. CASE Tuning!StartDFails
  BY <1>0, <1>10, WholeAt, StepEnd DEF Tuning!StartDFails
<1>11. CASE Tuning!Return
  BY <1>0, <1>11, WholeAt, StepEnd DEF Tuning!Return
<1> QED
  BY <1>1, <1>3, <1>4, <1>5, <1>6, <1>7, <1>8, <1>9, <1>10, <1>11 DEF Tuning!CallStep

\* Between the calls.
LEMMA TuneStep ==
    ASSUME TuneInv, [Tuning!Next]_tuningVars
    PROVE  TuneInv'
<1>0. TuneTypes
  BY DEF TuneInv
<1>1. CASE UNCHANGED tuningVars
  <2>1. UNCHANGED <<mode, tg, dup, copies, call, kept, dropped, toggled, tunes>>
    BY <1>1 DEF tuningVars
  <2>2. TuneTypes'
    BY <1>0, <2>1 DEF TuneTypes
  <2>3. CallFacts => CallFacts'
    BY <2>1 DEF CallFacts, Tuning!Target
  <2>4. CopyFacts => CopyFacts'
    <3> SUFFICES ASSUME CopyFacts, NEW r \in Sides, NEW c \in CopyIds
                 PROVE  LscFacts(copies[r][c], r, Place(r, c))' /\ OtherFacts(copies[r][c], Place(r, c))'
      BY DEF CopyFacts
    <3>1. LscFacts(copies[r][c], r, Place(r, c)) /\ OtherFacts(copies[r][c], Place(r, c))
      BY DEF CopyFacts
    <3>2. Place(r, c)' = Place(r, c)
      BY <2>1 DEF Place
    <3> QED
      BY <2>1, <3>1, <3>2 DEF LscFacts, OtherFacts
  <2> QED
    BY <2>1, <2>2, <2>3, <2>4 DEF TuneInv
<1>2. CASE Tuning!Next
  <2>0. ~toggled /\ CallFacts /\ CopyFacts
    BY <1>2 DEF Tuning!Next, TuneInv
  <2>t. tunes \in Nat /\ MaxTunes \in Nat /\ kept \in Nat /\ dropped \in Nat /\ kept <= tunes
    BY <1>0, IspAssumption DEF TuneTypes
  <2>a. ASSUME UNCHANGED <<mode, tg, copies, call>>, tunes' = tunes \/ call = Tuning!Idle,
               dup' = dup \/ call = Tuning!Idle
        PROVE  CallFacts' /\ CopyFacts'
    <3>1. CallFacts'
      BY <2>0, <2>a DEF CallFacts, Tuning!Target
    <3>2. ASSUME NEW r \in Sides, NEW c \in CopyIds
          PROVE  LscFacts(copies[r][c], r, Place(r, c))' /\ OtherFacts(copies[r][c], Place(r, c))'
      <4>1. LscFacts(copies[r][c], r, Place(r, c)) /\ OtherFacts(copies[r][c], Place(r, c))
        BY <2>0 DEF CopyFacts
      <4>2. Place(r, c)' = Place(r, c) /\ (call = Tuning!Idle => Place(r, c) = "next")
        BY <2>a DEF Place
      <4> QED
        BY <2>a, <4>1, <4>2 DEF LscFacts, OtherFacts
    <3> QED
      BY <3>1, <3>2 DEF CopyFacts
  <2>1. CASE Tuning!Bypass
    <3>1. /\ call = Tuning!Idle /\ tunes' = tunes + 1 /\ tunes' \in 0..MaxTunes
          /\ UNCHANGED <<mode, tg, dup, copies, call, kept, dropped, toggled>>
      BY <2>1, <2>t DEF Tuning!Bypass
    <3>2. TuneTypes'
      BY <1>0, <2>t, <3>1 DEF TuneTypes
    <3> QED
      BY <2>a, <3>1, <3>2 DEF TuneInv
  <2>2. ASSUME NEW upd \in {{"LSC"}, Tunable}, NEW on \in {{}, Tunable, Tunable \ {"LSCI"}},
               Tuning!Begin(upd, on)
        PROVE  TuneInv'
    <3>1. /\ call = Tuning!Idle /\ tunes' = tunes + 1 /\ tunes' \in 0..MaxTunes /\ kept' = kept + 1
          /\ UNCHANGED <<mode, tg, dup, copies, dropped, toggled>>
      BY <2>2, <2>t DEF Tuning!Begin
    <3>2. PICK s \in Sides : Tuning!StartSide(s, upd, on)
      BY <2>2 DEF Tuning!Begin, Sides, Tuning!Sides
    <3>3. call' \in Calls /\ call' # Tuning!Idle /\ CallFacts' /\ CopyFacts'
      BY <1>0, <2>0, <3>1, <3>2, StepStart
    <3>4. TuneTypes'
      <4>1. kept' = dropped' + 1 /\ kept' \in Nat /\ dropped' \in Nat /\ kept' <= tunes'
        BY <1>0, <2>t, <3>1 DEF TuneTypes
      <4> QED
        BY <1>0, <3>1, <3>3, <4>1 DEF TuneTypes
    <3> QED
      BY <3>3, <3>4 DEF TuneInv
  <2>3. CASE Tuning!BeginFails
    <3>1. /\ call = Tuning!Idle /\ tunes' = tunes + 1 /\ tunes' \in 0..MaxTunes
          /\ kept' = kept + 1 /\ dropped' = dropped + 1
          /\ UNCHANGED <<mode, tg, dup, copies, call, toggled>>
      BY <2>3, <2>t DEF Tuning!BeginFails
    <3>2. TuneTypes'
      BY <1>0, <2>t, <3>1 DEF TuneTypes
    <3> QED
      BY <2>a, <3>1, <3>2 DEF TuneInv
  <2>4. CASE Tuning!CallStep
    BY <1>0, <2>0, <2>4, StepCall
  <2>5. ASSUME NEW s \in Sides, Tuning!Toggle(s)
        PROVE  TuneInv'
    <3>1. /\ UNCHANGED <<mode, dup, copies, call, kept, dropped, tunes>>
          /\ tg' \subseteq Sides /\ toggled' = (call # Tuning!Idle)
      BY <1>0, <2>5 DEF Tuning!Toggle, TuneTypes, Sides, Tuning!Sides
    <3>2. TuneTypes'
      BY <1>0, <3>1 DEF TuneTypes
    <3>3. ASSUME ~toggled' PROVE CallFacts' /\ CopyFacts'
      <4>1. call = Tuning!Idle
        BY <3>1, <3>3
      <4>2. CallFacts'
        BY <3>1, <4>1 DEF CallFacts
      <4>3. CopyFacts'
        <5> SUFFICES ASSUME NEW r \in Sides, NEW c \in CopyIds
                     PROVE  LscFacts(copies[r][c], r, Place(r, c))' /\ OtherFacts(copies[r][c], Place(r, c))'
          BY DEF CopyFacts
        <5>1. LscFacts(copies[r][c], r, Place(r, c)) /\ OtherFacts(copies[r][c], Place(r, c))
          BY <2>0 DEF CopyFacts
        <5>2. Place(r, c)' = Place(r, c)
          BY <3>1 DEF Place
        <5> QED
          BY <3>1, <5>1, <5>2 DEF LscFacts, OtherFacts
      <4> QED
        BY <4>2, <4>3
    <3> QED
      BY <3>2, <3>3 DEF TuneInv
  <2>6. CASE Tuning!NextFrame
    <3>1. /\ call = Tuning!Idle /\ dup' \in CopyIds
          /\ UNCHANGED <<mode, tg, copies, call, kept, dropped, toggled, tunes>>
      BY <1>0, <2>6, TargetIsOther DEF Tuning!NextFrame, TuneTypes
    <3>2. TuneTypes'
      BY <1>0, <3>1 DEF TuneTypes
    <3> QED
      BY <2>a, <3>1, <3>2 DEF TuneInv
  <2> QED
    BY <1>2, <2>1, <2>2, <2>3, <2>4, <2>5, <2>6 DEF Tuning!Next, Sides
<1> QED
  BY <1>1, <1>2

\* The tuning starts in its invariant.
LEMMA TuneInit == Tuning!Init => TuneInv
<1> SUFFICES ASSUME Tuning!Init PROVE TuneInv
  OBVIOUS
<1>1. Tuning!Off \in Values /\ 0 \in CopyIds /\ 0 \in 0..MaxTunes
  <2>1. 0 \in 0..MaxTunes /\ 0 \in CopyIds
    BY IspAssumption DEF CopyIds
  <2> QED
    BY <2>1 DEF Tuning!Off, Values
<1>2. /\ copies = [s \in Sides |-> [c \in CopyIds |-> [m \in Tuning!All |-> Tuning!Off]]]
      /\ call = Tuning!Idle /\ kept = 0 /\ dropped = 0 /\ toggled = FALSE /\ tunes = 0
      /\ mode \in {"main", "sub", "twin"} /\ tg = {} /\ dup = 0
  BY DEF Tuning!Init, Sides, CopyIds, Tuning!SidesOf
<1>3. TuneTypes
  <2>1. copies \in [Sides -> [CopyIds -> Copy]]
    BY <1>1, <1>2 DEF Copy
  <2>2. kept \in Nat /\ dropped \in Nat /\ kept <= tunes
        /\ kept = dropped /\ call = Tuning!Idle
    BY <1>2
  <2>3. tg \subseteq Sides /\ call \in {Tuning!Idle} \cup Calls /\ toggled \in BOOLEAN
    BY <1>2
  <2> QED
    BY <1>1, <1>2, <2>1, <2>2, <2>3 DEF TuneTypes
<1>4. ASSUME NEW s \in Sides, NEW c \in CopyIds
      PROVE  LscFacts(copies[s][c], s, Place(s, c)) /\ OtherFacts(copies[s][c], Place(s, c))
  <2>1. Place(s, c) = "next"
    BY <1>2 DEF Place
  <2>2. \A m \in Tuning!All : copies[s][c][m] = Tuning!Off
    BY <1>2
  <2>3. /\ copies[s][c]["LSC"] = Tuning!Off /\ copies[s][c]["LSCI"] = Tuning!Off
        /\ copies[s][c]["BPCI"] = Tuning!Off /\ copies[s][c]["LSCI_D"] = Tuning!Off
        /\ \A m \in Tuning!Plain : copies[s][c][m] = Tuning!Off
    BY <2>2 DEF Tuning!All, Tuning!Modules, Tuning!Plain
  <2>4. ~Tuning!Off.en
    BY DEF Tuning!Off
  <2> QED
    BY <2>1, <2>3, <2>4 DEF LscFacts, OtherFacts
<1> QED
  BY <1>2, <1>3, <1>4 DEF TuneInv, CallFacts, CopyFacts

\* TuneInv is an invariant.
LEMMA TuneInvariance == Spec => []TuneInv
<1>1. Init => TuneInv
  BY TuneInit DEF Init
<1>2. TuneInv /\ [Next]_vars => TuneInv'
  BY Parts, TuneStep
<1> QED
  BY <1>1, <1>2, PTL DEF Spec

\* For any number of copies and calls, a tuning buffer is applied to one copy of
\* the command queue as a whole, in each of the three modes of the pipe, LSC and
\* its DMA together, and it is returned but for the returns that forget it.
THEOREM TuningIsApplied == Spec => []TuningApplied
<1>1. TuneInv => TuningApplied
  <2> SUFFICES ASSUME TuneInv, call = Tuning!Idle
               PROVE  /\ kept = dropped
                      /\ ~toggled => \A s \in Tuning!Sides, c \in 0..(Copies - 1) :
                           LET cp == copies[s][c]
                           IN /\ cp["LSC"].en = cp["LSCI"].en
                              /\ cp["LSC"].en => cp["LSC"].regs = cp["LSCI"].regs
                              /\ \A m \in Tuning!Modules : cp[m].en => cp[m].regs = cp[m].frame
                              /\ cp["LSCI_D"].en => cp["LSCI_D"] = cp["LSCI"]
    BY DEF TuningApplied, Tuning!TuningApplied
  <2>1. kept = dropped
    BY DEF TuneInv, TuneTypes
  <2>2. ASSUME ~toggled, NEW s \in Sides, NEW c \in CopyIds
        PROVE  LscFacts(copies[s][c], s, "next") /\ OtherFacts(copies[s][c], "next")
    BY <2>2 DEF TuneInv, CopyFacts, Place
  <2> QED
    BY <2>1, <2>2 DEF LscFacts, OtherFacts, Sides, CopyIds, Tuning!Modules
<1> QED
  BY <1>1, TuneInvariance, PTL

\* While a sensor streams no step of a call writes the copy that the hardware
\* loads: the target of the call stays the next copy until the call has ended.
THEOREM LoadedCopyIsStable == Spec => LoadedCopyStable
<1>1. TuneInv /\ [Next]_vars => [\A s \in tg : toggled \/ copies'[s][dup] = copies[s][dup]]_tuningVars
  <2> SUFFICES ASSUME TuneInv, [Next]_vars, NEW s \in tg, ~toggled
               PROVE  copies'[s][dup] = copies[s][dup]
    BY Zenon
  <2>0. TuneTypes /\ CallFacts /\ s \in Sides
    BY DEF TuneInv, TuneTypes
  <2>1. UNCHANGED copies \/ (Tuning!CallStep /\ call # Tuning!Idle)
    BY Parts DEF Tuning!Next, tuningVars, Tuning!Bypass, Tuning!Begin, Tuning!BeginFails,
      Tuning!Toggle, Tuning!NextFrame, Tuning!CallStep
  <2>2. ASSUME call # Tuning!Idle PROVE call.target # dup \/ call.side # s
    BY <2>0, <2>2, TargetIsOther DEF CallFacts, TuneTypes
  <2>3. ASSUME call # Tuning!Idle, NEW new, copies' = [copies EXCEPT ![call.side][call.target] = new]
        PROVE  copies'[s][dup] = copies[s][dup]
    <3>1. call.side \in Sides /\ call.target \in CopyIds
      BY <2>0, <2>3 DEF TuneTypes, Calls
    <3> QED
      BY <2>0, <2>2, <2>3, <3>1 DEF TuneTypes
  <2>4. ASSUME call # Tuning!Idle, NEW m, NEW new,
               copies' = [copies EXCEPT ![call.side][call.target][m] = new]
        PROVE  copies'[s][dup] = copies[s][dup]
    BY <2>3, <2>4
  <2>5. ASSUME call # Tuning!Idle, NEW m, copies' = [copies EXCEPT ![call.side][call.target][m].regs = tunes]
                                 \/ copies' = [copies EXCEPT ![call.side][call.target][m].regs =
                                                 IF "LSC" \in call.on THEN tunes ELSE 0]
        PROVE  copies'[s][dup] = copies[s][dup]
    BY <2>3, <2>5
  <2>6. ASSUME call # Tuning!Idle, NEW m, NEW step, NEW next, Tuning!Module(m, step, next)
        PROVE  copies'[s][dup] = copies[s][dup]
    BY <2>4, <2>6 DEF Tuning!Module, Tuning!Write
  <2>7. ASSUME Tuning!CallStep PROVE copies'[s][dup] = copies[s][dup]
    <3>0. call # Tuning!Idle /\ call.target = Tuning!Target(call.side)
      BY <2>0, <2>7 DEF Tuning!CallStep, CallFacts
    <3>1. CASE \/ Tuning!Obc \/ Tuning!Rmg \/ Tuning!Bnr \/ Tuning!Rpg
               \/ Tuning!ObcD \/ Tuning!RmgD \/ Tuning!BnrD \/ Tuning!RpgD
      BY <2>6, <3>0, <3>1 DEF Tuning!Obc, Tuning!Rmg, Tuning!Bnr, Tuning!Rpg,
        Tuning!ObcD, Tuning!RmgD, Tuning!BnrD, Tuning!RpgD
    <3>2. CASE Tuning!BpciStep
      BY <2>3, <3>0, <3>2 DEF Tuning!BpciStep
    <3>3. CASE Tuning!BpciConfigStep
      BY <2>5, <3>0, <3>3 DEF Tuning!BpciConfigStep, Tuning!DmaTarget
    <3>4. CASE Tuning!LsciConfigStep
      BY <2>5, <3>0, <3>4 DEF Tuning!LsciConfigStep, Tuning!DmaTarget
    <3>5. CASE Tuning!LscEnStep
      BY <2>3, <3>0, <3>5 DEF Tuning!LscEnStep
    <3>6. CASE UNCHANGED copies
      BY <3>6
    <3> QED
      BY <2>7, <3>1, <3>2, <3>3, <3>4, <3>5, <3>6 DEF Tuning!CallStep, Tuning!NoModuleInfo, Tuning!StartD,
        Tuning!StartDFails, Tuning!Return, Tuning!Bpci, Tuning!BpciConfig, Tuning!BpciD,
        Tuning!Lsc, Tuning!LscStep, Tuning!LsciConfig, Tuning!LscEn, Tuning!LscD
  <2> QED
    BY <2>1, <2>7
<1> QED
  BY <1>1, TuneInvariance, PTL DEF Spec, LoadedCopyStable, Tuning!LoadedCopyStable, Tuning!vars, tuningVars

-----------------------------------------------------------------------------
(* The buffers of a path *)

\* A buffer of the ring, a node of the header list, and the calls under way.
Nodes == 1..MaxNodes
Slot == [buf : Buffers, filled : BOOLEAN]
Node == [occ : BOOLEAN, buf : Buffers \cup {None}]
EnqCalls == [at : {"size", "put"}, buf : Buffers, old : Buffers \cup {None}]
DeqCalls ==
  {Buf!Idle, [at |-> "ready"], [at |-> "mdp"]} \cup [at : {"check", "wait", "irq"}, waits : Nat]
    \cup [at : {"kernel"}, node : 0..MaxNodes] \cup [at : {"pop"}, ready : BOOLEAN]

\* The types of the variables.
BufTypes ==
  /\ path \in {"pass1", "pass2"} /\ app \subseteq Buffers
  /\ queue \in Seq(Slot) /\ nodes \in [Nodes -> Node] /\ hdr \in [Buffers -> 0..MaxNodes]
  /\ enq \in {Buf!Idle} \cup EnqCalls /\ deq \in DeqCalls
  /\ irq \in BOOLEAN /\ frames \in 0..MaxFrames /\ missed \in BOOLEAN
  /\ stale \subseteq Buffers /\ lost \subseteq Nodes

\* The calls of one path, and what they have found.
PathFacts ==
  /\ path = "pass1" => deq.at \notin {"mdp", "pop"}
  /\ path = "pass2" => deq.at \in {"idle", "mdp", "pop"} /\ enq = Buf!Idle
  /\ path = "pass2" => (\A n \in Nodes : nodes[n].buf = None) /\ \A b \in Buffers : hdr[b] = 0
  /\ deq.at \in {"mdp", "pop"} => queue # <<>>

\* A buffer is at one place.
Moving == IF enq = Buf!Idle THEN {} ELSE {enq.buf}
InQueue == {queue[k].buf : k \in 1..Len(queue)}
PlaceFacts ==
  /\ \A j, k \in 1..Len(queue) : j # k => queue[j].buf # queue[k].buf
  /\ app \cup InQueue \cup Moving = Buffers
  /\ app \cap InQueue = {} /\ app \cap Moving = {} /\ InQueue \cap Moving = {}

\* The node of the dequeue under way.
Held == IF deq.at = "kernel" THEN deq.node ELSE 0

\* A node that is free names no buffer, nor does one that is lost or held; any
\* other is of a buffer of the application, whose header it is.
NodeFacts ==
  /\ Held # 0 => nodes[Held].occ /\ nodes[Held].buf = None /\ Held \notin lost
  /\ \A n \in lost : nodes[n].occ /\ nodes[n].buf = None
  /\ \A n \in Nodes :
       /\ ~nodes[n].occ => nodes[n].buf = None
       /\ nodes[n].occ /\ n \notin lost /\ n # Held => nodes[n].buf # None
       /\ nodes[n].buf # None => nodes[n].buf \in app /\ hdr[nodes[n].buf] = n

\* The header of a buffer.
HeaderFacts ==
  \A b \in app \ stale : hdr[b] # 0 => nodes[hdr[b]].occ /\ nodes[hdr[b]].buf = b

\* A frame that has arrived has left its interrupt, but for the first wait.
AnyFilled == \E k \in 1..Len(queue) : queue[k].filled
WaitFacts ==
  /\ ~missed
  /\ deq.at = "wait" /\ AnyFilled => irq
  /\ deq.at = "irq" /\ deq.waits > 1 /\ AnyFilled => irq

BufInv == BufTypes /\ PathFacts /\ PlaceFacts /\ NodeFacts /\ HeaderFacts /\ WaitFacts

\* What the proofs use of the constants.
BufFacts == /\ MaxNodes \in Nat /\ RingSize \in Nat /\ MaxFrames \in Nat /\ MaxWaits \in Nat /\ MaxWaits > 1
            /\ IsFiniteSet(Buffers) /\ None \notin Buffers

\* A set of naturals that is not empty has a least element.
LEMMA LeastNatural ==
    ASSUME NEW T \in SUBSET Nat, T # {}
    PROVE  \E x \in T : \A y \in T : x <= y
<1> DEFINE R == OpToRel(<, Nat)
<1>1. IsWellFoundedOn(R, Nat)
  BY NatLessThanWellFounded
<1>2. \A a, b \in Nat : a < b => <<a, b>> \in R
  BY DEF OpToRel
<1> HIDE DEF R
<1>3. PICK x \in T : \A y \in T : ~ (<<y, x>> \in R)
  BY <1>1, WFMin
<1>4. ASSUME NEW y \in T PROVE x <= y
  <2>1. x \in Nat /\ y \in Nat /\ ~(y < x)
    BY <1>2, <1>3
  <2> QED
    BY <2>1
<1> QED
  BY <1>4

\* The constants are as BufFacts says.
LEMMA BufConstants == BufFacts
BY IspAssumption DEF BufFacts

\* A call is of one kind.
LEMMA CallKinds ==
    ASSUME BufTypes
    PROVE  /\ deq = Buf!Idle <=> deq.at = "idle"
           /\ deq.at \in {"idle", "ready", "mdp", "check", "wait", "irq", "kernel", "pop"}
           /\ deq.at \in {"check", "wait", "irq"} => deq \in [at : {"check", "wait", "irq"}, waits : Nat]
           /\ deq.at = "kernel" => deq.node \in 0..MaxNodes
           /\ deq.at = "pop" => deq.ready \in BOOLEAN
           /\ enq = Buf!Idle <=> enq.at = "idle"
           /\ enq.at \in {"idle", "size", "put"}
           /\ enq.at \in {"size", "put"} => enq \in EnqCalls
<1>1. Buf!Idle.at = "idle"
  BY DEF Buf!Idle
<1>2. deq \in {Buf!Idle, [at |-> "ready"], [at |-> "mdp"]}
      \/ deq \in [at : {"check", "wait", "irq"}, waits : Nat]
      \/ deq \in [at : {"kernel"}, node : 0..MaxNodes] \/ deq \in [at : {"pop"}, ready : BOOLEAN]
  BY DEF BufTypes, DeqCalls
<1>3. enq = Buf!Idle \/ enq \in EnqCalls
  BY DEF BufTypes
<1>4. /\ deq = Buf!Idle <=> deq.at = "idle"
      /\ deq.at \in {"idle", "ready", "mdp", "check", "wait", "irq", "kernel", "pop"}
      /\ deq.at \in {"check", "wait", "irq"} => deq \in [at : {"check", "wait", "irq"}, waits : Nat]
      /\ deq.at = "kernel" => deq.node \in 0..MaxNodes
      /\ deq.at = "pop" => deq.ready \in BOOLEAN
  <2>1. CASE deq = Buf!Idle
    BY <1>1, <2>1
  <2>2. CASE deq = [at |-> "ready"] \/ deq = [at |-> "mdp"]
    BY <1>1, <2>2
  <2>3. CASE deq \in [at : {"check", "wait", "irq"}, waits : Nat]
    BY <1>1, <2>3
  <2>4. CASE deq \in [at : {"kernel"}, node : 0..MaxNodes]
    BY <1>1, <2>4
  <2>5. CASE deq \in [at : {"pop"}, ready : BOOLEAN]
    BY <1>1, <2>5
  <2> QED
    BY <1>2, <2>1, <2>2, <2>3, <2>4, <2>5
<1>5. /\ enq = Buf!Idle <=> enq.at = "idle"
      /\ enq.at \in {"idle", "size", "put"}
      /\ enq.at \in {"size", "put"} => enq \in EnqCalls
  BY <1>1, <1>3 DEF EnqCalls
<1> QED
  BY <1>4, <1>5

\* A step that moves no buffer and touches no node.
LEMMA NothingMoves ==
    ASSUME BufInv, UNCHANGED <<app, nodes, hdr, stale, lost>>, Moving' = Moving, Held' = Held,
           Len(queue') = Len(queue), \A k \in 1..Len(queue) : queue'[k].buf = queue[k].buf
    PROVE  PlaceFacts' /\ NodeFacts' /\ HeaderFacts'
<1>1. PlaceFacts'
  <2>1. InQueue' = InQueue
    BY DEF InQueue
  <2> QED
    BY <2>1 DEF BufInv, PlaceFacts
<1>2. NodeFacts'
  BY DEF BufInv, NodeFacts
<1>3. HeaderFacts'
  BY DEF BufInv, HeaderFacts
<1> QED
  BY <1>1, <1>2, <1>3

\* The waits.
LEMMA StepWait ==
    ASSUME BufInv, \/ Buf!WaitBufReady \/ Buf!CheckReady \/ Buf!WaitIrq \/ Buf!IrqArrives
                   \/ Buf!WaitTimeout \/ Buf!DequeuePass2 \/ Buf!DequeueMdp
    PROVE  BufInv'
<1>0. BufTypes /\ PathFacts /\ WaitFacts
  BY DEF BufInv
<1>k. /\ deq = Buf!Idle <=> deq.at = "idle"
      /\ deq.at \in {"check", "wait", "irq"} => deq \in [at : {"check", "wait", "irq"}, waits : Nat]
  BY <1>0, CallKinds
<1>i. Buf!Idle.at = "idle"
  BY DEF Buf!Idle
<1>f. (Buf!Filled # {}) <=> AnyFilled
  BY <1>0 DEF Buf!Filled, AnyFilled, BufTypes
<1>1. /\ UNCHANGED <<path, app, queue, nodes, hdr, enq, frames, stale, lost>>
      /\ deq.at \notin {"kernel", "pop"}
  BY <1>k, <1>i DEF Buf!WaitBufReady, Buf!CheckReady, Buf!WaitIrq, Buf!IrqArrives, Buf!WaitTimeout,
    Buf!DequeuePass2, Buf!DequeueMdp
<1>a. ASSUME deq' \in DeqCalls, deq'.at # "kernel", irq' \in BOOLEAN, missed' \in BOOLEAN,
             PathFacts', WaitFacts'
      PROVE  BufInv'
  <2>1. Moving' = Moving /\ Held' = Held
    BY <1>1, <1>a DEF Moving, Held
  <2>2. PlaceFacts' /\ NodeFacts' /\ HeaderFacts'
    BY <1>1, <2>1, NothingMoves
  <2>3. BufTypes'
    BY <1>0, <1>1, <1>a DEF BufTypes
  <2> QED
    BY <1>a, <2>2, <2>3 DEF BufInv
<1>b. ASSUME path = "pass1", deq'.at \in {"idle", "ready", "check", "wait", "irq"} PROVE PathFacts'
  BY <1>1, <1>b DEF PathFacts
<1>p. deq.at \in {"ready", "check", "wait", "irq", "kernel"} => path = "pass1"
  BY <1>0 DEF PathFacts, BufTypes
<1>q. irq \in BOOLEAN /\ missed = FALSE
  BY <1>0 DEF BufTypes, WaitFacts
<1>2. CASE Buf!WaitBufReady
  <2>1. path = "pass1" /\ deq' \in {[at |-> "ready"], [at |-> "check", waits |-> 0]} /\ UNCHANGED <<irq, missed>>
    BY <1>2 DEF Buf!WaitBufReady
  <2>2. deq' \in DeqCalls /\ deq'.at \in {"ready", "check"}
    BY <2>1 DEF DeqCalls
  <2>3. WaitFacts'
    BY <1>0, <2>1, <2>2 DEF WaitFacts
  <2> QED
    BY <1>a, <1>b, <1>q, <2>1, <2>2, <2>3
<1>3. CASE Buf!CheckReady
  <2>1. deq.at = "check" /\ UNCHANGED <<irq, missed>>
    BY <1>3 DEF Buf!CheckReady
  <2>2. CASE AnyFilled
    <3>1. deq' = [at |-> "ready"]
      BY <1>3, <1>f, <2>2 DEF Buf!CheckReady
    <3>2. deq' \in DeqCalls /\ deq'.at = "ready"
      BY <3>1 DEF DeqCalls
    <3>3. WaitFacts'
      BY <1>0, <2>1, <3>2 DEF WaitFacts
    <3> QED
      BY <1>a, <1>b, <1>p, <1>q, <2>1, <3>2, <3>3
  <2>3. CASE ~AnyFilled
    <3>1. deq' = [deq EXCEPT !.at = "wait"]
      BY <1>3, <1>f, <2>3 DEF Buf!CheckReady
    <3>2. deq' \in [at : {"check", "wait", "irq"}, waits : Nat] /\ deq'.at = "wait"
      BY <1>k, <2>1, <3>1
    <3>3. deq' \in DeqCalls
      BY <3>2 DEF DeqCalls
    <3>4. WaitFacts'
      BY <1>0, <1>1, <2>1, <2>3, <3>2 DEF WaitFacts, AnyFilled
    <3> QED
      BY <1>a, <1>b, <1>p, <1>q, <2>1, <3>2, <3>3, <3>4
  <2> QED
    BY <2>2, <2>3
<1>4. CASE Buf!WaitIrq
  <2>1. /\ deq.at = "wait" /\ UNCHANGED missed /\ irq' = IF deq.waits = 0 THEN FALSE ELSE irq
        /\ deq' = [deq EXCEPT !.at = "irq", !.waits = @ + 1]
    BY <1>4 DEF Buf!WaitIrq
  <2>2. /\ deq' \in [at : {"check", "wait", "irq"}, waits : Nat] /\ deq'.at = "irq"
        /\ deq'.waits = deq.waits + 1 /\ deq.waits \in Nat
    <3>1. deq \in [at : {"check", "wait", "irq"}, waits : Nat]
      BY <1>k, <2>1
    <3>2. deq' = [at |-> "irq", waits |-> deq.waits + 1] /\ deq.waits \in Nat
      BY <2>1, <3>1
    <3> QED
      BY <3>2
  <2>3. deq' \in DeqCalls
    BY <2>2 DEF DeqCalls
  <2>4. WaitFacts'
    BY <1>0, <1>1, <2>1, <2>2 DEF WaitFacts, AnyFilled
  <2>5. irq' \in BOOLEAN
    BY <1>q, <2>1
  <2> QED
    BY <1>a, <1>b, <1>p, <1>q, <2>1, <2>2, <2>3, <2>4, <2>5
<1>5. CASE Buf!IrqArrives
  <2>1. deq.at = "irq" /\ irq' = FALSE /\ deq' = [at |-> "ready"] /\ UNCHANGED missed
    BY <1>5 DEF Buf!IrqArrives
  <2>2. deq' \in DeqCalls /\ deq'.at = "ready"
    BY <2>1 DEF DeqCalls
  <2>3. WaitFacts'
    BY <1>0, <2>1, <2>2 DEF WaitFacts
  <2> QED
    BY <1>a, <1>b, <1>p, <1>q, <2>1, <2>2, <2>3
<1>6. CASE Buf!WaitTimeout
  <2>1. deq.at = "irq" /\ ~irq /\ UNCHANGED irq
    BY <1>6 DEF Buf!WaitTimeout
  <2>2. deq.waits \in Nat
    BY <1>k, <2>1
  <2>3. CASE deq.waits < MaxWaits
    <3>1. deq' = [deq EXCEPT !.at = "check"] /\ UNCHANGED missed
      BY <1>6, <2>3 DEF Buf!WaitTimeout
    <3>2. deq' \in [at : {"check", "wait", "irq"}, waits : Nat] /\ deq'.at = "check"
      BY <1>k, <2>1, <3>1
    <3>3. deq' \in DeqCalls
      BY <3>2 DEF DeqCalls
    <3>4. WaitFacts'
      BY <1>0, <3>1, <3>2 DEF WaitFacts
    <3> QED
      BY <1>a, <1>b, <1>p, <1>q, <2>1, <3>1, <3>2, <3>3, <3>4
  <2>4. CASE ~(deq.waits < MaxWaits)
    <3>1. deq' = Buf!Idle /\ missed' = (missed \/ Buf!Filled # {})
      BY <1>6, <2>4 DEF Buf!WaitTimeout
    <3>2. deq.waits > 1
      BY <2>2, <2>4, BufConstants DEF BufFacts
    <3>3. ~AnyFilled
      BY <1>0, <2>1, <3>2 DEF WaitFacts
    <3>4. missed' = FALSE
      BY <1>f, <1>q, <3>1, <3>3
    <3>5. deq' \in DeqCalls /\ deq'.at = "idle"
      BY <1>i, <3>1 DEF DeqCalls
    <3>6. WaitFacts'
      BY <3>4, <3>5 DEF WaitFacts
    <3> QED
      BY <1>a, <1>b, <1>p, <1>q, <2>1, <3>4, <3>5, <3>6
  <2> QED
    BY <2>3, <2>4
<1>7. CASE Buf!DequeuePass2 \/ Buf!DequeueMdp
  <2>1. /\ path = "pass2" /\ queue # <<>> /\ UNCHANGED <<irq, missed>>
        /\ deq' \in {Buf!Idle, [at |-> "mdp"], [at |-> "pop", ready |-> TRUE], [at |-> "pop", ready |-> FALSE]}
    BY <1>0, <1>7 DEF Buf!DequeuePass2, Buf!DequeueMdp, PathFacts, BufTypes
  <2>2. deq' \in DeqCalls /\ deq'.at \in {"idle", "mdp", "pop"}
    <3>1. [at |-> "pop", ready |-> TRUE] \in DeqCalls /\ [at |-> "pop", ready |-> FALSE] \in DeqCalls
      BY DEF DeqCalls
    <3>2. Buf!Idle \in DeqCalls /\ [at |-> "mdp"] \in DeqCalls
      BY DEF DeqCalls
    <3>3. /\ [at |-> "mdp"].at = "mdp" /\ [at |-> "pop", ready |-> TRUE].at = "pop"
          /\ [at |-> "pop", ready |-> FALSE].at = "pop"
      OBVIOUS
    <3>4. CASE deq' = Buf!Idle
      BY <1>i, <3>2, <3>4
    <3>5. CASE deq' = [at |-> "mdp"]
      BY <3>2, <3>3, <3>5
    <3>6. CASE deq' = [at |-> "pop", ready |-> TRUE] \/ deq' = [at |-> "pop", ready |-> FALSE]
      BY <3>1, <3>3, <3>6
    <3> QED
      BY <2>1, <3>4, <3>5, <3>6
  <2>3. WaitFacts'
    BY <1>0, <2>1, <2>2 DEF WaitFacts
  <2>4. PathFacts'
    BY <1>0, <1>1, <2>1, <2>2 DEF PathFacts
  <2> QED
    BY <1>a, <1>q, <2>1, <2>2, <2>3, <2>4
<1> QED
  BY <1>2, <1>3, <1>4, <1>5, <1>6, <1>7

\* A buffer of the queue in the place of another.
LEMMA Replaced ==
    ASSUME queue \in Seq(Slot), NEW k \in 1..Len(queue), NEW v \in Slot,
           queue' = [queue EXCEPT ![k] = v]
    PROVE  /\ queue' \in Seq(Slot) /\ Len(queue') = Len(queue)
           /\ \A j \in 1..Len(queue) : queue'[j] = IF j = k THEN v ELSE queue[j]
BY ExceptSeq

\* A frame of the sensor.
LEMMA StepFrame ==
    ASSUME BufInv, Buf!Frame
    PROVE  BufInv'
<1>0. BufTypes /\ PathFacts /\ WaitFacts
  BY DEF BufInv
<1> DEFINE k == Buf!Min({j \in DOMAIN queue : ~queue[j].filled})
<1>1. /\ path = "pass1" /\ frames < MaxFrames /\ frames' = frames + 1 /\ irq' = TRUE
      /\ UNCHANGED <<path, app, nodes, hdr, enq, deq, stale, lost, missed>>
      /\ queue' = queue \/ queue' = [queue EXCEPT ![k].filled = TRUE]
  BY DEF Buf!Frame
<1> HIDE DEF k
<1>2. queue \in Seq(Slot)
  BY <1>0 DEF BufTypes
<1>3. queue' \in Seq(Slot) /\ Len(queue') = Len(queue) /\ \A j \in 1..Len(queue) : queue'[j].buf = queue[j].buf
  <2>1. CASE queue' = queue
    BY <1>2, <2>1
  <2>2. CASE queue' = [queue EXCEPT ![k].filled = TRUE] /\ k \in 1..Len(queue)
    <3>1. queue[k] \in Slot
      BY <1>2, <2>2
    <3>2. PICK v \in Slot : v = [queue[k] EXCEPT !.filled = TRUE]
      BY <3>1 DEF Slot
    <3>3. v.buf = queue[k].buf
      BY <3>1, <3>2 DEF Slot
    <3>4. queue' = [queue EXCEPT ![k] = v]
      BY <2>2, <3>2
    <3> HIDE DEF Slot
    <3> QED
      <4>1. /\ queue' \in Seq(Slot) /\ Len(queue') = Len(queue)
            /\ \A j \in 1..Len(queue) : queue'[j] = IF j = k THEN v ELSE queue[j]
        BY <1>2, <2>2, <3>4, Replaced
      <4>2. ASSUME NEW j \in 1..Len(queue) PROVE queue'[j].buf = queue[j].buf
        BY <3>3, <4>1
      <4> QED
        BY <4>1, <4>2
  <2>3. CASE queue' = [queue EXCEPT ![k].filled = TRUE] /\ k \notin 1..Len(queue)
    <3>1. queue' = queue
      BY <1>2, <2>3
    <3> QED
      BY <1>2, <3>1
  <2> QED
    BY <1>1, <2>1, <2>2, <2>3
<1>4. Moving' = Moving /\ Held' = Held
  BY <1>1 DEF Moving, Held
<1>5. PlaceFacts' /\ NodeFacts' /\ HeaderFacts'
  BY <1>1, <1>3, <1>4, NothingMoves
<1>6. BufTypes'
  <2>1. frames' \in 0..MaxFrames
    BY <1>0, <1>1, BufConstants DEF BufTypes, BufFacts
  <2> QED
    BY <1>0, <1>1, <1>3, <2>1 DEF BufTypes
<1>7. PathFacts'
  BY <1>0, <1>1 DEF PathFacts
<1>8. WaitFacts'
  BY <1>0, <1>1 DEF WaitFacts
<1> QED
  BY <1>5, <1>6, <1>7, <1>8 DEF BufInv

\* Only the buffers that are filled count, when some leave and none is filled.
LEMMA StillWaits ==
    ASSUME WaitFacts, UNCHANGED <<irq, missed>>, AnyFilled' => AnyFilled,
           deq' = deq \/ deq'.at \notin {"wait", "irq"}
    PROVE  WaitFacts'
BY DEF WaitFacts

\* ISP_RT_BUF_CTRL_GET_SIZE.
LEMMA StepGetSize ==
    ASSUME BufInv, Buf!GetSize
    PROVE  BufInv'
<1>0. BufTypes /\ PathFacts /\ WaitFacts
  BY DEF BufInv
<1>1. /\ enq.at = "size" /\ enq' = [enq EXCEPT !.at = "put"]
      /\ UNCHANGED <<path, app, queue, nodes, hdr, deq, irq, frames, stale, lost, missed>>
  BY DEF Buf!GetSize
<1>2. enq \in EnqCalls /\ enq # Buf!Idle
  BY <1>0, <1>1, CallKinds
<1>3. enq' \in EnqCalls /\ enq'.at = "put" /\ enq'.buf = enq.buf
  BY <1>1, <1>2 DEF EnqCalls
<1>4. enq' # Buf!Idle
  BY <1>3 DEF Buf!Idle
<1>5. Moving' = Moving /\ Held' = Held
  BY <1>1, <1>2, <1>3, <1>4 DEF Moving, Held
<1>6. PlaceFacts' /\ NodeFacts' /\ HeaderFacts'
  BY <1>1, <1>5, NothingMoves
<1>7. BufTypes'
  BY <1>0, <1>1, <1>3 DEF BufTypes
<1>8. PathFacts' /\ WaitFacts'
  BY <1>0, <1>1, <1>2 DEF PathFacts, WaitFacts, AnyFilled, BufTypes
<1> QED
  BY <1>6, <1>7, <1>8 DEF BufInv

\* returnDeqBufInfo() frees the one node of the buffer.
LEMMA NodeReturned ==
    ASSUME BufTypes, NodeFacts, NEW b \in app, Buf!ReturnDeqBufInfo(b)
    PROVE  /\ nodes' \in [Nodes -> Node]
           /\ \A n \in Nodes : IF nodes[n].buf = b THEN nodes'[n] = Buf!Free ELSE nodes'[n] = nodes[n]
<1> DEFINE of == {n \in Nodes : nodes[n].buf = b}
<1>0. nodes \in [Nodes -> Node] /\ b \in Buffers /\ Buf!Free \in Node
  BY DEF BufTypes, Node, Buf!Free
<1>1. nodes' = IF of = {} THEN nodes ELSE [nodes EXCEPT ![Buf!Min(of)] = Buf!Free]
  BY DEF Buf!ReturnDeqBufInfo, Buf!Nodes, Nodes
<1>2. CASE of = {}
  BY <1>0, <1>1, <1>2
<1>3. CASE of # {}
  <2>1. PICK n \in Nodes : nodes[n].buf = b
    BY <1>3
  <2>2. b # None
    BY <1>0, BufConstants DEF BufFacts
  <2>3. \A m \in Nodes : nodes[m].buf = b => m = n
    BY <2>1, <2>2 DEF NodeFacts
  <2>4. of = {n} /\ n \in Nat
    BY <2>1, <2>3, BufConstants DEF Nodes, BufFacts
  <2>5. Buf!Min(of) = n
    BY <2>4 DEF Buf!Min
  <2> HIDE DEF of
  <2> QED
    BY <1>0, <1>1, <1>3, <2>1, <2>3, <2>5
<1> QED
  BY <1>2, <1>3

\* enqueueHwBuf() begins: the buffer leaves the application, its node is freed.
LEMMA StepEnqueue ==
    ASSUME BufInv, NEW b \in Buffers, NEW old \in Buffers \cup {None}, Buf!Enqueue(b, old)
    PROVE  BufInv'
<1>0. BufTypes /\ PathFacts /\ WaitFacts /\ PlaceFacts /\ NodeFacts /\ HeaderFacts
  BY DEF BufInv
<1>1. /\ path = "pass1" /\ enq = Buf!Idle /\ b \in app /\ Buf!ReturnDeqBufInfo(b)
      /\ lost' = {n \in lost : nodes'[n].occ}
      /\ enq' = [at |-> "size", buf |-> b, old |-> old] /\ app' = app \ {b}
      /\ UNCHANGED <<path, queue, hdr, deq, irq, frames, stale, missed>>
  BY DEF Buf!Enqueue
<1>2. /\ nodes' \in [Nodes -> Node]
      /\ \A n \in Nodes : IF nodes[n].buf = b THEN nodes'[n] = Buf!Free ELSE nodes'[n] = nodes[n]
  BY <1>0, <1>1, NodeReturned
<1>3. ~Buf!Free.occ /\ Buf!Free.buf = None /\ b # None
  BY BufConstants DEF Buf!Free, BufFacts
<1>4. enq' \in EnqCalls /\ enq'.buf = b /\ enq' # Buf!Idle
  <2>1. enq' \in EnqCalls /\ enq'.buf = b /\ enq'.at = "size"
    BY <1>1 DEF EnqCalls
  <2>2. Buf!Idle.at = "idle"
    BY DEF Buf!Idle
  <2> QED
    BY <2>1, <2>2
<1>5. BufTypes'
  <2>1. lost' \subseteq Nodes /\ app' \subseteq Buffers
    BY <1>0, <1>1 DEF BufTypes
  <2> QED
    BY <1>0, <1>1, <1>2, <1>4, <2>1 DEF BufTypes
<1>6. PathFacts' /\ WaitFacts'
  BY <1>0, <1>1 DEF PathFacts, WaitFacts, AnyFilled
<1>7. PlaceFacts'
  <2>1. Moving = {} /\ Moving' = {b}
    BY <1>1, <1>4 DEF Moving
  <2>2. InQueue' = InQueue
    BY <1>1 DEF InQueue
  <2> QED
    BY <1>0, <1>1, <2>1, <2>2 DEF PlaceFacts
<1>8. NodeFacts'
  <2>1. Held' = Held
    BY <1>1 DEF Held
  <2>2. Held # 0 => Held \in Nodes
    BY <1>0, CallKinds, BufConstants DEF Held, Nodes, BufFacts
  <2>3. lost \subseteq Nodes
    BY <1>0 DEF BufTypes
  <2>4. \A n \in lost : nodes'[n] = nodes[n] /\ n \in lost'
    BY <1>0, <1>1, <1>2, <1>3, <2>3 DEF NodeFacts
  <2>5. lost' = lost
    BY <1>1, <2>4
  <2>6. Held # 0 => nodes'[Held] = nodes[Held]
    BY <1>0, <1>2, <1>3, <2>2 DEF NodeFacts
  <2>7. ASSUME NEW n \in Nodes
        PROVE  /\ ~nodes'[n].occ => nodes'[n].buf = None
               /\ nodes'[n].occ /\ n \notin lost /\ n # Held => nodes'[n].buf # None
               /\ nodes'[n].buf # None => nodes'[n].buf \in app' /\ hdr[nodes'[n].buf] = n
    BY <1>0, <1>1, <1>2, <1>3 DEF NodeFacts
  <2> QED
    BY <1>0, <1>1, <2>1, <2>4, <2>5, <2>6, <2>7 DEF NodeFacts
<1>9. HeaderFacts'
  <2> SUFFICES ASSUME NEW c \in app' \ stale', hdr'[c] # 0
               PROVE  nodes'[hdr'[c]].occ /\ nodes'[hdr'[c]].buf = c
    BY DEF HeaderFacts
  <2>1. c \in app /\ c # b /\ c \notin stale /\ hdr[c] = hdr'[c]
    BY <1>1
  <2>2. nodes[hdr[c]].occ /\ nodes[hdr[c]].buf = c
    BY <1>0, <2>1 DEF HeaderFacts
  <2>3. hdr[c] \in Nodes
    BY <1>0, <2>1, BufConstants DEF BufTypes, Nodes, BufFacts
  <2> QED
    BY <1>2, <2>1, <2>2, <2>3
<1> QED
  BY <1>5, <1>6, <1>7, <1>8, <1>9 DEF BufInv

\* A buffer goes to the application, and an earlier header is forgotten.
LEMMA StepEnqueueFails ==
    ASSUME BufInv, Buf!EnqueueFails
    PROVE  BufInv'
<1>0. BufTypes /\ PathFacts /\ WaitFacts /\ PlaceFacts /\ NodeFacts /\ HeaderFacts
  BY DEF BufInv
<1>1. /\ enq.at \in {"size", "put"} /\ enq' = Buf!Idle /\ app' = app \cup {enq.buf}
      /\ stale' = stale \cup {enq.buf}
      /\ UNCHANGED <<path, queue, nodes, hdr, deq, irq, frames, lost, missed>>
  BY DEF Buf!EnqueueFails
<1>2. enq \in EnqCalls /\ enq # Buf!Idle
  BY <1>0, <1>1, CallKinds
<1>3. enq.buf \in Buffers /\ Moving = {enq.buf} /\ Moving' = {}
  BY <1>1, <1>2 DEF EnqCalls, Moving
<1>4. BufTypes'
  BY <1>0, <1>1, <1>3 DEF BufTypes
<1>5. PathFacts' /\ WaitFacts'
  BY <1>0, <1>1 DEF PathFacts, WaitFacts, AnyFilled
<1>6. PlaceFacts'
  <2>1. InQueue' = InQueue
    BY <1>1 DEF InQueue
  <2> QED
    BY <1>0, <1>1, <1>3, <2>1 DEF PlaceFacts
<1>7. NodeFacts'
  <2>1. Held' = Held
    BY <1>1 DEF Held
  <2> QED
    BY <1>0, <1>1, <2>1 DEF NodeFacts
<1>8. HeaderFacts'
  BY <1>0, <1>1 DEF HeaderFacts
<1> QED
  BY <1>4, <1>5, <1>6, <1>7, <1>8 DEF BufInv

\* ISP_RT_BUF_CTRL_ENQUE.
LEMMA StepEnqueueKernel ==
    ASSUME BufInv, Buf!EnqueueKernel
    PROVE  BufInv'
<1>0. BufTypes /\ PathFacts /\ WaitFacts /\ PlaceFacts /\ NodeFacts /\ HeaderFacts
  BY DEF BufInv
<1> DEFINE at == {j \in DOMAIN queue : queue[j].buf = enq.old /\ ~queue[j].filled}
           new == [buf |-> enq.buf, filled |-> FALSE]
           k == Buf!Min(at)
<1>1. /\ enq.at = "put" /\ enq' = Buf!Idle
      /\ IF at = {} THEN queue' = Append(queue, new) /\ UNCHANGED <<app, hdr>>
         ELSE /\ queue' = [queue EXCEPT ![k] = new]
              /\ app' = app \cup {enq.old} /\ hdr' = [hdr EXCEPT ![enq.old] = 0]
      /\ UNCHANGED <<path, nodes, deq, irq, frames, stale, lost, missed>>
  BY DEF Buf!EnqueueKernel
<1>2. enq \in EnqCalls /\ enq # Buf!Idle
  BY <1>0, <1>1, CallKinds
<1>3. /\ enq.buf \in Buffers /\ Moving = {enq.buf} /\ Moving' = {} /\ Held' = Held
      /\ queue \in Seq(Slot) /\ new \in Slot /\ new.buf = enq.buf /\ ~new.filled
  BY <1>0, <1>1, <1>2 DEF EnqCalls, Moving, Held, BufTypes, Slot
<1> HIDE DEF new
<1>4. PathFacts'
  BY <1>0, <1>1, <1>2 DEF PathFacts, BufTypes
<1>5. CASE at = {}
  <2>1. queue' = Append(queue, new) /\ UNCHANGED <<app, hdr>>
    BY <1>1, <1>5
  <2>2. /\ queue' \in Seq(Slot) /\ Len(queue') = Len(queue) + 1 /\ Len(queue) \in Nat
        /\ \A j \in 1..Len(queue) : queue'[j] = queue[j]
        /\ queue'[Len(queue) + 1] = new
    BY <1>3, <2>1, AppendProperties
  <2>3. \A j \in 1..Len(queue') : j \in 1..Len(queue) \/ j = Len(queue) + 1
    BY <2>2
  <2>4. InQueue' = InQueue \cup {enq.buf}
    BY <1>3, <2>2, <2>3 DEF InQueue
  <2>5. PlaceFacts'
    <3>1. ASSUME NEW i \in 1..Len(queue'), NEW j \in 1..Len(queue'), i # j
          PROVE  queue'[i].buf # queue'[j].buf
      <4>1. \A m \in 1..Len(queue) : queue[m].buf # enq.buf
        BY <1>0, <1>3 DEF PlaceFacts, InQueue
      <4> QED
        BY <1>0, <1>3, <2>2, <2>3, <3>1, <4>1 DEF PlaceFacts
    <3> QED
      BY <1>0, <1>3, <2>1, <2>4, <3>1 DEF PlaceFacts
  <2>6. NodeFacts' /\ HeaderFacts'
    BY <1>0, <1>1, <1>3, <2>1 DEF NodeFacts, HeaderFacts
  <2>7. BufTypes'
    BY <1>0, <1>1, <2>1, <2>2 DEF BufTypes
  <2>8. WaitFacts'
    BY <1>0, <1>1, <1>3, <2>2, <2>3, StillWaits DEF AnyFilled
  <2> QED
    BY <1>4, <2>5, <2>6, <2>7, <2>8 DEF BufInv
<1>6. CASE at # {}
  <2>1. PICK m \in 1..Len(queue) : queue[m].buf = enq.old /\ ~queue[m].filled
    BY <1>3, <1>6
  <2>2. \A j \in 1..Len(queue) : j # m => queue[j].buf # enq.old
    BY <1>0, <2>1 DEF PlaceFacts
  <2>3. at = {m} /\ m \in Nat
    BY <1>3, <2>1, <2>2
  <2>4. k = m
    BY <2>3 DEF Buf!Min
  <2>5. /\ queue' = [queue EXCEPT ![m] = new]
        /\ app' = app \cup {enq.old} /\ hdr' = [hdr EXCEPT ![enq.old] = 0]
    BY <1>1, <1>6, <2>4
  <2>6. enq.old \in InQueue /\ enq.old \in Buffers
    BY <1>0, <2>1 DEF InQueue, PlaceFacts
  <2>7. /\ queue' \in Seq(Slot) /\ Len(queue') = Len(queue)
        /\ \A j \in 1..Len(queue) : queue'[j] = IF j = m THEN new ELSE queue[j]
    BY <1>3, <2>5, Replaced
  <2>8. InQueue' = (InQueue \ {enq.old}) \cup {enq.buf}
    <3>1. InQueue' = {queue'[j].buf : j \in 1..Len(queue)}
      BY <2>7 DEF InQueue
    <3>2. \A j \in 1..Len(queue) : queue'[j].buf = IF j = m THEN enq.buf ELSE queue[j].buf
      BY <1>3, <2>7
    <3>3. \A j \in 1..Len(queue) : queue'[j].buf \in (InQueue \ {enq.old}) \cup {enq.buf}
      BY <2>2, <3>2 DEF InQueue
    <3>4. ASSUME NEW x \in InQueue, x # enq.old PROVE x \in InQueue'
      <4>1. PICK j \in 1..Len(queue) : x = queue[j].buf
        BY DEF InQueue
      <4>2. queue'[j].buf = x
        BY <2>1, <3>2, <3>4, <4>1
      <4> QED
        BY <3>1, <4>2
    <3>5. enq.buf \in InQueue'
      BY <3>1, <3>2
    <3> QED
      BY <3>1, <3>3, <3>4, <3>5
  <2>9. PlaceFacts'
    <3>1. ASSUME NEW i \in 1..Len(queue'), NEW j \in 1..Len(queue'), i # j
          PROVE  queue'[i].buf # queue'[j].buf
      <4>1. \A l \in 1..Len(queue) : queue[l].buf # enq.buf
        BY <1>0, <1>3 DEF PlaceFacts, InQueue
      <4> QED
        BY <1>0, <1>3, <2>7, <3>1, <4>1 DEF PlaceFacts
    <3>2. enq.old # enq.buf
      BY <1>0, <1>3, <2>6 DEF PlaceFacts
    <3> QED
      BY <1>0, <1>3, <2>5, <2>6, <2>8, <3>1, <3>2 DEF PlaceFacts
  <2>10. /\ enq.old \notin app /\ hdr' \in [Buffers -> 0..MaxNodes] /\ hdr'[enq.old] = 0
         /\ \A b \in app : hdr'[b] = hdr[b]
    <3>1. enq.old \notin app /\ app \subseteq Buffers /\ hdr \in [Buffers -> 0..MaxNodes]
      BY <1>0, <2>6 DEF PlaceFacts, BufTypes
    <3>2. 0 \in 0..MaxNodes
      BY BufConstants DEF BufFacts
    <3> QED
      BY <2>5, <2>6, <3>1, <3>2
  <2>11. NodeFacts'
    BY <1>0, <1>1, <1>3, <2>5, <2>10 DEF NodeFacts
  <2>12. HeaderFacts'
    BY <1>0, <1>1, <2>5, <2>10 DEF HeaderFacts
  <2>13. BufTypes'
    BY <1>0, <1>1, <2>5, <2>6, <2>7, <2>10 DEF BufTypes
  <2>14. WaitFacts'
    BY <1>0, <1>1, <1>3, <2>7, StillWaits DEF AnyFilled
  <2> QED
    BY <1>4, <2>9, <2>11, <2>12, <2>13, <2>14 DEF BufInv
<1> QED
  BY <1>5, <1>6

\* The list of pass 2 grows at its end.
LEMMA StepEnqueuePass2 ==
    ASSUME BufInv, NEW b \in Buffers, Buf!EnqueuePass2(b)
    PROVE  BufInv'
<1>0. BufTypes /\ PathFacts /\ WaitFacts /\ PlaceFacts /\ NodeFacts /\ HeaderFacts
  BY DEF BufInv
<1> DEFINE new == [buf |-> b, filled |-> FALSE]
<1>1. /\ path = "pass2" /\ b \in app /\ app' = app \ {b} /\ queue' = Append(queue, new)
      /\ UNCHANGED <<path, nodes, hdr, enq, deq, irq, frames, stale, lost, missed>>
  BY DEF Buf!EnqueuePass2
<1>2. queue \in Seq(Slot) /\ new \in Slot /\ new.buf = b /\ ~new.filled
  BY <1>0 DEF BufTypes, Slot
<1> HIDE DEF new
<1>3. /\ queue' \in Seq(Slot) /\ Len(queue') = Len(queue) + 1 /\ Len(queue) \in Nat
      /\ \A j \in 1..Len(queue) : queue'[j] = queue[j]
      /\ queue'[Len(queue) + 1] = new
  BY <1>1, <1>2, AppendProperties
<1>4. \A j \in 1..Len(queue') : j \in 1..Len(queue) \/ j = Len(queue) + 1
  BY <1>3
<1>5. InQueue' = InQueue \cup {b} /\ Moving' = Moving /\ Held' = Held
  <2>1. InQueue' = InQueue \cup {b}
    BY <1>2, <1>3, <1>4 DEF InQueue
  <2> QED
    BY <1>1, <2>1 DEF Moving, Held
<1>6. PlaceFacts'
  <2>1. ASSUME NEW i \in 1..Len(queue'), NEW j \in 1..Len(queue'), i # j
        PROVE  queue'[i].buf # queue'[j].buf
    <3>1. \A m \in 1..Len(queue) : queue[m].buf # b
      BY <1>0, <1>1 DEF PlaceFacts, InQueue
    <3> QED
      BY <1>0, <1>2, <1>3, <1>4, <2>1, <3>1 DEF PlaceFacts
  <2> QED
    BY <1>0, <1>1, <1>5, <2>1 DEF PlaceFacts
<1>7. PathFacts'
  <2>1. queue' # <<>>
    BY <1>3
  <2> QED
    BY <1>0, <1>1, <2>1 DEF PathFacts
<1>8. WaitFacts'
  BY <1>0, <1>1, <1>2, <1>3, <1>4, StillWaits DEF AnyFilled
<1>9. BufTypes'
  BY <1>0, <1>1, <1>3 DEF BufTypes
<1>10. HeaderFacts'
  BY <1>0, <1>1 DEF HeaderFacts
<1>11. NodeFacts'
  BY <1>0, <1>1, <1>5 DEF NodeFacts, PathFacts
<1> QED
  BY <1>6, <1>7, <1>8, <1>9, <1>10, <1>11 DEF BufInv

\* saveDeqBufInfo() takes a free node, if there is one.
LEMMA StepDequeue ==
    ASSUME BufInv, Buf!Dequeue
    PROVE  BufInv'
<1>0. BufTypes /\ PathFacts /\ WaitFacts /\ PlaceFacts /\ NodeFacts /\ HeaderFacts
  BY DEF BufInv
<1> DEFINE free == {m \in Nodes : ~nodes[m].occ}
           n == IF free = {} THEN 0 ELSE Buf!Min(free)
           used == [occ |-> TRUE, buf |-> None]
<1>1. /\ deq.at = "ready" /\ deq' = [at |-> "kernel", node |-> n]
      /\ nodes' = IF n = 0 THEN nodes ELSE [nodes EXCEPT ![n] = used]
      /\ UNCHANGED <<path, app, queue, hdr, enq, irq, frames, stale, lost, missed>>
  BY DEF Buf!Dequeue, Buf!SaveDeqBufInfo, Buf!Nodes, Nodes
<1>2. n = 0 \/ n \in free
  <2>1. CASE free # {}
    <3>1. free \in SUBSET Nat
      BY BufConstants DEF Nodes, BufFacts
    <3>2. PICK m \in free : \A y \in free : m <= y
      BY <2>1, <3>1, LeastNatural
    <3>3. Buf!Min(free) \in free
      BY <3>2 DEF Buf!Min
    <3> QED
      BY <2>1, <3>3
  <2> QED
    BY <2>1
<1> HIDE DEF n
<1>3. n # 0 => n \in Nodes /\ ~nodes[n].occ /\ nodes[n].buf = None /\ n \notin lost
  BY <1>0, <1>2 DEF NodeFacts
<1>4. nodes \in [Nodes -> Node] /\ used \in Node /\ used.occ /\ used.buf = None
  BY <1>0 DEF BufTypes, Node
<1> HIDE DEF used, free
<1>5. /\ nodes' \in [Nodes -> Node]
      /\ \A m \in Nodes : nodes'[m] = IF m = n THEN used ELSE nodes[m]
  <2>1. 0 \notin Nodes
    BY BufConstants DEF Nodes, BufFacts
  <2> QED
    BY <1>1, <1>3, <1>4, <2>1
<1>6. /\ Held = 0 /\ Held' = n /\ Moving' = Moving /\ deq' \in DeqCalls /\ deq'.at = "kernel"
  <2>1. n \in 0..MaxNodes
    BY <1>3, BufConstants DEF Nodes, BufFacts
  <2> QED
    BY <1>1, <2>1 DEF Held, Moving, DeqCalls
<1>7. BufTypes'
  BY <1>0, <1>1, <1>5, <1>6 DEF BufTypes
<1>8. path = "pass1"
  BY <1>0, <1>1 DEF PathFacts, BufTypes
<1>9. PathFacts' /\ WaitFacts'
  BY <1>0, <1>1, <1>6, <1>8, StillWaits DEF PathFacts, AnyFilled
<1>10. PlaceFacts'
  BY <1>0, <1>1, <1>6 DEF PlaceFacts, InQueue
<1>11. NodeFacts'
  <2>1. n # 0 => nodes'[n].occ /\ nodes'[n].buf = None /\ n \notin lost
    BY <1>3, <1>4, <1>5
  <2>2. \A m \in lost : nodes'[m].occ /\ nodes'[m].buf = None
    <3>1. lost \subseteq Nodes /\ 0 \notin Nodes
      BY <1>0, BufConstants DEF BufTypes, Nodes, BufFacts
    <3>2. \A m \in lost : m \in Nodes /\ m # n
      BY <1>3, <3>1
    <3> QED
      BY <1>0, <1>5, <3>2 DEF NodeFacts
  <2>3. ASSUME NEW m \in Nodes
        PROVE  /\ ~nodes'[m].occ => nodes'[m].buf = None
               /\ nodes'[m].occ /\ m \notin lost /\ m # n => nodes'[m].buf # None
               /\ nodes'[m].buf # None => nodes'[m].buf \in app /\ hdr[nodes'[m].buf] = m
    <3>1. m # Held
      BY <1>6, BufConstants DEF Nodes, BufFacts
    <3> QED
      BY <1>0, <1>4, <1>5, <3>1 DEF NodeFacts
  <2> QED
    BY <1>1, <1>6, <2>1, <2>2, <2>3 DEF NodeFacts
<1>12. HeaderFacts'
  <2> SUFFICES ASSUME NEW c \in app \ stale, hdr[c] # 0
               PROVE  nodes'[hdr[c]].occ /\ nodes'[hdr[c]].buf = c
    BY <1>1 DEF HeaderFacts
  <2>1. nodes[hdr[c]].occ /\ nodes[hdr[c]].buf = c
    BY <1>0 DEF HeaderFacts
  <2>2. hdr[c] \in Nodes
    BY <1>0, BufConstants DEF BufTypes, Nodes, BufFacts
  <2>3. hdr[c] # n
    BY <1>3, <2>1, <2>2
  <2> QED
    BY <1>5, <2>1, <2>2, <2>3
<1> QED
  BY <1>7, <1>9, <1>10, <1>11, <1>12 DEF BufInv

\* A dequeue that fails loses its node.
LEMMA StepDequeueFails ==
    ASSUME BufInv, Buf!DequeueFails
    PROVE  BufInv'
<1>0. BufTypes /\ PathFacts /\ WaitFacts /\ PlaceFacts /\ NodeFacts /\ HeaderFacts
  BY DEF BufInv
<1>1. /\ deq.at = "kernel" /\ deq' = Buf!Idle
      /\ lost' = IF deq.node = 0 THEN lost ELSE lost \cup {deq.node}
      /\ UNCHANGED <<path, app, queue, nodes, hdr, enq, irq, frames, stale, missed>>
  BY DEF Buf!DequeueFails
<1>2. deq'.at = "idle" /\ deq' \in DeqCalls /\ path = "pass1"
  BY <1>0, <1>1 DEF Buf!Idle, DeqCalls, PathFacts, BufTypes
<1>3. Held = deq.node /\ Held' = 0 /\ Moving' = Moving /\ (Held # 0 => Held \in Nodes)
  BY <1>0, <1>1, <1>2, CallKinds, BufConstants DEF Held, Moving, Nodes, BufFacts
<1>4. BufTypes'
  <2>1. lost' \subseteq Nodes
    BY <1>0, <1>1, <1>3 DEF BufTypes
  <2> QED
    BY <1>0, <1>1, <1>2, <2>1 DEF BufTypes
<1>5. PathFacts' /\ WaitFacts'
  BY <1>0, <1>1, <1>2, StillWaits DEF PathFacts, AnyFilled
<1>6. PlaceFacts'
  BY <1>0, <1>1, <1>3 DEF PlaceFacts, InQueue
<1>7. NodeFacts'
  BY <1>0, <1>1, <1>3 DEF NodeFacts
<1>8. HeaderFacts'
  BY <1>0, <1>1 DEF HeaderFacts
<1> QED
  BY <1>4, <1>5, <1>6, <1>7, <1>8 DEF BufInv

\* The buffers at the head of the ring leave it.
LEMMA Taken ==
    ASSUME BufTypes, PlaceFacts, NEW n \in 1..Len(queue),
           queue' = SubSeq(queue, n + 1, Len(queue))
    PROVE  LET got == {queue[k].buf : k \in 1..n}
           IN  /\ queue' \in Seq(Slot) /\ Len(queue') = Len(queue) - n
               /\ \A j \in 1..Len(queue') : queue'[j] = queue[n + j] /\ n + j \in 1..Len(queue)
               /\ InQueue' \cap got = {} /\ InQueue' \cup got = InQueue
<1> DEFINE got == {queue[k].buf : k \in 1..n}
<1>1. queue \in Seq(Slot) /\ Len(queue) \in Nat /\ n \in Nat /\ n <= Len(queue)
  BY DEF BufTypes
<1>2. /\ queue' \in Seq(Slot) /\ Len(queue') = Len(queue) - n
      /\ \A j \in 1..Len(queue') : queue'[j] = queue[n + j] /\ n + j \in 1..Len(queue)
  <2>1. \A i \in (n + 1) .. Len(queue) : queue[i] \in Slot
    BY <1>1
  <2>2. /\ queue' \in Seq(Slot)
        /\ Len(queue') = IF n + 1 <= Len(queue) THEN Len(queue) - (n + 1) + 1 ELSE 0
        /\ \A j \in 1 .. (Len(queue) - (n + 1) + 1) : queue'[j] = queue[(n + 1) + j - 1]
    BY <1>1, <2>1, SubSeqProperties
  <2>3. Len(queue') = Len(queue) - n
    BY <1>1, <2>2
  <2>4. ASSUME NEW j \in 1..Len(queue') PROVE queue'[j] = queue[n + j] /\ n + j \in 1..Len(queue)
    <3>1. j \in 1 .. (Len(queue) - (n + 1) + 1) /\ (n + 1) + j - 1 = n + j
      BY <1>1, <2>3
    <3> QED
      BY <1>1, <2>2, <2>3, <3>1
  <2> QED
    BY <2>2, <2>3, <2>4
<1>3. InQueue' \cap got = {}
  <2> SUFFICES ASSUME NEW j \in 1..Len(queue'), NEW k \in 1..n PROVE queue'[j].buf # queue[k].buf
    BY DEF InQueue
  <2>1. n + j \in 1..Len(queue) /\ k \in 1..Len(queue) /\ n + j # k
    BY <1>1, <1>2
  <2> QED
    BY <1>2, <2>1 DEF PlaceFacts
<1>4. InQueue' \cup got = InQueue
  <2>1. ASSUME NEW j \in 1..Len(queue') PROVE queue'[j].buf \in InQueue
    BY <1>2 DEF InQueue
  <2>2. \A k \in 1..n : queue[k].buf \in InQueue
    BY <1>1 DEF InQueue
  <2>3. ASSUME NEW k \in 1..Len(queue) PROVE queue[k].buf \in InQueue' \cup got
    <3>1. CASE k <= n
      BY <1>1, <3>1
    <3>2. CASE k > n
      <4>1. k - n \in 1..Len(queue') /\ n + (k - n) = k
        BY <1>1, <1>2, <3>2
      <4>2. queue'[k - n] = queue[k]
        BY <1>2, <4>1
      <4> QED
        BY <4>1, <4>2 DEF InQueue
    <3> QED
      BY <1>1, <3>1, <3>2
  <2> QED
    BY <2>1, <2>2, <2>3 DEF InQueue
<1> QED
  BY <1>2, <1>3, <1>4

\* The dequeue itself: the buffers get the node, which names the last of them.
LEMMA StepDequeueKernel ==
    ASSUME BufInv, NEW n, Buf!DequeueKernel(n)
    PROVE  BufInv'
<1>0. BufTypes /\ PathFacts /\ WaitFacts /\ PlaceFacts /\ NodeFacts /\ HeaderFacts
  BY DEF BufInv
<1> DEFINE got == {queue[k].buf : k \in 1..n}
           last == queue[n].buf
<1>1. /\ deq.at = "kernel" /\ n \in 1..Len(queue) /\ deq' = Buf!Idle
      /\ queue' = SubSeq(queue, n + 1, Len(queue)) /\ app' = app \cup got
      /\ hdr' = [b \in Buffers |-> IF b \in got THEN deq.node ELSE hdr[b]]
      /\ nodes' = IF deq.node = 0 THEN nodes ELSE [nodes EXCEPT ![deq.node].buf = last]
      /\ stale' = (stale \ {last}) \cup (got \ {last})
      /\ UNCHANGED <<path, enq, irq, frames, lost, missed>>
  BY DEF Buf!DequeueKernel
<1>2. /\ queue' \in Seq(Slot) /\ Len(queue') = Len(queue) - n
      /\ \A j \in 1..Len(queue') : queue'[j] = queue[n + j] /\ n + j \in 1..Len(queue)
      /\ InQueue' \cap got = {} /\ InQueue' \cup got = InQueue
  BY <1>0, <1>1, Taken
<1>3. last \in got /\ got \subseteq InQueue /\ InQueue \subseteq Buffers /\ app \cap InQueue = {}
  <2>1. n \in 1..n
    BY <1>1
  <2> QED
    BY <1>0, <1>2, <2>1 DEF PlaceFacts
<1> HIDE DEF last, got
<1>4. deq'.at = "idle" /\ deq' \in DeqCalls /\ path = "pass1"
  BY <1>0, <1>1 DEF Buf!Idle, DeqCalls, PathFacts, BufTypes
<1>5. /\ Held = deq.node /\ Held' = 0 /\ Moving' = Moving /\ (Held # 0 => Held \in Nodes)
      /\ Held \in 0..MaxNodes
  BY <1>0, <1>1, <1>4, CallKinds, BufConstants DEF Held, Moving, Nodes, BufFacts
<1>6. /\ nodes' \in [Nodes -> Node]
      /\ \A m \in Nodes : m # Held => nodes'[m] = nodes[m]
      /\ Held # 0 => nodes'[Held].occ = nodes[Held].occ /\ nodes'[Held].buf = last
  <2>1. nodes \in [Nodes -> Node] /\ last \in Buffers \cup {None}
    BY <1>0, <1>3 DEF BufTypes
  <2>2. CASE Held = 0
    BY <1>1, <1>5, <2>1, <2>2
  <2>3. CASE Held # 0
    <3>1. nodes[Held] \in Node
      BY <1>5, <2>1, <2>3
    <3>2. PICK v \in Node : v = [nodes[Held] EXCEPT !.buf = last]
      BY <2>1, <3>1 DEF Node
    <3>3. v.occ = nodes[Held].occ /\ v.buf = last
      BY <3>1, <3>2 DEF Node
    <3>4. nodes' = [nodes EXCEPT ![Held] = v]
      BY <1>1, <1>5, <2>3, <3>2
    <3> HIDE DEF Node
    <3> QED
      BY <1>5, <2>1, <2>3, <3>3, <3>4
  <2> QED
    BY <2>2, <2>3
<1>7. hdr' \in [Buffers -> 0..MaxNodes]
      /\ (\A b \in got : hdr'[b] = Held) /\ \A b \in app : hdr'[b] = hdr[b]
  <2>1. got \subseteq Buffers /\ app \subseteq Buffers /\ app \cap got = {}
    BY <1>0, <1>3 DEF BufTypes
  <2> QED
    BY <1>0, <1>1, <1>5, <2>1 DEF BufTypes
<1>8. BufTypes'
  <2>1. app' \subseteq Buffers /\ stale' \subseteq Buffers
    BY <1>0, <1>1, <1>3 DEF BufTypes
  <2> QED
    BY <1>0, <1>1, <1>2, <1>4, <1>6, <1>7, <2>1 DEF BufTypes
<1>9. PathFacts'
  BY <1>0, <1>1, <1>4 DEF PathFacts
<1>10. WaitFacts'
  BY <1>0, <1>1, <1>2, <1>4, StillWaits DEF AnyFilled
<1>11. PlaceFacts'
  <2>1. ASSUME NEW i \in 1..Len(queue'), NEW j \in 1..Len(queue'), i # j
        PROVE  queue'[i].buf # queue'[j].buf
    <3>1. n + i # n + j
      BY <1>1, <1>2, <2>1
    <3> QED
      BY <1>0, <1>2, <3>1 DEF PlaceFacts
  <2>2. /\ app' \cup InQueue' \cup Moving' = Buffers
        /\ app' \cap InQueue' = {} /\ app' \cap Moving' = {} /\ InQueue' \cap Moving' = {}
    <3>1. /\ app \cup InQueue \cup Moving = Buffers
          /\ app \cap InQueue = {} /\ app \cap Moving = {} /\ InQueue \cap Moving = {}
      BY <1>0 DEF PlaceFacts
    <3> QED
      BY <1>1, <1>2, <1>5, <3>1
  <2> QED
    BY <2>1, <2>2 DEF PlaceFacts
<1>12. NodeFacts'
  <2>1. \A m \in lost : nodes'[m].occ /\ nodes'[m].buf = None
    <3>1. \A m \in lost : m \in Nodes /\ m # Held
      BY <1>0, BufConstants DEF NodeFacts, BufTypes, Nodes, BufFacts
    <3> QED
      BY <1>0, <1>6, <3>1 DEF NodeFacts
  <2>2. last # None
    BY <1>3, BufConstants DEF BufFacts
  <2>3. ASSUME NEW m \in Nodes
        PROVE  /\ ~nodes'[m].occ => nodes'[m].buf = None
               /\ nodes'[m].occ /\ m \notin lost => nodes'[m].buf # None
               /\ nodes'[m].buf # None => nodes'[m].buf \in app' /\ hdr'[nodes'[m].buf] = m
    <3>1. CASE m = Held
      <4>1. m # 0
        BY BufConstants DEF Nodes, BufFacts
      <4> QED
        BY <1>0, <1>1, <1>3, <1>6, <1>7, <2>2, <3>1, <4>1 DEF NodeFacts
    <3>2. CASE m # Held
      <4>1. /\ nodes'[m] = nodes[m]
            /\ ~nodes[m].occ => nodes[m].buf = None
            /\ nodes[m].occ /\ m \notin lost => nodes[m].buf # None
            /\ nodes[m].buf # None => nodes[m].buf \in app /\ hdr[nodes[m].buf] = m
        BY <1>0, <1>6, <3>2 DEF NodeFacts
      <4>2. ASSUME nodes[m].buf # None
            PROVE  nodes[m].buf \in app' /\ hdr'[nodes[m].buf] = m
        BY <1>1, <1>7, <4>1, <4>2
      <4> QED
        BY <4>1, <4>2
    <3> QED
      BY <3>1, <3>2
  <2> QED
    BY <1>1, <1>5, <2>1, <2>3 DEF NodeFacts
<1>13. HeaderFacts'
  <2> SUFFICES ASSUME NEW c \in app' \ stale', hdr'[c] # 0
               PROVE  nodes'[hdr'[c]].occ /\ nodes'[hdr'[c]].buf = c
    BY DEF HeaderFacts
  <2>1. CASE c \in got
    <3>1. c = last
      BY <1>1, <2>1
    <3>2. hdr'[c] = Held /\ Held # 0
      BY <1>7, <2>1
    <3> QED
      BY <1>0, <1>6, <3>1, <3>2 DEF NodeFacts
  <2>2. CASE c \notin got
    <3>1. c \in app /\ c \notin stale /\ hdr'[c] = hdr[c]
      BY <1>1, <1>3, <1>7, <2>2
    <3>2. nodes[hdr[c]].occ /\ nodes[hdr[c]].buf = c
      BY <1>0, <3>1 DEF HeaderFacts
    <3>3. hdr[c] \in Nodes /\ c # None
      BY <1>0, <3>1, BufConstants DEF BufTypes, Nodes, BufFacts
    <3>4. hdr[c] # Held
      BY <1>0, <3>1, <3>2, <3>3 DEF NodeFacts
    <3> QED
      BY <1>6, <3>1, <3>2, <3>3, <3>4
  <2> QED
    BY <2>1, <2>2
<1> QED
  BY <1>8, <1>9, <1>10, <1>11, <1>12, <1>13 DEF BufInv

\* The list of pass 2 gives its first buffer, or keeps it.
LEMMA StepPop ==
    ASSUME BufInv, Buf!Pop
    PROVE  BufInv'
<1>0. BufTypes /\ PathFacts /\ WaitFacts /\ PlaceFacts /\ NodeFacts /\ HeaderFacts
  BY DEF BufInv
<1>1. /\ deq.at = "pop" /\ deq' = Buf!Idle /\ queue # <<>> /\ queue \in Seq(Slot)
      /\ UNCHANGED <<path, nodes, hdr, enq, irq, frames, stale, lost, missed>>
  BY <1>0 DEF Buf!Pop, PathFacts, BufTypes
<1>2. deq'.at = "idle" /\ deq' \in DeqCalls /\ path = "pass2" /\ Moving' = Moving
      /\ Held' = 0 /\ Held = 0
  BY <1>0, <1>1 DEF Buf!Idle, DeqCalls, PathFacts, BufTypes, Moving, Held
<1>3. PathFacts'
  BY <1>0, <1>1, <1>2 DEF PathFacts
<1>4. Len(queue) \in Nat /\ Len(queue) > 0 /\ 1 \in 1..Len(queue)
  BY <1>1
<1>5. WaitFacts'
  BY <1>0, <1>1, <1>2 DEF WaitFacts
<1>6. CASE deq.ready
  <2>1. queue' = Tail(queue) /\ app' = app \cup {Head(queue).buf}
    BY <1>6 DEF Buf!Pop
  <2>2. queue' = SubSeq(queue, 1 + 1, Len(queue)) /\ Head(queue) = queue[1]
    BY <1>1, <2>1, TailIsSubSeq
  <2>3. /\ queue' \in Seq(Slot) /\ Len(queue') = Len(queue) - 1
        /\ \A j \in 1..Len(queue') : queue'[j] = queue[1 + j] /\ 1 + j \in 1..Len(queue)
        /\ InQueue' \cap {queue[k].buf : k \in 1..1} = {}
        /\ InQueue' \cup {queue[k].buf : k \in 1..1} = InQueue
    BY <1>0, <1>4, <2>2, Taken
  <2>4. {queue[k].buf : k \in 1..1} = {queue[1].buf}
    OBVIOUS
  <2>5. PlaceFacts'
    <3>1. ASSUME NEW i \in 1..Len(queue'), NEW j \in 1..Len(queue'), i # j
          PROVE  queue'[i].buf # queue'[j].buf
      <4>1. 1 + i # 1 + j
        BY <3>1
      <4> QED
        BY <1>0, <2>3, <4>1 DEF PlaceFacts
    <3>2. /\ app' \cup InQueue' \cup Moving' = Buffers
          /\ app' \cap InQueue' = {} /\ app' \cap Moving' = {} /\ InQueue' \cap Moving' = {}
      <4>1. /\ app \cup InQueue \cup Moving = Buffers
            /\ app \cap InQueue = {} /\ app \cap Moving = {} /\ InQueue \cap Moving = {}
        BY <1>0 DEF PlaceFacts
      <4>2. app' = app \cup {queue[1].buf}
        BY <2>1, <2>2
      <4> QED
        BY <1>2, <2>3, <2>4, <4>1, <4>2
    <3> QED
      BY <3>1, <3>2 DEF PlaceFacts
  <2>6. BufTypes'
    <3>1. queue[1].buf \in Buffers
      BY <1>0, <1>4 DEF PlaceFacts, InQueue
    <3>2. app' \subseteq Buffers
      BY <1>0, <2>1, <2>2, <3>1 DEF BufTypes
    <3> QED
      BY <1>0, <1>1, <1>2, <2>3, <3>2 DEF BufTypes
  <2>7. NodeFacts'
    BY <1>0, <1>1, <1>2, <2>1 DEF NodeFacts, PathFacts
  <2>8. HeaderFacts'
    <3>1. \A b \in Buffers : hdr'[b] = 0
      BY <1>0, <1>1, <1>2 DEF PathFacts
    <3>2. app' \subseteq Buffers
      BY <2>6 DEF BufTypes
    <3> QED
      BY <3>1, <3>2 DEF HeaderFacts
  <2> QED
    BY <1>3, <1>5, <2>5, <2>6, <2>7, <2>8 DEF BufInv
<1>7. CASE ~deq.ready
  <2>1. queue' = [queue EXCEPT ![1].filled = TRUE] /\ UNCHANGED app
    BY <1>7 DEF Buf!Pop
  <2>2. queue[1] \in Slot
    BY <1>1, <1>4
  <2>3. PICK v \in Slot : v = [queue[1] EXCEPT !.filled = TRUE]
    BY <2>2 DEF Slot
  <2>4. v.buf = queue[1].buf
    BY <2>2, <2>3 DEF Slot
  <2>5. queue' = [queue EXCEPT ![1] = v]
    BY <1>1, <1>4, <2>1, <2>3
  <2>6. /\ queue' \in Seq(Slot) /\ Len(queue') = Len(queue)
        /\ \A j \in 1..Len(queue) : queue'[j] = IF j = 1 THEN v ELSE queue[j]
    BY <1>1, <1>4, <2>5, Replaced
  <2>7. ASSUME NEW j \in 1..Len(queue) PROVE queue'[j].buf = queue[j].buf
    BY <2>4, <2>6
  <2>8. PlaceFacts' /\ NodeFacts' /\ HeaderFacts'
    BY <1>1, <1>2, <2>1, <2>6, <2>7, NothingMoves
  <2>9. BufTypes'
    BY <1>0, <1>1, <1>2, <2>1, <2>6 DEF BufTypes
  <2> QED
    BY <1>3, <1>5, <2>8, <2>9 DEF BufInv
<1> QED
  BY <1>6, <1>7

\* A camera starts.
LEMMA StepInitPath ==
    ASSUME BufInv, Buf!InitPath
    PROVE  BufInv'
<1>0. BufTypes /\ PathFacts /\ WaitFacts /\ PlaceFacts /\ NodeFacts /\ HeaderFacts
  BY DEF BufInv
<1>1. /\ path = "pass1" /\ deq = Buf!Idle /\ lost' = {} /\ stale' = stale \cup app
      /\ nodes' = [n \in Nodes |-> Buf!Free]
      /\ UNCHANGED <<path, app, queue, hdr, enq, deq, irq, frames, missed>>
  BY DEF Buf!InitPath, Buf!Nodes, Nodes
<1>2. Held' = 0 /\ Moving' = Moving
  BY <1>1 DEF Held, Moving, Buf!Idle
<1>3. Buf!Free \in Node /\ ~Buf!Free.occ /\ Buf!Free.buf = None
  BY DEF Buf!Free, Node
<1>4. BufTypes'
  <2>1. nodes' \in [Nodes -> Node] /\ stale' \subseteq Buffers
    BY <1>0, <1>1, <1>3 DEF BufTypes
  <2> QED
    BY <1>0, <1>1, <2>1 DEF BufTypes
<1>5. PathFacts' /\ WaitFacts'
  BY <1>0, <1>1 DEF PathFacts, WaitFacts, AnyFilled
<1>6. PlaceFacts'
  BY <1>0, <1>1, <1>2 DEF PlaceFacts, InQueue
<1>7. NodeFacts'
  BY <1>1, <1>2, <1>3 DEF NodeFacts
<1>8. HeaderFacts'
  BY <1>1 DEF HeaderFacts
<1> QED
  BY <1>4, <1>5, <1>6, <1>7, <1>8 DEF BufInv

\* Every step of the two threads, the sensor and the kernel keeps BufInv.
LEMMA BufStep ==
    ASSUME BufInv, [Buf!Next]_bufVars
    PROVE  BufInv'
<1>1. CASE UNCHANGED bufVars
  <2>1. UNCHANGED <<path, app, queue, nodes, hdr, enq, deq, irq, frames, stale, lost, missed>>
    BY <1>1 DEF bufVars
  <2>2. Moving' = Moving /\ Held' = Held
    BY <2>1 DEF Moving, Held
  <2>3. PlaceFacts' /\ NodeFacts' /\ HeaderFacts'
    BY <2>1, <2>2, NothingMoves
  <2>4. BufTypes' /\ PathFacts' /\ WaitFacts'
    BY <2>1 DEF BufInv, BufTypes, PathFacts, WaitFacts, AnyFilled
  <2> QED
    BY <2>3, <2>4 DEF BufInv
<1>2. CASE Buf!Next
  BY <1>2, StepWait, StepFrame, StepGetSize, StepEnqueue, StepEnqueueFails, StepEnqueueKernel,
     StepEnqueuePass2, StepDequeue, StepDequeueFails, StepDequeueKernel, StepPop, StepInitPath
  DEF Buf!Next
<1> QED
  BY <1>1, <1>2

\* BufInv holds when the application has all buffers.
LEMMA BufInit == Buf!Init => BufInv
<1> SUFFICES ASSUME Buf!Init PROVE BufInv
  OBVIOUS
<1>1. /\ path \in {"pass1", "pass2"} /\ app = Buffers /\ queue = <<>>
      /\ nodes = [n \in Nodes |-> Buf!Free] /\ hdr = [b \in Buffers |-> 0]
      /\ enq = Buf!Idle /\ deq = Buf!Idle
      /\ irq = FALSE /\ frames = 0 /\ stale = {} /\ lost = {} /\ missed = FALSE
  BY DEF Buf!Init, Buf!Nodes, Nodes
<1>2. Buf!Free \in Node /\ ~Buf!Free.occ /\ Buf!Free.buf = None /\ Buf!Idle.at = "idle"
  BY DEF Buf!Free, Node, Buf!Idle
<1>3. Held = 0 /\ Moving = {} /\ InQueue = {}
  BY <1>1, <1>2 DEF Held, Moving, InQueue
<1>4. BufTypes
  <2>1. 0 \in 0..MaxNodes /\ 0 \in 0..MaxFrames
    BY BufConstants DEF BufFacts
  <2>2. nodes \in [Nodes -> Node] /\ hdr \in [Buffers -> 0..MaxNodes]
    BY <1>1, <1>2, <2>1
  <2>3. deq \in DeqCalls /\ queue \in Seq(Slot)
    BY <1>1 DEF DeqCalls
  <2> QED
    BY <1>1, <2>1, <2>2, <2>3 DEF BufTypes
<1>5. PathFacts /\ WaitFacts
  BY <1>1, <1>2 DEF PathFacts, WaitFacts
<1>6. PlaceFacts
  BY <1>1, <1>3 DEF PlaceFacts
<1>7. NodeFacts /\ HeaderFacts
  BY <1>1, <1>2, <1>3 DEF NodeFacts, HeaderFacts
<1> QED
  BY <1>4, <1>5, <1>6, <1>7 DEF BufInv

\* A queue without repetition has as many entries as buffers.
LEMMA QueueCounts ==
    ASSUME BufTypes, PlaceFacts
    PROVE  IsFiniteSet(InQueue) /\ Cardinality(InQueue) = Len(queue)
<1> DEFINE f == [k \in 1..Len(queue) |-> queue[k].buf]
<1>1. Len(queue) \in Nat
  BY DEF BufTypes
<1>2. f \in Bijection(1..Len(queue), InQueue)
  <2>1. f \in [1..Len(queue) -> InQueue]
    BY DEF InQueue
  <2>2. \A j, k \in 1..Len(queue) : f[j] = f[k] => j = k
    BY DEF PlaceFacts
  <2>3. \A b \in InQueue : \E k \in 1..Len(queue) : f[k] = b
    BY DEF InQueue
  <2> QED
    BY <2>1, <2>2, <2>3 DEF Bijection, Injection, Surjection, IsInjective
<1>3. ExistsBijection(1..Len(queue), InQueue)
  BY <1>2 DEF ExistsBijection
<1>4. InQueue \in SUBSET Buffers
  BY DEF PlaceFacts
<1> QED
  BY <1>1, <1>3, <1>4, FS_CountingElements, FS_Subset, BufConstants DEF BufFacts

\* BufInv is an invariant.
LEMMA BufInvariance == Spec => []BufInv
<1>1. Init => BufInv
  BY BufInit DEF Init
<1>2. BufInv /\ [Next]_vars => BufInv'
  BY Parts, BufStep
<1> QED
  BY <1>1, <1>2, PTL DEF Spec

\* ShellInv is an invariant.
LEMMA ShellInvariance == Spec => []ShellInv
<1>1. Init => ShellInv
  BY ShellInit DEF Init
<1>2. ShellInv /\ [Next]_vars => ShellInv'
  BY Parts, ShellStep
<1> QED
  BY <1>1, <1>2, PTL DEF Spec

\* For any buffers, nodes and frames, and any number of waits above one: no buffer
\* is lost or at two places between enqueueHwBuf() and dequeueHwBuf(), no frame is
\* missed, and the nodes of m_p1DeqedBufHeaderL describe the buffers of the
\* application.
THEOREM BuffersAreConserved == Spec => []BuffersConserved
<1>1. ASSUME BufInv PROVE /\ Buf!TypeOK /\ Buf!BuffersConserved /\ Buf!NoFrameMissed
                          /\ Buf!HeaderDescribesBuffer /\ Buf!NodesAccounted
  <2>0. BufTypes /\ PathFacts /\ WaitFacts /\ PlaceFacts /\ NodeFacts /\ HeaderFacts
    BY <1>1 DEF BufInv
  <2>1. Buf!TypeOK
    <3>1. enq.at \in {"idle", "size", "put"}
          /\ deq.at \in {"idle", "check", "wait", "irq", "ready", "kernel", "mdp", "pop"}
      BY <2>0, CallKinds
    <3> QED
      BY <2>0, <3>1 DEF BufTypes, Buf!TypeOK, Slot, Node, Nodes, Buf!Nodes
  <2>2. Buf!Queued = InQueue
    BY <2>0 DEF Buf!Queued, InQueue, BufTypes
  <2>3. Buf!BuffersConserved
    <3>1. IsFiniteSet(Buffers)
      BY BufConstants DEF BufFacts
    <3>2. IsFiniteSet(InQueue) /\ Cardinality(InQueue) = Len(queue)
      BY <2>0, QueueCounts
    <3>3. app \in SUBSET Buffers /\ Moving \in SUBSET Buffers
      BY <2>0 DEF PlaceFacts
    <3>4. IsFiniteSet(app) /\ IsFiniteSet(Moving)
      BY <3>1, <3>3, FS_Subset
    <3>5. /\ app \cup InQueue \cup Moving = Buffers
          /\ app \cap InQueue = {} /\ app \cap Moving = {} /\ InQueue \cap Moving = {}
      BY <2>0 DEF PlaceFacts
    <3>6. /\ IsFiniteSet(app \cup InQueue)
          /\ Cardinality(app \cup InQueue) = Cardinality(app) + Cardinality(InQueue) - Cardinality({})
      BY <3>2, <3>4, <3>5, FS_Union
    <3>7. (app \cup InQueue) \cap Moving = {}
      BY <3>5
    <3>8. Cardinality(Buffers) = Cardinality(app \cup InQueue) + Cardinality(Moving) - Cardinality({})
      BY <3>4, <3>5, <3>6, <3>7, FS_Union
    <3>9. /\ Cardinality({}) = 0 /\ Cardinality(app) \in Nat /\ Cardinality(InQueue) \in Nat
          /\ Cardinality(Moving) \in Nat
      BY <3>2, <3>4, FS_EmptySet, FS_CardinalityType
    <3>10. Len(queue) + Cardinality(app) + Cardinality(Moving) = Cardinality(Buffers)
      BY <3>2, <3>6, <3>8, <3>9
    <3>11. Moving = IF enq = Buf!Idle THEN {} ELSE {enq.buf}
      BY DEF Moving
    <3> QED
      BY <2>2, <3>5, <3>10, <3>11 DEF Buf!BuffersConserved, Buf!Cardinality, Cardinality
  <2>4. Buf!NoFrameMissed
    BY <2>0 DEF Buf!NoFrameMissed, WaitFacts
  <2>5. Buf!HeaderDescribesBuffer
    <3> SUFFICES ASSUME NEW b \in app \ stale, hdr[b] # 0
                 PROVE  nodes[hdr[b]] = [occ |-> TRUE, buf |-> b]
      BY DEF Buf!HeaderDescribesBuffer
    <3>1. nodes[hdr[b]].occ /\ nodes[hdr[b]].buf = b
      BY <2>0 DEF HeaderFacts
    <3>2. nodes[hdr[b]] \in Node
      BY <2>0, BufConstants DEF BufTypes, Nodes, BufFacts
    <3> QED
      BY <3>1, <3>2 DEF Node
  <2>6. Buf!NodesAccounted
    <3> SUFFICES ASSUME NEW n \in Nodes, nodes[n].occ, n \notin lost, ~(deq.at = "kernel" /\ deq.node = n)
                 PROVE  nodes[n].buf \in app /\ hdr[nodes[n].buf] = n
      BY DEF Buf!NodesAccounted, Buf!Nodes, Nodes
    <3>1. n # Held
      BY BufConstants DEF Held, Nodes, BufFacts
    <3> QED
      BY <2>0, <3>1 DEF NodeFacts
  <2> QED
    BY <2>1, <2>3, <2>4, <2>5, <2>6
<1>2. TuneInv => Tuning!TypeOK
  <2> SUFFICES ASSUME TuneTypes PROVE Tuning!TypeOK
    BY DEF TuneInv
  <2>1. kept \in 0..MaxTunes /\ dropped \in 0..MaxTunes
    <3>1. kept \in Nat /\ dropped \in Nat /\ kept <= tunes /\ tunes \in Nat /\ tunes <= MaxTunes /\ MaxTunes \in Nat
      BY IspAssumption DEF TuneTypes
    <3>2. kept = dropped \/ kept = dropped + 1
      BY DEF TuneTypes
    <3> QED
      BY <3>1, <3>2
  <2>2. call = Tuning!Idle \/ call.at \in Tuning!Steps
    BY DEF TuneTypes, Calls
  <2>3. mode \in DOMAIN Tuning!SidesOf
    BY DEF TuneTypes, Tuning!SidesOf
  <2> QED
    BY <2>1, <2>2, <2>3 DEF TuneTypes, Tuning!TypeOK, Sides, CopyIds, Copy, Values
<1>3. BufInv /\ TopInv /\ ShellInv /\ TuneInv => BuffersConserved
  BY <1>1, <1>2 DEF BuffersConserved, TopInv, ShellInv
<1> QED
  BY <1>3, BufInvariance, TopInvariance, ShellInvariance, TuneInvariance, PTL

=============================================================================
