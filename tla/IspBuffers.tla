----------------------------- MODULE IspBuffers -----------------------------
(***************************************************************************)
(* ISP_BUF_CTRL of the MTK camera (isp_function.cpp): buffers travel from  *)
(* the application to the hardware and back.  One thread enqueues while    *)
(* another waits for a frame and dequeues.                                 *)
(*                                                                         *)
(* Pass 1 keeps its buffers in a ring of the kernel; a buffer that comes   *)
(* back has a record of the frame in a node of m_p1DeqedBufHeaderL, which  *)
(* the next enqueue of the buffer frees.  Pass 2 keeps them in m_p2HwBufL. *)
(* One DMA channel is modelled; the ring and the IRQ are the kernel's.     *)
(***************************************************************************)
EXTENDS Naturals, Sequences, FiniteSetsExt, SequencesExt

CONSTANTS
  Buffers,
  MaxNodes,   \* ISP_BUF_INFO_NODE_MAX_CNT
  RingSize,   \* ISP_RT_CQ0C_BUF_SIZE
  MaxWaits,   \* MAX_CNT: waits of a second in waitBufReady()
  MaxFrames,  \* bound on frames of the sensor
  None

VARIABLES
  path,       \* this->path: "pass1" or "pass2"
  app,        \* buffers the application has
  queue,      \* the ring of pass 1, or m_p2HwBufL: buffers, and whether filled
  nodes,      \* m_p1DeqedBufHeaderL: which nodes are taken, and for what
  hdr,        \* header_info of the application's buffers
  enq, deq,   \* the calls under way
  irq,        \* status of PASS1_DONE
  frames,
  stale,      \* buffers whose header may be another's (history)
  lost,       \* nodes taken by a dequeue that got no buffer (history)
  missed      \* a wait failed although a frame was there (history)

vars == <<path, app, queue, nodes, hdr, enq, deq, irq, frames, stale, lost, missed>>

Nodes == 1..MaxNodes
Free == [occ |-> FALSE, buf |-> None]
Idle == [at |-> "idle"]

TypeOK ==
  /\ path \in {"pass1", "pass2"} /\ app \subseteq Buffers
  /\ queue \in Seq([buf : Buffers, filled : BOOLEAN])
  /\ nodes \in [Nodes -> [occ : BOOLEAN, buf : Buffers \cup {None}]]
  /\ hdr \in [Buffers -> 0..MaxNodes]
  /\ enq.at \in {"idle", "size", "put"}
  /\ deq.at \in {"idle", "check", "wait", "irq", "ready", "kernel", "mdp", "pop"}
  /\ irq \in BOOLEAN /\ frames \in 0..MaxFrames /\ missed \in BOOLEAN
  /\ stale \subseteq Buffers /\ lost \subseteq Nodes

Init ==
  /\ path \in {"pass1", "pass2"}
  /\ app = Buffers /\ queue = <<>> /\ nodes = [n \in Nodes |-> Free]
  /\ hdr = [b \in Buffers |-> 0] /\ enq = Idle /\ deq = Idle
  /\ irq = FALSE /\ frames = 0 /\ stale = {} /\ lost = {} /\ missed = FALSE

Queued == {queue[k].buf : k \in DOMAIN queue}
Filled == {k \in DOMAIN queue : queue[k].filled}

-----------------------------------------------------------------------------
(* enqueueHwBuf() *)

\* returnDeqBufInfo(): the first node of this buffer, or of the one that is to
\* take its place, is free again.
ReturnDeqBufInfo(b) ==
  LET of == {n \in Nodes : nodes[n].buf = b}
  IN nodes' = IF of = {} THEN nodes ELSE [nodes EXCEPT ![Min(of)] = Free]

\* A buffer of pass 1, or a new one in the place of one that is in the ring.
Enqueue(b, old) ==
  /\ path = "pass1" /\ enq = Idle /\ b \in app
  /\ old \in {None} \cup Queued
  /\ ReturnDeqBufInfo(b)
  /\ lost' = {n \in lost : nodes'[n].occ}
  /\ enq' = [at |-> "size", buf |-> b, old |-> old]
  /\ app' = app \ {b}
  /\ UNCHANGED <<path, queue, hdr, deq, irq, frames, stale, missed>>

\* ISP_RT_BUF_CTRL_GET_SIZE: a full ring is an error.
GetSize ==
  /\ enq.at = "size" /\ Len(queue) < RingSize
  /\ enq' = [enq EXCEPT !.at = "put"]
  /\ UNCHANGED <<path, app, queue, nodes, hdr, deq, irq, frames, stale, lost, missed>>

\* The application keeps its buffer, but the header is gone.
EnqueueFails ==
  /\ enq.at \in {"size", "put"}
  /\ enq' = Idle /\ app' = app \cup {enq.buf} /\ stale' = stale \cup {enq.buf}
  /\ UNCHANGED <<path, queue, nodes, hdr, deq, irq, frames, lost, missed>>

\* ISP_RT_BUF_CTRL_ENQUE: at the end of the ring, or in the place of a buffer
\* that is still empty, which goes back to the application.
EnqueueKernel ==
  LET at == {k \in DOMAIN queue : queue[k].buf = enq.old /\ ~queue[k].filled}
      new == [buf |-> enq.buf, filled |-> FALSE]
  IN /\ enq.at = "put"
     /\ IF at = {} THEN queue' = Append(queue, new) /\ UNCHANGED <<app, hdr>>
        ELSE /\ queue' = [queue EXCEPT ![Min(at)] = new]
             /\ app' = app \cup {enq.old} /\ hdr' = [hdr EXCEPT ![enq.old] = 0]
     /\ enq' = Idle
     /\ UNCHANGED <<path, nodes, deq, irq, frames, stale, lost, missed>>

\* Pass 2: the end of the list, under gPass2Lock.
EnqueuePass2(b) ==
  /\ path = "pass2" /\ b \in app
  /\ app' = app \ {b} /\ queue' = Append(queue, [buf |-> b, filled |-> FALSE])
  /\ UNCHANGED <<path, nodes, hdr, enq, deq, irq, frames, stale, lost, missed>>

-----------------------------------------------------------------------------
(* The sensor and the kernel *)

\* PASS1_DONE: the first empty buffer is filled, if there is one.
Frame ==
  LET empty == {k \in DOMAIN queue : ~queue[k].filled}
  IN /\ path = "pass1" /\ frames < MaxFrames
     /\ frames' = frames + 1 /\ irq' = TRUE
     /\ queue' = IF empty = {} THEN queue ELSE [queue EXCEPT ![Min(empty)].filled = TRUE]
     /\ UNCHANGED <<path, app, nodes, hdr, enq, deq, stale, lost, missed>>

-----------------------------------------------------------------------------
(* waitBufReady() *)

\* ISP_RT_BUF_CTRL_IS_RDY, once before the loop and at the head of it.
WaitBufReady ==
  /\ path = "pass1" /\ deq = Idle
  /\ deq' = IF Filled # {} THEN [at |-> "ready"] ELSE [at |-> "check", waits |-> 0]
  /\ UNCHANGED <<path, app, queue, nodes, hdr, enq, irq, frames, stale, lost, missed>>

CheckReady ==
  /\ deq.at = "check"
  /\ deq' = IF Filled # {} THEN [at |-> "ready"] ELSE [deq EXCEPT !.at = "wait"]
  /\ UNCHANGED <<path, app, queue, nodes, hdr, enq, irq, frames, stale, lost, missed>>

\* waitIrq(): the first wait clears the status before it waits.
WaitIrq ==
  /\ deq.at = "wait"
  /\ deq' = [deq EXCEPT !.at = "irq", !.waits = @ + 1]
  /\ irq' = IF deq.waits = 0 THEN FALSE ELSE irq
  /\ UNCHANGED <<path, app, queue, nodes, hdr, enq, frames, stale, lost, missed>>

IrqArrives ==
  /\ deq.at = "irq" /\ irq /\ irq' = FALSE
  /\ deq' = [at |-> "ready"]
  /\ UNCHANGED <<path, app, queue, nodes, hdr, enq, frames, stale, lost, missed>>

\* A second without an interrupt; after the last one the call fails, and only
\* logs why.
WaitTimeout ==
  /\ deq.at = "irq" /\ ~irq
  /\ IF deq.waits < MaxWaits THEN deq' = [deq EXCEPT !.at = "check"] /\ UNCHANGED missed
     ELSE deq' = Idle /\ missed' = (missed \/ Filled # {})
  /\ UNCHANGED <<path, app, queue, nodes, hdr, enq, irq, frames, stale, lost>>

-----------------------------------------------------------------------------
(* dequeueHwBuf() *)

\* saveDeqBufInfo(): the first free node is taken.
SaveDeqBufInfo(n) == nodes' = IF n = 0 THEN nodes ELSE [nodes EXCEPT ![n] = [occ |-> TRUE, buf |-> None]]

Dequeue ==
  LET free == {n \in Nodes : ~nodes[n].occ}
      n == IF free = {} THEN 0 ELSE Min(free)
  IN /\ deq.at = "ready"
     /\ SaveDeqBufInfo(n)
     /\ deq' = [at |-> "kernel", node |-> n]
     /\ UNCHANGED <<path, app, queue, hdr, enq, irq, frames, stale, lost, missed>>

\* ISP_RT_BUF_CTRL_DEQUE gives the filled buffers at the head of the ring, one
\* as a rule; all of them get the one node, which keeps what was copied last.
DequeueKernel(n) ==
  LET got == {queue[k].buf : k \in 1..n}
      last == queue[n].buf
  IN /\ deq.at = "kernel" /\ n \in 1..Len(queue) /\ 1..n \subseteq Filled
     /\ queue' = SubSeq(queue, n + 1, Len(queue))
     /\ app' = app \cup got
     /\ hdr' = [b \in Buffers |-> IF b \in got THEN deq.node ELSE hdr[b]]
     /\ nodes' = IF deq.node = 0 THEN nodes ELSE [nodes EXCEPT ![deq.node].buf = last]
     /\ stale' = (stale \ {last}) \cup (got \ {last})
     /\ deq' = Idle
     /\ UNCHANGED <<path, enq, irq, frames, lost, missed>>

\* It fails, gives none or too many: the node stays taken.
DequeueFails ==
  /\ deq.at = "kernel" /\ deq' = Idle
  /\ lost' = IF deq.node = 0 THEN lost ELSE lost \cup {deq.node}
  /\ UNCHANGED <<path, app, queue, nodes, hdr, enq, irq, frames, stale, missed>>

\* Pass 2: gPass2Lock is held to look at the list and again to take from it,
\* and not while the MDP is waited for.
DequeuePass2 ==
  /\ path = "pass2" /\ deq = Idle /\ queue # <<>>
  /\ deq' \in {[at |-> "mdp"], [at |-> "pop", ready |-> TRUE]}
  /\ UNCHANGED <<path, app, queue, nodes, hdr, enq, irq, frames, stale, lost, missed>>

\* MDPMGR dequeueBuf(): done, not ready yet (MDPMGR_VSS_NOT_READY), or failed.
DequeueMdp ==
  /\ deq.at = "mdp"
  /\ deq' \in {Idle, [at |-> "pop", ready |-> TRUE], [at |-> "pop", ready |-> FALSE]}
  /\ UNCHANGED <<path, app, queue, nodes, hdr, enq, irq, frames, stale, lost, missed>>

\* Mutant: the buffer leaves the list although it is not ready.
PopMutant ==
  /\ deq.at = "pop" /\ deq' = Idle
  /\ queue' = Tail(queue)
  /\ app' = IF deq.ready THEN app \cup {Head(queue).buf} ELSE app
  /\ UNCHANGED <<path, nodes, hdr, enq, irq, frames, stale, lost, missed>>

\* The first buffer is marked and given to the caller; it stays on the list
\* when it was not ready.
Pop ==
  /\ deq.at = "pop" /\ deq' = Idle
  /\ IF deq.ready
       THEN queue' = Tail(queue) /\ app' = app \cup {Head(queue).buf}
       ELSE queue' = [queue EXCEPT ![1].filled = TRUE] /\ UNCHANGED app
  /\ UNCHANGED <<path, nodes, hdr, enq, irq, frames, stale, lost, missed>>

\* ISP_BUF_CTRL::init(), when a camera starts: pass 1 forgets all nodes.
InitPath ==
  /\ path = "pass1" /\ enq = Idle /\ deq = Idle /\ nodes # [n \in Nodes |-> Free]
  /\ nodes' = [n \in Nodes |-> Free] /\ stale' = stale \cup app /\ lost' = {}
  /\ UNCHANGED <<path, app, queue, hdr, enq, deq, irq, frames, missed>>

Next ==
  \/ \E b \in Buffers : EnqueuePass2(b) \/ \E old \in Buffers \cup {None} : Enqueue(b, old)
  \/ GetSize \/ EnqueueFails \/ EnqueueKernel \/ Frame
  \/ WaitBufReady \/ CheckReady \/ WaitIrq \/ IrqArrives \/ WaitTimeout
  \/ Dequeue \/ DequeueFails \/ \E n \in 1..RingSize : DequeueKernel(n)
  \/ DequeuePass2 \/ DequeueMdp \/ Pop \/ InitPath

Spec == Init /\ [][Next]_vars

-----------------------------------------------------------------------------
\* The header an application's buffer came with describes that very frame for
\* as long as the application has the buffer, although nodes are reused by the
\* other thread all the time.  It cannot for buffers that were dequeued several
\* at a time, whose enqueue failed, or that were out when the camera restarted.
HeaderDescribesBuffer ==
  \A b \in app \ stale :
    hdr[b] # 0 => nodes[hdr[b]] = [occ |-> TRUE, buf |-> b]

\* Nodes run out only by failed dequeues: any other node that is taken belongs
\* to a buffer of the application, or to the dequeue under way.
NodesAccounted ==
  \A n \in Nodes : nodes[n].occ =>
    \/ n \in lost
    \/ deq.at = "kernel" /\ deq.node = n
    \/ nodes[n].buf \in app /\ hdr[nodes[n].buf] = n

\* A buffer is at one place, and at no time lost: with the application, with
\* the hardware, or on its way there.
BuffersConserved ==
  LET moving == IF enq = Idle THEN {} ELSE {enq.buf}
  IN /\ app \cup Queued \cup moving = Buffers
     /\ Len(queue) + Cardinality(app) + Cardinality(moving) = Cardinality(Buffers)

\* waitBufReady() does not give up on a frame that has been there since before
\* its last wait: a PASS1_DONE that the clearing wait throws away is caught by
\* the check before the next one.
NoFrameMissed == ~missed
=============================================================================
