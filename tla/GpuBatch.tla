------------------------------- MODULE GpuBatch -------------------------------
(***************************************************************************)
(* ggml-gpud: how the llama.cpp backend turns a compute graph into batches *)
(* of GPU stages.  Stages of one batch run in one command buffer; the GPU  *)
(* orders two of them only if a barrier lies between, and the encoder asks *)
(* for a barrier only where its byte-range tracking finds a dependency.    *)
(* Matrix products first quantise their operand x into one scratch buffer, *)
(* a stage that is left out when x is still there.  Nodes that cannot be   *)
(* encoded run on the CPU after the pending batch.                         *)
(*                                                                         *)
(* A cell is a byte range no operation splits; tensors are sets of cells   *)
(* and may overlap (views).  The content of a cell is the number of the    *)
(* node (or host write) that produced it.  Weights are left out: nothing   *)
(* ever writes them.                                                       *)
(***************************************************************************)
EXTENDS Integers, Sequences, FiniteSets

CONSTANTS Cells,      \* cells of the tensors' dmabuf
          Scratch,    \* the scratch buffer, as one more cell
          Tensors,
          Area,       \* Area[t]: the cells of tensor t
          MaxStage,   \* maxstage: stages after which a batch is full
          Sizes,      \* scratch sizes a product may need
          MaxNode,    \* bound: nodes and host writes of a behaviour
          None

All == Cells \cup {Scratch}

ASSUME AreaAssumption == Area \in [Tensors -> SUBSET Cells]
ASSUME StageAssumption == MaxStage \in Nat \ {0} /\ MaxNode \in Nat
ASSUME SizesAssumption == Sizes \subseteq Nat \ {0}
ASSUME NoneAssumption == None \notin Tensors /\ Scratch \notin Cells

VARIABLES
  pc,        \* where gpud_graph_compute is; "idle" between graphs
  node,      \* node being encoded: its operand x, result y, and scratch need
  n,         \* number of the current node, or of the latest host write
  batch,     \* enc.st: stages of the open batch
  rd, wr,    \* enc.rd_, enc.wr_: accesses since the last barrier
  busy,      \* the batch has been handed to gpud-zc
  done,      \* stages of the batch the GPU has executed
  qx,        \* ctx->qx: tensor whose quantisation lies in the scratch
  scr,       \* what the scratch holds
  size,      \* scratch_sz: its size, 0 before the first product
  sound,     \* scratch_ok: there is a scratch of that size
  mem,       \* what the cells hold
  ref,       \* what they would hold after a node-by-node execution
  wrong,     \* nodes that were computed from other inputs than those
  lost       \* history: a batch of this graph, or the growth of the scratch, failed

encoder == <<batch, rd, wr>>
gpu     == <<busy, done>>
data    == <<scr, mem, ref, wrong>>
scratch == <<qx, size, sound>>
vars    == <<pc, node, n, encoder, gpu, scratch, data, lost>>

NoNode  == [op |-> "op", x |-> None, y |-> None, need |-> 0]
Nodes   == [op : {"op"}, x : Tensors, y : Tensors, need : {0}]
             \cup [op : {"mul_mat"}, x : Tensors, y : Tensors, need : Sizes]
Garbage == [c \in Cells |-> 0]

\* q8_1 of tensor t when the cells hold m; never Garbage.
Quantised(t, m) == [c \in Cells |-> IF c \in Area[t] THEN m[c] + 1 ELSE 0]

Update(m, t) == [c \in Cells |-> IF c \in Area[t] THEN n ELSE m[c]]

Init ==
  /\ pc = "idle" /\ node = NoNode /\ n = 0
  /\ batch = <<>> /\ rd = {} /\ wr = {}
  /\ busy = FALSE /\ done = {}
  /\ qx = None /\ size = 0 /\ sound = TRUE
  /\ scr = Garbage /\ mem = Garbage /\ ref = Garbage /\ wrong = {}
  /\ lost = FALSE

-------------------------------------------------------------------------------
(* Host *)

\* set_tensor / cpy_tensor between graphs: take the buffer, write it.
HostWrite(t) ==
  /\ pc = "idle" /\ n < MaxNode
  /\ n' = n + 1
  /\ mem' = [c \in Cells |-> IF c \in Area[t] THEN n + 1 ELSE mem[c]]
  /\ ref' = [c \in Cells |-> IF c \in Area[t] THEN n + 1 ELSE ref[c]]
  /\ UNCHANGED <<pc, node, encoder, gpu, scratch, scr, wrong, lost>>

\* Mutant of StartGraph: the scratch of the previous graph is trusted.
StartGraphKeepsScratch ==
  /\ pc = "idle"
  /\ pc' = "next" /\ lost' = FALSE
  /\ batch' = <<>> /\ rd' = {} /\ wr' = {}
  /\ UNCHANGED <<node, n, gpu, scratch, data>>

\* gpud_graph_compute: flush the buffers to the GPU once, forget the scratch.
StartGraph ==
  /\ pc = "idle"
  /\ pc' = "next" /\ qx' = None /\ lost' = FALSE
  /\ batch' = <<>> /\ rd' = {} /\ wr' = {}
  /\ UNCHANGED <<node, n, gpu, size, sound, data>>

\* The caller sees the status and reads results; a failed graph is abandoned.
Return ==
  /\ pc \in {"success", "failed"}
  /\ pc' = "idle" /\ ref' = mem /\ wrong' = {}
  /\ UNCHANGED <<node, n, encoder, gpu, scratch, scr, mem, lost>>

-------------------------------------------------------------------------------
(* Encoder *)

Full == Len(batch) >= MaxStage

\* Mutant of NeedsBarrier: write-after-read is not looked for.
NeedsBarrierNoWar(reads, writes) == (reads \cup writes) \cap wr # {}

\* barrier_flag: read-after-write, write-after-write, write-after-read.
NeedsBarrier(reads, writes) ==
  \/ reads \cap wr # {}
  \/ writes \cap (wr \cup rd) # {}

\* push / push_raw: append a stage.  Writers count as readers as well.
Push(kind, reads, writes) ==
  LET b == NeedsBarrier(reads, writes) IN
  /\ ~Full
  /\ batch' = Append(batch, [kind |-> kind, node |-> n, x |-> node.x, y |-> node.y,
                             rd |-> reads, wr |-> writes, bar |-> b, want |-> ref])
  /\ rd' = (IF b THEN {} ELSE rd) \cup reads \cup writes
  /\ wr' = (IF b THEN {} ELSE wr) \cup writes

\* Take the next node of the graph.
NextNode(d) ==
  /\ pc = "next" /\ n < MaxNode
  /\ node' = d /\ n' = n + 1
  /\ pc' = IF d.need > size THEN "grow"
           ELSE IF d.op = "mul_mat" /\ qx # d.x THEN "quant" ELSE "push"
  /\ UNCHANGED <<encoder, gpu, scratch, data, lost>>

\* gpud_scratch_ensure: a larger scratch with undefined content.
Grow ==
  /\ pc = "grow" /\ batch = <<>>
  /\ size' = node.need /\ sound' = TRUE /\ scr' = Garbage /\ qx' = None
  /\ pc' = "quant"
  /\ UNCHANGED <<node, n, encoder, gpu, mem, ref, wrong, lost>>

\* The old scratch is freed, a larger one cannot be had: the size and qx stay.
GrowFails ==
  /\ pc = "grow" /\ batch = <<>>
  /\ sound' = FALSE /\ scr' = Garbage /\ lost' = TRUE
  /\ pc' = "cpu"
  /\ UNCHANGED <<node, n, encoder, gpu, qx, size, mem, ref, wrong>>

PushQuantise ==
  /\ pc = "quant" /\ ~busy
  /\ Push("quant", Area[node.x], {Scratch})
  /\ qx' = node.x /\ pc' = "push"
  /\ UNCHANGED <<node, n, gpu, size, sound, data, lost>>

\* The scratch no longer matches a tensor that a node has written over.
StillQuantised(t) ==
  IF qx # None /\ Area[qx] \cap Area[t] # {} THEN None ELSE qx

PushNode ==
  /\ pc = "push" /\ ~busy
  /\ Push(node.op, IF node.op = "op" THEN Area[node.x] ELSE {Scratch}, Area[node.y])
  /\ ref' = Update(ref, node.y)
  /\ qx' = StillQuantised(node.y) /\ pc' = "next"
  /\ UNCHANGED <<node, n, gpu, size, sound, scr, mem, wrong, lost>>

\* encode_node gives up: unsupported operation, binding or range refused.
EncodeFails ==
  /\ pc \in {"quant", "push"} /\ ~busy
  /\ pc' = "cpu"
  /\ UNCHANGED <<node, n, encoder, gpu, scratch, data, lost>>

\* Mutant of CpuNode: the node does not wait for the open batch.
CpuNodeEarly ==
  /\ pc = "cpu"
  /\ mem' = Update(mem, node.y) /\ ref' = Update(ref, node.y)
  /\ qx' = StillQuantised(node.y) /\ pc' = "next"
  /\ UNCHANGED <<node, n, encoder, gpu, size, sound, scr, wrong, lost>>

\* node_on_cpu, once the open batch has been flushed.
CpuNode ==
  /\ pc = "cpu" /\ batch = <<>>
  /\ mem' = Update(mem, node.y) /\ ref' = Update(ref, node.y)
  /\ wrong' = IF \A c \in Area[node.x] : mem[c] = ref[c] THEN wrong ELSE wrong \cup {n}
  /\ qx' = StillQuantised(node.y) /\ pc' = "next"
  /\ UNCHANGED <<node, n, encoder, gpu, size, sound, scr, lost>>

LastNode ==
  /\ pc = "next"
  /\ pc' = "end"
  /\ UNCHANGED <<node, n, encoder, gpu, scratch, data, lost>>

Finish ==
  /\ pc = "end" /\ batch = <<>>
  /\ pc' = "success"
  /\ UNCHANGED <<node, n, encoder, gpu, scratch, data, lost>>

-------------------------------------------------------------------------------
(* Batches *)

\* flush(): the batch is full, or the graph must wait for what it computes.
Flush ==
  /\ ~busy /\ batch # <<>>
  /\ \/ pc \in {"quant", "push"} /\ Full
     \/ pc \in {"grow", "cpu", "end"}
  /\ busy' = TRUE
  /\ UNCHANGED <<pc, node, n, encoder, done, scratch, data, lost>>

\* run_stages3 records a barrier before a stage unless its flag says otherwise.
Ordered(k, i) == k < i /\ \E b \in k + 1 .. i : batch[b].bar

\* barra_gpu3_batch refuses a batch that binds a buffer which is not there.
Runnable == sound \/ \A i \in DOMAIN batch : Scratch \notin batch[i].rd \cup batch[i].wr

\* The GPU executes a stage: any one whose ordered predecessors are done.
Execute(i) ==
  LET s == batch[i] IN
  /\ busy /\ Runnable /\ i \notin done
  /\ \A k \in 1 .. i - 1 : Ordered(k, i) => k \in done
  /\ done' = done \cup {i}
  /\ CASE s.kind = "quant" -> scr' = Quantised(s.x, mem) /\ UNCHANGED <<mem, wrong>>
       [] OTHER ->
            LET right == IF s.kind = "op" THEN \A c \in s.rd : mem[c] = s.want[c]
                                          ELSE scr = Quantised(s.x, s.want)
            IN /\ mem' = [c \in Cells |-> IF c \in s.wr THEN s.node ELSE mem[c]]
               /\ wrong' = IF right THEN wrong ELSE wrong \cup {s.node}
               /\ UNCHANGED scr
  /\ UNCHANGED <<pc, node, n, encoder, busy, scratch, ref, lost>>

EmptyBatch == batch' = <<>> /\ rd' = {} /\ wr' = {} /\ busy' = FALSE /\ done' = {}

FlushDone ==
  /\ busy /\ done = DOMAIN batch
  /\ EmptyBatch
  /\ UNCHANGED <<pc, node, n, scratch, data, lost>>

\* The batch fails after some of it (or nothing) ran: it is dropped.  Inside
\* encode_node that reads as "cannot be encoded", elsewhere the graph fails.
FlushFails ==
  /\ busy
  /\ EmptyBatch /\ lost' = TRUE
  /\ pc' = IF pc \in {"grow", "quant", "push"} THEN "cpu" ELSE "failed"
  /\ UNCHANGED <<node, n, scratch, data>>

-------------------------------------------------------------------------------
Next ==
  \/ \E t \in Tensors : HostWrite(t)
  \/ StartGraph \/ Return
  \/ \E d \in Nodes : NextNode(d)
  \/ Grow \/ GrowFails \/ PushQuantise \/ PushNode \/ EncodeFails \/ CpuNode
  \/ LastNode \/ Finish
  \/ Flush \/ FlushDone \/ FlushFails
  \/ \E i \in DOMAIN batch : Execute(i)

Spec == Init /\ [][Next]_vars

-------------------------------------------------------------------------------
Stages == [kind : {"op", "mul_mat", "quant"}, node : Nat, x : Tensors, y : Tensors,
           rd : SUBSET All, wr : SUBSET All, bar : BOOLEAN, want : [Cells -> Nat]]

\* The variables hold values of these sets.
TypeOK ==
  /\ pc \in {"idle", "next", "grow", "quant", "push", "cpu", "end", "success", "failed"}
  /\ node \in Nodes \cup {NoNode}
  /\ n \in Nat
  /\ batch \in Seq(Stages)
  /\ rd \subseteq All /\ wr \subseteq All
  /\ busy \in BOOLEAN
  /\ done \subseteq DOMAIN batch
  /\ qx \in Tensors \cup {None}
  /\ size \in Sizes \cup {0} /\ sound \in BOOLEAN
  /\ scr \in [Cells -> Nat] /\ mem \in [Cells -> Nat] /\ ref \in [Cells -> Nat]
  /\ wrong \subseteq Nat
  /\ lost \in BOOLEAN

Conflict(s, r) ==
  \/ s.wr \cap (r.rd \cup r.wr) # {}
  \/ s.rd \cap r.wr # {}

\* Two stages of a batch that touch the same bytes, at least one of them
\* writing, always have a barrier between them, whatever was elided.
NoMissingBarrier ==
  \A i, k \in DOMAIN batch :
    k < i /\ Conflict(batch[k], batch[i]) => Ordered(k, i)

\* As long as no batch fails, every node is computed from the inputs a
\* node-by-node execution would have given it: neither the elided barriers nor
\* the reused quantisation of x show.
SequentialResults == ~lost => wrong = {}

\* A graph reported as computed, none of whose batches failed, has left in memory
\* what computing its nodes in order would have left.
SuccessMeansComputed == pc = "success" /\ ~lost => mem = ref

\* "Rueckfall: erst die GPU-Arbeit abschliessen (Reihenfolge!), dann CPU in-place"
\* (ggml-gpud.cpp): when a node runs on the CPU, all earlier nodes have run.
GpuWorkDoneBeforeCpu == pc = "cpu" /\ batch = <<>> => mem = ref
===============================================================================
