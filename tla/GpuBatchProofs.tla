---------------------------- MODULE GpuBatchProofs ----------------------------
(***************************************************************************)
(* Proofs about the batch encoder of ggml-gpud (GpuBatch), for every set of*)
(* tensors however they overlap, every batch limit and every graph:        *)
(* conflicting stages are ordered by a barrier, therefore a stage that can *)
(* run finds what a node-by-node execution would have given it, and a      *)
(* batch that has run has left what the nodes in order would have left.    *)
(***************************************************************************)
EXTENDS GpuBatch, SequenceTheorems, TLAPS

\* A batch in flight belongs to an operation that waits for it.
BusyWaits ==
  /\ busy => batch # <<>> /\ pc \in {"grow", "quant", "push", "cpu", "end"}
  /\ ~busy => done = {}

\* While a node is being encoded there is one, and a scratch grows for a need.
NodeKnown ==
  /\ pc \in {"grow", "quant", "push", "cpu"} => node \in Nodes
  /\ pc = "grow" => node.need \in Sizes

TypeInv == TypeOK /\ BusyWaits /\ NodeKnown

\* Stage i of the batch has no barrier after it.
Recent(i) == \A b \in i + 1 .. Len(batch) : ~batch[b].bar

\* The tracker knows every access made since the last barrier.
Tracked ==
  \A i \in DOMAIN batch :
    Recent(i) => batch[i].rd \cup batch[i].wr \subseteq rd /\ batch[i].wr \subseteq wr

BarrierInv == TypeInv /\ Tracked /\ NoMissingBarrier

-------------------------------------------------------------------------------
(* Types *)

\* What push appends is a stage.
LEMMA PushType ==
  ASSUME TypeInv, NEW k \in {"op", "mul_mat", "quant"}, NEW r \in SUBSET All, NEW w \in SUBSET All,
         node \in Nodes, Push(k, r, w)
  PROVE  /\ \E s \in Stages : batch' = Append(batch, s)
         /\ batch' \in Seq(Stages) /\ rd' \in SUBSET All /\ wr' \in SUBSET All
         /\ DOMAIN batch \subseteq DOMAIN batch'
<1> DEFINE b == NeedsBarrier(r, w)
           s == [kind |-> k, node |-> n, x |-> node.x, y |-> node.y,
                 rd |-> r, wr |-> w, bar |-> b, want |-> ref]
<1>1. /\ batch' = Append(batch, s)
      /\ rd' = (IF b THEN {} ELSE rd) \cup r \cup w
      /\ wr' = (IF b THEN {} ELSE wr) \cup w
  BY DEF Push
<1>2. b \in BOOLEAN
  BY DEF NeedsBarrier
<1>3. s \in Stages
  BY <1>2 DEF TypeInv, TypeOK, Nodes, Stages
<1>4. batch' \in Seq(Stages) /\ Len(batch') = Len(batch) + 1
  BY <1>1, <1>3, AppendProperties DEF TypeInv, TypeOK
<1>5. DOMAIN batch \subseteq DOMAIN batch'
  BY <1>4, LenProperties DEF TypeInv, TypeOK
<1> QED
  BY <1>1, <1>3, <1>4, <1>5 DEF TypeInv, TypeOK

\* An idle backend with an empty batch has the types of the variables.
LEMMA TypeInvInit == Init => TypeInv
<1> SUFFICES ASSUME Init PROVE TypeInv
  OBVIOUS
<1>1. Garbage \in [Cells -> Nat]
  BY DEF Garbage
<1>2. batch \in Seq(Stages) /\ done \subseteq DOMAIN batch
  BY EmptySeq DEF Init
<1>3. node \in Nodes \cup {NoNode}
  BY DEF Init
<1>4. TypeOK
  BY <1>1, <1>2, <1>3 DEF Init, TypeOK
<1> QED
  BY <1>4 DEF Init, TypeInv, BusyWaits, NodeKnown

\* Every variable keeps its type.
LEMMA TypeInvStep == TypeInv /\ [Next]_vars => TypeInv'
<1> SUFFICES ASSUME TypeInv, [Next]_vars PROVE TypeInv'
  OBVIOUS
<1> USE AreaAssumption, SizesAssumption, EmptySeq
    DEF TypeInv, TypeOK, BusyWaits, NodeKnown, encoder, gpu, scratch, data
<1>1. ASSUME NEW t \in Tensors, HostWrite(t) PROVE TypeInv'
  BY <1>1 DEF HostWrite
<1>2. CASE StartGraph
  BY <1>2 DEF StartGraph
<1>3. CASE Return
  BY <1>3 DEF Return
<1>4. ASSUME NEW d \in Nodes, NextNode(d) PROVE TypeInv'
  BY <1>4 DEF NextNode, Nodes
<1>5. CASE Grow
  BY <1>5 DEF Grow, Garbage
<1>6. CASE GrowFails
  BY <1>6 DEF GrowFails, Garbage
<1>7. CASE PushQuantise
  <2>1. node \in Nodes /\ node.x \in Tensors /\ Push("quant", Area[node.x], {Scratch})
    BY <1>7 DEF PushQuantise, Nodes
  <2>2. Area[node.x] \in SUBSET All /\ {Scratch} \in SUBSET All
    BY <2>1 DEF All
  <2>3. batch' \in Seq(Stages) /\ rd' \in SUBSET All /\ wr' \in SUBSET All /\ DOMAIN batch \subseteq DOMAIN batch'
    BY <2>1, <2>2, PushType
  <2> QED
    BY <1>7, <2>1, <2>3 DEF PushQuantise
<1>8. CASE PushNode
  <2> DEFINE r == IF node.op = "op" THEN Area[node.x] ELSE {Scratch}
  <2>1. node \in Nodes /\ node.x \in Tensors /\ node.y \in Tensors /\ node.op \in {"op", "mul_mat"}
    BY <1>8 DEF PushNode, Nodes
  <2>2. Push(node.op, r, Area[node.y])
    BY <1>8 DEF PushNode
  <2>3. r \in SUBSET All /\ Area[node.y] \in SUBSET All
    BY <2>1 DEF All
  <2>4. batch' \in Seq(Stages) /\ rd' \in SUBSET All /\ wr' \in SUBSET All /\ DOMAIN batch \subseteq DOMAIN batch'
    BY <2>1, <2>2, <2>3, PushType
  <2>5. ref' \in [Cells -> Nat]
    BY <1>8 DEF PushNode, Update
  <2> QED
    BY <1>8, <2>1, <2>4, <2>5 DEF PushNode, StillQuantised
<1>9. CASE EncodeFails
  BY <1>9 DEF EncodeFails
<1>10. CASE CpuNode
  BY <1>10 DEF CpuNode, Update, StillQuantised, Nodes
<1>11. CASE LastNode
  BY <1>11 DEF LastNode
<1>12. CASE Finish
  BY <1>12 DEF Finish
<1>13. CASE Flush
  BY <1>13 DEF Flush
<1>14. CASE FlushDone
  BY <1>14 DEF FlushDone, EmptyBatch
<1>15. CASE FlushFails
  BY <1>15 DEF FlushFails, EmptyBatch
<1>16. ASSUME NEW i \in DOMAIN batch, Execute(i) PROVE TypeInv'
  <2>1. batch[i] \in Stages
    BY DEF TypeInv
  <2>2. mem' \in [Cells -> Nat] /\ scr' \in [Cells -> Nat] /\ wrong' \subseteq Nat
    <3>1. CASE batch[i].kind = "quant"
      <4>1. scr' = Quantised(batch[i].x, mem) /\ mem' = mem /\ wrong' = wrong
        BY <1>16, <3>1 DEF Execute
      <4>2. Quantised(batch[i].x, mem) \in [Cells -> Nat]
        BY DEF Quantised
      <4> QED
        BY <4>1, <4>2
    <3>2. CASE batch[i].kind # "quant"
      BY <1>16, <2>1, <3>2 DEF Execute, Stages
    <3> QED
      BY <3>1, <3>2
  <2> QED
    BY <1>16, <2>2 DEF Execute
<1>17. CASE UNCHANGED vars
  BY <1>17 DEF vars
<1> QED
  BY <1>1, <1>2, <1>3, <1>4, <1>5, <1>6, <1>7, <1>8, <1>9, <1>10, <1>11,
     <1>12, <1>13, <1>14, <1>15, <1>16, <1>17 DEF Next

\* The variables of the encoder keep their types.
THEOREM TypeCorrect == Spec => []TypeOK
<1>1. TypeInv => TypeOK
  BY DEF TypeInv
<1> QED
  BY <1>1, TypeInvInit, TypeInvStep, PTL DEF Spec

-------------------------------------------------------------------------------
(* Barriers *)

\* Appending a stage keeps every dependency of the batch behind a barrier: those
\* on stages before the last barrier by that barrier, the others by the tracker.
LEMMA PushOrders ==
  ASSUME BarrierInv, NEW k \in {"op", "mul_mat", "quant"}, NEW r \in SUBSET All, NEW w \in SUBSET All,
         node \in Nodes, Push(k, r, w)
  PROVE  Tracked' /\ NoMissingBarrier'
<1> DEFINE need == NeedsBarrier(r, w)
           last == Len(batch) + 1
<1>1. /\ Len(batch) \in Nat
      /\ DOMAIN batch = 1 .. Len(batch)
      /\ DOMAIN batch' = 1 .. last
      /\ Len(batch') = last
      /\ \A i \in 1 .. Len(batch) : batch'[i] = batch[i]
      /\ batch'[last].rd = r /\ batch'[last].wr = w /\ batch'[last].bar = need
  <2>1. PICK s \in Stages : batch' = Append(batch, s)
    BY PushType DEF BarrierInv
  <2>2. s.rd = r /\ s.wr = w /\ s.bar = need
    <3>1. batch \in Seq(Stages) /\ batch' \in Seq(Stages)
      BY PushType DEF BarrierInv, TypeInv, TypeOK
    <3>2. batch'[Len(batch) + 1] = s
      BY <2>1, <3>1, AppendProperties
    <3>3. batch' = Append(batch, [kind |-> k, node |-> n, x |-> node.x, y |-> node.y,
                                  rd |-> r, wr |-> w, bar |-> need, want |-> ref])
      BY DEF Push
    <3> QED
      BY <2>1, <3>1, <3>2, <3>3
  <2> QED
    BY <2>1, <2>2, AppendProperties, LenProperties DEF BarrierInv, TypeInv, TypeOK
<1>2. /\ rd' = (IF need THEN {} ELSE rd) \cup r \cup w
      /\ wr' = (IF need THEN {} ELSE wr) \cup w
  BY DEF Push
<1>3. ASSUME NEW i \in 1 .. Len(batch), Recent(i)'
      PROVE  ~need /\ Recent(i)
  BY <1>1, <1>3 DEF Recent
<1>4. Tracked'
  <2> SUFFICES ASSUME NEW i \in 1 .. last, Recent(i)'
               PROVE  batch'[i].rd \cup batch'[i].wr \subseteq rd' /\ batch'[i].wr \subseteq wr'
    BY <1>1 DEF Tracked
  <2>1. CASE i = last
    BY <1>1, <1>2, <2>1
  <2>2. CASE i \in 1 .. Len(batch)
    BY <1>1, <1>2, <1>3, <2>2 DEF BarrierInv, Tracked
  <2> QED
    BY <1>1, <2>1, <2>2
<1>5. ASSUME NEW j \in 1 .. Len(batch), Conflict(batch'[j], batch'[last])
      PROVE  \E b \in j + 1 .. last : batch'[b].bar
  <2>1. CASE need
    <3>1. last \in j + 1 .. last
      BY <1>1
    <3>2. batch'[last].bar
      BY <1>1, <2>1
    <3> QED
      BY <3>1, <3>2
  <2>2. CASE ~need
    <3>1. ~Recent(j)
      BY <1>1, <1>5, <2>2 DEF BarrierInv, Tracked, NeedsBarrier, Conflict
    <3> QED
      BY <1>1, <3>1 DEF Recent
  <2> QED
    BY <2>1, <2>2
<1>6. NoMissingBarrier'
  <2> SUFFICES ASSUME NEW i \in 1 .. last, NEW j \in 1 .. last, j < i, Conflict(batch'[j], batch'[i])
               PROVE  \E b \in j + 1 .. i : batch'[b].bar
    BY <1>1 DEF NoMissingBarrier, Ordered, Conflict
  <2>1. CASE i = last
    BY <1>1, <1>5, <2>1
  <2>2. CASE i \in 1 .. Len(batch)
    <3>1. j \in 1 .. Len(batch) /\ Conflict(batch[j], batch[i])
      BY <1>1, <2>2
    <3>2. PICK b \in j + 1 .. i : batch[b].bar
      BY <2>2, <3>1 DEF BarrierInv, NoMissingBarrier, Ordered
    <3>3. b \in 1 .. Len(batch)
      BY <2>2
    <3> QED
      BY <1>1, <3>2, <3>3
  <2> QED
    BY <1>1, <2>1, <2>2
<1> QED
  BY <1>4, <1>6

\* The tracker and the barriers stay in step: every kind of step preserves it.
LEMMA BarrierInvStep == BarrierInv /\ [Next]_vars => BarrierInv'
<1> SUFFICES ASSUME BarrierInv, [Next]_vars PROVE BarrierInv'
  OBVIOUS
<1>1. TypeInv'
  BY TypeInvStep DEF BarrierInv
<1>2. ASSUME batch' = batch, rd' = rd, wr' = wr PROVE Tracked' /\ NoMissingBarrier'
  BY <1>2 DEF BarrierInv, Tracked, Recent, NoMissingBarrier, Ordered
<1>3. ASSUME batch' = <<>> PROVE Tracked' /\ NoMissingBarrier'
  BY <1>3 DEF Tracked, NoMissingBarrier
<1>4. CASE PushQuantise
  <2>1. node \in Nodes /\ node.x \in Tensors /\ Push("quant", Area[node.x], {Scratch})
    BY <1>4 DEF PushQuantise, Nodes, BarrierInv, TypeInv, NodeKnown
  <2>2. Area[node.x] \in SUBSET All /\ {Scratch} \in SUBSET All
    BY <2>1, AreaAssumption DEF All
  <2> QED
    BY <1>1, <2>1, <2>2, PushOrders DEF BarrierInv
<1>5. CASE PushNode
  <2> DEFINE r == IF node.op = "op" THEN Area[node.x] ELSE {Scratch}
  <2>1. /\ node \in Nodes /\ node.x \in Tensors /\ node.y \in Tensors
        /\ node.op \in {"op", "mul_mat"} /\ Push(node.op, r, Area[node.y])
    BY <1>5 DEF PushNode, Nodes, BarrierInv, TypeInv, NodeKnown
  <2>2. r \in SUBSET All /\ Area[node.y] \in SUBSET All
    BY <2>1, AreaAssumption DEF All
  <2> QED
    BY <1>1, <2>1, <2>2, PushOrders DEF BarrierInv
<1>6. CASE StartGraph \/ FlushDone \/ FlushFails
  BY <1>1, <1>3, <1>6 DEF StartGraph, FlushDone, FlushFails, EmptyBatch, BarrierInv
<1>7. CASE \/ \E t \in Tensors : HostWrite(t)
           \/ \E d \in Nodes : NextNode(d)
           \/ \E i \in DOMAIN batch : Execute(i)
           \/ Return \/ Grow \/ GrowFails \/ EncodeFails \/ CpuNode \/ LastNode \/ Finish \/ Flush
           \/ UNCHANGED vars
  BY <1>1, <1>2, <1>7
  DEF HostWrite, NextNode, Execute, Return, Grow, GrowFails, EncodeFails, CpuNode, LastNode,
      Finish, Flush, vars, encoder, BarrierInv
<1> QED
  BY <1>4, <1>5, <1>6, <1>7 DEF Next

\* Eliding barriers never leaves two conflicting stages of a batch unordered,
\* however long the batch and however the tensors overlap.
THEOREM BarriersSuffice == Spec => []NoMissingBarrier
<1>1. Init => BarrierInv
  BY TypeInvInit DEF Init, BarrierInv, Tracked, NoMissingBarrier
<1>2. BarrierInv => NoMissingBarrier
  BY DEF BarrierInv
<1> QED
  BY <1>1, <1>2, BarrierInvStep, PTL DEF Spec

-------------------------------------------------------------------------------
(* Data *)

\* What a node-by-node execution has in memory before stage i.
Before(i) == IF i <= Len(batch) THEN batch[i].want ELSE ref

Quant(k) == batch[k].kind = "quant"

Shapes ==
  \A k \in DOMAIN batch :
    /\ Quant(k) => batch[k].wr = {Scratch} /\ batch[k].rd = Area[batch[k].x]
    /\ ~Quant(k) => batch[k].wr = Area[batch[k].y]
    /\ batch[k].kind = "mul_mat" => batch[k].rd = {Scratch}
    /\ batch[k].kind = "op" => batch[k].rd = Area[batch[k].x]

\* The stages leave in a cell what the last one that writes it produces.
Chain ==
  \A c \in Cells, i \in DOMAIN batch, k \in DOMAIN batch \cup {Len(batch) + 1} :
    i < k =>
      /\ (\A m \in i .. k - 1 : c \notin batch[m].wr) => Before(k)[c] = Before(i)[c]
      /\ c \in batch[i].wr /\ (\A m \in i + 1 .. k - 1 : c \notin batch[m].wr)
           => Before(k)[c] = batch[i].node

\* The memory between two stages: those before i have written the cell, no others.
Memory ==
  \A c \in Cells, i \in 1 .. Len(batch) + 1 :
    (\A k \in DOMAIN batch : c \in batch[k].wr => (k \in done <=> k < i)) => mem[c] = Before(i)[c]

\* What a stage i reads in the scratch is the quantisation of x, as the memory m has it:
\* by a stage of the batch b, or by an earlier batch (z: content of the scratch).
Source(b, ran, z, x, m, i) ==
  \/ \E q \in 1 .. i - 1 :
       /\ b[q].kind = "quant" /\ \A k \in q + 1 .. i - 1 : b[k].kind # "quant"
       /\ b[q].x = x /\ Quantised(x, b[q].want) = Quantised(x, m)
  \/ /\ \A k \in 1 .. i - 1 : b[k].kind # "quant"
     /\ (\A k \in ran : b[k].kind # "quant") => z = Quantised(x, m)

Sources ==
  /\ \A i \in DOMAIN batch :
       batch[i].kind = "mul_mat" => Source(batch, done, scr, batch[i].x, batch[i].want, i)
  /\ qx # None /\ pc # "idle" => Source(batch, done, scr, qx, ref, Len(batch) + 1)

\* The scratch holds what the latest quantisation that has run put there.
Latest ==
  \A q \in done : Quant(q) /\ (\A k \in done : Quant(k) => k <= q)
                    => scr = Quantised(batch[q].x, batch[q].want)

DoneClosed == \A i \in done : \A k \in 1 .. i - 1 : Ordered(k, i) => k \in done

Operand == pc = "push" /\ node.op = "mul_mat" => qx = node.x

\* Between graphs nothing is pending.
Settled ==
  /\ pc \in {"idle", "success", "failed"} => batch = <<>>
  /\ pc = "idle" => mem = ref /\ wrong = {}

Data == ~lost => Chain /\ Memory /\ Sources /\ Latest /\ wrong = {}

DataInv == BarrierInv /\ Shapes /\ DoneClosed /\ Operand /\ Settled /\ Data

\* The batch has grown by the stage s.
Appended(s) ==
  /\ Len(batch') = Len(batch) + 1 /\ DOMAIN batch' = 1 .. Len(batch) + 1
  /\ \A i \in 1 .. Len(batch) : batch'[i] = batch[i]
  /\ batch'[Len(batch) + 1] = s

LEMMA BatchDomain == TypeInv => Len(batch) \in Nat /\ DOMAIN batch = 1 .. Len(batch)
BY LenProperties DEF TypeInv, TypeOK

\* What push appends.
LEMMA PushAppends ==
  ASSUME TypeInv, NEW k \in {"op", "mul_mat", "quant"}, NEW r \in SUBSET All, NEW w \in SUBSET All,
         node \in Nodes, Push(k, r, w)
  PROVE  \E s \in Stages :
           /\ Appended(s) /\ s.kind = k /\ s.rd = r /\ s.wr = w
           /\ s.x = node.x /\ s.y = node.y /\ s.node = n /\ s.want = ref
<1> DEFINE s == [kind |-> k, node |-> n, x |-> node.x, y |-> node.y,
                 rd |-> r, wr |-> w, bar |-> NeedsBarrier(r, w), want |-> ref]
<1>1. batch' = Append(batch, s)
  BY DEF Push
<1>2. NeedsBarrier(r, w) \in BOOLEAN
  BY DEF NeedsBarrier
<1>3. s \in Stages
  BY <1>2 DEF TypeInv, TypeOK, Nodes, Stages
<1>4. Appended(s)
  BY <1>1, <1>3, AppendProperties, LenProperties DEF TypeInv, TypeOK, Appended
<1> QED
  BY <1>3, <1>4

\* Shapes, Chain, Memory and Sources outlive the push of a stage s, given what the two
\* pushing actions do to ref and qx.
LEMMA PushShapes ==
  ASSUME TypeInv, Shapes, NEW s \in Stages, Appended(s),
         s.kind = "quant" => s.wr = {Scratch} /\ s.rd = Area[s.x],
         s.kind # "quant" => s.wr = Area[s.y],
         s.kind = "mul_mat" => s.rd = {Scratch},
         s.kind = "op" => s.rd = Area[s.x]
  PROVE  Shapes'
BY BatchDomain DEF Shapes, Quant, Appended

LEMMA PushChain ==
  ASSUME TypeInv, Chain, NEW s \in Stages, Appended(s), s.want = ref,
         \A c \in Cells : ref'[c] = IF c \in s.wr THEN s.node ELSE ref[c]
  PROVE  Chain'
<1> DEFINE L == Len(batch)
<1>1. L \in Nat /\ DOMAIN batch = 1 .. L
  BY BatchDomain
<1>2. /\ Len(batch') = L + 1 /\ DOMAIN batch' = 1 .. L + 1
      /\ \A i \in 1 .. L : batch'[i] = batch[i]
      /\ batch'[L + 1] = s
  BY DEF Appended
<1>3. \A i \in 1 .. L + 1 : Before(i)' = Before(i)
  BY <1>1, <1>2 DEF Before
<1>4. Before(L + 1) = ref /\ \A i \in Nat : i = L + 2 => Before(i)' = ref'
  BY <1>1, <1>2 DEF Before
<1>5. DOMAIN batch' \cup {Len(batch') + 1} = 1 .. L + 2
  BY <1>1, <1>2
<1> SUFFICES ASSUME NEW c \in Cells, NEW i \in DOMAIN batch', NEW k \in DOMAIN batch' \cup {Len(batch') + 1},
                    i < k
             PROVE  /\ (\A m \in i .. k - 1 : c \notin batch'[m].wr) => Before(k)'[c] = Before(i)'[c]
                    /\ c \in batch'[i].wr /\ (\A m \in i + 1 .. k - 1 : c \notin batch'[m].wr)
                         => Before(k)'[c] = batch'[i].node
  BY Zenon DEF Chain
<1>6. i \in 1 .. L + 1 /\ k \in 1 .. L + 2
  BY <1>5, <1>2
<1>7. CASE k \in 1 .. L + 1
  <2>1. i \in 1 .. L /\ batch'[i] = batch[i] /\ \A m \in i .. k - 1 : m \in 1 .. L /\ batch'[m] = batch[m]
    BY <1>1, <1>6, <1>2, <1>7
  <2>2. /\ (\A m \in i .. k - 1 : c \notin batch[m].wr) => Before(k)[c] = Before(i)[c]
        /\ c \in batch[i].wr /\ (\A m \in i + 1 .. k - 1 : c \notin batch[m].wr)
             => Before(k)[c] = batch[i].node
    BY <1>1, <1>6, <1>7, <2>1 DEF Chain
  <2>3. \A m \in i + 1 .. k - 1 : m \in i .. k - 1
    OBVIOUS
  <2> QED
    BY <1>1, <1>6, <1>3, <1>7, <2>1, <2>2, <2>3
<1>8. CASE k = L + 2
  <2>1. L + 1 \in i .. k - 1 /\ Before(k)' = ref'
    BY <1>1, <1>6, <1>4, <1>8
  <2>2. CASE i = L + 1
    <3>1. Before(i)' = ref /\ batch'[i] = s /\ i \in i .. k - 1
      BY <1>1, <1>6, <1>2, <1>3, <1>4, <2>1, <2>2
    <3> QED
      BY <1>6, <2>1, <3>1
  <2>3. CASE i \in 1 .. L
    <3>1. L + 1 \in DOMAIN batch \cup {L + 1} /\ i < L + 1 /\ L + 1 \in i + 1 .. k - 1
      BY <1>1, <1>6, <1>8, <2>3
    <3>2. /\ (\A m \in i .. L : c \notin batch[m].wr) => ref[c] = Before(i)[c]
          /\ c \in batch[i].wr /\ (\A m \in i + 1 .. L : c \notin batch[m].wr)
               => ref[c] = batch[i].node
      <4>1. (L + 1) - 1 = L
        BY <1>1
      <4> QED
        BY <1>1, <1>6, <1>4, <2>3, <3>1, <4>1 DEF Chain
    <3>3. \A m \in i .. L : m \in i .. k - 1 /\ batch'[m] = batch[m]
      BY <1>1, <1>6, <1>2, <1>8, <2>3
    <3>4. \A m \in i + 1 .. L : m \in i + 1 .. k - 1 /\ batch'[m] = batch[m]
      BY <1>1, <1>6, <1>2, <1>8, <2>3
    <3>5. Before(i)' = Before(i) /\ batch'[i] = batch[i]
      BY <1>1, <1>6, <1>2, <1>3, <2>3
    <3> QED
      BY <1>2, <2>1, <3>1, <3>2, <3>3, <3>4, <3>5
  <2> QED
    BY <1>1, <1>6, <2>2, <2>3
<1> QED
  BY <1>1, <1>6, <1>7, <1>8

LEMMA PushMemory ==
  ASSUME TypeInv, Memory, NEW s \in Stages, Appended(s), s.want = ref,
         \A c \in Cells : ref'[c] = IF c \in s.wr THEN s.node ELSE ref[c],
         done = {}, done' = {}, mem' = mem
  PROVE  Memory'
<1> DEFINE L == Len(batch)
<1>1. L \in Nat /\ DOMAIN batch = 1 .. L
  BY BatchDomain
<1>2. /\ Len(batch') = L + 1 /\ DOMAIN batch' = 1 .. L + 1
      /\ \A i \in 1 .. L : batch'[i] = batch[i]
      /\ batch'[L + 1] = s
  BY DEF Appended
<1>3. \A i \in 1 .. L + 1 : Before(i)' = Before(i)
  BY <1>1, <1>2 DEF Before
<1>4. Before(L + 1) = ref /\ \A i \in Nat : i = L + 2 => Before(i)' = ref'
  BY <1>1, <1>2 DEF Before
<1> SUFFICES ASSUME NEW c \in Cells, NEW i \in 1 .. L + 2,
                    \A k \in 1 .. L + 1 : c \in batch'[k].wr => ~(k < i)
             PROVE  mem[c] = Before(i)'[c]
  BY <1>1, <1>2 DEF Memory
<1>5. CASE i \in 1 .. L + 1
  <2>1. \A k \in 1 .. L : c \in batch[k].wr => ~(k < i)
    BY <1>1, <1>2
  <2> QED
    BY <1>1, <1>3, <1>5, <2>1 DEF Memory
<1>6. CASE i = L + 2
  <2>1. \A k \in 1 .. L : c \notin batch[k].wr
    BY <1>1, <1>2, <1>6
  <2>2. mem[c] = ref[c]
    BY <1>1, <1>4, <2>1 DEF Memory
  <2>3. c \notin s.wr
    BY <1>1, <1>2, <1>6
  <2>4. Before(i)' = ref'
    BY <1>1, <1>4, <1>6
  <2> QED
    BY <2>2, <2>3, <2>4
<1> QED
  BY <1>1, <1>5, <1>6

LEMMA SourceKept ==
  ASSUME NEW L \in Nat, NEW b, NEW b2, \A j \in 1 .. L : b2[j] = b[j],
         NEW z, NEW x, NEW m, NEW i \in 1 .. L + 1, Source(b, {}, z, x, m, i)
  PROVE  Source(b2, {}, z, x, m, i)
<1>1. \A j \in 1 .. i - 1 : b2[j] = b[j]
  OBVIOUS
<1>2. \A q \in 1 .. i - 1 : \A k \in q + 1 .. i - 1 : k \in 1 .. i - 1
  OBVIOUS
<1> QED
  BY <1>1, <1>2 DEF Source

LEMMA PushSources ==
  ASSUME TypeInv, Sources, NEW s \in Stages, Appended(s), s.want = ref, done = {}, done' = {}, scr' = scr,
         pc # "idle",
         s.kind = "mul_mat" => qx # None /\ qx = s.x,
         s.kind = "quant" => qx' = s.x /\ ref' = ref,
         s.kind # "quant" /\ qx' # None => qx' = qx /\ Quantised(qx, ref') = Quantised(qx, ref)
  PROVE  Sources'
<1> DEFINE L == Len(batch)
<1>1. L \in Nat /\ DOMAIN batch = 1 .. L
  BY BatchDomain
<1>2. /\ Len(batch') = L + 1 /\ DOMAIN batch' = 1 .. L + 1
      /\ \A i \in 1 .. L : batch'[i] = batch[i]
      /\ batch'[L + 1] = s
  BY DEF Appended
<1>3. ASSUME NEW i \in DOMAIN batch', batch'[i].kind = "mul_mat"
      PROVE  Source(batch', done', scr', batch'[i].x, batch'[i].want, i)
  <2>1. CASE i \in 1 .. L
    <3>1. Source(batch, {}, scr, batch[i].x, batch[i].want, i)
      BY <1>1, <1>2, <1>3, <2>1 DEF Sources
    <3>2. Source(batch', {}, scr, batch[i].x, batch[i].want, i)
      BY <1>1, <1>2, <2>1, <3>1, SourceKept
    <3> QED
      BY <1>2, <2>1, <3>2
  <2>2. CASE i = L + 1
    <3>1. Source(batch, {}, scr, qx, ref, i) /\ qx = s.x
      BY <1>2, <1>3, <2>2 DEF Sources
    <3>2. Source(batch', {}, scr, qx, ref, i)
      <4>1. i \in 1 .. L + 1 /\ \A j \in 1 .. L : batch'[j] = batch[j]
        BY <1>1, <1>2, <2>2
      <4> QED
        BY <1>1, <3>1, <4>1, SourceKept
    <3> QED
      BY <1>2, <2>2, <3>1, <3>2
  <2> QED
    BY <1>1, <1>2, <2>1, <2>2
<1>4. ASSUME qx' # None PROVE Source(batch', done', scr', qx', ref', Len(batch') + 1)
  <2>0. Len(batch') + 1 - 1 = L + 1 /\ L + 1 - 1 = L
    BY <1>1, <1>2
  <2>1. CASE s.kind = "quant"
    <3> DEFINE q == L + 1
    <3>1. q \in 1 .. L + 1 /\ \A k \in q + 1 .. L + 1 : batch'[k].kind # "quant"
      BY <1>1
    <3>2. batch'[q].kind = "quant" /\ batch'[q].x = qx' /\ batch'[q].want = ref'
      BY <1>2, <2>1
    <3> HIDE DEF q
    <3> QED
      BY <2>0, <3>1, <3>2 DEF Source
  <2>2. CASE s.kind # "quant"
    <3>1. qx' = qx /\ qx # None /\ Quantised(qx, ref') = Quantised(qx, ref)
      BY <1>4, <2>2
    <3>2. Source(batch, {}, scr, qx, ref, L + 1)
      BY <3>1 DEF Sources
    <3>3. CASE \E q \in 1 .. L :
                 /\ batch[q].kind = "quant" /\ \A k \in q + 1 .. L : batch[k].kind # "quant"
                 /\ batch[q].x = qx /\ Quantised(qx, batch[q].want) = Quantised(qx, ref)
      <4>1. PICK q \in 1 .. L :
                 /\ batch[q].kind = "quant" /\ \A k \in q + 1 .. L : batch[k].kind # "quant"
                 /\ batch[q].x = qx /\ Quantised(qx, batch[q].want) = Quantised(qx, ref)
        BY <3>3
      <4>2. q \in 1 .. L + 1 /\ batch'[q] = batch[q]
        BY <1>1, <1>2
      <4>3. ASSUME NEW k \in q + 1 .. L + 1 PROVE batch'[k].kind # "quant"
        BY <1>1, <1>2, <2>2, <4>1
      <4> QED
        BY <2>0, <3>1, <4>1, <4>2, <4>3 DEF Source
    <3>4. CASE /\ \A k \in 1 .. L : batch[k].kind # "quant"
               /\ scr = Quantised(qx, ref)
      <4>1. \A k \in 1 .. L + 1 : batch'[k].kind # "quant"
        BY <1>1, <1>2, <2>2, <3>4
      <4> QED
        BY <2>0, <3>1, <3>4, <4>1 DEF Source
    <3> QED
      BY <2>0, <3>2, <3>3, <3>4 DEF Source
  <2> QED
    BY <2>1, <2>2
<1> QED
  BY <1>3, <1>4 DEF Sources

-------------------------------------------------------------------------------
\* The GPU may execute stage i.
Ready(i) == i \notin done /\ \A k \in 1 .. i - 1 : Ordered(k, i) => k \in done

\* When a stage can run, the conflicting stages before it have run, those after it have
\* not: what the barriers are for.
LEMMA Frontier ==
  ASSUME TypeInv, NoMissingBarrier, DoneClosed, NEW i \in DOMAIN batch, Ready(i), NEW k \in DOMAIN batch
  PROVE  /\ k < i /\ Conflict(batch[k], batch[i]) => k \in done
         /\ i < k /\ Conflict(batch[i], batch[k]) => k \notin done
<1>1. Len(batch) \in Nat /\ DOMAIN batch = 1 .. Len(batch)
  BY BatchDomain
<1>2. ASSUME k < i, Conflict(batch[k], batch[i]) PROVE k \in done
  <2>1. Ordered(k, i) /\ k \in 1 .. i - 1
    BY <1>1, <1>2 DEF NoMissingBarrier
  <2> QED
    BY <2>1 DEF Ready
<1>3. ASSUME i < k, Conflict(batch[i], batch[k]) PROVE k \notin done
  <2>1. Ordered(i, k) /\ i \in 1 .. k - 1
    BY <1>1, <1>3 DEF NoMissingBarrier
  <2> QED
    BY <2>1 DEF Ready, DoneClosed
<1> QED
  BY <1>2, <1>3

\* So a stage reads what it would read in a node-by-node execution, from the tensors ...
LEMMA ReadsRight ==
  ASSUME TypeInv, NoMissingBarrier, DoneClosed, Memory, NEW i \in DOMAIN batch, Ready(i),
         NEW c \in Cells, c \in batch[i].rd
  PROVE  mem[c] = batch[i].want[c]
<1>1. Len(batch) \in Nat /\ DOMAIN batch = 1 .. Len(batch)
  BY BatchDomain
<1>2. ASSUME NEW k \in DOMAIN batch, c \in batch[k].wr PROVE k \in done <=> k < i
  <2>1. Conflict(batch[k], batch[i]) /\ Conflict(batch[i], batch[k])
    BY <1>2 DEF Conflict
  <2>2. k < i \/ k = i \/ i < k
    BY <1>1
  <2> QED
    BY <1>1, <2>1, <2>2, Frontier DEF Ready
<1>3. mem[c] = Before(i)[c]
  BY <1>1, <1>2 DEF Memory
<1> QED
  BY <1>1, <1>3 DEF Before

\* ... and from the scratch.
LEMMA ScratchRight ==
  ASSUME TypeInv, NoMissingBarrier, DoneClosed, Shapes, Sources, Latest, NEW i \in DOMAIN batch, Ready(i),
         batch[i].kind = "mul_mat"
  PROVE  scr = Quantised(batch[i].x, batch[i].want)
<1>1. Len(batch) \in Nat /\ DOMAIN batch = 1 .. Len(batch)
  BY BatchDomain
<1>2. batch[i].rd = {Scratch} /\ \A k \in DOMAIN batch : Quant(k) => batch[k].wr = {Scratch}
  BY DEF Shapes
<1>3. ASSUME NEW k \in DOMAIN batch, Quant(k) PROVE k \in done <=> k < i
  <2>1. Conflict(batch[k], batch[i]) /\ Conflict(batch[i], batch[k])
    BY <1>2, <1>3 DEF Conflict
  <2>2. k < i \/ k = i \/ i < k
    BY <1>1
  <2>3. k # i
    BY <1>3 DEF Quant
  <2> QED
    BY <1>1, <2>1, <2>2, <2>3, Frontier
<1>4. Source(batch, done, scr, batch[i].x, batch[i].want, i)
  BY DEF Sources
<1>5. CASE \E q \in 1 .. i - 1 :
             /\ batch[q].kind = "quant" /\ \A k \in q + 1 .. i - 1 : batch[k].kind # "quant"
             /\ batch[q].x = batch[i].x
             /\ Quantised(batch[i].x, batch[q].want) = Quantised(batch[i].x, batch[i].want)
  <2>1. PICK q \in 1 .. i - 1 :
             /\ batch[q].kind = "quant" /\ \A k \in q + 1 .. i - 1 : batch[k].kind # "quant"
             /\ batch[q].x = batch[i].x
             /\ Quantised(batch[i].x, batch[q].want) = Quantised(batch[i].x, batch[i].want)
    BY <1>5
  <2>2. q \in DOMAIN batch /\ q < i /\ Quant(q)
    BY <1>1, <2>1 DEF Quant
  <2>3. q \in done
    BY <1>3, <2>2
  <2>4. ASSUME NEW k \in done, Quant(k) PROVE k <= q
    <3>1. k \in DOMAIN batch
      BY DEF TypeInv, TypeOK
    <3>2. k < i
      BY <1>3, <2>4, <3>1
    <3>3. k \notin q + 1 .. i - 1
      BY <2>1, <2>4 DEF Quant
    <3> QED
      BY <1>1, <3>1, <3>2, <3>3
  <2>5. scr = Quantised(batch[q].x, batch[q].want)
    BY <2>2, <2>3, <2>4 DEF Latest
  <2> QED
    BY <2>1, <2>5
<1>6. CASE /\ \A k \in 1 .. i - 1 : batch[k].kind # "quant"
           /\ (\A k \in done : batch[k].kind # "quant") => scr = Quantised(batch[i].x, batch[i].want)
  <2>1. ASSUME NEW k \in done PROVE batch[k].kind # "quant"
    <3>1. k \in DOMAIN batch
      BY DEF TypeInv, TypeOK
    <3>2. Quant(k) => k \in 1 .. i - 1
      BY <1>1, <1>3, <3>1
    <3> QED
      BY <1>6, <3>2 DEF Quant
  <2> QED
    BY <1>6, <2>1
<1> QED
  BY <1>4, <1>5, <1>6 DEF Source

-------------------------------------------------------------------------------
\* What executing a stage changes.
LEMMA ExecuteEffect ==
  ASSUME TypeInv, NEW i \in DOMAIN batch, Execute(i), Shapes
  PROVE  /\ Ready(i) /\ batch[i] \in Stages /\ busy
         /\ done' = done \cup {i} /\ batch' = batch /\ ref' = ref /\ qx' = qx /\ pc' = pc /\ lost' = lost
         /\ Quant(i) => /\ scr' = Quantised(batch[i].x, mem) /\ mem' = mem /\ wrong' = wrong
                        /\ batch[i].rd = Area[batch[i].x]
         /\ ~Quant(i) => scr' = scr
         /\ \A c \in Cells : mem'[c] = IF c \in batch[i].wr THEN batch[i].node ELSE mem[c]
<1>1. batch[i] \in Stages
  BY DEF TypeInv, TypeOK
<1>2. CASE Quant(i)
  <2>1. batch[i].wr = {Scratch} /\ batch[i].rd = Area[batch[i].x]
    BY <1>2 DEF Shapes
  <2> QED
    BY <1>1, <1>2, <2>1, NoneAssumption DEF Execute, Ready, Quant, encoder, scratch
<1>3. CASE ~Quant(i)
  BY <1>1, <1>3 DEF Execute, Ready, Quant, encoder, scratch
<1> QED
  BY <1>2, <1>3

LEMMA ExecuteMemory ==
  ASSUME TypeInv, NoMissingBarrier, DoneClosed, Chain, Memory, NEW i \in DOMAIN batch, Ready(i),
         batch' = batch, ref' = ref, done' = done \cup {i},
         \A c \in Cells : mem'[c] = IF c \in batch[i].wr THEN batch[i].node ELSE mem[c]
  PROVE  Memory'
<1>1. Len(batch) \in Nat /\ DOMAIN batch = 1 .. Len(batch)
  BY BatchDomain
<1>2. \A j \in 1 .. Len(batch) + 1 : Before(j)' = Before(j)
  BY DEF Before
<1> SUFFICES ASSUME NEW c \in Cells, NEW j \in 1 .. Len(batch) + 1,
                    \A k \in DOMAIN batch : c \in batch[k].wr => (k \in done' <=> k < j)
             PROVE  mem'[c] = Before(j)[c]
  BY <1>1, <1>2 DEF Memory
<1>3. CASE c \notin batch[i].wr
  <2>1. \A k \in DOMAIN batch : c \in batch[k].wr => (k \in done <=> k < j)
    BY <1>3
  <2> QED
    BY <1>3, <2>1 DEF Memory
<1>4. CASE c \in batch[i].wr
  <2>1. i < j
    BY <1>4
  <2>2. ASSUME NEW k \in i + 1 .. j - 1 PROVE c \notin batch[k].wr
    <3>1. k \in DOMAIN batch /\ i < k /\ k < j /\ k # i
      BY <1>1, <2>2
    <3>2. SUFFICES ASSUME c \in batch[k].wr PROVE FALSE
      OBVIOUS
    <3>3. k \in done
      BY <3>1, <3>2
    <3>4. Conflict(batch[i], batch[k])
      BY <1>4, <3>2 DEF Conflict
    <3> QED
      BY <3>1, <3>3, <3>4, Frontier
  <2>3. Before(j)[c] = batch[i].node
    BY <1>1, <1>4, <2>1, <2>2 DEF Chain
  <2> QED
    BY <1>4, <2>3
<1> QED
  BY <1>3, <1>4

LEMMA ExecuteLatest ==
  ASSUME TypeInv, NoMissingBarrier, DoneClosed, Shapes, Memory, Latest, NEW i \in DOMAIN batch, Execute(i)
  PROVE  Latest'
<1>1. Len(batch) \in Nat /\ DOMAIN batch = 1 .. Len(batch) /\ done \subseteq DOMAIN batch
  BY BatchDomain DEF TypeInv, TypeOK
<1>2. /\ Ready(i) /\ done' = done \cup {i} /\ batch' = batch
      /\ Quant(i) => scr' = Quantised(batch[i].x, mem) /\ batch[i].rd = Area[batch[i].x]
      /\ ~Quant(i) => scr' = scr
  BY ExecuteEffect
<1>3. CASE ~Quant(i)
  BY <1>2, <1>3 DEF Latest, Quant
<1>4. CASE Quant(i)
  <2>1. ASSUME NEW k \in done, Quant(k) PROVE k < i
    <3>1. batch[i].wr = {Scratch} /\ batch[k].wr = {Scratch}
      BY <1>1, <1>4, <2>1 DEF Shapes
    <3>2. Conflict(batch[i], batch[k]) /\ k # i
      BY <1>2, <3>1 DEF Conflict, Ready
    <3> QED
      BY <1>1, <1>2, <3>2, Frontier
  <2>2. Quantised(batch[i].x, mem) = Quantised(batch[i].x, batch[i].want)
    <3>1. \A c \in Cells : c \in Area[batch[i].x] => mem[c] = batch[i].want[c]
      BY <1>2, <1>4, ReadsRight
    <3> QED
      BY <3>1 DEF Quantised
  <2>3. ASSUME NEW q \in done', Quant(q)', \A k \in done' : Quant(k)' => k <= q PROVE q = i
    <3>1. i \in done' /\ Quant(i)'
      BY <1>2, <1>4 DEF Quant
    <3>2. i <= q
      BY <2>3, <3>1
    <3>3. q \in done => Quant(q) /\ q < i
      BY <1>2, <2>1, <2>3 DEF Quant
    <3> QED
      BY <1>1, <1>2, <3>2, <3>3
  <2> QED
    BY <1>2, <1>4, <2>2, <2>3 DEF Latest
<1> QED
  BY <1>3, <1>4

LEMMA ExecuteSources ==
  ASSUME TypeInv, Shapes, Sources, NEW i \in DOMAIN batch, Execute(i)
  PROVE  Sources'
<1>1. /\ done' = done \cup {i} /\ batch' = batch /\ ref' = ref /\ qx' = qx /\ pc' = pc
      /\ ~Quant(i) => scr' = scr
  BY ExecuteEffect
<1>2. ASSUME NEW x, NEW m, NEW j, Source(batch, done, scr, x, m, j) PROVE Source(batch, done', scr', x, m, j)
  BY <1>1, <1>2 DEF Source, Quant
<1> QED
  BY <1>1, <1>2 DEF Sources

LEMMA ExecuteRight ==
  ASSUME TypeInv, NoMissingBarrier, DoneClosed, Shapes, Memory, Sources, Latest, wrong = {},
         NEW i \in DOMAIN batch, Execute(i)
  PROVE  wrong' = {}
<1>1. Ready(i) /\ batch[i] \in Stages /\ (Quant(i) => wrong' = wrong)
  BY ExecuteEffect
<1>2. CASE batch[i].kind = "op"
  <2>1. batch[i].rd = Area[batch[i].x] /\ Area[batch[i].x] \subseteq Cells
    BY <1>1, <1>2, AreaAssumption DEF Shapes, Stages
  <2>2. \A c \in batch[i].rd : mem[c] = batch[i].want[c]
    BY <1>1, <2>1, ReadsRight
  <2> QED
    BY <1>2, <2>2 DEF Execute
<1>3. CASE batch[i].kind = "mul_mat"
  <2>1. scr = Quantised(batch[i].x, batch[i].want)
    BY <1>1, <1>3, ScratchRight
  <2> QED
    BY <1>3, <2>1 DEF Execute
<1>4. CASE batch[i].kind = "quant"
  BY <1>1, <1>4 DEF Quant
<1> QED
  BY <1>1, <1>2, <1>3, <1>4 DEF Stages

LEMMA ExecuteData ==
  ASSUME DataInv, NEW i \in DOMAIN batch, Execute(i)
  PROVE  DoneClosed' /\ Data'
<1>1. /\ Ready(i) /\ done' = done \cup {i} /\ batch' = batch /\ ref' = ref /\ lost' = lost
      /\ \A c \in Cells : mem'[c] = IF c \in batch[i].wr THEN batch[i].node ELSE mem[c]
  BY ExecuteEffect DEF DataInv, BarrierInv
<1>2. DoneClosed'
  BY <1>1 DEF DataInv, DoneClosed, Ready, Ordered
<1>3. ASSUME ~lost PROVE Chain' /\ Memory' /\ Sources' /\ Latest' /\ wrong' = {}
  <2>1. TypeInv /\ NoMissingBarrier /\ DoneClosed /\ Shapes /\ Chain /\ Memory /\ Sources /\ Latest /\ wrong = {}
    BY <1>3 DEF DataInv, Data, BarrierInv
  <2>2. Chain'
    BY <1>1, <2>1 DEF Chain, Before
  <2>3. Memory'
    BY <1>1, <2>1, ExecuteMemory
  <2>4. Sources' /\ Latest' /\ wrong' = {}
    BY <2>1, ExecuteSources, ExecuteLatest, ExecuteRight
  <2> QED
    BY <2>2, <2>3, <2>4
<1> QED
  BY <1>1, <1>2, <1>3 DEF Data

-------------------------------------------------------------------------------
\* Nothing is pending, and the memory is right.
LEMMA EmptyData ==
  ASSUME batch' = <<>>, done' = {}, wrong' = {}, \A c \in Cells : mem'[c] = ref'[c],
         qx' # None /\ pc' # "idle" => scr' = Quantised(qx', ref')
  PROVE  Shapes' /\ DoneClosed' /\ Data'
<1>1. DOMAIN batch' = {} /\ Len(batch') = 0
  OBVIOUS
<1>2. Shapes' /\ DoneClosed' /\ Chain' /\ Latest'
  BY <1>1 DEF Shapes, DoneClosed, Chain, Latest
<1>3. Memory'
  <2>1. ASSUME NEW i \in 1 .. 1 PROVE Before(i)' = ref'
    BY <1>1, <2>1 DEF Before
  <2> QED
    BY <1>1, <2>1 DEF Memory
<1>4. Sources'
  BY <1>1 DEF Sources, Source
<1> QED
  BY <1>2, <1>3, <1>4 DEF Data

\* The whole batch has run: the memory is what the nodes in order would have left.
LEMMA BatchRan ==
  ASSUME TypeInv, Memory, Sources, Latest, done = DOMAIN batch
  PROVE  /\ \A c \in Cells : mem[c] = ref[c]
         /\ qx # None /\ pc # "idle" => scr = Quantised(qx, ref)
<1> DEFINE L == Len(batch)
<1>1. L \in Nat /\ DOMAIN batch = 1 .. L /\ L + 1 - 1 = L
  BY BatchDomain
<1>2. ASSUME NEW c \in Cells PROVE mem[c] = ref[c]
  <2>1. L + 1 \in 1 .. L + 1 /\ \A k \in DOMAIN batch : k \in done /\ k < L + 1
    BY <1>1
  <2>2. mem[c] = Before(L + 1)[c]
    BY <2>1 DEF Memory
  <2> QED
    BY <1>1, <2>2 DEF Before
<1>3. ASSUME qx # None, pc # "idle" PROVE scr = Quantised(qx, ref)
  <2>1. Source(batch, done, scr, qx, ref, L + 1)
    BY <1>3 DEF Sources
  <2>2. CASE \E q \in 1 .. L : /\ batch[q].kind = "quant" /\ \A k \in q + 1 .. L : batch[k].kind # "quant"
                               /\ batch[q].x = qx /\ Quantised(qx, batch[q].want) = Quantised(qx, ref)
    <3>1. PICK q \in 1 .. L : /\ batch[q].kind = "quant" /\ \A k \in q + 1 .. L : batch[k].kind # "quant"
                              /\ batch[q].x = qx /\ Quantised(qx, batch[q].want) = Quantised(qx, ref)
      BY <2>2
    <3>2. ASSUME NEW k \in done, Quant(k) PROVE k <= q
      BY <1>1, <3>1, <3>2 DEF Quant
    <3> QED
      BY <1>1, <3>1, <3>2 DEF Latest, Quant
  <2>3. CASE /\ \A k \in 1 .. L : batch[k].kind # "quant"
             /\ (\A k \in done : batch[k].kind # "quant") => scr = Quantised(qx, ref)
    BY <1>1, <2>3
  <2> QED
    BY <1>1, <2>1, <2>2, <2>3 DEF Source
<1> QED
  BY <1>2, <1>3

\* Steps of the encoder that touch neither data nor batch.
LEMMA Unmoved ==
  ASSUME DataInv, lost' = lost,
         UNCHANGED <<batch, done, qx, scr, mem, ref, wrong>>, pc = "idle" => pc' = "idle"
  PROVE  Shapes' /\ DoneClosed' /\ Data'
<1>1. Shapes' /\ DoneClosed'
  BY DEF DataInv, Shapes, Quant, DoneClosed, Ordered
<1>2. ASSUME ~lost' PROVE Chain' /\ Memory' /\ Sources' /\ Latest' /\ wrong' = {}
  <2>1. Chain /\ Memory /\ Sources /\ Latest /\ wrong = {}
    BY <1>2 DEF DataInv, Data, TypeInv, BarrierInv, TypeOK
  <2>2. Chain' /\ Memory'
    BY <2>1 DEF Chain, Memory, Before
  <2> QED
    BY <2>1, <2>2 DEF Sources, Latest, Quant
<1> QED
  BY <1>1, <1>2 DEF Data

\* Both pushes.
LEMMA PushData ==
  ASSUME DataInv, NEW s \in Stages, Appended(s), s.want = ref, done = {}, done' = {},
         UNCHANGED <<lost, scr, mem, wrong>>, pc # "idle",
         s.kind = "quant" => /\ s.wr = {Scratch} /\ s.rd = Area[s.x]
                             /\ qx' = s.x /\ ref' = ref,
         s.kind # "quant" => /\ s.wr = Area[s.y] /\ ref' = [c \in Cells |-> IF c \in s.wr THEN s.node ELSE ref[c]]
                             /\ qx' # None => qx' = qx /\ Area[qx] \cap s.wr = {},
         s.kind = "mul_mat" => s.rd = {Scratch} /\ qx # None /\ qx = s.x,
         s.kind = "op" => s.rd = Area[s.x]
  PROVE  Shapes' /\ DoneClosed' /\ Data'
<1>1. TypeInv
  BY DEF DataInv, BarrierInv
<1>2. Shapes'
  BY <1>1, PushShapes DEF DataInv
<1>3. DoneClosed' /\ Latest'
  BY DEF DoneClosed, Latest
<1>4. \A c \in Cells : ref'[c] = IF c \in s.wr THEN s.node ELSE ref[c]
  BY NoneAssumption
<1>5. ASSUME s.kind # "quant", qx' # None PROVE Quantised(qx, ref') = Quantised(qx, ref)
  BY <1>4, <1>5 DEF Quantised
<1>6. ASSUME ~lost PROVE Chain' /\ Memory' /\ Sources'
  <2>1. Chain /\ Memory /\ Sources
    BY <1>6 DEF DataInv, Data
  <2>2. Chain'
    BY <1>1, <1>4, <2>1, PushChain
  <2>3. Memory'
    BY <1>1, <1>4, <2>1, PushMemory
  <2>4. Sources'
    BY <1>1, <1>5, <2>1, PushSources
  <2> QED
    BY <2>2, <2>3, <2>4
<1> QED
  BY <1>2, <1>3, <1>6 DEF Data, DataInv

\* Every step keeps the data in order.
LEMMA DataStep == DataInv /\ [Next]_vars => Shapes' /\ DoneClosed' /\ Data'
<1> SUFFICES ASSUME DataInv, [Next]_vars PROVE Shapes' /\ DoneClosed' /\ Data'
  OBVIOUS
<1>0. TypeInv /\ BusyWaits /\ Settled /\ Operand
  BY DEF DataInv, BarrierInv, TypeInv
<1> USE DEF encoder, gpu, scratch, data
<1>1. ASSUME NEW t \in Tensors, HostWrite(t) PROVE Shapes' /\ DoneClosed' /\ Data'
  <2>1. batch' = <<>> /\ done' = {} /\ wrong' = {} /\ pc' = "idle" /\ \A c \in Cells : mem'[c] = ref'[c]
    BY <1>0, <1>1 DEF HostWrite, Settled, BusyWaits
  <2> QED
    BY <2>1, EmptyData
<1>2. CASE StartGraph
  <2>1. batch' = <<>> /\ done' = {} /\ wrong' = {} /\ qx' = None /\ \A c \in Cells : mem'[c] = ref'[c]
    BY <1>0, <1>2 DEF StartGraph, Settled, BusyWaits
  <2> QED
    BY <2>1, EmptyData
<1>3. CASE Return
  <2>1. batch' = <<>> /\ done' = {} /\ wrong' = {} /\ pc' = "idle" /\ \A c \in Cells : mem'[c] = ref'[c]
    BY <1>0, <1>3 DEF Return, Settled, BusyWaits
  <2> QED
    BY <2>1, EmptyData
<1>4. CASE Grow
  <2>1. batch = <<>> /\ done = {} /\ DOMAIN batch = {}
    BY <1>0, <1>4 DEF Grow, BusyWaits
  <2>2. CASE lost
    BY <1>4, <2>1, <2>2 DEF Grow, Data, Shapes, DoneClosed
  <2>3. CASE ~lost
    <3>1. wrong = {} /\ \A c \in Cells : mem[c] = ref[c]
      BY <1>0, <2>1, <2>3, BatchRan DEF DataInv, Data
    <3>2. batch' = <<>> /\ done' = {} /\ wrong' = {} /\ qx' = None /\ \A c \in Cells : mem'[c] = ref'[c]
      BY <1>4, <2>1, <3>1 DEF Grow
    <3> QED
      BY <3>2, EmptyData
  <2> QED
    BY <2>2, <2>3
<1>5. CASE CpuNode
  <2>1. batch = <<>> /\ done = {} /\ DOMAIN batch = {}
    BY <1>0, <1>5 DEF CpuNode, BusyWaits
  <2>2. CASE lost
    BY <1>5, <2>1, <2>2 DEF CpuNode, Data, Shapes, DoneClosed
  <2>3. CASE ~lost
    <3>1. wrong = {} /\ (\A c \in Cells : mem[c] = ref[c]) /\ (qx # None => scr = Quantised(qx, ref))
      BY <1>0, <1>5, <2>1, <2>3, BatchRan DEF DataInv, Data, CpuNode
    <3>2. node.x \in Tensors /\ Area[node.x] \subseteq Cells
      BY <1>0, <1>5, AreaAssumption DEF TypeInv, NodeKnown, Nodes, CpuNode
    <3>3. wrong' = {}
      BY <1>5, <3>1, <3>2 DEF CpuNode
    <3>4. \A c \in Cells : mem'[c] = ref'[c]
      BY <1>5, <3>1 DEF CpuNode, Update
    <3>5. ASSUME qx' # None PROVE scr' = Quantised(qx', ref')
      <4>1. qx' = qx /\ Area[qx] \cap Area[node.y] = {}
        BY <1>5, <3>5 DEF CpuNode, StillQuantised
      <4>2. Quantised(qx, ref') = Quantised(qx, ref)
        BY <1>5, <4>1 DEF CpuNode, Quantised, Update
      <4> QED
        BY <1>5, <3>1, <3>5, <4>1, <4>2 DEF CpuNode
    <3>6. batch' = <<>> /\ done' = {}
      BY <1>5, <2>1 DEF CpuNode
    <3> QED
      BY <3>3, <3>4, <3>5, <3>6, EmptyData
  <2> QED
    BY <2>2, <2>3
<1>6. CASE FlushDone
  <2>1. batch' = <<>> /\ done' = {} /\ done = DOMAIN batch
        /\ UNCHANGED <<pc, qx, lost, scr, mem, ref, wrong>>
    BY <1>6 DEF FlushDone, EmptyBatch
  <2>2. CASE lost
    BY <2>1, <2>2 DEF Data, Shapes, DoneClosed
  <2>3. CASE ~lost
    BY <1>0, <2>1, <2>3, BatchRan, EmptyData DEF DataInv, Data
  <2> QED
    BY <2>2, <2>3
<1>7. CASE FlushFails
  BY <1>7 DEF FlushFails, EmptyBatch, Data, Shapes, DoneClosed
<1>8. CASE GrowFails
  BY <1>8 DEF GrowFails, Data, DataInv, Shapes, DoneClosed, Quant, Ordered
<1>9. CASE PushQuantise
  <2>1. node \in Nodes /\ node.x \in Tensors /\ Push("quant", Area[node.x], {Scratch}) /\ pc # "idle"
    BY <1>0, <1>9 DEF PushQuantise, Nodes, TypeInv, NodeKnown
  <2>2. Area[node.x] \in SUBSET All /\ {Scratch} \in SUBSET All
    BY <2>1, AreaAssumption DEF All
  <2>3. PICK s \in Stages : /\ Appended(s) /\ s.kind = "quant" /\ s.rd = Area[node.x] /\ s.wr = {Scratch}
                            /\ s.x = node.x /\ s.want = ref
    BY <1>0, <2>1, <2>2, PushAppends
  <2>4. done = {} /\ done' = {} /\ UNCHANGED <<lost, scr, mem, wrong, ref>> /\ qx' = node.x
    BY <1>0, <1>9 DEF PushQuantise, BusyWaits
  <2> QED
    BY <2>1, <2>3, <2>4, PushData
<1>10. CASE PushNode
  <2> DEFINE r == IF node.op = "op" THEN Area[node.x] ELSE {Scratch}
  <2>1. /\ node \in Nodes /\ node.x \in Tensors /\ node.y \in Tensors /\ pc = "push"
        /\ node.op \in {"op", "mul_mat"} /\ Push(node.op, r, Area[node.y])
    BY <1>0, <1>10 DEF PushNode, Nodes, TypeInv, NodeKnown
  <2>2. r \in SUBSET All /\ Area[node.y] \in SUBSET All
    BY <2>1, AreaAssumption DEF All
  <2>3. PICK s \in Stages : /\ Appended(s) /\ s.kind = node.op /\ s.rd = r /\ s.wr = Area[node.y]
                            /\ s.x = node.x /\ s.y = node.y /\ s.node = n /\ s.want = ref
    BY <1>0, <2>1, <2>2, PushAppends
  <2>4. /\ done = {} /\ done' = {} /\ UNCHANGED <<lost, scr, mem, wrong>>
        /\ ref' = [c \in Cells |-> IF c \in s.wr THEN s.node ELSE ref[c]]
    BY <1>0, <1>10, <2>3 DEF PushNode, BusyWaits, Update
  <2>5. qx' # None => qx' = qx /\ Area[qx] \cap s.wr = {}
    BY <1>10, <2>3 DEF PushNode, StillQuantised
  <2>6. node.op = "mul_mat" => qx # None /\ qx = node.x
    BY <1>0, <2>1, NoneAssumption DEF Operand
  <2> QED
    BY <2>1, <2>3, <2>4, <2>5, <2>6, PushData
<1>11. ASSUME NEW i \in DOMAIN batch, Execute(i) PROVE Shapes' /\ DoneClosed' /\ Data'
  <2>1. DoneClosed' /\ Data'
    BY <1>11, ExecuteData
  <2>2. Shapes'
    BY <1>11 DEF Execute, DataInv, Shapes, Quant
  <2> QED
    BY <2>1, <2>2
<1>12. CASE \/ \E d \in Nodes : NextNode(d)
            \/ EncodeFails \/ LastNode \/ Finish \/ Flush \/ UNCHANGED vars
  BY <1>12, Unmoved DEF NextNode, EncodeFails, LastNode, Finish, Flush, vars
<1> QED
  BY <1>1, <1>2, <1>3, <1>4, <1>5, <1>6, <1>7, <1>8, <1>9, <1>10, <1>11, <1>12 DEF Next

LEMMA DataInvStep == DataInv /\ [Next]_vars => DataInv'
<1> SUFFICES ASSUME DataInv, [Next]_vars PROVE DataInv'
  OBVIOUS
<1>1. BarrierInv' /\ Shapes' /\ DoneClosed' /\ Data'
  BY BarrierInvStep, DataStep DEF DataInv
<1>2. Operand' /\ (pc \in {"idle", "success", "failed"} => batch = <<>>)
      /\ (pc' \in {"idle", "success", "failed"} => batch' = <<>>)
  <2>1. CASE UNCHANGED vars
    BY <2>1 DEF vars, encoder, DataInv, Operand, Settled, scratch
  <2>2. CASE \/ \E t \in Tensors : HostWrite(t)
             \/ StartGraph \/ Return \/ Grow \/ GrowFails \/ EncodeFails \/ CpuNode \/ LastNode \/ Finish
             \/ Flush \/ FlushDone \/ FlushFails \/ \E i \in DOMAIN batch : Execute(i)
    BY <2>2 DEF HostWrite, StartGraph, Return, Grow, GrowFails, EncodeFails, CpuNode, LastNode, Finish,
       Flush, FlushDone, FlushFails, Execute, EmptyBatch, encoder, scratch, DataInv, Operand, Settled
  <2>3. CASE \E d \in Nodes : NextNode(d)
    BY <2>3 DEF NextNode, encoder, scratch, DataInv, Operand, Settled
  <2>4. CASE PushQuantise \/ PushNode
    BY <2>4 DEF PushQuantise, PushNode, scratch, DataInv, Operand, Settled
  <2> QED
    BY <2>1, <2>2, <2>3, <2>4 DEF Next
<1>3. pc' = "idle" => mem' = ref' /\ wrong' = {}
  <2>1. ASSUME NEW t \in Tensors, HostWrite(t) PROVE mem' = ref' /\ wrong' = {}
    BY <2>1 DEF HostWrite, DataInv, Settled
  <2>2. CASE Return
    BY <2>2 DEF Return
  <2>3. CASE UNCHANGED vars
    BY <2>3 DEF vars, data, DataInv, Settled
  <2>4. CASE ~(Return \/ UNCHANGED vars \/ \E t \in Tensors : HostWrite(t))
    BY <2>4 DEF DataInv, BarrierInv, TypeInv, BusyWaits, Next, StartGraph, NextNode, Grow,
       GrowFails, PushQuantise, PushNode, EncodeFails, CpuNode, LastNode, Finish, Flush, FlushDone, FlushFails, Execute
  <2> QED
    BY <2>1, <2>2, <2>3, <2>4
<1> QED
  BY <1>1, <1>2, <1>3 DEF DataInv, Settled

LEMMA DataInvInit == Init => DataInv
<1> SUFFICES ASSUME Init PROVE DataInv
  OBVIOUS
<1>1. BarrierInv
  BY TypeInvInit DEF Init, BarrierInv, Tracked, NoMissingBarrier
<1>2. DOMAIN batch = {} /\ Len(batch) = 0 /\ mem = ref /\ done = {} /\ pc = "idle" /\ wrong = {} /\ batch = <<>>
  BY DEF Init
<1>3. Shapes /\ DoneClosed /\ Operand /\ Settled
  BY <1>2 DEF Shapes, DoneClosed, Operand, Settled
<1>4. Data
  <2>1. \A i \in 1 .. 1 : Before(i) = ref
    BY <1>2 DEF Before
  <2>2. Memory
    BY <1>2, <2>1 DEF Memory
  <2> QED
    BY <1>2, <2>2 DEF Data, Chain, Sources, Latest
<1> QED
  BY <1>1, <1>3, <1>4 DEF DataInv

\* The invariant of the data holds in every state of ggml-gpud.
THEOREM DataInvariance == Spec => []DataInv
BY DataInvInit, DataInvStep, PTL DEF Spec

\* As long as no batch fails every node is computed from the inputs a node-by-node
\* execution would have given it, however the tensors overlap, whatever barriers are
\* elided, quantisations reused and batches cut (ggml-gpud.cpp, encode_node, push).
THEOREM NodesInOrder == Spec => []SequentialResults
<1>1. DataInv => SequentialResults
  BY DEF DataInv, Data, SequentialResults
<1> QED
  BY DataInvariance, <1>1, PTL

\* A graph reported as computed, none of whose batches failed, has left in memory what
\* its nodes in order would have left (ggml-gpud.cpp, gpud_graph_compute).
THEOREM SuccessIsFaithful == Spec => []SuccessMeansComputed
<1>1. ASSUME DataInv, pc = "success", ~lost PROVE mem = ref
  <2>1. TypeInv /\ batch = <<>> /\ done = {}
    BY <1>1 DEF DataInv, Settled, BarrierInv, TypeInv, BusyWaits
  <2>2. DOMAIN batch = {}
    BY <2>1
  <2>3. \A c \in Cells : mem[c] = ref[c]
    BY <1>1, <2>1, <2>2, BatchRan DEF DataInv, Data
  <2>4. mem \in [Cells -> Nat] /\ ref \in [Cells -> Nat]
    BY <2>1 DEF TypeInv, TypeOK
  <2> QED
    BY <2>3, <2>4
<1>2. DataInv => SuccessMeansComputed
  BY <1>1 DEF SuccessMeansComputed
<1> QED
  BY DataInvariance, <1>2, PTL
===============================================================================
