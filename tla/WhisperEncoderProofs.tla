-------------------------- MODULE WhisperEncoderProofs --------------------------
(***************************************************************************)
(* What is proved of the encoder of whisper, for any number of threads of  *)
(* the pool, of rounds and of requests that are given up.  The inductive   *)
(* invariant has four parts: how far the threads of the pool are (Pool);   *)
(* where the encoder is and which requests it has under way (Course); what *)
(* the buffers hold by then (Data); and what is on the wire, in tpud and   *)
(* on the TPU for the requests under way (Wire).                           *)
(***************************************************************************)
EXTENDS WhisperEncoder, FiniteSetTheorems, SequenceTheorems, TLAPS

\* The script of a mode as a timetable: the buffer that a block uses, and the steps at which
\* it is filled, submitted, awaited and divided.
Modes == {"single", "pair", "ovl"}
Size(m)      == IF m = "single" THEN 17 ELSE 14
BufOf(m, b)  == IF m = "single" THEN 0 ELSE IF m = "pair" /\ b >= 2 THEN b - 2 ELSE b
QAt(m, b)    == IF m = "single" THEN 4 * b + 2 ELSE IF b < 2 THEN 3 + b ELSE IF m = "pair" THEN 7 + b ELSE 4 + b
SubAt(m, b)  == IF m = "single" THEN 4 * b + 3 ELSE IF b < 2 THEN 5 ELSE IF m = "pair" THEN 11 ELSE 8
WaitAt(m, b) == IF m = "single" THEN 4 * b + 4
                ELSE IF b >= 2 THEN 12 ELSE IF m = "pair" THEN 6 ELSE 9
DivAt(m, b)  == IF m = "single" THEN 4 * b + 5
                ELSE IF b >= 2 THEN 11 + b ELSE IF m = "pair" THEN 7 + b ELSE 10 + b

\* The requests under way before step i, oldest first: the blocks of each.
Sent(m, i) ==
  IF m = "single" THEN IF i = 4 THEN << <<0>> >> ELSE IF i = 8 THEN << <<1>> >>
                       ELSE IF i = 12 THEN << <<2>> >> ELSE IF i = 16 THEN << <<3>> >> ELSE <<>>
  ELSE IF m = "pair" THEN IF i = 6 THEN << <<0, 1>> >> ELSE IF i = 12 THEN << <<2, 3>> >> ELSE <<>>
  ELSE IF i \in 6 .. 8 THEN << <<0, 1>> >> ELSE IF i = 9 THEN << <<0, 1>>, <<2, 3>> >>
  ELSE IF i \in 10 .. 12 THEN << <<2, 3>> >> ELSE <<>>

\* The buffers of a request.
BufsOf(m, g) == IF Len(g) = 1 THEN <<BufOf(m, g[1])>> ELSE <<BufOf(m, g[1]), BufOf(m, g[2])>>

\* Is the encoder in a round, at work with its pool, and what has it under way?
InRound == pc \in {"step", "slice", "join", "import"}
Gluing  == pc \in {"slice", "join"}
Under   == IF InRound THEN Sent(mode, ip) ELSE <<>>

\* The pool: a thread that has not taken part in the present call is a call behind.
Through == {w \in Workers : wpc[w] = "sleep" /\ seen[w] = seq}

Pool ==
  /\ \A w \in Workers : seen[w] \in {seq - 1, seq}
  /\ \A w \in Workers : wpc[w] # "sleep" => seen[w] = seq
  /\ ~Gluing => Through = Workers
  /\ Gluing => /\ fn = Here /\ Here.do \in {"kv", "q", "div"}
               /\ done = Cardinality(Through)
               /\ \A w \in Workers : wpc[w] = "run" => task[w] = fn

\* Where the encoder is, and its session.
Course ==
  /\ IF InRound THEN ip \in 1 .. Size(mode) ELSE ip = 0
  /\ pc = "import" => Here.do = "submit" /\ mode # "ovl" /\ sock = "open"
  /\ owed = Len(Under)
  /\ left => mode = "ovl" /\ failed
  /\ \A k \in Bufs : tpu_h[k] = k \/ (tpu_h[k] = -1 /\ mode # "ovl")
  /\ sock = "closed" => conn = "down" /\ (InRound => ip <= SubAt(mode, 0))
  /\ conn = "down" => up = <<>> /\ cur = <<>> /\ tpu = <<>>
  /\ cur = <<>> => \A i \in 1 .. Len(tpu) : ~tpu[i].awaited

\* What the buffers hold before step ip, and in the middle of it for the threads that are through.
Strips ==
  /\ ip > 1 => \A t \in Threads : kv[0][t] = job
  /\ ip > 2 /\ mode # "single" => \A b \in Blocks, t \in Threads : kv[BufOf(mode, b)][t] = job

\* A result of block b is its own, unless the request for the block had no fence.
Right(x, b) == x = <<job, b>> \/ <<job, b>> \in blind

\* A block's input from its filling to its answer, its output until it is divided, its result after.
BlockOK(b) ==
  /\ QAt(mode, b) < ip /\ ip <= WaitAt(mode, b) => \A t \in Threads : q[BufOf(mode, b)][t] = <<job, b>>
  /\ WaitAt(mode, b) < ip /\ ip <= DivAt(mode, b) => Right(out[BufOf(mode, b)], b)
  /\ DivAt(mode, b) < ip => \A t \in Threads : Right(ctx[b][t], b)

\* Has thread t done its part of the current step, and what has it done of step s?
HasDone(t) == IF t = Main THEN pc = "join" ELSE wpc[t] = "count" \/ (wpc[t] = "sleep" /\ seen[t] = seq)

Did(s, t) ==
  /\ s.do = "kv" => kv[0][t] = job
  /\ s.do = "q" => q[s.bufs[1]][t] = <<job, s.blk>>
  /\ s.do = "div" => Right(ctx[s.blk][t], s.blk)

\* The data is right, while no answer is left in the socket.
Data == ~left =>
  /\ InRound => Strips /\ \A b \in Blocks : BlockOK(b)
  /\ Gluing => \A t \in Threads : HasDone(t) => Did(Here, t)
  /\ pc = "round" /\ round > 0 => \A b \in Blocks, t \in Threads : Right(ctx[b][t], b)

\* What is on the wire.
Infer(g) == [cmd |-> "infer", hs |-> BufsOf(mode, g)]

\* The answers to the first a requests have arrived.
Answers(a) ==
  /\ Len(down) = 2 * a
  /\ \A j \in 1 .. a : IF down[2 * j - 1] = 0
                       THEN \A p \in 1 .. Len(Under[j]) : Right(out[BufOf(mode, Under[j][p])], Under[j][p])
                       ELSE failed

\* Block b, the part p of a request: the TPU has computed it, or still has it, awaited.  No
\* other request will write its output after that.
Computed(b, p) == obuf[p] = <<job, b>> /\ \A j \in 1 .. Len(tpu) : tpu[j].slot # p
OnTpu(b, p) ==
  \E i \in 1 .. Len(tpu) : /\ tpu[i].awaited /\ tpu[i].slot = p /\ tpu[i].buf = BufOf(mode, b)
                          /\ \A j \in (i + 1) .. Len(tpu) : tpu[j].slot # p

\* tpud serves a request with the blocks g, some of them perhaps without a fence.
Computing(g) ==
  \A p \in 1 .. Len(g) : /\ bounce = 1 => ibuf[p] = <<job, g[p]>>
                         /\ <<job, g[p]>> \in blind \/ Computed(g[p], p) \/ OnTpu(g[p], p)

\* Behind the first a requests the others are still to be read.
Rest(a) == Len(up) = Len(Under) - a /\ \A i \in 1 .. Len(up) : up[i] = Infer(Under[a + i])

\* The first a requests have answers; tpud serves the next, or reads it.
Flow(a) ==
  /\ a <= Len(Under) /\ Answers(a)
  /\ conn = "up" =>
       \/ cur = <<>> /\ Rest(a)
       \/ /\ a < Len(Under) /\ cur = BufsOf(mode, Under[a + 1]) /\ Rest(a + 1)
          /\ Computing(Under[a + 1])

\* An import is alone on the wire: it is to be read, or refused, or answered.
Importing ==
  /\ cur = <<>>
  /\ \/ down = <<>> /\ (conn = "up" => up = << [cmd |-> "import", hs |-> Need] >>)
     \/ up = <<>> /\ down = <<1>> /\ failed
     \/ up = <<>> /\ down = <<0>> \o Need

\* Unless an answer was left there, the wire holds what the encoder's course says.
Wire == ~left /\ sock = "open" => IF pc = "import" THEN Importing ELSE \E a \in 0 .. 2 : Flow(a)

-------------------------------------------------------------------------------
(* The timetable *)

\* The steps of the script are those of the timetable.
LEMMA SingleScript ==
  LET s == Script["single"]
  IN  /\ Len(s) = 17 /\ s[1] = KV
      /\ \A b \in Blocks : /\ s[4 * b + 2] = Q(b, 0) /\ s[4 * b + 3] = Submit(<<0>>)
                           /\ s[4 * b + 4] = Wait(<<0>>) /\ s[4 * b + 5] = Div(b, 0)
<1> DEFINE s == Script["single"]
<1>1. s = <<KV, Q(0, 0), Submit(<<0>>), Wait(<<0>>), Div(0, 0),
            Q(1, 0), Submit(<<0>>), Wait(<<0>>), Div(1, 0),
            Q(2, 0), Submit(<<0>>), Wait(<<0>>), Div(2, 0),
            Q(3, 0), Submit(<<0>>), Wait(<<0>>), Div(3, 0)>>
  BY DEF Script
<1> HIDE DEF s
<1>2. Len(s) = 17 /\ s[1] = KV
  BY <1>1
<1>3. \A b \in Blocks : /\ s[4 * b + 2] = Q(b, 0) /\ s[4 * b + 3] = Submit(<<0>>)
                         /\ s[4 * b + 4] = Wait(<<0>>) /\ s[4 * b + 5] = Div(b, 0)
  BY <1>1 DEF Blocks
<1>4. QED
  BY <1>2, <1>3 DEF s

\* With WSP_PAIR.
LEMMA PairScript ==
  LET s == Script["pair"]
  IN  /\ Len(s) = 14 /\ s[1] = KV /\ s[2] = Copy(<<1>>)
      /\ s[3] = Q(0, 0) /\ s[4] = Q(1, 1) /\ s[9] = Q(2, 0) /\ s[10] = Q(3, 1)
      /\ s[5] = Submit(<<0, 1>>) /\ s[6] = Wait(<<0, 1>>) /\ s[11] = Submit(<<0, 1>>) /\ s[12] = Wait(<<0, 1>>)
      /\ s[7] = Div(0, 0) /\ s[8] = Div(1, 1) /\ s[13] = Div(2, 0) /\ s[14] = Div(3, 1)
  BY DEF Script

\* With WSP_OVL.
LEMMA OvlScript ==
  LET s == Script["ovl"]
  IN  /\ Len(s) = 14 /\ s[1] = KV /\ s[2] = Copy(<<1, 2, 3>>)
      /\ s[3] = Q(0, 0) /\ s[4] = Q(1, 1) /\ s[6] = Q(2, 2) /\ s[7] = Q(3, 3)
      /\ s[5] = Submit(<<0, 1>>) /\ s[9] = Wait(<<0, 1>>) /\ s[8] = Submit(<<2, 3>>) /\ s[12] = Wait(<<2, 3>>)
      /\ s[10] = Div(0, 0) /\ s[11] = Div(1, 1) /\ s[13] = Div(2, 2) /\ s[14] = Div(3, 3)
  BY DEF Script

\* Request g before the requests gs.
Before(g, gs) == <<g>> \o gs

\* What is done at each time of the timetable.
LEMMA Timetable ==
  ASSUME NEW m \in Modes
  PROVE  /\ Len(Script[m]) = Size(m)
         /\ Script[m][1] = KV
         /\ m # "single" => Script[m][2] = Copy(IF m = "pair" THEN <<1>> ELSE <<1, 2, 3>>)
         /\ \A b \in Blocks :
              /\ Script[m][QAt(m, b)] = Q(b, BufOf(m, b)) /\ Script[m][DivAt(m, b)] = Div(b, BufOf(m, b))
              /\ \E g \in {<<0>>, <<1>>, <<2>>, <<3>>, <<0, 1>>, <<2, 3>>} :
                   /\ b \in ToSet(g)
                   /\ Script[m][SubAt(m, b)] = Submit(BufsOf(m, g))
                   /\ Script[m][WaitAt(m, b)] = Wait(BufsOf(m, g))
                   /\ Sent(m, SubAt(m, b) + 1) = Append(Sent(m, SubAt(m, b)), g)
                   /\ Sent(m, WaitAt(m, b)) = Before(g, Sent(m, WaitAt(m, b) + 1))
<1> USE DEF Blocks, Size, QAt, SubAt, WaitAt, DivAt, BufOf, BufsOf, Sent, ToSet, Before
<1>1. CASE m = "single"
  <2>1. ASSUME NEW b \in Blocks PROVE Len(<<b>>) = 1 /\ <<b>>[1] = b /\ DOMAIN <<b>> = {1}
    OBVIOUS
  <2>2. /\ Sent("single", 17) = <<>>
        /\ \A b \in Blocks : /\ Sent("single", 4 * b + 3) = <<>> /\ Sent("single", 4 * b + 5) = <<>>
                             /\ Sent("single", 4 * b + 4) = << <<b>> >>
    OBVIOUS
  <2>3. \A b \in Blocks : b \in ToSet(<<b>>) /\ BufsOf("single", <<b>>) = <<0>>
    BY <2>1
  <2> QED
    BY <1>1, <2>2, <2>3, SingleScript
<1>2. CASE m = "pair"
  BY <1>2, PairScript
<1>3. CASE m = "ovl"
  BY <1>3, OvlScript
<1>4. QED
  BY <1>1, <1>2, <1>3 DEF Modes

\* Every step is in the timetable.
LEMMA Planned ==
  ASSUME NEW m \in Modes, NEW i \in 1 .. Size(m)
  PROVE  \/ i = 1
         \/ i = 2 /\ m # "single"
         \/ \E b \in Blocks : i \in {QAt(m, b), SubAt(m, b), WaitAt(m, b), DivAt(m, b)}
  BY DEF Blocks, Modes, Size, QAt, SubAt, WaitAt, DivAt

\* The times of a block.
LEMMA Order ==
  ASSUME NEW m \in Modes, NEW b \in Blocks
  PROVE  /\ QAt(m, b) \in Int /\ SubAt(m, b) \in Int /\ WaitAt(m, b) \in Int /\ DivAt(m, b) \in Int
         /\ 1 < QAt(m, b) /\ (m # "single" => 2 < QAt(m, b)) /\ QAt(m, b) < SubAt(m, b)
         /\ SubAt(m, b) < WaitAt(m, b) /\ WaitAt(m, b) < DivAt(m, b) /\ DivAt(m, b) <= Size(m)
         /\ SubAt(m, 0) <= SubAt(m, b)
         /\ BufOf(m, b) \in Bufs
  BY DEF Blocks, Bufs, Modes, Size, QAt, SubAt, WaitAt, DivAt, BufOf

\* No two blocks use a buffer at the same time.
LEMMA Apart ==
  ASSUME NEW m \in Modes, NEW b \in Blocks, NEW c \in Blocks, b # c, BufOf(m, b) = BufOf(m, c)
  PROVE  DivAt(m, b) < QAt(m, c) \/ DivAt(m, c) < QAt(m, b)
  BY DEF Blocks, Modes, QAt, DivAt, BufOf

\* No two steps are done at the same time.
LEMMA Kinds ==
  ASSUME NEW m \in Modes, NEW b \in Blocks, NEW c \in Blocks
  PROVE  /\ QAt(m, b) = QAt(m, c) => b = c
         /\ DivAt(m, b) = DivAt(m, c) => b = c
         /\ QAt(m, b) \notin {SubAt(m, c), WaitAt(m, c), DivAt(m, c)}
         /\ DivAt(m, b) \notin {SubAt(m, c), WaitAt(m, c)}
         /\ SubAt(m, b) # WaitAt(m, c)
  BY DEF Blocks, Modes, QAt, SubAt, WaitAt, DivAt

(* The requests under way are those of the blocks that have been submitted and not awaited. *)
\* The blocks that a request may have.
Pieces == {<<0>>, <<1>>, <<2>>, <<3>>, <<0, 1>>, <<2, 3>>}

Among(b, gs) == \E j \in 1 .. Len(gs) : b \in ToSet(gs[j])

\* The blocks of one request and of two.
LEMMA AmongTwo ==
  ASSUME NEW b, NEW g \in Pieces, NEW h \in Pieces
  PROVE  /\ ~Among(b, <<>>) /\ (Among(b, <<g>>) <=> b \in ToSet(g))
         /\ (Among(b, <<g, h>>) <=> b \in ToSet(g) \/ b \in ToSet(h))
<1>1. Len(<<g>>) = 1 /\ Len(<<g, h>>) = 2 /\ Len(<<>>) = 0
      /\ <<g>>[1] = g /\ <<g, h>>[1] = g /\ <<g, h>>[2] = h
  OBVIOUS
<1>2. 1 .. 1 = {1} /\ 1 .. 2 = {1, 2} /\ 1 .. 0 = {}
  OBVIOUS
<1>3. QED
  BY <1>1, <1>2 DEF Among

\* The blocks of a request, as sets.
LEMMA PieceSets ==
  /\ ToSet(<<0>>) = {0} /\ ToSet(<<1>>) = {1} /\ ToSet(<<2>>) = {2} /\ ToSet(<<3>>) = {3}
  /\ ToSet(<<0, 1>>) = {0, 1} /\ ToSet(<<2, 3>>) = {2, 3}
  BY DEF ToSet

\* The requests under way before a step of the script: at most two, and after the last step none.
LEMMA UnderWay ==
  ASSUME NEW m \in Modes, NEW i \in Int
  PROVE  /\ Sent(m, i) \in Seq(Pieces) /\ Len(Sent(m, i)) \in 0 .. 2
         /\ \A b \in Blocks : Among(b, Sent(m, i)) <=> SubAt(m, b) < i /\ i <= WaitAt(m, b)
         /\ Sent(m, 1) = <<>> /\ Sent(m, Size(m) + 1) = <<>>
<1> DEFINE Fits(gs) == /\ gs \in Seq(Pieces) /\ Len(gs) \in 0 .. 2
                       /\ \A b \in Blocks : Among(b, gs) <=> SubAt(m, b) < i /\ i <= WaitAt(m, b)
<1>1. \A g, h \in Pieces : <<>> \in Seq(Pieces) /\ <<g>> \in Seq(Pieces) /\ <<g, h>> \in Seq(Pieces)
                          /\ Len(<<>>) = 0 /\ Len(<<g>>) = 1 /\ Len(<<g, h>>) = 2
  OBVIOUS
<1>2. <<0>> \in Pieces /\ <<1>> \in Pieces /\ <<2>> \in Pieces /\ <<3>> \in Pieces
      /\ <<0, 1>> \in Pieces /\ <<2, 3>> \in Pieces
  BY DEF Pieces
<1>3. Sent(m, 1) = <<>> /\ Sent(m, Size(m) + 1) = <<>>
  BY DEF Modes, Sent, Size
<1>4. CASE Sent(m, i) = <<>>
  <2>1. \A b \in Blocks : ~(SubAt(m, b) < i /\ i <= WaitAt(m, b))
    BY <1>4 DEF Modes, SubAt, WaitAt, Sent, Blocks
  <2>2. \A b \in Blocks : ~Among(b, <<>>)
    BY <1>2, AmongTwo
  <2> QED
    BY <1>1, <1>2, <1>3, <1>4, <2>1, <2>2
<1>5. ASSUME NEW g \in Pieces, Sent(m, i) = <<g>>,
             \A b \in Blocks : b \in ToSet(g) <=> SubAt(m, b) < i /\ i <= WaitAt(m, b)
      PROVE  Fits(Sent(m, i))
  <2>1. \A b \in Blocks : Among(b, <<g>>) <=> b \in ToSet(g)
    BY AmongTwo
  <2> QED
    BY <1>1, <1>5, <2>1
<1>6. CASE m = "single" /\ Sent(m, i) # <<>>
  <2>1. PICK b \in Blocks : i = 4 * b + 4 /\ Sent(m, i) = << <<b>> >> /\ <<b>> \in Pieces /\ ToSet(<<b>>) = {b}
    BY <1>2, <1>6, PieceSets DEF Sent, Blocks
  <2>2. \A c \in Blocks : c \in {b} <=> SubAt(m, c) < i /\ i <= WaitAt(m, c)
    BY <1>6, <2>1 DEF SubAt, WaitAt, Blocks
  <2> QED
    BY <1>3, <1>5, <2>1, <2>2
<1>7. CASE m # "single" /\ Sent(m, i) # <<>> /\ ~(m = "ovl" /\ i = 9)
  <2>1. CASE Sent(m, i) = << <<0, 1>> >>
    <3>1. \A c \in Blocks : c \in {0, 1} <=> SubAt(m, c) < i /\ i <= WaitAt(m, c)
      <4>1. << <<0, 1>> >> # << <<2, 3>> >>
        OBVIOUS
      <4> QED
        BY <1>7, <2>1, <4>1 DEF SubAt, WaitAt, Blocks, Sent, Modes
    <3> QED
      BY <1>2, <1>3, <1>5, <2>1, <3>1, PieceSets
  <2>2. CASE Sent(m, i) = << <<2, 3>> >>
    <3>1. \A c \in Blocks : c \in {2, 3} <=> SubAt(m, c) < i /\ i <= WaitAt(m, c)
      <4>1. << <<0, 1>> >> # << <<2, 3>> >>
        OBVIOUS
      <4> QED
        BY <1>7, <2>2, <4>1 DEF SubAt, WaitAt, Blocks, Sent, Modes
    <3> QED
      BY <1>2, <1>3, <1>5, <2>2, <3>1, PieceSets
  <2> QED
    BY <1>7, <2>1, <2>2 DEF Sent, Modes
<1>8. CASE m = "ovl" /\ i = 9
  <2>1. Sent(m, i) = << <<0, 1>>, <<2, 3>> >>
    BY <1>8 DEF Sent
  <2>2. \A b \in Blocks : b \in {0, 1} \/ b \in {2, 3} <=> SubAt(m, b) < i /\ i <= WaitAt(m, b)
    BY <1>8 DEF SubAt, WaitAt, Blocks
  <2>3. \A b \in Blocks : Among(b, << <<0, 1>>, <<2, 3>> >>) <=> b \in {0, 1} \/ b \in {2, 3}
    BY <1>2, AmongTwo, PieceSets
  <2> QED
    BY <1>1, <1>2, <1>3, <2>1, <2>2, <2>3
<1>9. QED
  BY <1>4, <1>6, <1>7, <1>8

\* Two requests are under way only when the pairs overlap.
LEMMA TwoUnder ==
  ASSUME NEW m \in Modes, NEW i \in Int, Len(Sent(m, i)) = 2
  PROVE  m = "ovl" /\ Sent(m, i) = << <<0, 1>>, <<2, 3>> >>
<1>1. Len(<<>>) = 0 /\ \A g \in Pieces : Len(<<g>>) = 1
  OBVIOUS
<1>2. Sent(m, i) # <<>> /\ \A g \in Pieces : Sent(m, i) # <<g>>
  BY <1>1
<1>3. QED
  BY <1>2 DEF Sent, Modes, Pieces

\* The parts of a request are in different buffers.
LEMMA Parts ==
  ASSUME NEW m \in Modes, NEW i \in Int, NEW j \in 1 .. Len(Sent(m, i))
  PROVE  LET g == Sent(m, i)[j]
         IN  /\ g \in Pieces /\ Len(g) \in 1 .. 2
             /\ \A p \in 1 .. Len(g) : /\ g[p] \in Blocks /\ BufOf(m, g[p]) \in Bufs
                                       /\ SubAt(m, g[p]) < i /\ i <= WaitAt(m, g[p])
             /\ \A p, r \in 1 .. Len(g) : BufOf(m, g[p]) = BufOf(m, g[r]) => p = r
             /\ BufsOf(m, g) \in Tuples /\ Len(BufsOf(m, g)) = Len(g)
             /\ \A p \in 1 .. Len(g) : BufsOf(m, g)[p] = BufOf(m, g[p])
             /\ ToSet(BufsOf(m, g)) = {BufOf(m, g[p]) : p \in 1 .. Len(g)}
<1> DEFINE g == Sent(m, i)[j]
<1>1. g \in Pieces
  BY UnderWay
<1>2. Len(g) \in 1 .. 2 /\ \A p \in 1 .. Len(g) : g[p] \in Blocks
  <2> HIDE DEF g
  <2> QED
    BY <1>1 DEF Pieces, Blocks
<1>3. \A p \in 1 .. Len(g) : BufOf(m, g[p]) \in Bufs /\ SubAt(m, g[p]) < i /\ i <= WaitAt(m, g[p])
  <2>1. \A p \in 1 .. Len(g) : Among(g[p], Sent(m, i))
    <3>1. \A p \in 1 .. Len(g) : g[p] \in ToSet(g)
      <4> HIDE DEF g
      <4> QED
        BY <1>1 DEF Pieces, ToSet
    <3> QED
      BY <3>1 DEF Among
  <2> QED
    BY <1>2, <2>1, UnderWay, Order
<1>4. \A p, r \in 1 .. Len(g) : BufOf(m, g[p]) = BufOf(m, g[r]) => p = r
  <2>1. CASE m = "single"
    <3>1. Len(g) = 1
      BY <2>1 DEF Sent
    <3> QED
      BY <3>1
  <2>2. CASE m # "single"
    <3> HIDE DEF g
    <3> QED
      BY <1>1, <2>2 DEF Pieces, BufOf, Modes
  <2> QED
    BY <2>1, <2>2
<1>5. /\ BufsOf(m, g) \in Tuples /\ Len(BufsOf(m, g)) = Len(g)
      /\ \A p \in 1 .. Len(g) : BufsOf(m, g)[p] = BufOf(m, g[p])
  <2> HIDE DEF g
  <2>1. CASE Len(g) = 1
    BY <1>2, <1>3, <2>1 DEF BufsOf, Tuples
  <2>2. CASE Len(g) = 2
    BY <1>2, <1>3, <2>2 DEF BufsOf, Tuples
  <2> QED
    BY <1>2, <2>1, <2>2
<1>6. ToSet(BufsOf(m, g)) = {BufOf(m, g[p]) : p \in 1 .. Len(g)}
  <2> HIDE DEF g
  <2>1. CASE Len(g) = 1
    BY <2>1 DEF BufsOf, ToSet
  <2>2. CASE Len(g) = 2
    BY <2>2 DEF BufsOf, ToSet
  <2> QED
    BY <1>2, <2>1, <2>2
<1>7. QED
  BY <1>1, <1>2, <1>3, <1>4, <1>5, <1>6

\* What a step is, and what it does to the requests under way.
LEMMA StepFacts ==
  ASSUME NEW m \in Modes, NEW i \in 1 .. Size(m)
  PROVE  LET s == Script[m][i]
         IN  /\ Len(Script[m]) = Size(m)
             /\ s.do \in {"kv", "copy", "q", "div", "submit", "wait"}
             /\ (s.do = "kv" <=> i = 1) /\ (i = 1 => s = KV)
             /\ (s.do = "copy" <=> i = 2 /\ m # "single")
             /\ i = 2 /\ m # "single" => s = Copy(IF m = "pair" THEN <<1>> ELSE <<1, 2, 3>>)
             /\ s.do = "q" => \E b \in Blocks : i = QAt(m, b)
             /\ s.do = "div" => \E b \in Blocks : i = DivAt(m, b)
             /\ \A b \in Blocks : /\ i = QAt(m, b) => s = Q(b, BufOf(m, b))
                                  /\ i = DivAt(m, b) => s = Div(b, BufOf(m, b))
                                  /\ i = SubAt(m, b) => s.do = "submit"
                                  /\ i = WaitAt(m, b) => s.do = "wait"
             /\ s.do = "submit" => \E g \in Pieces : s.bufs = BufsOf(m, g) /\ Sent(m, i + 1) = Append(Sent(m, i), g)
             /\ s.do = "submit" /\ m # "ovl" => Sent(m, i) = <<>>
             /\ s.do = "wait" => \E g \in Pieces : s.bufs = BufsOf(m, g) /\ Sent(m, i) = Before(g, Sent(m, i + 1))
             /\ s.do \notin {"submit", "wait"} => Sent(m, i + 1) = Sent(m, i)
<1> DEFINE s == Script[m][i]
<1>1. /\ KV.do = "kv" /\ \A ks : Copy(ks).do = "copy" /\ Submit(ks).do = "submit" /\ Wait(ks).do = "wait"
                                 /\ Submit(ks).bufs = ks /\ Wait(ks).bufs = ks
      /\ \A b, k : Q(b, k).do = "q" /\ Div(b, k).do = "div"
  BY DEF KV, Copy, Submit, Wait, Q, Div, Step
<1>2. Len(Script[m]) = Size(m)
  BY Timetable
<1>3. CASE i = 1
  <2>1. s = KV
    BY <1>3, Timetable
  <2>2. \A b \in Blocks : 1 < QAt(m, b) /\ 1 < SubAt(m, b) /\ 1 < WaitAt(m, b) /\ 1 < DivAt(m, b)
    BY Order
  <2>3. Sent(m, 2) = Sent(m, 1)
    BY DEF Sent
  <2> QED
    BY <1>1, <1>2, <1>3, <2>1, <2>2, <2>3
<1>4. CASE i = 2 /\ m # "single"
  <2>1. s = Copy(IF m = "pair" THEN <<1>> ELSE <<1, 2, 3>>)
    BY <1>4, Timetable
  <2>2. \A b \in Blocks : 2 < QAt(m, b) /\ 2 < SubAt(m, b) /\ 2 < WaitAt(m, b) /\ 2 < DivAt(m, b)
    BY <1>4, Order
  <2>3. Sent(m, 3) = Sent(m, 2)
    BY <1>4 DEF Sent
  <2> QED
    BY <1>1, <1>2, <1>4, <2>1, <2>2, <2>3
<1>5. ASSUME NEW b \in Blocks, i = QAt(m, b) \/ i = DivAt(m, b)
      PROVE  /\ i # 1 /\ ~(i = 2 /\ m # "single") /\ (i = QAt(m, b) => s = Q(b, BufOf(m, b)))
             /\ (i = DivAt(m, b) => s = Div(b, BufOf(m, b))) /\ Sent(m, i + 1) = Sent(m, i)
             /\ \A c \in Blocks : i \notin {SubAt(m, c), WaitAt(m, c)}
  <2>1. i # 1 /\ ~(i = 2 /\ m # "single") /\ \A c \in Blocks : i \notin {SubAt(m, c), WaitAt(m, c)}
    BY <1>5, Order, Kinds
  <2>2. (i = QAt(m, b) => s = Q(b, BufOf(m, b))) /\ (i = DivAt(m, b) => s = Div(b, BufOf(m, b)))
    BY Timetable
  <2>3. Sent(m, i + 1) = Sent(m, i)
    BY <1>5 DEF Sent, QAt, DivAt, Blocks, Modes
  <2> QED
    BY <2>1, <2>2, <2>3
<1>6. CASE \E b \in Blocks : i = QAt(m, b)
  <2>1. PICK b \in Blocks : i = QAt(m, b)
    BY <1>6
  <2>2. \A c \in Blocks : i # DivAt(m, c) /\ (i = QAt(m, c) => c = b)
    BY <2>1, Kinds
  <2> QED
    BY <1>1, <1>2, <1>5, <2>1, <2>2
<1>7. CASE \E b \in Blocks : i = DivAt(m, b)
  <2>1. PICK b \in Blocks : i = DivAt(m, b)
    BY <1>7
  <2>2. \A c \in Blocks : i # QAt(m, c) /\ (i = DivAt(m, c) => c = b)
    BY <2>1, Kinds
  <2> QED
    BY <1>1, <1>2, <1>5, <2>1, <2>2
<1>8. ASSUME NEW b \in Blocks, i = SubAt(m, b) \/ i = WaitAt(m, b)
      PROVE  /\ i # 1 /\ ~(i = 2 /\ m # "single") /\ \A c \in Blocks : i # QAt(m, c) /\ i # DivAt(m, c)
             /\ \A c \in Blocks : (i = SubAt(m, b) => i # WaitAt(m, c)) /\ (i = WaitAt(m, b) => i # SubAt(m, c))
             /\ \E g \in Pieces : /\ i = SubAt(m, b) => s = Submit(BufsOf(m, g)) /\ Sent(m, i + 1) = Append(Sent(m, i), g)
                                  /\ i = WaitAt(m, b) => s = Wait(BufsOf(m, g)) /\ Sent(m, i) = Before(g, Sent(m, i + 1))
             /\ i = SubAt(m, b) /\ m # "ovl" => Sent(m, i) = <<>>
  <2>1. i # 1 /\ ~(i = 2 /\ m # "single")
    BY <1>8, Order
  <2>2. \A c \in Blocks : i # QAt(m, c) /\ i # DivAt(m, c)
    BY <1>8, Kinds
  <2>3. \A c \in Blocks : (i = SubAt(m, b) => i # WaitAt(m, c)) /\ (i = WaitAt(m, b) => i # SubAt(m, c))
    BY Kinds
  <2>4. \E g \in Pieces : /\ i = SubAt(m, b) => s = Submit(BufsOf(m, g)) /\ Sent(m, i + 1) = Append(Sent(m, i), g)
                          /\ i = WaitAt(m, b) => s = Wait(BufsOf(m, g)) /\ Sent(m, i) = Before(g, Sent(m, i + 1))
    <3>1. PICK g \in Pieces : /\ Script[m][SubAt(m, b)] = Submit(BufsOf(m, g))
                              /\ Script[m][WaitAt(m, b)] = Wait(BufsOf(m, g))
                              /\ Sent(m, SubAt(m, b) + 1) = Append(Sent(m, SubAt(m, b)), g)
                              /\ Sent(m, WaitAt(m, b)) = Before(g, Sent(m, WaitAt(m, b) + 1))
      BY Timetable DEF Pieces
    <3> QED
      BY <3>1
  <2>5. i = SubAt(m, b) /\ m # "ovl" => Sent(m, i) = <<>>
    BY DEF Sent, SubAt, Blocks, Modes
  <2> QED
    BY <2>1, <2>2, <2>3, <2>4, <2>5
<1>9. CASE \E b \in Blocks : i = SubAt(m, b)
  BY <1>1, <1>2, <1>8, <1>9
<1>10. CASE \E b \in Blocks : i = WaitAt(m, b)
  BY <1>1, <1>2, <1>8, <1>10
<1>11. QED
  BY <1>3, <1>4, <1>6, <1>7, <1>9, <1>10, Planned

\* The inductive invariant.
IInv == TypeOK /\ Pool /\ Course /\ Data /\ Wire

-------------------------------------------------------------------------------
(* Who acts *)

\* The steps of the encoding thread beside the pool.
Alone == Encode \/ StartRound \/ Return \/ CopyStrips \/ SendImport \/ Imported \/ SendRequest
         \/ SendFails \/ Awaited \/ AnswerLost
PoolStep == Publish \/ OwnSlice \/ Join \/ \E w \in Workers : Worker(w)
Service  == Daemon \/ Compute \/ Crash

\* A step is the encoding thread's own, the pool's, or the other side's.
LEMMA Actors ==
  ASSUME Next
  PROVE  Alone \/ PoolStep \/ Service
  BY DEF Next, Encoding, Alone, PoolStep, Service

\* What the encoding thread leaves alone.
LEMMA AloneKeeps ==
  ASSUME Alone
  PROVE  /\ UNCHANGED <<mode, bounce, pool, q, ctx, out, obuf, conn, known, cur, ibuf, tpu, late, failed>>
         /\ ~Gluing /\ (EncoderTypes => ~Gluing')
         /\ CopyStrips \/ UNCHANGED kv
         /\ StartRound \/ UNCHANGED blind
<1> USE DEF pool, glueData, library, tpud, encoder, Gluing
<1>1. CASE Encode \/ StartRound \/ Return
  BY <1>1 DEF Encode, StartRound, Return
<1>2. CASE CopyStrips
  BY <1>2 DEF CopyStrips, At, Advance
<1>3. CASE SendImport
  BY <1>3 DEF SendImport, At
<1>4. CASE Imported
  BY <1>4 DEF Imported, Fail
<1>5. CASE SendRequest
  BY <1>5 DEF SendRequest, At, Advance
<1>6. CASE SendFails \/ AnswerLost
  BY <1>6 DEF SendFails, AnswerLost, At, Fail
<1>7. CASE Awaited
  BY <1>7 DEF Awaited, At, Advance, Fail
<1>8. QED
  BY <1>1, <1>2, <1>3, <1>4, <1>5, <1>6, <1>7 DEF Alone

\* The pool leaves the session and tpud alone.
LEMMA PoolKeeps ==
  ASSUME PoolStep, Pool
  PROVE  UNCHANGED <<mode, bounce, round, job, out, library, tpud, down, obuf>> /\ (Gluing \/ Publish)
<1> USE DEF glueData, encoder
<1>1. CASE Publish
  BY <1>1 DEF Publish
<1>2. CASE OwnSlice
  BY <1>2 DEF OwnSlice, Gluing
<1>3. CASE Join
  BY <1>3 DEF Join, Advance, Gluing
<1>4. CASE \E w \in Workers : Worker(w)
  <2>1. PICK w \in Workers : Worker(w)
    BY <1>4
  <2>2. w \notin Through
    BY <2>1 DEF Worker, Take, WorkerSlice, Count, Through
  <2>3. Gluing
    BY <2>2 DEF Pool
  <2>4. UNCHANGED <<mode, bounce, round, job, out, library, tpud, down, obuf>>
    BY <2>1 DEF Worker, Take, WorkerSlice, Count
  <2> QED
    BY <2>3, <2>4
<1>5. QED
  BY <1>1, <1>2, <1>3, <1>4 DEF PoolStep

\* tpud and the TPU leave the encoder alone.
LEMMA ServiceKeeps ==
  ASSUME Service
  PROVE  UNCHANGED <<mode, bounce, encoder, pool, kv, q, ctx, library>>
<1> USE DEF glueData
<1>1. CASE Import \/ Start \/ Refuse \/ StartHalf
  BY <1>1 DEF Import, Start, Refuse, StartHalf
<1>2. CASE Complete \/ GiveUp
  BY <1>2 DEF Complete, GiveUp
<1>3. CASE Compute \/ Crash
  BY <1>3 DEF Compute, Crash
<1>4. QED
  BY <1>1, <1>2, <1>3 DEF Service, Daemon

-------------------------------------------------------------------------------
(* Steps of the script *)

\* The current step, in a round.
LEMMA HereFacts ==
  ASSUME TypeOK, Course, InRound
  PROVE  /\ mode \in Modes /\ ip \in 1 .. Size(mode) /\ Len(Script[mode]) = Size(mode)
         /\ Under = Sent(mode, ip)
         /\ Here.do = "kv" => ip = 1 /\ Here = KV
         /\ Here.do = "copy" => ip = 2 /\ mode # "single" /\ Here = Copy(IF mode = "pair" THEN <<1>> ELSE <<1, 2, 3>>)
         /\ Here.do = "q" => \E b \in Blocks : ip = QAt(mode, b) /\ Here = Q(b, BufOf(mode, b))
         /\ Here.do = "div" => \E b \in Blocks : ip = DivAt(mode, b) /\ Here = Div(b, BufOf(mode, b))
         /\ Here.do = "submit" => \E b \in Blocks : ip = SubAt(mode, b)
         /\ Here.do = "wait" => \E b \in Blocks : ip = WaitAt(mode, b)
<1>1. mode \in Modes /\ ip \in 1 .. Size(mode) /\ Under = Sent(mode, ip)
  BY DEF TypeOK, EncoderTypes, Modes, Course, Under
<1>2. Here = Script[mode][ip]
  BY DEF Here
<1>3. \/ ip = 1
      \/ ip = 2 /\ mode # "single"
      \/ \E b \in Blocks : ip \in {QAt(mode, b), SubAt(mode, b), WaitAt(mode, b), DivAt(mode, b)}
  BY <1>1, Planned
<1>4. \A b \in Blocks : Q(b, BufOf(mode, b)).do = "q" /\ Div(b, BufOf(mode, b)).do = "div"
  BY DEF Q, Div, Step
<1>5. QED
  BY <1>1, <1>2, <1>3, <1>4, StepFacts

\* Where a step of the script leads.
LEMMA Forward ==
  ASSUME TypeOK, Course, InRound, Advance, mode' = mode
  PROVE  /\ round' = round /\ job' = job
         /\ \/ ip < Size(mode) /\ pc' = "step" /\ ip' = ip + 1
            \/ ip = Size(mode) /\ pc' = "round" /\ ip' = 0
         /\ Under' = Sent(mode, ip + 1) /\ (InRound' <=> ip < Size(mode)) /\ ~Gluing'
<1>1. ip \in 1 .. Size(mode) /\ Len(Script[mode]) = Size(mode) /\ mode \in Modes
  BY HereFacts
<1>2. Sent(mode, Size(mode) + 1) = <<>> /\ Size(mode) \in Int
  BY <1>1, UnderWay DEF Size
<1>3. /\ round' = round /\ job' = job
      /\ \/ ip < Size(mode) /\ pc' = "step" /\ ip' = ip + 1
         \/ ip = Size(mode) /\ pc' = "round" /\ ip' = 0
  BY <1>1, <1>2 DEF Advance
<1>4. QED
  BY <1>1, <1>2, <1>3 DEF Under, InRound, Gluing

\* What the library has no handle for, in some order.
LEMMA NeedFacts ==
  ASSUME TypeOK, Course, InRound, Here.do = "submit"
  PROVE  /\ Need \in {<<>>} \cup Tuples
         /\ ToSet(Need) = {k \in ToSet(Here.bufs) : tpu_h[k] = -1}
         /\ Need # <<>> => mode # "ovl"
         /\ Here.bufs \in Tuples /\ \E g \in Pieces : /\ Here.bufs = BufsOf(mode, g)
                                                     /\ Sent(mode, ip + 1) = Append(Sent(mode, ip), g)
<1> DEFINE S == {k \in ToSet(Here.bufs) : tpu_h[k] = -1}
<1>1. mode \in Modes /\ ip \in 1 .. Size(mode) /\ Here = Script[mode][ip]
  BY HereFacts DEF Here
<1>2. PICK g \in Pieces : Here.bufs = BufsOf(mode, g) /\ Sent(mode, ip + 1) = Append(Sent(mode, ip), g)
  BY <1>1, StepFacts
<1>3. Here.bufs \in Tuples
  <2>1. \A b \in Blocks : BufOf(mode, b) \in Bufs
    BY <1>1, Order
  <2>2. \/ Len(g) = 1 /\ g[1] \in Blocks
        \/ Len(g) = 2 /\ g[1] \in Blocks /\ g[2] \in Blocks
    BY DEF Pieces, Blocks
  <2>3. BufsOf(mode, g) \in Tuples
    BY <2>1, <2>2 DEF BufsOf, Tuples
  <2> QED
    BY <1>2, <2>3
<1>4. IsFiniteSet(S) /\ Cardinality(S) \in 0 .. 2 /\ S \subseteq Bufs
  <2>1. PICK k \in Bufs, l \in Bufs : Here.bufs = <<k>> \/ Here.bufs = <<k, l>>
    BY <1>3 DEF Tuples
  <2>2. ToSet(Here.bufs) \subseteq {k, l}
    BY <2>1 DEF ToSet
  <2>3. IsFiniteSet({k, l}) /\ Cardinality({k, l}) <= 2
    <3>1. CASE k = l
      <4>1. {k, l} = {k}
        BY <3>1
      <4>2. IsFiniteSet({k}) /\ Cardinality({k}) = 1
        BY FS_Singleton
      <4> QED
        BY <4>1, <4>2
    <3>2. CASE k # l
      <4>1. IsFiniteSet({l}) /\ Cardinality({l}) = 1
        BY FS_Singleton
      <4>2. IsFiniteSet({l} \cup {k})
            /\ Cardinality({l} \cup {k}) = IF k \in {l} THEN Cardinality({l}) ELSE Cardinality({l}) + 1
        BY <4>1, FS_AddElement
      <4>3. {l} \cup {k} = {k, l}
        OBVIOUS
      <4> QED
        BY <3>2, <4>1, <4>2, <4>3
    <3> QED
      BY <3>1, <3>2
  <2>4. S \subseteq {k, l}
    BY <2>2
  <2>5. IsFiniteSet(S) /\ Cardinality(S) <= Cardinality({k, l})
    BY <2>3, <2>4, FS_Subset
  <2>6. Cardinality(S) \in Nat /\ Cardinality({k, l}) \in Nat
    BY <2>3, <2>5, FS_CardinalityType
  <2> HIDE DEF S
  <2> QED
    BY <2>1, <2>3, <2>4, <2>5, <2>6
<1>5. Need = SetToSeq(S)
  BY DEF Need
<1> HIDE DEF S
<1>6. Need \in [1 .. Cardinality(S) -> S] /\ ToSet(Need) = S
  <2>1. PICK f \in Bijection(1 .. Cardinality(S), S) : TRUE
    BY <1>4, FS_CardinalityType DEF ExistsBijection
  <2>2. f \in [1 .. Cardinality(S) -> S] /\ IsInjective(f)
    BY <2>1 DEF Bijection, Injection
  <2>3. Need \in [1 .. Cardinality(S) -> S] /\ IsInjective(Need)
    BY <1>5, <2>2 DEF SetToSeq
  <2>4. Need \in Injection(1 .. Cardinality(S), S)
    BY <2>3 DEF Injection
  <2>5. Need \in Surjection(1 .. Cardinality(S), S)
    <3>1. IsFiniteSet(1 .. Cardinality(S)) /\ Cardinality(1 .. Cardinality(S)) = Cardinality(S)
      BY <1>4, FS_Interval
    <3> QED
      BY <1>4, <2>4, <3>1, FS_Injection
  <2> QED
    BY <2>3, <2>5 DEF Surjection, ToSet
<1>7. Need \in {<<>>} \cup Tuples /\ (S = {} => Need = <<>>)
  <2>1. CASE Cardinality(S) = 0
    <3>1. Need = <<>>
      BY <1>6, <2>1
    <3> QED
      BY <3>1
  <2>0. S = {} => Cardinality(S) = 0
    BY FS_EmptySet
  <2>2. CASE Cardinality(S) = 1
    <3>1. Need = <<Need[1]>> /\ Need[1] \in Bufs
      BY <1>4, <1>6, <2>2
    <3> QED
      BY <2>0, <2>2, <3>1 DEF Tuples
  <2>3. CASE Cardinality(S) = 2
    <3>1. Need = <<Need[1], Need[2]>> /\ Need[1] \in Bufs /\ Need[2] \in Bufs
      BY <1>4, <1>6, <2>3
    <3> QED
      BY <2>0, <2>3, <3>1 DEF Tuples
  <2> QED
    BY <1>4, <2>1, <2>2, <2>3
<1>8. Need # <<>> => mode # "ovl"
  <2> SUFFICES ASSUME mode = "ovl" PROVE Need = <<>>
    OBVIOUS
  <2>1. S = {}
    BY <1>4 DEF S, Course, Bufs
  <2> QED
    BY <1>7, <2>1
<1>9. QED
  BY <1>2, <1>3, <1>6, <1>7, <1>8 DEF S

-------------------------------------------------------------------------------
(* Types *)

\* What the threads of the pool are given is a step of their kind.
LEMMA StepTypes ==
  \A b \in Blocks, k \in Bufs : KV \in Steps /\ Q(b, k) \in Steps /\ Div(b, k) \in Steps
<1>2. 0 \in Bufs /\ 0 \in Blocks
  BY DEF Bufs, Blocks
<1>3. QED
  BY <1>2 DEF KV, Q, Div, Step, Steps

\* What a request copies is a mark.
LEMMA ContentType ==
  ASSUME DataTypes, NEW k \in Bufs
  PROVE  Content(k) \in Marks
<1>1. q[k][Main] \in Marks /\ Bad \in Marks
  BY DEF DataTypes, Threads, Marks
<1>2. QED
  BY <1>1 DEF Content

\* tpud's copy of an input is of marks, and what is asked for is of one or two buffers.
LEMMA BouncedType ==
  ASSUME DataTypes, Ask \in Tuples
  PROVE  Bounced \in [1 .. 2 -> Marks] /\ Len(Ask) \in 1 .. 2 /\ \A i \in 1 .. Len(Ask) : Ask[i] \in Bufs
<1>1. Len(Ask) \in 1 .. 2 /\ \A i \in 1 .. Len(Ask) : Ask[i] \in Bufs
  BY DEF Tuples
<1>2. \A i \in 1 .. 2 : ibuf[i] \in Marks
  BY DEF DataTypes
<1>3. \A i \in 1 .. 2 : i <= Len(Ask) => Content(Ask[i]) \in Marks
  BY <1>1, ContentType
<1>4. QED
  BY <1>1, <1>2, <1>3 DEF Bounced

\* The initial state has its types.
LEMMA InitTypes == Init => TypeOK
<1> SUFFICES ASSUME Init PROVE TypeOK
  OBVIOUS
<1> USE DEF Init
<1>1. Bad \in Marks /\ 0 \in 0 .. MaxRounds
  BY BoundAssumption DEF Marks
<1>2. mode \in Modes /\ known \subseteq Bufs
  BY DEF Modes, ImportAhead, Bufs
<1>3. EncoderTypes
  <2>1. Len(Script[mode]) \in Nat
    BY <1>2, Timetable DEF Size
  <2> QED
    <3>1. tpu_h \in [Bufs -> Bufs \cup {-1}]
      OBVIOUS
    <3>2. round \in 0 .. Rounds /\ job \in 0 .. MaxRounds /\ ip \in 0 .. Len(Script[mode])
      BY <2>1, BoundAssumption
    <3>3. owed = 0 /\ left = FALSE /\ failed = FALSE
      OBVIOUS
    <3>4. mode \in {"single", "pair", "ovl"} /\ bounce \in {1, 2} /\ pc = "idle" /\ sock = "open"
      OBVIOUS
    <3>5. left \in BOOLEAN /\ failed \in BOOLEAN
      BY <3>3
    <3> HIDE DEF Init
    <3> QED
      BY <3>1, <3>2, <3>3, <3>4, <3>5 DEF EncoderTypes
<1>4. PoolTypes
  <2>1. Cardinality(Workers) \in Nat
    BY ThreadAssumption, FS_CardinalityType
  <2>2. KV \in Steps
    BY StepTypes DEF Blocks, Bufs
  <2> QED
    BY <2>1, <2>2 DEF PoolTypes
<1>5. DataTypes
  BY <1>1 DEF DataTypes
<1>6. TpudTypes
  BY <1>2, BoundAssumption DEF TpudTypes
<1>7. QED
  BY <1>3, <1>4, <1>5, <1>6 DEF TypeOK

\* A step of the pool keeps the types.
LEMMA PoolTypesKept ==
  ASSUME TypeOK, Pool, Course, PoolStep
  PROVE  TypeOK'
<1>1. UNCHANGED <<mode, bounce, round, job, out, library, tpud, down, obuf>>
  BY PoolKeeps
<1>2. TpudTypes'
  BY <1>1 DEF TypeOK, TpudTypes, tpud
<1>3. Cardinality(Workers) \in Nat /\ IsFiniteSet(Workers)
  BY ThreadAssumption, FS_CardinalityType
<1>4. ASSUME NEW s \in Steps, NEW t \in Threads, Slice(s, t)
      PROVE  DataTypes'
  <2>1. 0 \in Bufs /\ s.blk \in Blocks /\ job \in 0 .. MaxRounds /\ <<job, s.blk>> \in Marks
    BY DEF Bufs, Steps, TypeOK, EncoderTypes, Marks
  <2>2. kv' \in [Bufs -> [Threads -> 0 .. MaxRounds]]
    BY <1>4, <2>1 DEF Slice, TypeOK, DataTypes
  <2>3. q' \in [Bufs -> [Threads -> Marks]]
    BY <1>4, <2>1 DEF Slice, TypeOK, DataTypes
  <2>4. ctx' \in [Blocks -> [Threads -> Marks]]
    <3>1. CASE s.do = "div"
      <4>1. out[s.bufs[1]] \in Marks
        BY DEF TypeOK, DataTypes, Steps
      <4> QED
        BY <1>4, <2>1, <3>1, <4>1 DEF Slice, TypeOK, DataTypes
    <3>2. CASE s.do # "div"
      BY <1>4, <3>2 DEF Slice, TypeOK, DataTypes
    <3> QED
      BY <3>1, <3>2
  <2> QED
    BY <1>1, <2>2, <2>3, <2>4 DEF TypeOK, DataTypes, tpud
<1>5. CASE Publish
  <2>1. Here \in Steps
    <3>1. InRound
      BY <1>5 DEF Publish, At, InRound
    <3>2. mode \in Modes
      BY <3>1, HereFacts
    <3>3. \A b \in Blocks : BufOf(mode, b) \in Bufs
      BY <3>2, Order
    <3>4. 0 \in Bufs /\ 0 \in Blocks
      BY DEF Bufs, Blocks
    <3> QED
      BY <1>5, <3>1, <3>3, <3>4, HereFacts, StepTypes DEF Publish, At
  <2>2. DataTypes' /\ EncoderTypes'
    BY <1>1, <1>5 DEF TypeOK, DataTypes, EncoderTypes, Publish, glueData, library, tpud
  <2>3. PoolTypes'
    <3>1. \A w \in Workers : seen[w] \in 0 .. seq'
      BY <1>5 DEF TypeOK, PoolTypes, Publish
    <3> QED
      BY <1>3, <1>5, <2>1, <3>1 DEF TypeOK, PoolTypes, Publish
  <2> QED
    BY <1>2, <2>2, <2>3 DEF TypeOK
<1>6. CASE OwnSlice
  <2>1. DataTypes'
    BY <1>4, <1>6 DEF TypeOK, PoolTypes, OwnSlice, Threads
  <2>2. EncoderTypes' /\ PoolTypes'
    BY <1>1, <1>6 DEF TypeOK, EncoderTypes, PoolTypes, OwnSlice, pool, library, tpud
  <2> QED
    BY <1>2, <2>1, <2>2 DEF TypeOK
<1>7. CASE Join
  <2>1. InRound
    BY <1>7 DEF Join, InRound
  <2>2. ip' \in 0 .. Len(Script[mode]) /\ pc' \in {"step", "round"}
    <3>1. ip \in 1 .. Size(mode) /\ Len(Script[mode]) = Size(mode) /\ Size(mode) \in Nat
      BY <2>1, HereFacts DEF Size
    <3> QED
      BY <1>1, <1>7, <2>1, <3>1, Forward DEF Join
  <2>3. EncoderTypes' /\ PoolTypes' /\ DataTypes'
    BY <1>1, <1>7, <2>2 DEF TypeOK, EncoderTypes, PoolTypes, DataTypes, Join, pool, library, glueData, tpud
  <2> QED
    BY <1>2, <2>3 DEF TypeOK
<1>8. ASSUME NEW w \in Workers, Worker(w)
      PROVE  TypeOK'
  <2>1. EncoderTypes'
    BY <1>1, <1>8 DEF TypeOK, EncoderTypes, Worker, Take, WorkerSlice, Count, encoder, library, tpud
  <2>2. DataTypes'
    <3>1. CASE WorkerSlice(w)
      BY <1>4, <3>1 DEF TypeOK, PoolTypes, WorkerSlice, Threads
    <3>2. CASE Take(w) \/ Count(w)
      BY <1>1, <3>2 DEF TypeOK, DataTypes, Take, Count, glueData, tpud
    <3> QED
      BY <1>8, <3>1, <3>2 DEF Worker
  <2>3. PoolTypes'
    <3>1. CASE Take(w)
      BY <3>1 DEF TypeOK, PoolTypes, Take
    <3>2. CASE WorkerSlice(w)
      BY <3>2 DEF TypeOK, PoolTypes, WorkerSlice
    <3>3. CASE Count(w)
      <4>1. Gluing /\ done = Cardinality(Through) /\ w \notin Through
        BY <3>3 DEF Pool, Count, Through
      <4>2. IsFiniteSet(Through) /\ Through \cup {w} \in SUBSET Workers
        BY <1>3, FS_Subset DEF Through
      <4>3. Cardinality(Through \cup {w}) = done + 1 /\ Cardinality(Through \cup {w}) <= Cardinality(Workers)
        <5>1. Cardinality(Through \cup {w}) = IF w \in Through THEN Cardinality(Through) ELSE Cardinality(Through) + 1
          BY <4>2, FS_AddElement
        <5>2. Cardinality(Through \cup {w}) <= Cardinality(Workers)
          BY <1>3, <4>2, FS_Subset
        <5> QED
          BY <4>1, <5>1, <5>2
      <4>4. done' \in 0 .. Cardinality(Workers)
        BY <1>3, <3>3, <4>3 DEF TypeOK, PoolTypes, Count
      <4> QED
        BY <3>3, <4>4 DEF TypeOK, PoolTypes, Count
    <3> QED
      BY <1>8, <3>1, <3>2, <3>3 DEF Worker
  <2> QED
    BY <1>2, <2>1, <2>2, <2>3 DEF TypeOK
<1>9. QED
  BY <1>5, <1>6, <1>7, <1>8 DEF PoolStep

-------------------------------------------------------------------------------
(* The encoding thread *)

\* Outside of its own steps the pool does not see the encoding thread.
LEMMA AlonePool ==
  ASSUME TypeOK, Pool, Alone
  PROVE  Pool' /\ PoolTypes'
<1>1. UNCHANGED pool /\ ~Gluing /\ ~Gluing'
  BY AloneKeeps DEF TypeOK
<1>2. PoolTypes'
  BY <1>1 DEF TypeOK, PoolTypes, pool
<1>3. Through' = Through
  BY <1>1 DEF Through, pool
<1>4. QED
  BY <1>1, <1>2, <1>3 DEF Pool, pool

\* Every part of a buffer that is under way has its content.
LEMMA FlowSame ==
  ASSUME Under' = Under, UNCHANGED <<mode, bounce, out, ibuf, obuf, down, conn, up, cur, tpu, failed>>,
         Under = <<>> \/ (job' = job /\ blind' = blind), \E a \in 0 .. 2 : Flow(a)
  PROVE  \E a \in 0 .. 2 : Flow(a)'
<1>1. PICK a \in 0 .. 2 : Flow(a)
  OBVIOUS
<1>2. CASE job' = job /\ blind' = blind
  <2>1. a <= Len(Under') /\ Answers(a)'
    BY <1>1, <1>2 DEF Flow, Answers, Right
  <2>2. ASSUME NEW c \in 0 .. 3, Rest(c) PROVE Rest(c)'
    BY <2>2 DEF Rest, Infer
  <2>3. ASSUME Computing(Under[a + 1]) PROVE Computing(Under[a + 1])'
    BY <1>2, <2>3 DEF Computing, Computed, OnTpu
  <2>4. CASE conn = "up" => cur = <<>> /\ Rest(a)
    <3>1. conn' = "up" => cur' = <<>> /\ Rest(a)'
      BY <2>2, <2>4
    <3> QED
      BY <2>1, <3>1 DEF Flow
  <2>5. CASE /\ a < Len(Under) /\ cur = BufsOf(mode, Under[a + 1]) /\ Rest(a + 1)
             /\ Computing(Under[a + 1])
    <3>1. Rest(a + 1)' /\ Computing(Under[a + 1])'
      BY <2>2, <2>3, <2>5
    <3>2. a < Len(Under') /\ cur' = BufsOf(mode', Under'[a + 1])
      BY <2>5
    <3> QED
      BY <2>1, <3>1, <3>2 DEF Flow
  <2> QED
    BY <1>1, <2>4, <2>5 DEF Flow
<1>3. CASE Under = <<>>
  <2>1. a = 0 /\ Len(Under) = 0
    BY <1>1, <1>3 DEF Flow
  <2>2. Flow(0)'
    BY <1>1, <2>1 DEF Flow, Answers, Rest, Infer
  <2> QED
    BY <2>2
<1>4. QED
  BY <1>2, <1>3

\* Nothing is under way and nothing is on the wire.
LEMMA FlowEmpty ==
  ASSUME Under = <<>>
  PROVE  (\E a \in 0 .. 2 : Flow(a)) <=> down = <<>> /\ (conn = "up" => cur = <<>> /\ up = <<>>)
<1>1. Len(Under) = 0
  OBVIOUS
<1>2. ASSUME NEW a \in 0 .. 2, Flow(a)
      PROVE  down = <<>> /\ (conn = "up" => cur = <<>> /\ up = <<>>)
  <2>1. a = 0
    BY <1>1, <1>2 DEF Flow
  <2> QED
    BY <1>1, <1>2, <2>1 DEF Flow, Answers, Rest
<1>3. ASSUME down = <<>>, conn = "up" => cur = <<>> /\ up = <<>>
      PROVE  Flow(0)
  BY <1>1, <1>3 DEF Flow, Answers, Rest
<1>4. QED
  BY <1>2, <1>3

\* With nothing under way an idle wire is right.
LEMMA FlowEmptyNext ==
  ASSUME Under' = <<>>, down' = <<>>, conn' = "up" => cur' = <<>> /\ up' = <<>>
  PROVE  \E a \in 0 .. 2 : Flow(a)'
<1>1. Len(Under') = 0
  OBVIOUS
<1>2. Flow(0)'
  BY <1>1 DEF Flow, Answers, Rest
<1>3. QED
  BY <1>2

\* Encode, StartRound and Return.
LEMMA QuietKeeps ==
  ASSUME IInv, Encode \/ StartRound \/ Return
  PROVE  IInv'
<1> USE DEF Encode, StartRound, Return, encoder, library, glueData, pool, tpud
<1>1. /\ Alone
      /\ UNCHANGED <<mode, bounce, pool, glueData, library, down, conn, up, known, cur, ibuf, tpu,
                     late, failed, obuf>>
      /\ blind' = {} \/ blind' = blind
  BY DEF Alone
<1>2. Pool' /\ PoolTypes'
  BY <1>1, AlonePool DEF IInv
<1>3. DataTypes' /\ TpudTypes'
  <2>1. blind' \subseteq Marks
    BY <1>1 DEF IInv, TypeOK, TpudTypes
  <2> QED
    BY <1>1, <2>1 DEF IInv, TypeOK, DataTypes, TpudTypes
<1>4. mode \in Modes /\ Size(mode) \in Nat \ {0} /\ Len(Script[mode]) = Size(mode)
  <2>1. mode \in Modes
    BY DEF IInv, TypeOK, EncoderTypes, Modes
  <2>2. Size(mode) \in {14, 17}
    BY DEF Size
  <2> QED
    BY <2>1, <2>2, Timetable
<1>5. EncoderTypes'
  BY <1>1, <1>4, BoundAssumption DEF IInv, TypeOK, EncoderTypes
<1>6. Under' = <<>> /\ Under = <<>> /\ (InRound' => ip' = 1) /\ (~InRound' => ip' = 0) /\ ~InRound
  <2>1. Sent(mode, 1) = <<>>
    BY <1>4, UnderWay
  <2> QED
    BY <2>1 DEF Under, InRound, IInv, Course
<1>7. Course'
  <2>1. 1 <= SubAt(mode, 0)
    BY <1>4 DEF SubAt, Modes
  <2>2. pc' # "import"
    OBVIOUS
  <2> QED
    BY <1>1, <1>4, <1>6, <2>1, <2>2 DEF IInv, Course
<1>8. Data'
  <2> SUFFICES ASSUME ~left PROVE Data'
    BY <1>1 DEF Data
  <2>1. InRound' => Strips' /\ \A b \in Blocks : BlockOK(b)'
    BY <1>1, <1>4, <1>6, Order DEF Strips, BlockOK
  <2>2. ~Gluing'
    BY DEF Gluing
  <2>3. pc' = "round" => pc = "idle" /\ round' = 0
    OBVIOUS
  <2> QED
    BY <1>1, <2>1, <2>2, <2>3 DEF IInv, Data
<1>9. Wire'
  <2>1. pc' # "import" /\ pc # "import"
    OBVIOUS
  <2>2. (\E a \in 0 .. 2 : Flow(a)) => \E a \in 0 .. 2 : Flow(a)'
    BY <1>1, <1>6, FlowSame
  <2> QED
    BY <1>1, <2>1, <2>2 DEF IInv, Wire
<1>10. QED
  BY <1>2, <1>3, <1>5, <1>7, <1>8, <1>9 DEF IInv, TypeOK

\* The encoding has returned early.
LEMMA FailFacts ==
  ASSUME IInv, NEW n, NEW s, Fail(n, s), mode' = mode
  PROVE  /\ ~InRound' /\ ~Gluing' /\ ip' = 0 /\ Under' = <<>> /\ owed' = 0 /\ sock' = s
         /\ pc' = "idle" /\ round' = round /\ job' = job
         /\ Data' /\ (s \in {"open", "closed"} /\ tpu_h' = tpu_h /\ bounce' = bounce /\ failed' = failed => EncoderTypes')
<1> USE DEF Fail
<1>1. ~InRound' /\ ~Gluing' /\ ip' = 0 /\ Under' = <<>>
  BY DEF InRound, Gluing, Under
<1>2. Data'
  BY <1>1 DEF Data
<1>3. mode \in Modes /\ Size(mode) \in Nat /\ Len(Script[mode]) = Size(mode)
  BY Timetable DEF IInv, TypeOK, EncoderTypes, Modes, Size
<1>4. left' \in BOOLEAN
  BY DEF IInv, TypeOK, EncoderTypes
<1>5. ASSUME s \in {"open", "closed"}, tpu_h' = tpu_h, bounce' = bounce, failed' = failed
      PROVE  EncoderTypes'
  BY <1>3, <1>4, <1>5 DEF IInv, TypeOK, EncoderTypes
<1>6. QED
  BY <1>1, <1>2, <1>5

\* When the strips are copied nothing has been sent, and each buffer gets those of the round.
LEMMA CopyStripsKeeps ==
  ASSUME IInv, CopyStrips
  PROVE  IInv'
<1>1. /\ Alone /\ InRound /\ Here.do = "copy" /\ pc = "step" /\ Advance
      /\ UNCHANGED <<mode, bounce, pool, q, out, ctx, library, down, tpud, obuf>>
  BY DEF Alone, CopyStrips, At, InRound
<1>2. ip = 2 /\ mode \in Modes /\ mode # "single" /\ Size(mode) = 14 /\ Under = Sent(mode, 2)
      /\ Here.bufs \in {<<1>>, <<1, 2, 3>>} /\ (mode = "ovl" => Here.bufs = <<1, 2, 3>>)
  BY <1>1, HereFacts DEF IInv, Size, Copy, Step
<1>3. ip' = 3 /\ pc' = "step" /\ round' = round /\ job' = job /\ Under' = Sent(mode, 3) /\ InRound' /\ ~Gluing'
  BY <1>1, <1>2, Forward DEF IInv
<1>4. Under' = Under
  BY <1>2, <1>3 DEF Sent
<1>5. Pool' /\ PoolTypes'
  BY <1>1, AlonePool DEF IInv
<1>6. EncoderTypes'
  <2>1. Len(Script[mode]) = 14
    BY <1>1, <1>2, HereFacts DEF IInv
  <2> QED
    BY <1>1, <1>3, <2>1 DEF IInv, TypeOK, EncoderTypes, library, tpud
<1>7. ToSet(Here.bufs) \subseteq Bufs \ {0} /\ 1 \in ToSet(Here.bufs)
      /\ (mode = "ovl" => {1, 2, 3} \subseteq ToSet(Here.bufs))
  BY <1>2 DEF ToSet, Bufs
<1>8. kv' = [k \in Bufs |-> IF k \in ToSet(Here.bufs) THEN kv[0] ELSE kv[k]]
  BY DEF CopyStrips
<1>9. DataTypes' /\ TpudTypes'
  <2>1. 0 \in Bufs
    BY DEF Bufs
  <2>2. kv' \in [Bufs -> [Threads -> 0 .. MaxRounds]]
    BY <1>8, <2>1 DEF IInv, TypeOK, DataTypes
  <2> QED
    BY <1>1, <2>2 DEF IInv, TypeOK, DataTypes, TpudTypes, tpud
<1>10. Course'
  <2>1. 3 <= SubAt(mode, 0)
    BY <1>2, Order DEF Blocks, SubAt
  <2>2. 3 \in 1 .. Size(mode) /\ pc' # "import"
    BY <1>2, <1>3
  <2>3. (sock = "closed" => conn = "down") /\ (left => mode = "ovl" /\ failed) /\ owed = Len(Under)
    BY DEF IInv, Course
  <2>4. \A k \in Bufs : tpu_h[k] = k \/ (tpu_h[k] = -1 /\ mode # "ovl")
    BY DEF IInv, Course
  <2>5. conn = "down" => up = <<>> /\ cur = <<>> /\ tpu = <<>>
    BY DEF IInv, Course
  <2>6. cur = <<>> => \A i \in 1 .. Len(tpu) : ~tpu[i].awaited
    BY DEF IInv, Course
  <2> QED
    BY <1>1, <1>3, <1>4, <2>1, <2>2, <2>3, <2>4, <2>5, <2>6 DEF Course, library, tpud
<1>11. Data'
  <2> SUFFICES ASSUME ~left PROVE Data'
    BY <1>1 DEF Data, library
  <2>1. \A t \in Threads : kv[0][t] = job
    BY <1>1, <1>2 DEF IInv, Data, Strips
  <2>2. Strips'
    <3>1. 0 \in Bufs /\ \A b \in Blocks : BufOf(mode, b) \in Bufs
      BY <1>2, Order DEF Bufs
    <3>2. kv'[0] = kv[0]
      BY <1>7, <1>8, <3>1
    <3>3. \A b \in Blocks : kv'[BufOf(mode, b)] = kv[0]
      <4>1. \A b \in Blocks : BufOf(mode, b) \in ToSet(Here.bufs) \/ BufOf(mode, b) = 0
        BY <1>2, <1>7 DEF BufOf, Modes, Blocks
      <4> QED
        BY <1>8, <3>1, <4>1
    <3> QED
      BY <1>1, <1>3, <2>1, <3>2, <3>3 DEF Strips
  <2>3. \A b \in Blocks : BlockOK(b)'
    BY <1>1, <1>2, <1>3, Order DEF BlockOK, Right, tpud
  <2> QED
    BY <1>3, <2>2, <2>3 DEF Data
<1>12. Wire'
  <2>1. (\E a \in 0 .. 2 : Flow(a)) => \E a \in 0 .. 2 : Flow(a)'
    BY <1>1, <1>3, <1>4, FlowSame DEF tpud
  <2> QED
    BY <1>1, <1>3, <2>1 DEF IInv, Wire, library
<1>13. QED
  BY <1>5, <1>6, <1>9, <1>10, <1>11, <1>12 DEF IInv, TypeOK

\* A request is sent or awaited: the contents of the buffers stay what they should be.
LEMMA OnwardData ==
  ASSUME IInv, ~left => \A b \in Blocks : ip = WaitAt(mode, b) => Right(out[BufOf(mode, b)], b),
         InRound, Here.do \in {"submit", "wait"}, Advance, UNCHANGED <<mode, kv, q, ctx, out, left, blind>>
  PROVE  Data' /\ InRound' /\ ip' = ip + 1 /\ pc' = "step" /\ round' = round /\ job' = job
         /\ Under' = Sent(mode, ip + 1) /\ ip + 1 \in 1 .. Size(mode)
<1>1. mode \in Modes /\ ip \in 1 .. Size(mode) /\ Size(mode) \in Nat
  BY HereFacts DEF IInv, Size
<1>2. PICK c \in Blocks : ip = SubAt(mode, c) \/ ip = WaitAt(mode, c)
  BY HereFacts DEF IInv
<1>3. ip < Size(mode)
  BY <1>1, <1>2, Order
<1>4. InRound' /\ ip' = ip + 1 /\ pc' = "step" /\ round' = round /\ job' = job /\ Under' = Sent(mode, ip + 1) /\ ~Gluing'
  BY <1>1, <1>3, Forward DEF IInv
<1>5. ip > 1 /\ (mode # "single" => ip > 2) /\ \A b \in Blocks : ip # QAt(mode, b) /\ ip # DivAt(mode, b)
  BY <1>1, <1>2, Order, Kinds
<1>6. Data'
  <2> SUFFICES ASSUME ~left PROVE Data'
    BY DEF Data
  <2>1. Strips'
    BY <1>4, <1>5 DEF IInv, Data, Strips
  <2>2. ASSUME NEW b \in Blocks PROVE BlockOK(b)'
    <3>1. QAt(mode, b) \in Int /\ SubAt(mode, b) \in Int /\ WaitAt(mode, b) \in Int /\ DivAt(mode, b) \in Int
      BY <1>1, Order
    <3>2. BlockOK(b)
      BY DEF IInv, Data
    <3> QED
      BY <1>1, <1>4, <1>5, <3>1, <3>2 DEF BlockOK, Right
  <2> QED
    BY <1>4, <2>1, <2>2 DEF Data
<1>7. QED
  BY <1>1, <1>3, <1>4, <1>6

\* An import is sent while nothing else is on the wire.
LEMMA SendImportKeeps ==
  ASSUME IInv, SendImport
  PROVE  IInv'
<1>1. /\ Alone /\ InRound /\ Here.do = "submit" /\ sock = "open" /\ conn = "up" /\ Need # <<>>
      /\ up' = Append(up, [cmd |-> "import", hs |-> Need]) /\ pc' = "import" /\ pc = "step"
      /\ UNCHANGED <<mode, bounce, round, job, ip, pool, glueData, library, down, conn, known,
                     cur, ibuf, tpu, late, blind, failed, obuf>>
  BY DEF Alone, SendImport, At, InRound, Send
<1>2. mode # "ovl" /\ Need \in Tuples /\ Under = <<>> /\ ~left
  <2>1. mode \in Modes /\ ip \in 1 .. Size(mode) /\ Under = Sent(mode, ip) /\ Here = Script[mode][ip]
    BY <1>1, HereFacts DEF IInv, Here
  <2>2. mode # "ovl" /\ Need \in Tuples
    BY <1>1, NeedFacts DEF IInv
  <2>3. Under = <<>>
    BY <1>1, <2>1, <2>2, StepFacts
  <2> QED
    BY <2>2, <2>3 DEF IInv, Course
<1>3. InRound' /\ ~Gluing' /\ Under' = Under
  BY <1>1 DEF InRound, Gluing, Under
<1>4. down = <<>> /\ up = <<>> /\ cur = <<>>
  BY <1>1, <1>2, FlowEmpty DEF IInv, Wire
<1>5. Need' = Need /\ Here' = Here
  BY <1>1 DEF Need, Here, library
<1>6. Pool' /\ PoolTypes'
  BY <1>1, AlonePool DEF IInv
<1>7. EncoderTypes'
  BY <1>1 DEF IInv, TypeOK, EncoderTypes, library
<1>8. DataTypes' /\ TpudTypes'
  <2>1. up' = << [cmd |-> "import", hs |-> Need] >>
    BY <1>1, <1>4
  <2>2. up' \in Seq([cmd : {"import", "infer"}, hs : Tuples])
    BY <1>2, <2>1
  <2> QED
    BY <1>1, <2>2 DEF IInv, TypeOK, DataTypes, TpudTypes, glueData
<1>9. Course'
  BY <1>1, <1>2, <1>3, <1>5 DEF IInv, Course, library
<1>10. Data'
  <2>1. Strips => Strips'
    BY <1>1 DEF Strips, glueData
  <2>2. \A b \in Blocks : BlockOK(b) => BlockOK(b)'
    BY <1>1 DEF BlockOK, Right, glueData
  <2> QED
    BY <1>1, <1>3, <2>1, <2>2 DEF IInv, Data, library
<1>11. Wire'
  BY <1>1, <1>4, <1>5 DEF Wire, Importing
<1>12. QED
  BY <1>6, <1>7, <1>8, <1>9, <1>10, <1>11 DEF IInv, TypeOK

\* An answer to an import is an answer to this import.
LEMMA ImportedFacts ==
  ASSUME IInv, Imported
  PROVE  /\ InRound /\ Here.do = "submit" /\ mode # "ovl" /\ ~left /\ sock = "open" /\ owed = 0 /\ Under = <<>>
         /\ Need \in {<<>>} \cup Tuples /\ ToSet(Need) \subseteq Bufs
         /\ cur = <<>> /\ up = <<>> /\ down' = <<>>
         /\ (down = <<1>> /\ failed) \/ down = <<0>> \o Need
<1>1. InRound /\ Here.do = "submit" /\ mode # "ovl" /\ sock = "open" /\ ~left
  BY DEF IInv, Course, Imported, InRound
<1>2. mode \in Modes /\ ip \in 1 .. Size(mode) /\ Under = Sent(mode, ip) /\ Here = Script[mode][ip]
  BY <1>1, HereFacts DEF IInv, Here
<1>3. Under = <<>> /\ owed = 0
  BY <1>1, <1>2, StepFacts DEF IInv, Course
<1>4. Need \in {<<>>} \cup Tuples /\ ToSet(Need) \subseteq Bufs
  <2>1. Need \in {<<>>} \cup Tuples
    BY <1>1, NeedFacts DEF IInv
  <2> QED
    BY <2>1 DEF Tuples, ToSet
<1>5. Importing
  BY <1>1 DEF IInv, Wire, Imported
<1>6. down # <<>>
  <2> SUFFICES ASSUME down = <<>> PROVE FALSE
    OBVIOUS
  <2>1. Words = 1
    BY DEF Words, Imported
  <2> QED
    BY <2>1 DEF Imported
<1>7. up = <<>> /\ ((down = <<1>> /\ failed) \/ down = <<0>> \o Need)
  BY <1>5, <1>6 DEF Importing, IInv, Course, TypeOK, TpudTypes
<1>8. down' = <<>>
  <2>1. down[1] = (IF down = <<1>> THEN 1 ELSE 0) /\ Len(down) = (IF down = <<1>> THEN 1 ELSE 1 + Len(Need))
        /\ Len(down) \in Nat
    BY <1>4, <1>7 DEF Tuples
  <2>2. Words = Len(down)
    BY <1>6, <2>1 DEF Words, Imported
  <2>3. down' = SubSeq(down, Len(down) + 1, Len(down))
    BY <2>2 DEF Imported, Read
  <2> QED
    BY <2>1, <2>3, SubSeqEmpty
<1>9. QED
  BY <1>1, <1>3, <1>4, <1>5, <1>7, <1>8 DEF Importing

\* What is read after an import is its own answer: each buffer gets its own handle.
LEMMA ImportedKeeps ==
  ASSUME IInv, Imported
  PROVE  IInv'
<1>1. /\ Alone /\ pc = "import" /\ UNCHANGED <<mode, bounce, pool, glueData, tpud, obuf>>
      /\ down' = <<>> /\ up = <<>> /\ cur = <<>>
  BY ImportedFacts DEF Alone, Imported
<1>2. Pool' /\ PoolTypes'
  BY <1>1, AlonePool DEF IInv
<1>3. DataTypes' /\ TpudTypes'
  BY <1>1 DEF IInv, TypeOK, DataTypes, TpudTypes, glueData, tpud
<1>4. CASE down[1] = 0
  <2>1. /\ pc' = "step" /\ UNCHANGED <<round, job, ip, sock, owed, left>>
        /\ tpu_h' = [k \in Bufs |-> IF k \in ToSet(Need) THEN down[1 + Place(k, Need)] ELSE tpu_h[k]]
    BY <1>4 DEF Imported
  <2>2. InRound /\ InRound' /\ ~Gluing' /\ Under' = Under /\ Under = <<>>
    BY <1>1, <2>1, ImportedFacts DEF InRound, Gluing, Under
  <2>3. \A k \in Bufs : tpu_h'[k] = IF k \in ToSet(Need) THEN k ELSE tpu_h[k]
    <3>1. down = <<0>> \o Need /\ Need \in {<<>>} \cup Tuples
      BY <1>4, ImportedFacts
    <3>2. ASSUME NEW k \in ToSet(Need) PROVE down[1 + Place(k, Need)] = k
      <4>1. \E i \in DOMAIN Need : Need[i] = k
        BY DEF ToSet
      <4>2. Place(k, Need) \in DOMAIN Need /\ Need[Place(k, Need)] = k
        BY <4>1 DEF Place
      <4>3. \A i \in DOMAIN Need : i \in 1 .. 2 /\ down[1 + i] = Need[i]
        BY <3>1 DEF Tuples
      <4> QED
        BY <4>2, <4>3
    <3> QED
      BY <2>1, <3>2
  <2>4. EncoderTypes'
    <3>1. tpu_h' \in [Bufs -> Bufs \cup {-1}]
      BY <2>1, <2>3 DEF IInv, TypeOK, EncoderTypes
    <3> QED
      BY <1>1, <2>1, <3>1 DEF IInv, TypeOK, EncoderTypes, tpud
  <2>5. Course'
    <3>1. \A k \in Bufs : tpu_h'[k] = k \/ (tpu_h'[k] = -1 /\ mode # "ovl")
      BY <2>3 DEF IInv, Course
    <3>2. pc' # "import"
      BY <2>1
    <3> QED
      BY <1>1, <2>1, <2>2, <3>1, <3>2 DEF IInv, Course, tpud
  <2>6. Data'
    <3>1. Strips => Strips'
      BY <1>1, <2>1 DEF Strips, glueData
    <3>2. \A b \in Blocks : BlockOK(b) => BlockOK(b)'
      BY <1>1, <2>1 DEF BlockOK, Right, glueData, tpud
    <3> QED
      BY <1>1, <2>1, <2>2, <3>1, <3>2 DEF IInv, Data
  <2>7. Wire'
    <3>1. \E a \in 0 .. 2 : Flow(a)'
      BY <1>1, <2>2, FlowEmptyNext DEF tpud
    <3> QED
      BY <2>1, <3>1 DEF Wire
  <2> QED
    BY <1>2, <1>3, <2>4, <2>5, <2>6, <2>7 DEF IInv, TypeOK
<1>5. CASE down[1] # 0
  <2>1. Fail(owed, sock) /\ tpu_h' = tpu_h
    BY <1>5 DEF Imported
  <2>2. /\ ~InRound' /\ ip' = 0 /\ Under' = <<>> /\ owed' = 0 /\ sock' = sock /\ pc' = "idle"
        /\ Data' /\ EncoderTypes' /\ ~left'
    <3>1. ~left' /\ sock \in {"open", "closed"}
      <4>1. ~left /\ ~(owed > 0) /\ sock = "open"
        BY ImportedFacts
      <4>2. left' = (left \/ (sock = "open" /\ owed > 0))
        BY <2>1 DEF Fail
      <4>3. ~left'
        BY <4>1, <4>2, Zenon
      <4> QED
        BY <4>1, <4>3
    <3> QED
      BY <1>1, <2>1, <3>1, FailFacts DEF tpud
  <2>3. Course'
    BY <1>1, <2>1, <2>2 DEF IInv, Course, tpud
  <2>4. Wire'
    <3>1. \E a \in 0 .. 2 : Flow(a)'
      BY <1>1, <2>2, FlowEmptyNext DEF tpud
    <3> QED
      BY <2>2, <3>1 DEF Wire
  <2> QED
    BY <1>2, <1>3, <2>2, <2>3, <2>4 DEF IInv, TypeOK
<1>6. QED
  BY <1>4, <1>5

\* tpu_dead.
LEMMA DeadKeeps ==
  ASSUME IInv, SendFails \/ AnswerLost
  PROVE  IInv'
<1>1. /\ Alone /\ Fail(owed, "closed") /\ conn = "down"
      /\ UNCHANGED <<mode, bounce, pool, glueData, tpu_h, down, tpud, obuf>>
  BY DEF Alone, SendFails, AnswerLost, IInv, Course
<1>2. /\ ~InRound' /\ ip' = 0 /\ Under' = <<>> /\ owed' = 0 /\ sock' = "closed" /\ pc' = "idle"
      /\ Data' /\ EncoderTypes' /\ left' = left
  BY <1>1, FailFacts DEF Fail, tpud, IInv, TypeOK, EncoderTypes
<1>3. Pool' /\ PoolTypes'
  BY <1>1, AlonePool DEF IInv
<1>4. DataTypes' /\ TpudTypes'
  BY <1>1 DEF IInv, TypeOK, DataTypes, TpudTypes, glueData, tpud
<1>5. Course'
  BY <1>1, <1>2 DEF IInv, Course, tpud
<1>6. Wire'
  BY <1>2 DEF Wire
<1>7. QED
  BY <1>2, <1>3, <1>4, <1>5, <1>6 DEF IInv, TypeOK

\* The request names the buffers themselves.
LEMMA SendRequestFacts ==
  ASSUME IInv, SendRequest
  PROVE  /\ InRound /\ Here.do = "submit" /\ Advance /\ conn = "up" /\ Under \in Seq(Pieces)
         /\ \E g \in Pieces : /\ Sent(mode, ip + 1) = Append(Under, g)
                              /\ BufsOf(mode, g) \in Tuples
                              /\ up' = Append(up, Infer(g))
<1>1. InRound /\ Here.do = "submit" /\ Advance /\ conn = "up" /\ Need = <<>>
  BY DEF SendRequest, At, InRound
<1>2. mode \in Modes /\ ip \in 1 .. Size(mode) /\ Under = Sent(mode, ip)
  BY <1>1, HereFacts DEF IInv
<1>3. PICK g \in Pieces : Here.bufs = BufsOf(mode, g) /\ Sent(mode, ip + 1) = Append(Sent(mode, ip), g)
  BY <1>1, NeedFacts DEF IInv
<1>4. Here.bufs \in Tuples /\ {} = {k \in ToSet(Here.bufs) : tpu_h[k] = -1}
  <2>1. ToSet(Need) = {}
    BY <1>1 DEF ToSet
  <2> QED
    BY <1>1, <2>1, NeedFacts DEF IInv
<1>5. [i \in 1 .. Len(Here.bufs) |-> tpu_h[Here.bufs[i]]] = Here.bufs
  <2>1. \A i \in 1 .. Len(Here.bufs) : tpu_h[Here.bufs[i]] = Here.bufs[i]
    <3>1. \A i \in 1 .. Len(Here.bufs) : Here.bufs[i] \in Bufs /\ Here.bufs[i] \in ToSet(Here.bufs)
      BY <1>4 DEF Tuples, ToSet
    <3> QED
      BY <1>4, <3>1 DEF IInv, Course
  <2>2. Here.bufs = [i \in 1 .. Len(Here.bufs) |-> Here.bufs[i]]
    BY <1>4 DEF Tuples
  <2> QED
    BY <2>1, <2>2
<1>6. up' = Append(up, Infer(g))
  BY <1>3, <1>5 DEF SendRequest, Send, Infer
<1>7. Under \in Seq(Pieces)
  BY <1>2, UnderWay
<1>8. QED
  BY <1>1, <1>2, <1>3, <1>4, <1>6, <1>7

\* A request is sent behind those under way, with inputs that are complete.
LEMMA SendRequestKeeps ==
  ASSUME IInv, SendRequest
  PROVE  IInv'
<1>1. /\ Alone /\ sock = "open" /\ owed' = owed + 1 /\ pc = "step"
      /\ UNCHANGED <<mode, bounce, pool, glueData, sock, tpu_h, left, down, conn, known, cur,
                     ibuf, tpu, late, blind, failed, obuf>>
  BY DEF Alone, SendRequest, At
<1>2. /\ InRound /\ Here.do = "submit" /\ Advance /\ conn = "up" /\ Under \in Seq(Pieces)
  BY SendRequestFacts
<1>3. PICK g \in Pieces : /\ Sent(mode, ip + 1) = Append(Under, g)
                          /\ BufsOf(mode, g) \in Tuples
                          /\ up' = Append(up, Infer(g))
  BY SendRequestFacts
<1>4. mode \in Modes /\ ip \in 1 .. Size(mode) /\ Under = Sent(mode, ip) /\ Len(Script[mode]) = Size(mode)
      /\ Size(mode) \in Nat
  BY <1>2, HereFacts DEF IInv, Size
<1>5. /\ Data' /\ InRound' /\ ip' = ip + 1 /\ pc' = "step" /\ round' = round /\ job' = job
      /\ Under' = Sent(mode, ip + 1) /\ ip + 1 \in 1 .. Size(mode)
  <2>1. \A b \in Blocks : ip # WaitAt(mode, b)
    BY <1>2, <1>4, StepFacts DEF Here
  <2> QED
    BY <1>1, <1>2, <2>1, OnwardData DEF glueData
<1>6. Under' = Append(Under, g) /\ Len(Under') = Len(Under) + 1 /\ Len(Under') \in 0 .. 2
  <2>1. Len(Sent(mode, ip + 1)) \in 0 .. 2
    BY <1>4, UnderWay
  <2> QED
    BY <1>2, <1>3, <1>5, <2>1
<1>7. Pool' /\ PoolTypes'
  BY <1>1, AlonePool DEF IInv
<1>8. owed' = Len(Under')
  BY <1>1, <1>6 DEF IInv, Course
<1>9. EncoderTypes'
  BY <1>1, <1>4, <1>5, <1>6, <1>8 DEF IInv, TypeOK, EncoderTypes
<1>10. DataTypes' /\ TpudTypes'
  <2>1. Infer(g) \in [cmd : {"import", "infer"}, hs : Tuples]
    BY <1>3 DEF Infer
  <2>2. up' \in Seq([cmd : {"import", "infer"}, hs : Tuples])
    BY <1>3, <2>1 DEF IInv, TypeOK, TpudTypes
  <2> QED
    BY <1>1, <2>2 DEF IInv, TypeOK, DataTypes, TpudTypes, glueData
<1>11. Course'
  BY <1>1, <1>2, <1>5, <1>8 DEF IInv, Course
<1>12. Wire'
  <2> SUFFICES ASSUME ~left PROVE \E a \in 0 .. 2 : Flow(a)'
    BY <1>1, <1>5 DEF Wire
  <2>1. PICK a \in 0 .. 2 : Flow(a)
    BY <1>1 DEF IInv, Wire
  <2>2. a <= Len(Under) /\ a <= Len(Under') /\ Len(Under) \in Nat
    BY <1>2, <1>6, <2>1 DEF Flow
  <2>3. \A j \in 1 .. Len(Under) : Under'[j] = Under[j]
    BY <1>2, <1>6
  <2>4. Answers(a)'
    <3>1. \A j \in 1 .. a : Under'[j] = Under[j]
      BY <2>2, <2>3
    <3> QED
      BY <1>1, <1>5, <2>1, <3>1 DEF Flow, Answers, Right, glueData
  <2>5. ASSUME NEW c \in Nat, c <= Len(Under), Rest(c)
        PROVE  Rest(c)'
    <3>1. up \in Seq([cmd : {"import", "infer"}, hs : Tuples])
      BY DEF IInv, TypeOK, TpudTypes
    <3>2. Len(up) = Len(Under) - c /\ Len(up') = Len(up) + 1 /\ up'[Len(up) + 1] = Infer(g)
          /\ \A i \in 1 .. Len(up) : up'[i] = up[i] /\ up[i] = Infer(Under[c + i])
      BY <1>3, <2>5, <3>1 DEF Rest
    <3>3. Under'[Len(Under) + 1] = g
      BY <1>2, <1>6
    <3>4. \A h : Infer(h)' = Infer(h)
      BY <1>1 DEF Infer
    <3>5. ASSUME NEW i \in 1 .. Len(up') PROVE up'[i] = Infer(Under'[c + i])
      <4>1. CASE i = Len(up) + 1
        BY <2>2, <3>2, <3>3, <4>1
      <4>2. CASE i # Len(up) + 1
        <5>1. i \in 1 .. Len(up) /\ c + i \in 1 .. Len(Under)
          BY <2>2, <2>5, <3>2, <4>2
        <5> QED
          BY <2>3, <3>2, <5>1
      <4> QED
        BY <4>1, <4>2
    <3>6. Len(up') = Len(Under') - c
      BY <1>6, <2>2, <3>2
    <3> QED
      BY <3>4, <3>5, <3>6 DEF Rest
  <2>6. CASE cur = <<>> /\ Rest(a)
    <3>1. Rest(a)'
      BY <2>2, <2>5, <2>6
    <3> QED
      BY <1>1, <2>2, <2>4, <2>6, <3>1 DEF Flow
  <2>7. CASE /\ a < Len(Under) /\ cur = BufsOf(mode, Under[a + 1]) /\ Rest(a + 1)
             /\ Computing(Under[a + 1])
    <3>1. Rest(a + 1)' /\ Under'[a + 1] = Under[a + 1] /\ a < Len(Under')
      BY <1>6, <2>2, <2>3, <2>5, <2>7
    <3>2. Computing(Under[a + 1])'
      BY <1>1, <1>5, <2>7, <3>1 DEF Computing, Computed, OnTpu
    <3>3. cur' = BufsOf(mode, Under[a + 1])'
      BY <1>1, <2>7, <3>1
    <3> QED
      BY <1>1, <2>2, <2>4, <3>1, <3>2, <3>3 DEF Flow
  <2> QED
    BY <1>2, <2>1, <2>6, <2>7 DEF Flow
<1>13. QED
  BY <1>5, <1>7, <1>9, <1>10, <1>11, <1>12 DEF IInv, TypeOK

\* What is awaited is the oldest request under way.
LEMMA AwaitedFacts ==
  ASSUME IInv, Awaited
  PROVE  /\ InRound /\ Here.do = "wait" /\ sock = "open" /\ mode \in Modes /\ ip \in 1 .. Size(mode)
         /\ Under = Sent(mode, ip) /\ Len(Under) \in 1 .. 2
         /\ Sent(mode, ip + 1) \in Seq(Pieces) /\ Len(Sent(mode, ip + 1)) = Len(Under) - 1
         /\ \A j \in 1 .. Len(Under) - 1 : Sent(mode, ip + 1)[j] = Under[j + 1]
         /\ \A b \in Blocks : ip = WaitAt(mode, b) => b \in ToSet(Under[1])
         /\ Len(down) >= 2 /\ down' = SubSeq(down, 3, Len(down))
<1>1. InRound /\ Here.do = "wait" /\ Len(down) >= 2 /\ down' = SubSeq(down, 3, Len(down))
  BY DEF Awaited, At, InRound, Words, Read
<1>2. mode \in Modes /\ ip \in 1 .. Size(mode) /\ Under = Sent(mode, ip) /\ Here = Script[mode][ip]
  BY <1>1, HereFacts DEF IInv, Here
<1>3. sock = "open"
  <2>1. PICK b \in Blocks : ip = WaitAt(mode, b)
    BY <1>1, HereFacts DEF IInv
  <2>2. ip > SubAt(mode, 0) /\ SubAt(mode, 0) \in Int
    BY <1>2, <2>1, Order DEF Blocks
  <2> QED
    BY <1>1, <1>2, <2>2 DEF IInv, Course, TypeOK, EncoderTypes
<1> DEFINE X == Sent(mode, ip + 1)
<1>4. PICK g \in Pieces : Under = <<g>> \o X
  <2>1. \E g \in Pieces : Sent(mode, ip) = Before(g, Sent(mode, ip + 1))
    BY <1>1, <1>2, StepFacts
  <2> QED
    BY <1>2, <2>1 DEF Before
<1>5. X \in Seq(Pieces) /\ Len(X) \in 0 .. 2 /\ Len(Under) \in 0 .. 2 /\ Under \in Seq(Pieces)
      /\ \A b \in Blocks : /\ Among(b, X) <=> SubAt(mode, b) < ip + 1 /\ ip + 1 <= WaitAt(mode, b)
                           /\ Among(b, Under) <=> SubAt(mode, b) < ip /\ ip <= WaitAt(mode, b)
  BY <1>2, UnderWay
<1> HIDE DEF X
<1>6. Len(Under) = Len(X) + 1 /\ Under[1] = g /\ \A j \in 1 .. Len(X) : Under[j + 1] = X[j]
  BY <1>4, <1>5
<1>7. ASSUME NEW b \in Blocks, ip = WaitAt(mode, b)
      PROVE  b \in ToSet(Under[1])
  <2>1. Among(b, Under) /\ ~Among(b, X)
    <3>1. SubAt(mode, b) < ip
      BY <1>2, <1>7, Order
    <3>2. ~(ip + 1 <= WaitAt(mode, b))
      BY <1>2, <1>7
    <3> QED
      BY <1>2, <1>5, <1>7, <3>1, <3>2
  <2>2. PICK j \in 1 .. Len(Under) : b \in ToSet(Under[j])
    BY <2>1 DEF Among
  <2>3. j # 1 => j - 1 \in 1 .. Len(X) /\ Under[j] = X[j - 1]
    BY <1>5, <1>6
  <2>4. j = 1
    BY <2>1, <2>2, <2>3 DEF Among
  <2> QED
    BY <2>2, <2>4
<1>8. QED
  BY <1>1, <1>2, <1>3, <1>5, <1>6, <1>7 DEF X

\* The words that are left are answers to the requests that are left.
LEMMA AwaitedFlow ==
  ASSUME IInv, Awaited, ~left, job' = job, Under' = Sent(mode, ip + 1)
  PROVE  /\ \E a \in 0 .. 2 : Flow(a)'
         /\ IF down[1] = 0
            THEN \A p \in 1 .. Len(Under[1]) : Right(out[BufOf(mode, Under[1][p])], Under[1][p])
            ELSE failed
<1>1. /\ Len(Under) \in 1 .. 2 /\ Len(Under') = Len(Under) - 1
      /\ \A j \in 1 .. Len(Under) - 1 : Under'[j] = Under[j + 1]
      /\ Len(down) >= 2 /\ down' = SubSeq(down, 3, Len(down))
      /\ UNCHANGED <<mode, bounce, out, ibuf, obuf, conn, up, cur, tpu, blind, failed>>
  BY AwaitedFacts DEF Awaited, glueData, tpud
<1>2. PICK a \in 0 .. 2 : Flow(a)
  BY AwaitedFacts DEF IInv, Wire, Awaited, At
<1>3. a <= Len(Under) /\ Len(down) = 2 * a /\ a >= 1 /\ Len(Under) \in Int
  BY <1>1, <1>2 DEF Flow, Answers
<1>4. IF down[1] = 0
      THEN \A p \in 1 .. Len(Under[1]) : Right(out[BufOf(mode, Under[1][p])], Under[1][p])
      ELSE failed
  <2>1. 1 \in 1 .. a /\ 2 * 1 - 1 = 1
    BY <1>3
  <2> QED
    BY <1>2, <2>1 DEF Flow, Answers
<1>5. Len(down') = 2 * (a - 1) /\ \A j \in 1 .. 2 * (a - 1) : down'[j] = down[j + 2]
  <2>1. Len(down) \in Int /\ 3 \in Int /\ \A i \in 3 .. Len(down) : down[i] \in Bufs \cup {Us}
    BY <1>3 DEF IInv, TypeOK, TpudTypes
  <2>2. /\ Len(SubSeq(down, 3, Len(down))) = IF 3 <= Len(down) THEN Len(down) - 3 + 1 ELSE 0
        /\ \A i \in 1 .. Len(down) - 3 + 1 : SubSeq(down, 3, Len(down))[i] = down[3 + i - 1]
    BY <2>1, SubSeqProperties
  <2> QED
    BY <1>1, <1>3, <2>2
<1>6. Answers(a - 1)'
  <2>1. ASSUME NEW j \in 1 .. a - 1
        PROVE  /\ Under'[j] = Under[j + 1] /\ down'[2 * j - 1] = down[2 * (j + 1) - 1] /\ j + 1 \in 1 .. a
    <3>1. 2 * j - 1 \in 1 .. 2 * (a - 1) /\ 2 * (j + 1) - 1 = (2 * j - 1) + 2
      BY <1>3
    <3>2. j \in 1 .. Len(Under) - 1 /\ j + 1 \in 1 .. a
      BY <1>3
    <3> QED
      BY <1>1, <1>5, <3>1, <3>2
  <2>2. ASSUME NEW j \in 1 .. a - 1
        PROVE  IF down'[2 * j - 1] = 0
               THEN \A p \in 1 .. Len(Under[j])' : Right(out[BufOf(mode, Under[j][p])], Under[j][p])'
               ELSE failed'
    <3>1. j + 1 \in 1 .. a /\ Under'[j] = Under[j + 1] /\ down'[2 * j - 1] = down[2 * (j + 1) - 1]
      BY <2>1, <2>2
    <3>2. IF down[2 * (j + 1) - 1] = 0
          THEN \A p \in 1 .. Len(Under[j + 1]) : Right(out[BufOf(mode, Under[j + 1][p])], Under[j + 1][p])
          ELSE failed
      BY <1>2, <3>1, Zenon DEF Flow, Answers
    <3>3. out' = out /\ mode' = mode /\ (failed' <=> failed) /\ job' = job /\ blind' = blind
      BY <1>1
    <3>4. CASE down[2 * (j + 1) - 1] = 0
      <4>1. \A p \in 1 .. Len(Under[j + 1]) : Right(out[BufOf(mode, Under[j + 1][p])], Under[j + 1][p])
        BY <3>2, <3>4, Zenon
      <4> QED
        BY <3>1, <3>3, <3>4, <4>1 DEF Right
    <3>5. CASE down[2 * (j + 1) - 1] # 0
      BY <3>1, <3>2, <3>3, <3>5, Zenon
    <3> QED
      BY <3>4, <3>5, Zenon
  <2> QED
    BY <1>5, <2>2, Zenon DEF Answers
<1>7. ASSUME NEW c \in 0 .. 3, c >= 1, Rest(c)
      PROVE  Rest(c - 1)'
  <2>1. Len(up') = Len(Under') - (c - 1)
    BY <1>1, <1>7 DEF Rest
  <2>2. ASSUME NEW i \in 1 .. Len(up') PROVE up'[i] = Infer(Under[c - 1 + i])'
    <3>1. Len(up) = Len(Under) - c /\ up' = up
      BY <1>1, <1>7 DEF Rest
    <3>0. Len(up) \in Nat /\ Len(Under) \in Nat
      BY <1>1 DEF IInv, TypeOK, TpudTypes
    <3>2. i \in 1 .. Len(up) /\ c - 1 + i \in 1 .. Len(Under) - 1 /\ (c - 1 + i) + 1 = c + i
      BY <1>7, <2>2, <3>0, <3>1
    <3>3. Under'[c - 1 + i] = Under[c + i]
      BY <1>1, <3>2
    <3> QED
      BY <1>1, <1>7, <3>2, <3>3 DEF Rest, Infer
  <2> QED
    BY <2>1, <2>2 DEF Rest
<1>8. \E c \in 0 .. 2 : Flow(c)'
  <2>1. a - 1 \in 0 .. 2 /\ a - 1 <= Len(Under')
    BY <1>1, <1>3
  <2>2. CASE cur = <<>> /\ Rest(a)
    <3>1. Rest(a - 1)'
      BY <1>3, <1>7, <2>2
    <3>2. Flow(a - 1)'
      BY <1>1, <1>6, <2>1, <2>2, <3>1 DEF Flow
    <3> QED
      BY <2>1, <3>2
  <2>3. CASE /\ a < Len(Under) /\ cur = BufsOf(mode, Under[a + 1]) /\ Rest(a + 1)
             /\ Computing(Under[a + 1])
    <3>1. Rest((a + 1) - 1)'
      BY <1>3, <1>7, <2>3
    <3>2. (a + 1) - 1 = a /\ (a - 1) + 1 = a /\ a - 1 < Len(Under') /\ Under'[a] = Under[a + 1]
      <4>1. (a + 1) - 1 = a /\ (a - 1) + 1 = a
        OBVIOUS
      <4>2. a \in Int /\ 1 <= a /\ Len(Under) \in Int /\ a < Len(Under)
        BY <1>1, <1>3, <2>3
      <4>3. a \in 1 .. Len(Under) - 1 /\ a - 1 < Len(Under) - 1
        BY <4>2
      <4> QED
        BY <1>1, <4>1, <4>3
    <3>3. Computing(Under[a])'
      <4>1. PICK g : g = Under[a + 1]
        OBVIOUS
      <4>2. Computing(g)'
        BY <1>1, <2>3, <4>1 DEF Computing, Computed, OnTpu
      <4>3. Under[a]' = g
        BY <3>2, <4>1
      <4> QED
        BY <4>2, <4>3 DEF Computing
    <3>4. Flow(a - 1)'
      BY <1>1, <1>6, <2>1, <2>3, <3>1, <3>2, <3>3 DEF Flow
    <3> QED
      BY <2>1, <3>4
  <2>4. CASE conn # "up"
    <3>1. Flow(a - 1)'
      BY <1>1, <1>6, <2>1, <2>4 DEF Flow
    <3> QED
      BY <2>1, <3>1
  <2> QED
    BY <1>2, <2>2, <2>3, <2>4 DEF Flow
<1>9. QED
  BY <1>4, <1>8

\* The answer that is awaited is that of the oldest request, and its results are in the buffers.
LEMMA AwaitedKeeps ==
  ASSUME IInv, Awaited
  PROVE  IInv'
<1>1. /\ Alone /\ pc = "step" /\ UNCHANGED <<mode, bounce, pool, glueData, tpu_h, tpud, obuf>>
  BY DEF Alone, Awaited, At
<1>2. /\ InRound /\ Here.do = "wait" /\ sock = "open" /\ mode \in Modes /\ ip \in 1 .. Size(mode)
      /\ Under = Sent(mode, ip) /\ Len(Under) \in 1 .. 2
      /\ Len(Sent(mode, ip + 1)) = Len(Under) - 1 /\ Size(mode) \in Nat /\ Len(Script[mode]) = Size(mode)
      /\ Len(down) >= 2 /\ down' = SubSeq(down, 3, Len(down)) /\ owed = Len(Under)
  BY AwaitedFacts, HereFacts DEF IInv, Course, Size
<1>3. Pool' /\ PoolTypes'
  BY <1>1, AlonePool DEF IInv
<1>4. DataTypes' /\ TpudTypes'
  <2>1. Len(down) \in Nat /\ \A i \in 3 .. Len(down) : down[i] \in Bufs \cup {Us}
    BY DEF IInv, TypeOK, TpudTypes
  <2>2. down' \in Seq(Bufs \cup {Us})
    BY <1>2, <2>1, SubSeqProperties
  <2> QED
    BY <1>1, <2>2 DEF IInv, TypeOK, DataTypes, TpudTypes, glueData, tpud
<1>5. CASE down[1] = 0
  <2>1. Advance /\ owed' = owed - 1 /\ sock' = sock /\ left' = left
    BY <1>5 DEF Awaited
  <2>2. ASSUME ~left, NEW b \in Blocks, ip = WaitAt(mode, b)
        PROVE  Right(out[BufOf(mode, b)], b)
    <3>1. Under' = Sent(mode, ip + 1) /\ job' = job
      BY <1>1, <1>2, <2>1, Forward DEF IInv
    <3>2. b \in ToSet(Under[1]) /\ \A p \in 1 .. Len(Under[1]) : Right(out[BufOf(mode, Under[1][p])], Under[1][p])
      BY <1>5, <2>2, <3>1, AwaitedFacts, AwaitedFlow
    <3>3. Under[1] \in Pieces
      BY <1>2, Parts
    <3>4. PICK p \in 1 .. Len(Under[1]) : b = Under[1][p]
      BY <3>2, <3>3 DEF Pieces, ToSet
    <3> QED
      BY <3>2, <3>4
  <2>3. /\ Data' /\ InRound' /\ ip' = ip + 1 /\ pc' = "step" /\ round' = round /\ job' = job
        /\ Under' = Sent(mode, ip + 1) /\ ip + 1 \in 1 .. Size(mode)
    BY <1>1, <1>2, <2>1, <2>2, OnwardData DEF glueData, tpud
  <2>4. owed' = Len(Under') /\ owed' \in 0 .. 2
    BY <1>2, <2>1, <2>3
  <2>5. EncoderTypes'
    BY <1>1, <1>2, <2>1, <2>3, <2>4 DEF IInv, TypeOK, EncoderTypes, tpud
  <2>6. Course'
    BY <1>1, <1>2, <2>1, <2>3, <2>4 DEF IInv, Course, tpud
  <2>7. Wire'
    <3> SUFFICES ASSUME ~left PROVE \E a \in 0 .. 2 : Flow(a)'
      BY <2>1, <2>3 DEF Wire
    <3> QED
      BY <2>3, AwaitedFlow
  <2> QED
    BY <1>3, <1>4, <2>3, <2>5, <2>6, <2>7 DEF IInv, TypeOK
<1>6. CASE down[1] # 0
  <2>1. Fail(owed - 1, sock)
    BY <1>6 DEF Awaited
  <2>2. /\ ~InRound' /\ ip' = 0 /\ Under' = <<>> /\ owed' = 0 /\ sock' = sock /\ pc' = "idle"
        /\ Data' /\ EncoderTypes' /\ job' = job
    BY <1>1, <1>2, <2>1, FailFacts DEF tpud
  <2>3. left' = (left \/ (sock = "open" /\ owed - 1 > 0))
    BY <2>1 DEF Fail
  <2>4. left' => left \/ Len(Under) = 2
    <3>1. left' => left \/ owed - 1 > 0
      BY <2>3, Zenon
    <3> QED
      BY <1>2, <3>1
  <2>5. ~left => failed /\ (Len(Under) # 2 => down' = <<>> /\ (conn = "up" => cur = <<>> /\ up = <<>>))
    <3> SUFFICES ASSUME ~left
                 PROVE  failed /\ (Len(Under) # 2 => down' = <<>> /\ (conn = "up" => cur = <<>> /\ up = <<>>))
      OBVIOUS
    <3>1. PICK a \in 0 .. 2 : Flow(a)
      BY <1>1, <1>2 DEF IInv, Wire
    <3>2. a <= Len(Under) /\ Len(down) = 2 * a /\ a >= 1
      BY <1>2, <3>1 DEF Flow, Answers
    <3>3. failed
      <4>1. 1 \in 1 .. a /\ 2 * 1 - 1 = 1
        BY <3>2
      <4> QED
        BY <1>6, <3>1, <4>1 DEF Flow, Answers
    <3>4. ASSUME Len(Under) # 2
          PROVE  down' = <<>> /\ (conn = "up" => cur = <<>> /\ up = <<>>)
      <4>1. a = 1 /\ Len(Under) = 1 /\ Len(down) = 2
        BY <1>2, <3>2, <3>4
      <4>2. down' = <<>>
        BY <1>2, <4>1, SubSeqEmpty
      <4>3. conn = "up" => cur = <<>> /\ Len(up) = 0
        BY <3>1, <4>1 DEF Flow, Rest
      <4> QED
        BY <4>2, <4>3 DEF IInv, TypeOK, TpudTypes
    <3> QED
      BY <3>3, <3>4
  <2>6. left' => mode = "ovl" /\ failed
    <3>1. Len(Under) = 2 => mode = "ovl"
      BY <1>2, TwoUnder
    <3> QED
      BY <2>4, <2>5, <3>1 DEF IInv, Course
  <2>7. Course'
    BY <1>1, <1>2, <2>2, <2>6 DEF IInv, Course, tpud
  <2>8. Wire'
    <3> SUFFICES ASSUME ~left' PROVE \E a \in 0 .. 2 : Flow(a)'
      BY <2>2 DEF Wire
    <3>1. ~left /\ ~(owed - 1 > 0)
      BY <1>2, <2>3, Zenon
    <3>2. Len(Under) # 2
      <4>1. \A n \in 1 .. 2 : ~(n - 1 > 0) => n # 2
        OBVIOUS
      <4> QED
        BY <1>2, <3>1, <4>1, Zenon
    <3> QED
      BY <1>1, <2>2, <2>5, <3>1, <3>2, FlowEmptyNext DEF tpud
  <2> QED
    BY <1>3, <1>4, <2>2, <2>7, <2>8 DEF IInv, TypeOK
<1>7. QED
  BY <1>5, <1>6

\* The encoding thread beside the pool keeps the invariant.
LEMMA AloneStep ==
  ASSUME IInv, Alone
  PROVE  IInv'
BY QuietKeeps, CopyStripsKeeps, SendImportKeeps, ImportedKeeps, SendRequestKeeps, DeadKeeps, AwaitedKeeps DEF Alone

-------------------------------------------------------------------------------
(* The pool *)

\* A thread that is not through is in the present call.
LEMMA LateMeansGluing ==
  ASSUME Pool, NEW w \in Workers, wpc[w] # "sleep" \/ seen[w] # seq
  PROVE  Gluing /\ w \notin Through
  BY DEF Pool, Through

\* The encoding thread goes on when every thread of the pool has done its part.
LEMMA AllThrough ==
  ASSUME TypeOK, Pool, Join
  PROVE  Through = Workers
<1>1. done = Cardinality(Through) /\ done >= Cardinality(Workers)
  BY DEF Pool, Join, Gluing
<1>2. IsFiniteSet(Workers) /\ Through \in SUBSET Workers
  BY ThreadAssumption DEF Through
<1>3. Cardinality(Through) <= Cardinality(Workers) /\ Cardinality(Workers) \in Nat /\ Cardinality(Through) \in Nat
  BY <1>2, FS_Subset, FS_CardinalityType
<1>4. Cardinality(Through) = Cardinality(Workers)
  BY <1>1, <1>3
<1>5. QED
  BY <1>2, <1>4, FS_Subset

\* The pool counts the threads that are through, and no other thread.
LEMMA PoolPool ==
  ASSUME TypeOK, Course, Pool, PoolStep
  PROVE  Pool'
<1>1. UNCHANGED mode
  BY PoolKeeps
<1>2. CASE Publish
  <2>1. /\ pc = "step" /\ pc' = "slice" /\ fn' = Here /\ done' = 0 /\ seq' = seq + 1 /\ Here' = Here
        /\ UNCHANGED <<wpc, seen, task>> /\ Here.do \in {"kv", "q", "div"}
    BY <1>1, <1>2 DEF Publish, At, Here
  <2>2. \A w \in Workers : wpc[w] = "sleep" /\ seen[w] = seq
    BY <2>1, LateMeansGluing DEF Gluing
  <2>3. Through' = {}
    <3>1. \A w \in Workers : seen'[w] # seq'
      BY <2>1, <2>2 DEF TypeOK, PoolTypes
    <3> QED
      BY <3>1 DEF Through
  <2>4. done' = Cardinality(Through')
    BY <2>1, <2>3, FS_EmptySet
  <2>5. \A w \in Workers : seen'[w] = seq' - 1 /\ wpc'[w] = "sleep"
    BY <2>1, <2>2 DEF TypeOK, PoolTypes
  <2> QED
    BY <2>1, <2>4, <2>5 DEF Pool, Gluing
<1>3. CASE OwnSlice
  <2>1. pc = "slice" /\ pc' = "join" /\ UNCHANGED <<ip, pool>>
    BY <1>3 DEF OwnSlice
  <2>2. Here' = Here /\ Through' = Through
    BY <1>1, <2>1 DEF Here, Through, pool
  <2> QED
    BY <2>1, <2>2 DEF Pool, Gluing, pool
<1>4. CASE Join
  <2>1. Through = Workers /\ UNCHANGED pool /\ InRound /\ Advance
    BY <1>4, AllThrough DEF Join, InRound
  <2>2. ~Gluing' /\ Through' = Workers
    BY <1>1, <2>1, Forward DEF Through, pool
  <2> QED
    BY <2>1, <2>2 DEF Pool, pool
<1>5. ASSUME NEW w \in Workers, Worker(w)
      PROVE  Pool'
  <2>1. Gluing /\ w \notin Through
    <3>1. wpc[w] # "sleep" \/ seen[w] # seq
      BY <1>5 DEF Worker, Take, WorkerSlice, Count
    <3> QED
      BY <3>1, LateMeansGluing
  <2>2. Gluing' /\ Here' = Here /\ UNCHANGED <<fn, seq>>
    BY <1>5, <2>1 DEF Worker, Take, WorkerSlice, Count, Gluing, Here, encoder
  <2>3. fn = Here /\ Here.do \in {"kv", "q", "div"} /\ done = Cardinality(Through)
    BY <2>1 DEF Pool
  <2>4. CASE Take(w)
    <3>1. Through' = Through /\ done' = done
      BY <2>1, <2>4 DEF Take, Through, TypeOK, PoolTypes
    <3>2. \A v \in Workers : /\ seen'[v] = IF v = w THEN seq ELSE seen[v]
                             /\ wpc'[v] = IF v = w THEN "run" ELSE wpc[v]
                             /\ task'[v] = IF v = w THEN fn ELSE task[v]
      BY <2>4 DEF Take, TypeOK, PoolTypes
    <3>3. \A v \in Workers : /\ seen'[v] \in {seq' - 1, seq'} /\ (wpc'[v] # "sleep" => seen'[v] = seq')
                             /\ (wpc'[v] = "run" => task'[v] = fn')
      BY <2>1, <2>2, <3>2 DEF Pool
    <3> QED
      BY <2>2, <2>3, <3>1, <3>3 DEF Pool
  <2>5. CASE WorkerSlice(w)
    <3>1. Through' = Through /\ UNCHANGED <<done, seen, task>>
      BY <2>1, <2>5 DEF WorkerSlice, Through, TypeOK, PoolTypes
    <3>2. \A v \in Workers : wpc'[v] = IF v = w THEN "count" ELSE wpc[v]
      BY <2>5 DEF WorkerSlice, TypeOK, PoolTypes
    <3>3. \A v \in Workers : /\ seen'[v] \in {seq' - 1, seq'} /\ (wpc'[v] # "sleep" => seen'[v] = seq')
                             /\ (wpc'[v] = "run" => task'[v] = fn')
      BY <2>1, <2>2, <2>5, <3>1, <3>2 DEF Pool, WorkerSlice
    <3> QED
      BY <2>2, <2>3, <3>1, <3>3 DEF Pool
  <2>6. CASE Count(w)
    <3>1. seen[w] = seq /\ UNCHANGED <<seen, task>> /\ done' = done + 1
      BY <2>6 DEF Pool, Count
    <3>2. \A v \in Workers : wpc'[v] = IF v = w THEN "sleep" ELSE wpc[v]
      BY <2>6 DEF Count, TypeOK, PoolTypes
    <3>3. Through' = Through \cup {w}
      BY <2>2, <3>1, <3>2 DEF Through
    <3>4. done' = Cardinality(Through')
      <4>1. IsFiniteSet(Through)
        BY ThreadAssumption, FS_Subset DEF Through
      <4>2. Cardinality(Through \cup {w}) = IF w \in Through THEN Cardinality(Through) ELSE Cardinality(Through) + 1
        BY <4>1, FS_AddElement
      <4> QED
        BY <2>1, <2>3, <3>1, <3>3, <4>2
    <3>5. \A v \in Workers : /\ seen'[v] \in {seq' - 1, seq'} /\ (wpc'[v] # "sleep" => seen'[v] = seq')
                             /\ (wpc'[v] = "run" => task'[v] = fn')
      BY <2>1, <2>2, <3>1, <3>2 DEF Pool
    <3> QED
      BY <2>2, <2>3, <3>4, <3>5 DEF Pool
  <2> QED
    BY <1>5, <2>4, <2>5, <2>6 DEF Worker
<1>6. QED
  BY <1>2, <1>3, <1>4, <1>5 DEF PoolStep

\* The part of thread t does no harm to what the buffers hold.
LEMMA SliceKeeps ==
  ASSUME IInv, ~left, Gluing, NEW t \in Threads, Slice(Here, t), UNCHANGED <<mode, job, ip, out, blind>>
  PROVE  /\ Strips' /\ \A b \in Blocks : BlockOK(b)'
         /\ Here' = Here /\ Did(Here, t)' /\ \A u \in Threads : Did(Here, u) => Did(Here, u)'
<1>1. InRound /\ mode \in Modes /\ ip \in 1 .. Size(mode) /\ Here' = Here
  BY HereFacts DEF IInv, Gluing, InRound, Here
<1>2. Strips /\ \A b \in Blocks : BlockOK(b)
  BY <1>1 DEF IInv, Data
<1>3. Here.do \in {"kv", "q", "div"} /\ 0 \in Bufs /\ \A b \in Blocks : BufOf(mode, b) \in Bufs
  BY <1>1, Order DEF IInv, Pool, Bufs
<1>4. /\ kv \in [Bufs -> [Threads -> 0 .. MaxRounds]] /\ q \in [Bufs -> [Threads -> Marks]]
      /\ ctx \in [Blocks -> [Threads -> Marks]]
  BY DEF IInv, TypeOK, DataTypes
<1>5. CASE Here.do = "kv"
  <2>1. ip = 1 /\ kv' = [kv EXCEPT ![0][t] = job] /\ q' = q /\ ctx' = ctx
    BY <1>1, <1>5, HereFacts DEF IInv, Slice
  <2>2. \A u \in Threads : kv'[0][u] = IF u = t THEN job ELSE kv[0][u]
    BY <1>3, <1>4, <2>1
  <2>3. Strips'
    BY <2>1 DEF Strips
  <2>4. \A b \in Blocks : BlockOK(b)'
    BY <1>2, <2>1 DEF BlockOK, Right
  <2> QED
    BY <1>1, <1>5, <2>2, <2>3, <2>4 DEF Did
<1>6. CASE Here.do = "q"
  <2>1. PICK c \in Blocks : ip = QAt(mode, c) /\ Here = Q(c, BufOf(mode, c))
    BY <1>1, <1>6, HereFacts DEF IInv
  <2>2. Here.bufs[1] = BufOf(mode, c) /\ Here.blk = c
    BY <2>1 DEF Q, Step
  <2>3. kv' = kv /\ ctx' = ctx /\ q' = [q EXCEPT ![BufOf(mode, c)][t] = <<job, c>>]
    BY <1>6, <2>2 DEF Slice
  <2>4. \A k \in Bufs, u \in Threads : q'[k][u] = IF k = BufOf(mode, c) /\ u = t THEN <<job, c>> ELSE q[k][u]
    BY <1>3, <1>4, <2>3
  <2>5. Strips'
    BY <1>2, <2>3 DEF Strips
  <2>6. ASSUME NEW b \in Blocks PROVE BlockOK(b)'
    <3>1. QAt(mode, b) < ip /\ ip <= WaitAt(mode, b) => BufOf(mode, b) # BufOf(mode, c)
      <4> SUFFICES ASSUME QAt(mode, b) < ip, ip <= WaitAt(mode, b), BufOf(mode, b) = BufOf(mode, c) PROVE FALSE
        OBVIOUS
      <4>1. /\ QAt(mode, b) \in Int /\ QAt(mode, c) \in Int /\ DivAt(mode, b) \in Int /\ DivAt(mode, c) \in Int
            /\ WaitAt(mode, b) < DivAt(mode, b) /\ QAt(mode, c) < DivAt(mode, c) /\ WaitAt(mode, b) \in Int
        <5>1. /\ QAt(mode, c) \in Int /\ SubAt(mode, c) \in Int /\ WaitAt(mode, c) \in Int /\ DivAt(mode, c) \in Int
              /\ QAt(mode, c) < SubAt(mode, c) /\ SubAt(mode, c) < WaitAt(mode, c) /\ WaitAt(mode, c) < DivAt(mode, c)
          BY <1>1, Order
        <5> QED
          BY <1>1, <5>1, Order
      <4>2. b # c
        BY <2>1, <4>1
      <4>3. DivAt(mode, b) < QAt(mode, c) \/ DivAt(mode, c) < QAt(mode, b)
        BY <1>1, <4>2, Apart
      <4> QED
        BY <2>1, <4>1, <4>3
    <3>2. BlockOK(b)
      BY <1>2
    <3> QED
      BY <1>3, <2>3, <2>4, <3>1, <3>2 DEF BlockOK, Right
  <2>7. Did(Here, t)' /\ \A u \in Threads : Did(Here, u) => Did(Here, u)'
    BY <1>1, <1>3, <1>6, <2>2, <2>4 DEF Did
  <2> QED
    BY <1>1, <2>5, <2>6, <2>7
<1>7. CASE Here.do = "div"
  <2>1. PICK c \in Blocks : ip = DivAt(mode, c) /\ Here = Div(c, BufOf(mode, c))
    BY <1>1, <1>7, HereFacts DEF IInv
  <2>2. Here.bufs[1] = BufOf(mode, c) /\ Here.blk = c
    BY <2>1 DEF Div, Step
  <2>3. Right(out[BufOf(mode, c)], c)
    <3>1. WaitAt(mode, c) < ip /\ ip <= DivAt(mode, c)
      BY <1>1, <2>1, Order
    <3> QED
      BY <1>2, <3>1 DEF BlockOK
  <2>4. kv' = kv /\ q' = q /\ ctx' = [ctx EXCEPT ![c][t] = out[BufOf(mode, c)]]
    BY <1>7, <2>2 DEF Slice
  <2>5. \A b \in Blocks, u \in Threads :
          ctx'[b][u] = IF b = c /\ u = t THEN out[BufOf(mode, c)] ELSE ctx[b][u]
    BY <1>4, <2>4
  <2>6. Strips'
    BY <1>2, <2>4 DEF Strips
  <2>7. ASSUME NEW b \in Blocks PROVE BlockOK(b)'
    <3>1. DivAt(mode, b) < ip => b # c
      BY <1>1, <2>1, Order
    <3>2. BlockOK(b)
      BY <1>2
    <3> QED
      BY <2>4, <2>5, <3>1, <3>2 DEF BlockOK, Right
  <2>8. Did(Here, t)' /\ \A u \in Threads : Did(Here, u) => Did(Here, u)'
    BY <1>1, <1>7, <2>2, <2>3, <2>5 DEF Did, Right
  <2> QED
    BY <1>1, <2>6, <2>7, <2>8
<1>8. QED
  BY <1>3, <1>5, <1>6, <1>7

\* All threads are through: what the step is for holds for the whole buffer.
LEMMA JoinData ==
  ASSUME IInv, Join, UNCHANGED <<mode, job, round, left, blind>>
  PROVE  Data'
<1> SUFFICES ASSUME ~left PROVE Data'
  BY DEF Data
<1>1. /\ InRound /\ Gluing /\ Advance /\ pc = "join" /\ Through = Workers
      /\ UNCHANGED <<kv, q, ctx, out>>
  BY AllThrough DEF IInv, Join, InRound, Gluing, glueData
<1>2. /\ mode \in Modes /\ ip \in 1 .. Size(mode) /\ Size(mode) \in Nat
      /\ Here.do \in {"kv", "q", "div"} /\ Here = Script[mode][ip]
  BY <1>1, HereFacts DEF IInv, Pool, Size, Here
<1>3. \A t \in Threads : Did(Here, t)
  <2>1. \A t \in Threads : HasDone(t)
    BY <1>1 DEF HasDone, Through, Threads
  <2> QED
    BY <1>1, <2>1 DEF IInv, Data
<1>4. /\ \/ ip < Size(mode) /\ pc' = "step" /\ ip' = ip + 1
         \/ ip = Size(mode) /\ pc' = "round"
      /\ ~Gluing' /\ (InRound' <=> ip < Size(mode))
  <2>1. mode' = mode
    OBVIOUS
  <2> QED
    BY <1>1, <2>1, Forward DEF IInv
<1>5. Strips /\ \A b \in Blocks : BlockOK(b)
  BY <1>1 DEF IInv, Data
<1>6. \A b \in Blocks : ip # SubAt(mode, b) /\ ip # WaitAt(mode, b)
  <2>1. ip = 1 \/ \E c \in Blocks : ip = QAt(mode, c) \/ ip = DivAt(mode, c)
    BY <1>1, <1>2, HereFacts DEF IInv
  <2> QED
    BY <1>2, <2>1, Order, Kinds
<1>7. ASSUME NEW b \in Blocks
      PROVE  /\ ip = QAt(mode, b) => \A t \in Threads : q[BufOf(mode, b)][t] = <<job, b>>
             /\ ip = DivAt(mode, b) => \A t \in Threads : Right(ctx[b][t], b)
  <2>1. ip = QAt(mode, b) => Here = Q(b, BufOf(mode, b))
    BY <1>2, Timetable
  <2>2. ip = DivAt(mode, b) => Here = Div(b, BufOf(mode, b))
    BY <1>2, Timetable
  <2>3. Q(b, BufOf(mode, b)).do = "q" /\ Q(b, BufOf(mode, b)).blk = b /\ Q(b, BufOf(mode, b)).bufs[1] = BufOf(mode, b)
    BY DEF Q, Step
  <2>4. Div(b, BufOf(mode, b)).do = "div" /\ Div(b, BufOf(mode, b)).blk = b
    BY DEF Div, Step
  <2> QED
    BY <1>3, <2>1, <2>2, <2>3, <2>4 DEF Did
<1>8. ip = 1 => \A t \in Threads : kv[0][t] = job
  <2>1. ip = 1 => Here.do = "kv"
    BY <1>2, StepFacts
  <2> QED
    BY <1>3, <2>1 DEF Did
<1>9. ip = 2 => mode = "single"
  BY <1>2, StepFacts
<1>10. CASE ip < Size(mode)
  <2>1. pc' = "step" /\ ip' = ip + 1 /\ ~Gluing'
    BY <1>2, <1>4, <1>10
  <2>2. Strips'
    BY <1>1, <1>2, <1>5, <1>8, <1>9, <2>1 DEF Strips
  <2>3. ASSUME NEW b \in Blocks PROVE BlockOK(b)'
    <3>1. QAt(mode, b) \in Int /\ SubAt(mode, b) \in Int /\ WaitAt(mode, b) \in Int /\ DivAt(mode, b) \in Int
      BY <1>2, Order
    <3> QED
      BY <1>1, <1>2, <1>5, <1>6, <1>7, <2>1, <3>1 DEF BlockOK, Right
  <2> QED
    BY <2>1, <2>2, <2>3 DEF Data
<1>11. CASE ip = Size(mode)
  <2>1. pc' = "round" /\ ~Gluing' /\ ~InRound'
    BY <1>2, <1>4, <1>11
  <2>2. ASSUME NEW b \in Blocks PROVE \A t \in Threads : Right(ctx[b][t], b)
    <3>1. DivAt(mode, b) \in Int /\ DivAt(mode, b) <= ip
      BY <1>2, <1>11, Order
    <3> QED
      BY <1>2, <1>5, <1>7, <3>1 DEF BlockOK
  <2> QED
    BY <1>1, <2>1, <2>2 DEF Data, Right
<1>12. QED
  BY <1>2, <1>10, <1>11

\* The pool fills and divides what the step says, and no more.
LEMMA PoolData ==
  ASSUME IInv, PoolStep
  PROVE  Data'
<1>1. UNCHANGED <<mode, bounce, round, job, out, library, tpud, down, obuf>> /\ (Gluing \/ Publish)
  BY PoolKeeps DEF IInv
<1> SUFFICES ASSUME ~left PROVE Data'
  BY <1>1 DEF Data, library
<1>2. CASE Publish
  <2>1. /\ pc = "step" /\ pc' = "slice" /\ seq' = seq + 1 /\ UNCHANGED <<ip, kv, q, ctx, wpc, seen>>
    BY <1>2 DEF Publish, At, glueData
  <2>2. Strips' /\ \A b \in Blocks : BlockOK(b)'
    <3>1. Strips /\ \A b \in Blocks : BlockOK(b)
      BY <2>1 DEF IInv, Data, InRound
    <3> QED
      BY <1>1, <2>1, <3>1 DEF Strips, BlockOK, Right, tpud
  <2>3. \A t \in Threads : ~HasDone(t)'
    <3>1. \A w \in Workers : wpc'[w] = "sleep" /\ seen'[w] # seq'
      BY <2>1, LateMeansGluing DEF IInv, TypeOK, PoolTypes, Gluing
    <3> QED
      BY <2>1, <3>1 DEF HasDone, Threads
  <2> QED
    BY <2>1, <2>2, <2>3 DEF Data
<1>3. CASE Join
  BY <1>1, <1>3, JoinData DEF library, tpud
<1>4. CASE Gluing /\ ~Join
  <2>1. \/ OwnSlice
        \/ \E w \in Workers : Worker(w)
    BY <1>4 DEF PoolStep, Publish, At, Gluing
  <2>2. ip' = ip /\ Gluing' /\ InRound' /\ InRound /\ pc' # "round"
    BY <1>4, <2>1 DEF OwnSlice, Worker, Take, WorkerSlice, Count, encoder, Gluing, InRound
  <2>3. fn = Here
    BY <1>4 DEF IInv, Pool
  <2>4. Here' = Here
    BY <1>1, <2>2 DEF Here
  <2>5. \A t \in Threads : HasDone(t) => Did(Here, t)
    BY <1>4 DEF IInv, Data
  <2>6. ASSUME NEW t \in Threads, Slice(Here, t), \A u \in Threads : HasDone(u)' => u = t \/ HasDone(u)
        PROVE  Data'
    <3>1. /\ Strips' /\ \A b \in Blocks : BlockOK(b)'
          /\ Did(Here, t)' /\ \A u \in Threads : Did(Here, u) => Did(Here, u)'
      BY <1>1, <1>4, <2>2, <2>6, SliceKeeps DEF tpud
    <3>2. \A u \in Threads : HasDone(u)' => Did(Here, u)'
      BY <2>5, <2>6, <3>1
    <3> QED
      BY <2>2, <3>1, <3>2 DEF Data
  <2>7. CASE OwnSlice
    <3>1. Slice(Here, Main) /\ UNCHANGED pool /\ pc' = "join"
      BY <2>3, <2>7 DEF OwnSlice
    <3>2. \A u \in Threads : HasDone(u)' => u = Main \/ HasDone(u)
      BY <3>1 DEF HasDone, pool
    <3> QED
      BY <2>6, <3>1, <3>2 DEF Threads
  <2>8. ASSUME NEW w \in Workers, Worker(w) PROVE Data'
    <3>1. w # Main
      BY ThreadAssumption
    <3>2. wpc \in [Workers -> {"sleep", "run", "count"}] /\ seen \in [Workers -> 0 .. seq]
      BY DEF IInv, TypeOK, PoolTypes
    <3>3. CASE WorkerSlice(w)
      <4>1. Slice(Here, w) /\ UNCHANGED <<pc, seen, seq>> /\ wpc' = [wpc EXCEPT ![w] = "count"]
        BY <1>4, <2>3, <3>3 DEF WorkerSlice, IInv, Pool, encoder
      <4>2. \A u \in Threads : HasDone(u)' => u = w \/ HasDone(u)
        BY <3>2, <4>1 DEF HasDone, Threads
      <4> QED
        BY <2>6, <4>1, <4>2 DEF Threads
    <3>4. CASE Take(w) \/ Count(w)
      <4>1. UNCHANGED <<pc, kv, q, ctx>>
        BY <3>4 DEF Take, Count, encoder, glueData
      <4>2. \A u \in Threads : HasDone(u)' => HasDone(u)
        <5>1. CASE Take(w)
          <6>1. wpc' = [wpc EXCEPT ![w] = "run"] /\ seen' = [seen EXCEPT ![w] = seq] /\ seq' = seq
            BY <5>1 DEF Take
          <6> QED
            BY <3>2, <4>1, <6>1 DEF HasDone, Threads
        <5>2. CASE Count(w)
          <6>1. wpc[w] = "count" /\ wpc' = [wpc EXCEPT ![w] = "sleep"] /\ seen' = seen /\ seq' = seq
            BY <5>2 DEF Count
          <6> QED
            BY <3>1, <3>2, <4>1, <6>1 DEF HasDone, Threads
        <5> QED
          BY <3>4, <5>1, <5>2
      <4>3. Strips' /\ \A b \in Blocks : BlockOK(b)'
        <5>1. Strips /\ \A b \in Blocks : BlockOK(b)
          BY <2>2 DEF IInv, Data
        <5> QED
          BY <1>1, <2>2, <4>1, <5>1 DEF Strips, BlockOK, Right, tpud
      <4>4. \A u \in Threads : HasDone(u)' => Did(Here, u)'
        <5>1. \A u \in Threads : Did(Here, u) => Did(Here, u)'
          BY <1>1, <2>4, <4>1 DEF Did, Right, tpud
        <5> QED
          BY <2>5, <4>2, <5>1
      <4> QED
        BY <2>2, <4>3, <4>4 DEF Data
    <3> QED
      BY <2>8, <3>3, <3>4 DEF Worker
  <2> QED
    BY <2>1, <2>7, <2>8
<1>5. QED
  BY <1>1, <1>2, <1>3, <1>4

\* The pool keeps the invariant.
LEMMA PoolAll ==
  ASSUME IInv, PoolStep
  PROVE  IInv'
<1>1. UNCHANGED <<mode, bounce, round, job, out, library, tpud, down, obuf>> /\ (Gluing \/ Publish)
  BY PoolKeeps DEF IInv
<1>2. TypeOK' /\ Pool' /\ Data'
  BY PoolTypesKept, PoolPool, PoolData DEF IInv
<1>3. InRound /\ pc # "import" /\ pc' # "import"
  BY <1>1 DEF Gluing, Publish, PoolStep, OwnSlice, Join, Worker, Take, WorkerSlice, Count, At, InRound, Advance, encoder
<1>4. /\ IF InRound' THEN ip' \in 1 .. Size(mode) ELSE ip' = 0
      /\ Under' = Under
      /\ sock = "closed" => (InRound' => ip' <= SubAt(mode, 0))
  <2>1. mode \in Modes /\ ip \in 1 .. Size(mode) /\ Size(mode) \in Nat /\ Under = Sent(mode, ip)
    BY <1>3, HereFacts DEF IInv, Size
  <2>2. sock = "closed" => ip <= SubAt(mode, 0)
    BY <1>3 DEF IInv, Course
  <2>3. CASE Join
    <3>1. Advance /\ Gluing
      BY <2>3 DEF Join, Gluing
    <3>2. \/ ip < Size(mode) /\ pc' = "step" /\ ip' = ip + 1
          \/ ip = Size(mode) /\ pc' = "round" /\ ip' = 0
      BY <1>1, <1>3, <3>1, Forward DEF IInv
    <3>3. Under' = Sent(mode, ip + 1) /\ (InRound' <=> ip < Size(mode))
      BY <1>1, <1>3, <3>1, Forward DEF IInv
    <3>4. Here.do \in {"kv", "q", "div"}
      BY <3>1 DEF IInv, Pool
    <3>5. Sent(mode, ip + 1) = Sent(mode, ip) /\ ip # SubAt(mode, 0)
      BY <2>1, <3>4, StepFacts DEF Here, Blocks
    <3>6. SubAt(mode, 0) \in Int
      BY <2>1, Order DEF Blocks
    <3> QED
      BY <2>1, <2>2, <3>2, <3>3, <3>5, <3>6
  <2>4. CASE ~Join
    <3>1. ip' = ip /\ InRound'
      BY <1>3, <2>4 DEF PoolStep, Publish, OwnSlice, Worker, Take, WorkerSlice, Count, encoder, InRound
    <3>2. Under' = Under
      BY <1>1, <1>3, <3>1 DEF Under
    <3> QED
      BY <2>1, <2>2, <3>1, <3>2
  <2> QED
    BY <2>3, <2>4
<1>5. Course'
  BY <1>1, <1>3, <1>4 DEF IInv, Course, library, tpud
<1>6. Wire'
  <2>1. (\E a \in 0 .. 2 : Flow(a)) => \E a \in 0 .. 2 : Flow(a)'
    BY <1>1, <1>4, FlowSame DEF tpud
  <2> QED
    BY <1>1, <1>3, <2>1 DEF IInv, Wire, library
<1>7. QED
  BY <1>2, <1>5, <1>6 DEF IInv

-------------------------------------------------------------------------------
(* tpud and the TPU *)

\* tpud and the TPU change neither the encoder nor its view of the script.
LEMMA ServiceCommon ==
  ASSUME IInv, Service
  PROVE  /\ Pool' /\ PoolTypes' /\ Under' = Under /\ Here' = Here /\ Need' = Need
         /\ (failed' \in BOOLEAN => EncoderTypes') /\ (out' = out /\ blind \subseteq blind' => Data')
<1>1. UNCHANGED <<mode, bounce, encoder, pool, kv, q, ctx, library>>
  BY ServiceKeeps
<1>2. Through' = Through /\ (Gluing' <=> Gluing) /\ Here' = Here /\ Under' = Under /\ (InRound' <=> InRound)
  BY <1>1 DEF Through, Gluing, Here, Under, InRound, pool, encoder
<1>3. Pool' /\ PoolTypes'
  BY <1>1, <1>2 DEF IInv, TypeOK, Pool, PoolTypes, pool, encoder
<1>4. Need' = Need
  BY <1>1, <1>2 DEF Need, library
<1>5. failed' \in BOOLEAN => EncoderTypes'
  BY <1>1 DEF IInv, TypeOK, EncoderTypes, encoder, library
<1>6. ASSUME out' = out, blind \subseteq blind' PROVE Data'
  <2>1. Strips => Strips'
    BY <1>1 DEF Strips, encoder
  <2>2. ASSUME NEW x, NEW b, Right(x, b) PROVE Right(x, b)'
    BY <1>1, <1>6, <2>2 DEF Right, encoder
  <2>3. \A b \in Blocks : BlockOK(b) => BlockOK(b)'
    BY <1>1, <1>6, <2>2 DEF BlockOK, encoder
  <2>4. \A t \in Threads : (HasDone(t)' <=> HasDone(t)) /\ (Did(Here, t) => Did(Here, t)')
    BY <1>1, <1>2, <2>2 DEF HasDone, Did, encoder, pool
  <2> QED
    BY <1>1, <1>2, <2>1, <2>2, <2>3, <2>4 DEF IInv, Data, encoder, library
<1>7. QED
  BY <1>2, <1>3, <1>4, <1>5, <1>6

\* They keep the course of the encoder when they clear what a crash clears.
LEMMA ServiceCourse ==
  ASSUME IInv, Service, failed => failed', conn' \in {conn, "down"},
         conn' = "down" => up' = <<>> /\ cur' = <<>> /\ tpu' = <<>>,
         cur' = <<>> => \A i \in 1 .. Len(tpu') : ~tpu'[i].awaited
  PROVE  Course'
<1>1. UNCHANGED <<mode, bounce, encoder, pool, kv, q, ctx, library>> /\ Under' = Under /\ Here' = Here
  BY ServiceKeeps, ServiceCommon
<1>2. InRound' <=> InRound
  BY <1>1 DEF InRound, encoder
<1>3. QED
  BY <1>1, <1>2 DEF IInv, Course, encoder, library

\* The requests under way: their blocks have been submitted and not awaited, in buffers of their own.
LEMMA UnderFacts ==
  ASSUME IInv
  PROVE  /\ mode \in Modes /\ Under \in Seq(Pieces) /\ Len(Under) \in 0 .. 2
         /\ Len(Under) > 0 => InRound /\ Under = Sent(mode, ip) /\ ip \in 1 .. Size(mode)
         /\ \A j \in 1 .. Len(Under) :
              /\ Under[j] \in Pieces /\ Len(Under[j]) \in 1 .. 2 /\ BufsOf(mode, Under[j]) \in Tuples
              /\ \A p \in 1 .. Len(Under[j]) :
                   /\ Under[j][p] \in Blocks /\ BufOf(mode, Under[j][p]) \in Bufs
                   /\ SubAt(mode, Under[j][p]) < ip /\ ip <= WaitAt(mode, Under[j][p])
                   /\ BufsOf(mode, Under[j])[p] = BufOf(mode, Under[j][p])
              /\ \A p, r \in 1 .. Len(Under[j]) : BufOf(mode, Under[j][p]) = BufOf(mode, Under[j][r]) => p = r
              /\ Len(BufsOf(mode, Under[j])) = Len(Under[j])
<1>1. mode \in Modes
  BY DEF IInv, TypeOK, EncoderTypes, Modes
<1>2. CASE InRound
  <2>1. Under = Sent(mode, ip) /\ ip \in 1 .. Size(mode) /\ ip \in Int
    BY <1>2, HereFacts DEF IInv
  <2>2. Under \in Seq(Pieces) /\ Len(Under) \in 0 .. 2
    BY <1>1, <2>1, UnderWay
  <2>3. ASSUME NEW j \in 1 .. Len(Under)
        PROVE  /\ Under[j] \in Pieces /\ Len(Under[j]) \in 1 .. 2 /\ BufsOf(mode, Under[j]) \in Tuples
               /\ \A p \in 1 .. Len(Under[j]) :
                    /\ Under[j][p] \in Blocks /\ BufOf(mode, Under[j][p]) \in Bufs
                    /\ SubAt(mode, Under[j][p]) < ip /\ ip <= WaitAt(mode, Under[j][p])
                    /\ BufsOf(mode, Under[j])[p] = BufOf(mode, Under[j][p])
               /\ \A p, r \in 1 .. Len(Under[j]) : BufOf(mode, Under[j][p]) = BufOf(mode, Under[j][r]) => p = r
               /\ Len(BufsOf(mode, Under[j])) = Len(Under[j])
    <3>1. j \in 1 .. Len(Sent(mode, ip)) /\ Under[j] = Sent(mode, ip)[j]
      BY <2>1
    <3> QED
      BY <1>1, <2>1, <3>1, Parts
  <2> QED
    BY <1>1, <1>2, <2>1, <2>2, <2>3
<1>3. CASE ~InRound
  BY <1>1, <1>3 DEF Under
<1>4. QED
  BY <1>2, <1>3

\* The input of every part that is under way is complete.
LEMMA ContentRight ==
  ASSUME IInv, ~left, NEW j \in 1 .. Len(Under), NEW p \in 1 .. Len(Under[j])
  PROVE  Content(BufOf(mode, Under[j][p])) = <<job, Under[j][p]>>
<1> DEFINE b == Under[j][p]
<1>1. mode \in Modes /\ InRound /\ ip \in 1 .. Size(mode) /\ b \in Blocks
      /\ SubAt(mode, b) < ip /\ ip <= WaitAt(mode, b)
  BY UnderFacts
<1> HIDE DEF b
<1>2. QAt(mode, b) < ip /\ ip > 1 /\ (mode # "single" => ip > 2)
  BY <1>1, Order
<1>3. \A t \in Threads : q[BufOf(mode, b)][t] = <<job, b>>
  BY <1>1, <1>2 DEF IInv, Data, BlockOK
<1>4. \A t \in Threads : kv[BufOf(mode, b)][t] = job
  <2>1. Strips
    BY <1>1 DEF IInv, Data
  <2>2. mode = "single" => BufOf(mode, b) = 0
    BY DEF BufOf
  <2> QED
    BY <1>1, <1>2, <2>1, <2>2 DEF Strips
<1>5. Content(BufOf(mode, b)) = <<job, b>>
  BY <1>3, <1>4 DEF Content, Threads
<1>6. QED
  BY <1>5 DEF b

\* The request that tpud reads is the first that has no answer.
LEMMA AskedFlow ==
  ASSUME IInv, Asked("infer"), ~left, sock = "open", Under' = Under, mode' = mode, up' = Tail(up)
  PROVE  /\ pc # "import" /\ Ask \in Tuples
         /\ \E a \in 0 .. 1 : /\ a < Len(Under) /\ Answers(a) /\ Rest(a + 1)'
                              /\ Ask = BufsOf(mode, Under[a + 1])
<1>1. cur = <<>> /\ up # <<>> /\ Head(up).cmd = "infer" /\ conn = "up"
      /\ up \in Seq([cmd : {"import", "infer"}, hs : Tuples])
  BY DEF Asked, Free, IInv, TypeOK, TpudTypes
<1>2. Len(up) \in Nat \ {0} /\ Head(up) = up[1] /\ up[1] \in [cmd : {"import", "infer"}, hs : Tuples]
      /\ Len(Tail(up)) = Len(up) - 1 /\ \A i \in 1 .. Len(up) - 1 : Tail(up)[i] = up[i + 1]
  <2> DEFINE S == [cmd : {"import", "infer"}, hs : Tuples]
  <2>1. up \in Seq(S) /\ up # <<>>
    BY <1>1
  <2> HIDE DEF S
  <2>2. Len(up) \in Nat \ {0}
    BY <2>1, EmptySeq
  <2>3. Len(Tail(up)) = Len(up) - 1 /\ \A i \in 1 .. Len(Tail(up)) : Tail(up)[i] = up[i + 1]
    BY <2>1, HeadTailProperties
  <2>4. Head(up) = up[1] /\ up[1] \in S
    BY <2>1, <2>2
  <2> QED
    BY <2>2, <2>3, <2>4 DEF S
<1>3. pc # "import"
  <2> SUFFICES ASSUME pc = "import" PROVE FALSE
    OBVIOUS
  <2>1. up = << [cmd |-> "import", hs |-> Need] >>
    BY <1>1 DEF IInv, Wire, Importing
  <2> QED
    BY <1>1, <2>1
<1>4. PICK a \in 0 .. 2 : Flow(a)
  BY <1>3 DEF IInv, Wire
<1>5. Rest(a)
  <2> SUFFICES ASSUME a < Len(Under), cur = BufsOf(mode, Under[a + 1]) PROVE FALSE
    BY <1>1, <1>4 DEF Flow
  <2>1. a + 1 \in 1 .. Len(Under)
    BY UnderFacts
  <2>2. BufsOf(mode, Under[a + 1]) # <<>>
    BY DEF BufsOf
  <2> QED
    BY <1>1, <2>2
<1>6. a < Len(Under) /\ a \in 0 .. 1 /\ Answers(a) /\ Len(up) = Len(Under) - a
  <2>1. Len(Under) \in 0 .. 2
    BY UnderFacts
  <2>2. Answers(a) /\ Len(up) = Len(Under) - a
    BY <1>4, <1>5 DEF Flow, Rest
  <2>3. Len(up) \in Nat \ {0}
    BY <1>2
  <2>4. \A n \in 0 .. 2, c \in 0 .. 2 : n - c \in Nat \ {0} => c < n /\ c \in 0 .. 1
    OBVIOUS
  <2>5. Len(Under) - a \in Nat \ {0}
    BY <2>2, <2>3, Zenon
  <2>6. a < Len(Under) /\ a \in 0 .. 1
    BY <2>1, <2>4, <2>5, Zenon
  <2> QED
    BY <2>2, <2>6
<1>7. Ask = BufsOf(mode, Under[a + 1])
  <2>1. up[1] = Infer(Under[a + 1])
    BY <1>2, <1>5 DEF Rest
  <2> QED
    BY <1>2, <2>1 DEF Ask, Infer
<1>8. Rest(a + 1)'
  <2>1. Len(up') = Len(Under') - (a + 1)
    BY <1>2, <1>6, UnderFacts
  <2>2. ASSUME NEW i \in 1 .. Len(up') PROVE up'[i] = Infer(Under[a + 1 + i])'
    <3>1. i \in 1 .. Len(up) - 1 /\ i + 1 \in 1 .. Len(up) /\ a + (i + 1) = a + 1 + i
      BY <1>2, <2>2
    <3>2. up'[i] = up[i + 1] /\ up[i + 1] = Infer(Under[a + (i + 1)])
      BY <1>2, <1>5, <3>1 DEF Rest
    <3> QED
      BY <3>1, <3>2 DEF Infer
  <2> QED
    BY <2>1, <2>2 DEF Rest
<1>9. QED
  BY <1>2, <1>3, <1>6, <1>7, <1>8 DEF Ask

\* An answer of two words has come, the first of which is x.
Replied(x) ==
  Len(down') = Len(down) + 2 /\ down'[Len(down) + 1] = x /\ \A i \in 1 .. Len(down) : down'[i] = down[i]

\* A status and a second word are an answer.
LEMMA TwoWords ==
  ASSUME TypeOK, NEW x \in Bufs, NEW y \in Bufs \cup {Us}, Reply(<<x, y>>)
  PROVE  Replied(x) /\ down' \in Seq(Bufs \cup {Us})
<1>1. down \in Seq(Bufs \cup {Us}) /\ down' = down \o <<x, y>> /\ <<x, y>> \in Seq(Bufs \cup {Us})
  BY DEF TypeOK, TpudTypes, Reply
<1>2. QED
  BY <1>1 DEF Replied

\* The results of the first a requests stay; the parts h have their results.
ResultsStay(a) ==
  \A j \in 1 .. a : \A p \in 1 .. Len(Under[j]) : out'[BufOf(mode, Under[j][p])] = out[BufOf(mode, Under[j][p])]
ResultsCome(h) == \A p \in 1 .. Len(h) : Right(out'[BufOf(mode, h[p])], h[p])

\* One more answer.
LEMMA AnswerAdded ==
  ASSUME IInv, NEW a \in 0 .. 1, a < Len(Under), Answers(a), Under' = Under, UNCHANGED <<mode, job, blind>>, failed => failed',
         NEW x \in {0, 1}, Replied(x), ResultsStay(a),
         x = 0 => ResultsCome(Under[a + 1]), x = 1 => failed'
  PROVE  Answers(a + 1)'
<1>1. down \in Seq(Bufs \cup {Us}) /\ Len(down) = 2 * a
  BY DEF IInv, TypeOK, TpudTypes, Answers
<1>2. Len(down') = 2 * (a + 1) /\ down'[2 * a + 1] = x /\ \A i \in 1 .. 2 * a : down'[i] = down[i]
  BY <1>1 DEF Replied
<1>3. ASSUME NEW j \in 1 .. a + 1
      PROVE  /\ down'[2 * j - 1] = 0 => \A p \in 1 .. Len(Under[j]) : Right(out'[BufOf(mode, Under[j][p])], Under[j][p])
             /\ down'[2 * j - 1] # 0 => failed'
  <2>1. CASE j = a + 1
    <3>1. 2 * j - 1 = 2 * a + 1
      BY <2>1
    <3> QED
      BY <1>2, <2>1, <3>1 DEF ResultsCome
  <2>2. CASE j # a + 1
    <3>1. j \in 1 .. a /\ 2 * j - 1 \in 1 .. 2 * a
      BY <2>2
    <3>3. down'[2 * j - 1] = down[2 * j - 1]
      BY <1>2, <3>1
    <3>4. /\ down[2 * j - 1] = 0 => \A p \in 1 .. Len(Under[j]) : Right(out[BufOf(mode, Under[j][p])], Under[j][p])
          /\ down[2 * j - 1] # 0 => failed
      BY <3>1 DEF Answers
    <3>5. \A p \in 1 .. Len(Under[j]) : out'[BufOf(mode, Under[j][p])] = out[BufOf(mode, Under[j][p])]
      BY <3>1 DEF ResultsStay
    <3> QED
      BY <3>3, <3>4, <3>5
  <2> QED
    BY <2>1, <2>2
<1>4. QED
  BY <1>2, <1>3 DEF Answers, Right

\* The answers that have come stay right when more blocks have no fence.
LEMMA AnswersStay ==
  ASSUME NEW a \in 0 .. 2, Answers(a), Under' = Under, UNCHANGED <<mode, job, out, down>>,
         blind \subseteq blind', failed => failed'
  PROVE  Answers(a)'
<1>1. ASSUME NEW x, NEW b, Right(x, b) PROVE Right(x, b)'
  BY <1>1 DEF Right
<1>2. Len(down') = 2 * a
  BY DEF Answers
<1>3. ASSUME NEW j \in 1 .. a
      PROVE  /\ down'[2 * j - 1] = 0 => \A p \in 1 .. Len(Under[j])' : Right(out[BufOf(mode, Under[j][p])], Under[j][p])'
             /\ down'[2 * j - 1] # 0 => failed'
  <2>1. /\ down[2 * j - 1] = 0 => \A p \in 1 .. Len(Under[j]) : Right(out[BufOf(mode, Under[j][p])], Under[j][p])
        /\ down[2 * j - 1] # 0 => failed
    BY DEF Answers
  <2> QED
    BY <1>1, <2>1
<1>4. QED
  BY <1>2, <1>3 DEF Answers

\* One or two buffers, as a sequence.
LEMMA TupleSeq ==
  ASSUME NEW ks \in Tuples
  PROVE  ks \in Seq(Bufs) /\ ToSet(ks) \subseteq Bufs
<1>1. PICK k \in Bufs, l \in Bufs : ks = <<k>> \/ ks = <<k, l>>
  BY DEF Tuples
<1>2. CASE ks = <<k>>
  BY <1>2 DEF ToSet
<1>3. CASE ks = <<k, l>>
  BY <1>3 DEF ToSet
<1>4. QED
  BY <1>1, <1>2, <1>3

\* tpud reads a request when it serves no other.
LEMMA AskTypes ==
  ASSUME IInv, Free
  PROVE  /\ Ask \in Tuples /\ Tail(up) \in Seq([cmd : {"import", "infer"}, hs : Tuples])
         /\ cur = <<>> /\ conn = "up" /\ \A i \in 1 .. Len(tpu) : ~tpu[i].awaited
<1> DEFINE S == [cmd : {"import", "infer"}, hs : Tuples]
<1>1. up \in Seq(S) /\ up # <<>> /\ cur = <<>> /\ conn = "up"
  BY DEF IInv, TypeOK, TpudTypes, Free
<1> HIDE DEF S
<1>2. Head(up) \in S /\ Tail(up) \in Seq(S)
  BY <1>1, HeadTailProperties
<1>3. Ask \in Tuples
  BY <1>2 DEF S, Ask
<1>4. QED
  BY <1>1, <1>2, <1>3 DEF S, IInv, Course

\* A failure is answered by two words, and is noted.
LEMMA FailedFacts ==
  ASSUME IInv, Failed
  PROVE  down' \in Seq(Bufs \cup {Us}) /\ failed' \in BOOLEAN /\ failed' /\ Replied(1)
<1>1. 1 \in Bufs /\ 0 \in Bufs /\ Reply(<<1, 0>>)
  BY DEF Bufs, Failed
<1>2. Replied(1) /\ down' \in Seq(Bufs \cup {Us})
  BY <1>1, TwoWords DEF IInv
<1>3. QED
  BY <1>2 DEF Failed

\* A request that fails at once is answered; nothing else changes on the wire.
LEMMA RefusedWire ==
  ASSUME IInv, Asked("infer"), Failed, up' = Tail(up), UNCHANGED <<mode, job, pc, conn, cur, out, sock, left, blind>>,
         Under' = Under
  PROVE  Wire'
<1> SUFFICES ASSUME ~left, sock = "open" PROVE Wire'
  BY DEF Wire
<1>1. pc # "import"
  BY AskedFlow
<1>2. PICK a \in 0 .. 1 : a < Len(Under) /\ Answers(a) /\ Rest(a + 1)'
  BY AskedFlow
<1>3. failed' /\ Replied(1)
  BY FailedFacts
<1>4. ResultsStay(a)
  BY DEF ResultsStay
<1>5. Answers(a + 1)'
  BY <1>2, <1>3, <1>4, AnswerAdded
<1>6. a + 1 \in 0 .. 2 /\ a + 1 <= Len(Under') /\ cur' = <<>>
  <2>1. Len(Under) \in 0 .. 2
    BY UnderFacts
  <2> QED
    BY <1>2, <2>1, AskTypes DEF Asked
<1>7. Flow(a + 1)'
  BY <1>2, <1>5, <1>6 DEF Flow
<1>8. QED
  BY <1>1, <1>6, <1>7 DEF Wire

\* An import is answered to an encoder that waits for it: with the handles, or with a failure.
LEMMA ImportKeeps ==
  ASSUME IInv, Import
  PROVE  IInv'
<1>1. /\ Service /\ Free /\ Asked("import") /\ up' = Tail(up)
      /\ UNCHANGED <<mode, bounce, encoder, pool, glueData, library, conn, cur, ibuf, tpu, late, blind, obuf>>
      /\ \/ Reply(<<0>> \o Ask) /\ known' = known \cup ToSet(Ask) /\ UNCHANGED failed
         \/ Reply(<<1>>) /\ failed' = TRUE /\ UNCHANGED known
  BY DEF Service, Daemon, Import, Asked
<1>2. /\ Ask \in Tuples /\ Tail(up) \in Seq([cmd : {"import", "infer"}, hs : Tuples])
      /\ cur = <<>> /\ conn = "up" /\ \A i \in 1 .. Len(tpu) : ~tpu[i].awaited
  BY <1>1, AskTypes
<1>3. failed' \in BOOLEAN /\ (failed => failed')
  <2>1. failed \in BOOLEAN
    BY DEF IInv, TypeOK, EncoderTypes
  <2>2. failed' = failed \/ failed' = TRUE
    BY <1>1, Zenon
  <2> QED
    BY <2>1, <2>2, Zenon
<1>4. Pool' /\ PoolTypes' /\ Under' = Under /\ Need' = Need /\ EncoderTypes' /\ Data'
  BY <1>1, <1>3, ServiceCommon DEF glueData
<1>5. DataTypes' /\ TpudTypes'
  <2>1. down \in Seq(Bufs \cup {Us}) /\ 0 \in Bufs /\ 1 \in Bufs
    BY DEF IInv, TypeOK, TpudTypes, Bufs
  <2>2. Ask \in Seq(Bufs) /\ ToSet(Ask) \subseteq Bufs
    BY <1>2, TupleSeq
  <2>3. <<0>> \o Ask \in Seq(Bufs \cup {Us}) /\ <<1>> \in Seq(Bufs \cup {Us})
    BY <2>1, <2>2
  <2>4. down' \in Seq(Bufs \cup {Us})
    <3>1. \A ws \in Seq(Bufs \cup {Us}) : down \o ws \in Seq(Bufs \cup {Us})
      BY <2>1, ConcatProperties
    <3>2. \E ws \in {<<0>> \o Ask, <<1>>} : Reply(ws)
      BY <1>1, Zenon
    <3> QED
      BY <2>3, <3>1, <3>2 DEF Reply
  <2>5. known' \subseteq Bufs
    BY <1>1, <2>2 DEF IInv, TypeOK, TpudTypes
  <2> QED
    BY <1>1, <1>2, <2>4, <2>5 DEF IInv, TypeOK, DataTypes, TpudTypes, glueData
<1>6. Course'
  BY <1>1, <1>2, <1>3, ServiceCourse
<1>7. Wire'
  <2> SUFFICES ASSUME ~left, sock = "open" PROVE Wire'
    BY <1>1 DEF Wire, library
  <2>1. Head(up).cmd = "import" /\ up # <<>>
    BY <1>1 DEF Asked, Free
  <2>2. CASE pc = "import"
    <3>1. down = <<>> /\ up = << [cmd |-> "import", hs |-> Need] >>
      BY <1>2, <2>1, <2>2 DEF IInv, Wire, Importing
    <3>2. up' = <<>> /\ Ask = Need
      BY <1>1, <3>1 DEF Ask
    <3>3. \/ down' = <<0>> \o Need
          \/ down' = <<1>> /\ failed'
      <4>1. Need \in Tuples
        BY <1>2, <3>2
      <4>2. <<0>> \o Need \in Seq(Bufs) /\ <<1>> \in Seq(Bufs)
        <5>1. Need \in Seq(Bufs) /\ 0 \in Bufs /\ 1 \in Bufs
          BY <4>1, TupleSeq DEF Bufs
        <5> QED
          BY <5>1
      <4>3. <<>> \o (<<0>> \o Need) = <<0>> \o Need /\ <<>> \o <<1>> = <<1>>
        BY <4>2, ConcatEmptySeq
      <4> QED
        BY <1>1, <3>1, <3>2, <4>3 DEF Reply
    <3> QED
      BY <1>1, <1>2, <1>4, <2>2, <3>2, <3>3 DEF Wire, Importing, encoder
  <2>3. CASE pc # "import"
    <3>1. PICK a \in 0 .. 2 : Flow(a)
      BY <2>3 DEF IInv, Wire
    <3>2. Rest(a)
      <4> SUFFICES ASSUME a < Len(Under), cur = BufsOf(mode, Under[a + 1]) PROVE FALSE
        BY <1>2, <3>1 DEF Flow
      <4>1. BufsOf(mode, Under[a + 1]) # <<>>
        BY DEF BufsOf
      <4> QED
        BY <1>2, <4>1
    <3>3. up \in Seq([cmd : {"import", "infer"}, hs : Tuples])
      BY DEF IInv, TypeOK, TpudTypes
    <3>4. Len(up) \in Nat \ {0} /\ Head(up) = up[1]
      BY <2>1, <3>3, EmptySeq
    <3>5. up[1] = Infer(Under[a + 1])
      BY <3>2, <3>4 DEF Rest
    <3> QED
      BY <2>1, <3>4, <3>5 DEF Infer
  <2> QED
    BY <2>2, <2>3
<1>8. QED
  BY <1>4, <1>5, <1>6, <1>7 DEF IInv, TypeOK

\* What the encoder sees of a request that fails at once.
LEMMA RefusedKeeps ==
  ASSUME IInv, Refuse \/ StartHalf
  PROVE  IInv'
<1>1. /\ Service /\ Free /\ Asked("infer") /\ up' = Tail(up) /\ Failed
      /\ UNCHANGED <<mode, bounce, encoder, pool, glueData, library, conn, known, cur, blind, obuf>>
  BY DEF Service, Daemon, Refuse, StartHalf, Asked
<1>2. /\ Ask \in Tuples /\ Tail(up) \in Seq([cmd : {"import", "infer"}, hs : Tuples])
      /\ cur = <<>> /\ conn = "up" /\ \A i \in 1 .. Len(tpu) : ~tpu[i].awaited
  BY <1>1, AskTypes
<1>3. down' \in Seq(Bufs \cup {Us}) /\ failed' \in BOOLEAN /\ failed'
  BY <1>1, FailedFacts
<1>4. Pool' /\ PoolTypes' /\ Under' = Under /\ EncoderTypes' /\ Data'
  BY <1>1, <1>3, ServiceCommon DEF glueData
<1>5. /\ ibuf' \in [1 .. 2 -> Marks] /\ late' \in 0 .. MaxLate
      /\ tpu' \in Seq([slot : 1 .. 2, buf : Bufs, awaited : BOOLEAN]) /\ \A i \in 1 .. Len(tpu') : ~tpu'[i].awaited
  <2>1. /\ Bounced \in [1 .. 2 -> Marks] /\ Ask[1] \in Bufs /\ ibuf \in [1 .. 2 -> Marks]
        /\ tpu \in Seq([slot : 1 .. 2, buf : Bufs, awaited : BOOLEAN]) /\ late \in 0 .. MaxLate
    BY <1>2, BouncedType DEF IInv, TypeOK, DataTypes, TpudTypes
  <2>2. CASE Refuse
    BY <1>2, <2>1, <2>2 DEF Refuse
  <2>3. CASE StartHalf
    <3>1. Request(1, FALSE) \in [slot : 1 .. 2, buf : Bufs, awaited : BOOLEAN] /\ ~Request(1, FALSE).awaited
      BY <2>1 DEF Request
    <3>2. tpu' = Append(tpu, Request(1, FALSE)) /\ late' = late + 1 /\ late < MaxLate /\ ibuf' = Bounced
      BY <2>3 DEF StartHalf
    <3>3. ASSUME NEW i \in 1 .. Len(tpu') PROVE ~tpu'[i].awaited
      <4>1. i = Len(tpu) + 1 => tpu'[i] = Request(1, FALSE)
        <5> DEFINE J == [slot : 1 .. 2, buf : Bufs, awaited : BOOLEAN]
        <5>1. tpu \in Seq(J) /\ Request(1, FALSE) \in J
          BY <2>1, <3>1
        <5> HIDE DEF J
        <5>2. Append(tpu, Request(1, FALSE))[Len(tpu) + 1] = Request(1, FALSE)
          BY <5>1, AppendProperties
        <5> QED
          BY <3>2, <5>2
      <4>2. i # Len(tpu) + 1 => i \in 1 .. Len(tpu) /\ tpu'[i] = tpu[i]
        BY <2>1, <3>2, <3>3
      <4> QED
        BY <1>2, <3>1, <4>1, <4>2
    <3>4. tpu' \in Seq([slot : 1 .. 2, buf : Bufs, awaited : BOOLEAN])
      BY <2>1, <3>1, <3>2, AppendProperties
    <3>5. ibuf' \in [1 .. 2 -> Marks] /\ late' \in 0 .. MaxLate
      BY <2>1, <3>2, BoundAssumption
    <3> QED
      BY <3>3, <3>4, <3>5
  <2> QED
    BY <2>2, <2>3
<1>6. DataTypes' /\ TpudTypes'
  BY <1>1, <1>2, <1>3, <1>5 DEF IInv, TypeOK, DataTypes, TpudTypes, glueData
<1>7. Course'
  BY <1>1, <1>2, <1>3, <1>5, ServiceCourse
<1>8. Wire'
  BY <1>1, <1>4, RefusedWire DEF encoder, glueData, library
<1>9. QED
  BY <1>4, <1>6, <1>7, <1>8 DEF IInv, TypeOK

\* A crash loses what has no answer; answers that were sent stay.
LEMMA CrashKeeps ==
  ASSUME IInv, Crash
  PROVE  IInv'
<1>1. /\ Service /\ conn' = "down" /\ up' = <<>> /\ known' = {} /\ cur' = <<>> /\ tpu' = <<>>
      /\ UNCHANGED <<mode, bounce, encoder, pool, glueData, library, down, ibuf, late, blind, failed, obuf>>
  BY DEF Service, Crash
<1>2. Pool' /\ PoolTypes' /\ Under' = Under /\ Need' = Need /\ EncoderTypes' /\ Data'
  BY <1>1, ServiceCommon DEF IInv, TypeOK, EncoderTypes, glueData
<1>3. DataTypes' /\ TpudTypes'
  BY <1>1 DEF IInv, TypeOK, DataTypes, TpudTypes, glueData
<1>4. Course'
  BY <1>1, ServiceCourse
<1>5. Wire'
  <2> SUFFICES ASSUME ~left, sock = "open" PROVE Wire'
    BY <1>1 DEF Wire, library
  <2>1. CASE pc = "import"
    BY <1>1, <1>2, <2>1 DEF IInv, Wire, Importing, encoder
  <2>2. CASE pc # "import"
    <3>1. PICK a \in 0 .. 2 : Flow(a)
      BY <2>2 DEF IInv, Wire
    <3>2. Answers(a)' /\ a <= Len(Under')
      BY <1>1, <1>2, <3>1, AnswersStay DEF Flow, encoder, glueData
    <3>3. Flow(a)'
      BY <1>1, <3>2 DEF Flow
    <3> QED
      BY <1>1, <2>2, <3>3 DEF Wire, encoder
  <2> QED
    BY <2>1, <2>2
<1>6. QED
  BY <1>2, <1>3, <1>4, <1>5 DEF IInv, TypeOK

\* Requests on the TPU.
Jobs == [slot : 1 .. 2, buf : Bufs, awaited : BOOLEAN]

\* The parts of a request that have a fence are on the TPU, with the right inputs and behind
\* all others; the rest are noted.
LEMMA StartKeeps ==
  ASSUME IInv, Start
  PROVE  IInv'
<1>0. PICK on \in {<<>>, <<1>>, <<2>>, <<1, 2>>} : \E fenced \in SUBSET ToSet(on) :
        /\ ToSet(on) \subseteq 1 .. Len(Ask)
        /\ tpu' = tpu \o [i \in 1 .. Len(on) |-> Request(on[i], on[i] \in fenced)]
        /\ blind' = blind \cup {Content(Ask[i]) : i \in (1 .. Len(Ask)) \ fenced}
        /\ IF fenced = 1 .. Len(Ask) THEN UNCHANGED late ELSE late < MaxLate /\ late' = late + 1
  BY Zenon DEF Start
<1>1. PICK fenced \in SUBSET ToSet(on) :
        /\ ToSet(on) \subseteq 1 .. Len(Ask)
        /\ tpu' = tpu \o [i \in 1 .. Len(on) |-> Request(on[i], on[i] \in fenced)]
        /\ blind' = blind \cup {Content(Ask[i]) : i \in (1 .. Len(Ask)) \ fenced}
        /\ IF fenced = 1 .. Len(Ask) THEN UNCHANGED late ELSE late < MaxLate /\ late' = late + 1
  BY <1>0, Zenon
<1> DEFINE R == [i \in 1 .. Len(on) |-> Request(on[i], on[i] \in fenced)]
<1>2. /\ Service /\ Free /\ Asked("infer") /\ up' = Tail(up) /\ ibuf' = Bounced /\ cur' = Ask
      /\ UNCHANGED <<mode, bounce, encoder, pool, glueData, library, down, conn, known, failed, obuf>>
  BY DEF Service, Daemon, Start, Asked
<1>3. /\ Ask \in Tuples /\ Tail(up) \in Seq([cmd : {"import", "infer"}, hs : Tuples])
      /\ cur = <<>> /\ conn = "up"
  BY <1>2, AskTypes
<1>4. Bounced \in [1 .. 2 -> Marks] /\ Len(Ask) \in 1 .. 2 /\ \A i \in 1 .. Len(Ask) : Ask[i] \in Bufs
  BY <1>3, BouncedType DEF IInv, TypeOK
<1>5. Pool' /\ PoolTypes' /\ Under' = Under /\ EncoderTypes' /\ Data'
  <2>1. out' = out /\ blind \subseteq blind' /\ failed' \in BOOLEAN
    BY <1>1, <1>2 DEF IInv, TypeOK, EncoderTypes, glueData
  <2> QED
    BY <1>2, <2>1, ServiceCommon
<1>6. /\ Len(on) \in 0 .. 2 /\ \A i \in 1 .. Len(on) : on[i] \in 1 .. Len(Ask)
      /\ \A p \in ToSet(on) : \E i \in 1 .. Len(on) : on[i] = p /\ \A j \in (i + 1) .. Len(on) : on[j] # p
  <2>1. /\ Len(on) \in 0 .. 2 /\ ToSet(on) = {on[i] : i \in 1 .. Len(on)}
        /\ \A i, j \in 1 .. Len(on) : on[i] = on[j] => i = j
    BY DEF ToSet
  <2> QED
    BY <1>1, <2>1
<1>7. \A i \in 1 .. Len(on) : R[i] \in Jobs /\ R[i].slot = on[i] /\ R[i].buf = Ask[on[i]]
                             /\ (R[i].awaited <=> on[i] \in fenced)
  <2> SUFFICES ASSUME NEW i \in 1 .. Len(on)
               PROVE  R[i] \in Jobs /\ R[i].slot = on[i] /\ R[i].buf = Ask[on[i]] /\ (R[i].awaited <=> on[i] \in fenced)
    BY Zenon
  <2>1. on[i] \in 1 .. 2 /\ Ask[on[i]] \in Bufs
    BY <1>4, <1>6
  <2>2. R[i] = Request(on[i], on[i] \in fenced)
    OBVIOUS
  <2> HIDE DEF R
  <2>3. CASE on[i] \in fenced
    <3>1. (on[i] \in fenced) = TRUE
      BY <2>3
    <3>2. R[i] = Request(on[i], TRUE)
      BY <2>2, <3>1, Zenon
    <3> QED
      BY <2>1, <2>3, <3>2 DEF Request, Jobs
  <2>4. CASE on[i] \notin fenced
    <3>1. (on[i] \in fenced) = FALSE
      BY <2>4
    <3>2. R[i] = Request(on[i], FALSE)
      BY <2>2, <3>1, Zenon
    <3> QED
      BY <2>1, <2>4, <3>2 DEF Request, Jobs
  <2> QED
    BY <2>3, <2>4
<1>8. tpu \in Seq(Jobs) /\ R \in Seq(Jobs) /\ Len(R) = Len(on)
  <2>1. tpu \in Seq(Jobs)
    BY DEF IInv, TypeOK, TpudTypes, Jobs
  <2>2. R \in [1 .. Len(on) -> Jobs] /\ Len(on) \in Nat
    BY <1>6, <1>7
  <2>3. \A n \in Nat : \A r \in [1 .. n -> Jobs] : r \in Seq(Jobs) /\ Len(r) = n
    OBVIOUS
  <2> HIDE DEF R
  <2> QED
    BY <2>1, <2>2, <2>3
<1>9. tpu' = tpu \o R
  BY <1>1
<1> HIDE DEF R
<1>10. /\ tpu' \in Seq(Jobs) /\ Len(tpu') = Len(tpu) + Len(on) /\ Len(tpu) \in Nat
       /\ \A i \in 1 .. Len(on) : tpu'[Len(tpu) + i] = R[i]
  <2>1. \A i \in 1 .. Len(tpu) + Len(R) : (tpu \o R)[i] = IF i <= Len(tpu) THEN tpu[i] ELSE R[i - Len(tpu)]
    BY <1>8, ConcatProperties
  <2>2. Len(tpu) \in Nat /\ Len(R) \in Nat
    BY <1>8
  <2>0. tpu \o R \in Seq(Jobs) /\ Len(tpu \o R) = Len(tpu) + Len(R)
    BY <1>8, ConcatProperties
  <2>3. \A i \in 1 .. Len(R) : (tpu \o R)[Len(tpu) + i] = R[i]
    BY <2>1, <2>2
  <2> QED
    BY <1>8, <1>9, <2>0, <2>2, <2>3
<1>11. DataTypes' /\ TpudTypes'
  <2>1. blind' \subseteq Marks
    <3>1. \A i \in 1 .. Len(Ask) : Content(Ask[i]) \in Marks
      BY <1>4, ContentType DEF IInv, TypeOK
    <3> QED
      BY <1>1, <3>1 DEF IInv, TypeOK, TpudTypes
  <2>2. late' \in 0 .. MaxLate
    <3>1. late \in 0 .. MaxLate
      BY DEF IInv, TypeOK, TpudTypes
    <3>2. late' = late \/ (late < MaxLate /\ late' = late + 1)
      BY <1>1, Zenon
    <3> QED
      BY <3>1, <3>2, BoundAssumption
  <2> QED
    BY <1>2, <1>3, <1>4, <1>10, <2>1, <2>2 DEF IInv, TypeOK, DataTypes, TpudTypes, glueData, Jobs
<1>12. cur' # <<>>
  <2>1. Len(<<>>) = 0
    OBVIOUS
  <2>2. Ask # <<>>
    BY <1>4, <2>1
  <2> QED
    BY <1>2, <2>2
<1>13. Course'
  BY <1>2, <1>3, <1>12, ServiceCourse
<1>14. Wire'
  <2> SUFFICES ASSUME ~left, sock = "open" PROVE Wire'
    BY <1>2 DEF Wire, library
  <2>1. pc # "import" /\ pc' = pc /\ mode' = mode /\ job' = job
    BY <1>2, <1>5, AskedFlow DEF encoder
  <2>2. PICK a \in 0 .. 1 : /\ a < Len(Under) /\ Answers(a) /\ Rest(a + 1)'
                           /\ Ask = BufsOf(mode, Under[a + 1])
    BY <1>2, <1>5, <2>1, AskedFlow
  <2>3. PICK g : g = Under[a + 1]
    OBVIOUS
  <2>4. /\ a + 1 \in 1 .. Len(Under) /\ Len(g) = Len(Ask) /\ Len(g) \in 1 .. 2
        /\ \A p \in 1 .. Len(g) : Ask[p] = BufOf(mode, g[p]) /\ Content(Ask[p]) = <<job, g[p]>>
    <3>1. a + 1 \in 1 .. Len(Under)
      BY <2>2, UnderFacts
    <3>2. /\ Len(BufsOf(mode, g)) = Len(g) /\ Len(g) \in 1 .. 2
          /\ \A p \in 1 .. Len(g) : BufsOf(mode, g)[p] = BufOf(mode, g[p])
      BY <2>3, <3>1, UnderFacts
    <3>3. \A p \in 1 .. Len(g) : Content(BufOf(mode, g[p])) = <<job, g[p]>>
      BY <2>3, <3>1, ContentRight
    <3> QED
      BY <2>2, <2>3, <3>1, <3>2, <3>3
  <2>5. bounce = 1 => \A p \in 1 .. Len(g) : ibuf'[p] = <<job, g[p]>>
    <3>1. \A p \in 1 .. Len(g) : p \in 1 .. 2 /\ p <= Len(Ask)
      BY <2>4
    <3>2. bounce = 1 => \A p \in 1 .. 2 : p <= Len(Ask) => ibuf'[p] = Content(Ask[p])
      BY <1>2 DEF Bounced
    <3> QED
      BY <2>4, <3>1, <3>2
  <2>6. ASSUME NEW p \in 1 .. Len(g), p \in fenced
        PROVE  OnTpu(g[p], p)'
    <3>1. PICK i \in 1 .. Len(on) : on[i] = p /\ \A j \in (i + 1) .. Len(on) : on[j] # p
      BY <1>6, <2>6
    <3>2. Len(tpu) + i \in 1 .. Len(tpu') /\ tpu'[Len(tpu) + i] = R[i]
      BY <1>6, <1>10
    <3>3. R[i].awaited /\ R[i].slot = p /\ R[i].buf = BufOf(mode, g[p])
      BY <1>7, <2>4, <2>6, <3>1
    <3>4. ASSUME NEW j \in (Len(tpu) + i + 1) .. Len(tpu') PROVE tpu'[j].slot # p
      <4>1. j - Len(tpu) \in (i + 1) .. Len(on) /\ j - Len(tpu) \in 1 .. Len(on) /\ Len(tpu) + (j - Len(tpu)) = j
        BY <1>6, <1>10
      <4>2. tpu'[j] = R[j - Len(tpu)]
        BY <1>10, <4>1
      <4>3. R[j - Len(tpu)].slot = on[j - Len(tpu)]
        BY <1>7, <4>1
      <4> QED
        BY <3>1, <4>1, <4>2, <4>3
    <3> QED
      BY <2>1, <3>2, <3>3, <3>4 DEF OnTpu
  <2>7. ASSUME NEW p \in 1 .. Len(g), p \notin fenced
        PROVE  <<job, g[p]>> \in blind'
    <3>1. p \in (1 .. Len(Ask)) \ fenced
      BY <2>4, <2>7
    <3> QED
      BY <1>1, <2>4, <3>1
  <2>8. Computing(g)'
    BY <1>2, <2>1, <2>5, <2>6, <2>7 DEF Computing
  <2>9. Answers(a)'
    BY <1>1, <1>2, <1>5, <2>1, <2>2, AnswersStay DEF glueData
  <2>10. Flow(a)'
    <3>1. cur' = BufsOf(mode, g)
      BY <1>2, <2>2, <2>3
    <3>2. a <= Len(Under)
      BY <2>2, UnderFacts
    <3> QED
      BY <1>5, <2>1, <2>2, <2>3, <2>8, <2>9, <3>1, <3>2 DEF Flow
  <2> QED
    BY <2>1, <2>10 DEF Wire
<1>15. QED
  BY <1>5, <1>11, <1>13, <1>14 DEF IInv, TypeOK

\* The request that tpud serves is the first that has no answer.
LEMMA ServedFacts ==
  ASSUME IInv, ~left, cur # <<>>
  PROVE  /\ sock = "open" /\ conn = "up" /\ pc # "import"
         /\ \E a \in 0 .. 1 :
              /\ a + 1 \in 1 .. Len(Under) /\ Answers(a) /\ Rest(a + 1)
              /\ cur = BufsOf(mode, Under[a + 1]) /\ Computing(Under[a + 1])
<1>1. conn = "up" /\ sock = "open"
  BY DEF IInv, Course, TypeOK, EncoderTypes, TpudTypes
<1>2. pc # "import"
  BY <1>1 DEF IInv, Wire, Importing
<1>3. PICK a \in 0 .. 2 : Flow(a)
  BY <1>1, <1>2 DEF IInv, Wire
<1>4. /\ a < Len(Under) /\ Answers(a) /\ Rest(a + 1) /\ cur = BufsOf(mode, Under[a + 1])
      /\ Computing(Under[a + 1])
  BY <1>1, <1>3 DEF Flow
<1>5. a \in 0 .. 1 /\ a + 1 \in 1 .. Len(Under)
  <2>1. Len(Under) \in 0 .. 2
    BY UnderFacts
  <2> QED
    BY <1>4, <2>1
<1>6. QED
  BY <1>1, <1>2, <1>4, <1>5

\* When the fences are passed nothing on the TPU is awaited.
LEMMA PendingFacts ==
  ASSUME IInv, cur # <<>>, ~Pending
  PROVE  \A i \in 1 .. Len(tpu) : ~tpu[i].awaited
  BY DEF Pending

\* A buffer of the request that is served is in the hands of tpud.
LEMMA ServedBuf ==
  ASSUME IInv, NEW j \in 1 .. Len(Under), NEW k \in ToSet(BufsOf(mode, Under[j]))
  PROVE  \E p \in 1 .. Len(Under[j]) : k = BufOf(mode, Under[j][p])
<1>1. BufsOf(mode, Under[j]) \in Tuples /\ Len(BufsOf(mode, Under[j])) = Len(Under[j])
      /\ \A p \in 1 .. Len(Under[j]) : BufsOf(mode, Under[j])[p] = BufOf(mode, Under[j][p])
  BY UnderFacts
<1> DEFINE ks == BufsOf(mode, Under[j])
<1>2. DOMAIN ks = 1 .. Len(ks)
  <2> HIDE DEF ks
  <2>1. ks \in Tuples
    BY <1>1 DEF ks
  <2> QED
    BY <2>1, TupleSeq
<1>3. QED
  BY <1>1, <1>2 DEF ToSet

\* No block whose result has been awaited and not yet divided has its buffer with tpud.
LEMMA ResultApart ==
  ASSUME IInv, NEW j \in 1 .. Len(Under), NEW b \in Blocks, WaitAt(mode, b) < ip, ip <= DivAt(mode, b)
  PROVE  BufOf(mode, b) \notin ToSet(BufsOf(mode, Under[j]))
<1> SUFFICES ASSUME BufOf(mode, b) \in ToSet(BufsOf(mode, Under[j])) PROVE FALSE
  OBVIOUS
<1>1. PICK p \in 1 .. Len(Under[j]) : BufOf(mode, b) = BufOf(mode, Under[j][p])
  BY ServedBuf
<1> DEFINE c == Under[j][p]
<1>2. mode \in Modes /\ c \in Blocks /\ SubAt(mode, c) < ip /\ ip <= WaitAt(mode, c) /\ ip \in 1 .. Size(mode)
  BY UnderFacts
<1>3. BufOf(mode, b) = BufOf(mode, c)
  BY <1>1
<1> HIDE DEF c
<1>4. /\ QAt(mode, b) \in Int /\ SubAt(mode, b) \in Int /\ WaitAt(mode, b) \in Int /\ DivAt(mode, b) \in Int
      /\ QAt(mode, b) < SubAt(mode, b) /\ SubAt(mode, b) < WaitAt(mode, b)
  BY <1>2, Order
<1>5. /\ QAt(mode, c) \in Int /\ SubAt(mode, c) \in Int /\ WaitAt(mode, c) \in Int /\ DivAt(mode, c) \in Int
      /\ QAt(mode, c) < SubAt(mode, c) /\ WaitAt(mode, c) < DivAt(mode, c)
  BY <1>2, Order
<1>6. b # c
  BY <1>2, <1>4
<1>7. DivAt(mode, b) < QAt(mode, c) \/ DivAt(mode, c) < QAt(mode, b)
  BY <1>2, <1>3, <1>6, Apart
<1>8. QED
  BY <1>2, <1>4, <1>5, <1>7

\* The results that are copied are those of the request, to buffers that no one uses.
LEMMA CompleteKeeps ==
  ASSUME IInv, Complete
  PROVE  IInv'
<1>1. /\ Service /\ cur # <<>> /\ ~Pending /\ cur' = <<>> /\ Reply(<<0, Us>>)
      /\ out' = [k \in Bufs |-> IF k \in ToSet(cur) THEN obuf[Place(k, cur)] ELSE out[k]]
      /\ UNCHANGED <<mode, bounce, encoder, pool, kv, q, ctx, library, conn, up, known, ibuf,
                     tpu, late, blind, failed, obuf>>
  BY DEF Service, Daemon, Complete
<1>2. \A i \in 1 .. Len(tpu) : ~tpu[i].awaited
  BY <1>1, PendingFacts
<1>3. Replied(0) /\ down' \in Seq(Bufs \cup {Us})
  <2>1. 0 \in Bufs
    BY DEF Bufs
  <2> QED
    BY <1>1, <2>1, TwoWords DEF IInv
<1>4. Pool' /\ PoolTypes' /\ Under' = Under /\ EncoderTypes'
  BY <1>1, ServiceCommon DEF IInv, TypeOK, EncoderTypes
<1>5. cur \in Tuples /\ conn = "up"
  BY <1>1 DEF IInv, TypeOK, TpudTypes, Course
<1>6. \A k \in ToSet(cur) : Place(k, cur) \in 1 .. Len(cur) /\ cur[Place(k, cur)] = k /\ Place(k, cur) \in 1 .. 2
  <2>1. DOMAIN cur = 1 .. Len(cur) /\ Len(cur) \in 1 .. 2
    BY <1>5 DEF Tuples
  <2>2. ASSUME NEW k \in ToSet(cur) PROVE Place(k, cur) \in DOMAIN cur /\ cur[Place(k, cur)] = k
    <3>1. \E i \in DOMAIN cur : cur[i] = k
      BY DEF ToSet
    <3> QED
      BY <3>1 DEF Place
  <2> QED
    BY <2>1, <2>2
<1>7. DataTypes' /\ TpudTypes'
  <2>1. out' \in [Bufs -> Marks]
    BY <1>1, <1>6 DEF IInv, TypeOK, DataTypes
  <2> QED
    BY <1>1, <1>3, <2>1 DEF IInv, TypeOK, DataTypes, TpudTypes
<1>8. Course'
  BY <1>1, <1>2, <1>5, ServiceCourse
<1>9. CASE left
  BY <1>1, <1>4, <1>7, <1>8, <1>9 DEF IInv, TypeOK, Data, Wire, library
<1>10. CASE ~left
  <2>1. sock = "open" /\ pc # "import"
    BY <1>1, <1>10, ServedFacts
  <2>3. PICK a \in 0 .. 1 :
              /\ a + 1 \in 1 .. Len(Under) /\ Answers(a) /\ Rest(a + 1)
              /\ cur = BufsOf(mode, Under[a + 1]) /\ Computing(Under[a + 1])
    BY <1>1, <1>10, ServedFacts
  <2>4. PICK g : g = Under[a + 1]
    OBVIOUS
  <2>5. \A b, p : ~OnTpu(b, p)
    BY <1>2 DEF OnTpu
  <2>6. /\ Len(cur) = Len(g) /\ Len(g) \in 1 .. 2
        /\ \A p \in 1 .. Len(g) : cur[p] = BufOf(mode, g[p])
        /\ \A p, r \in 1 .. Len(g) : BufOf(mode, g[p]) = BufOf(mode, g[r]) => p = r
        /\ \A p \in 1 .. Len(g) : BufOf(mode, g[p]) \in Bufs
    BY <2>3, <2>4, UnderFacts
  <2>7. \A p \in 1 .. Len(g) : Right(obuf[p], g[p])
    BY <2>3, <2>4, <2>5 DEF Computing, Computed, Right
  <2>8. ResultsCome(g)
    <3> SUFFICES ASSUME NEW p \in 1 .. Len(g) PROVE Right(out'[BufOf(mode, g[p])], g[p])
      BY DEF ResultsCome
    <3>1. cur[p] = BufOf(mode, g[p]) /\ BufOf(mode, g[p]) \in Bufs
      BY <2>6
    <3>2. BufOf(mode, g[p]) \in ToSet(cur)
      <4>1. p \in DOMAIN cur
        BY <1>5, <2>6 DEF Tuples
      <4> QED
        BY <3>1, <4>1 DEF ToSet
    <3>3. Place(BufOf(mode, g[p]), cur) = p
      BY <1>6, <2>6, <3>2
    <3> QED
      BY <1>1, <2>7, <3>1, <3>2, <3>3
  <2>9. ResultsStay(a)
    <3> SUFFICES ASSUME NEW j \in 1 .. a, NEW p \in 1 .. Len(Under[j])
                 PROVE out'[BufOf(mode, Under[j][p])] = out[BufOf(mode, Under[j][p])]
      BY DEF ResultsStay
    <3>1. a = 1 /\ j = 1 /\ Len(Under) = 2 /\ mode \in Modes /\ Under = Sent(mode, ip) /\ ip \in Int
      <4>1. Len(Under) \in 0 .. 2 /\ (Len(Under) > 0 => Under = Sent(mode, ip) /\ ip \in 1 .. Size(mode)) /\ mode \in Modes
        BY UnderFacts
      <4> QED
        BY <2>3, <4>1
    <3>2. mode = "ovl" /\ Under = << <<0, 1>>, <<2, 3>> >>
      BY <3>1, TwoUnder
    <3>3. g = <<2, 3>> /\ Under[j] = <<0, 1>>
      BY <2>4, <3>1, <3>2
    <3>4. BufOf(mode, Under[j][p]) \in {0, 1}
      BY <3>2, <3>3 DEF BufOf
    <3>5. \A r \in 1 .. Len(g) : cur[r] \in {2, 3}
      BY <2>6, <3>2, <3>3 DEF BufOf
    <3>6. BufOf(mode, Under[j][p]) \notin ToSet(cur)
      BY <1>6, <2>6, <3>4, <3>5
    <3> QED
      BY <1>1, <3>4, <3>6 DEF Bufs
  <2>10. Answers(a + 1)'
    <3>1. a < Len(Under) /\ (0 = 0 => ResultsCome(Under[a + 1])) /\ UNCHANGED <<mode, job>>
      BY <1>1, <2>3, <2>4, <2>8 DEF encoder
    <3> QED
      BY <1>1, <1>3, <1>4, <2>3, <2>9, <3>1, AnswerAdded
  <2>11. Rest(a + 1)'
    BY <1>1, <1>4, <2>3 DEF Rest, Infer
  <2>12. Flow(a + 1)'
    BY <1>1, <1>4, <2>3, <2>10, <2>11 DEF Flow
  <2>13. Wire'
    <3>1. a + 1 \in 0 .. 2 /\ pc' = pc
      BY <1>1 DEF encoder
    <3> QED
      BY <2>1, <2>12, <3>1 DEF Wire
  <2>14. Data'
    <3>1. UNCHANGED <<mode, pc, ip, job, round, kv, q, ctx, left>>
      BY <1>1 DEF encoder, library
    <3>2. ASSUME NEW b \in Blocks, BlockOK(b) PROVE BlockOK(b)'
      <4>1. WaitAt(mode, b) < ip /\ ip <= DivAt(mode, b) => out'[BufOf(mode, b)] = out[BufOf(mode, b)]
        <5> SUFFICES ASSUME WaitAt(mode, b) < ip, ip <= DivAt(mode, b) PROVE out'[BufOf(mode, b)] = out[BufOf(mode, b)]
          OBVIOUS
        <5>1. BufOf(mode, b) \notin ToSet(cur)
          BY <2>3, ResultApart
        <5>2. BufOf(mode, b) \in Bufs
          BY Order, UnderFacts
        <5> QED
          BY <1>1, <5>1, <5>2
      <4> QED
        BY <1>1, <3>1, <3>2, <4>1 DEF BlockOK, Right
    <3>3. Strips => Strips'
      BY <3>1 DEF Strips
    <3>4. (InRound' <=> InRound) /\ (Gluing' <=> Gluing) /\ Here' = Here
      BY <3>1 DEF InRound, Gluing, Here
    <3>5. \A t \in Threads : (HasDone(t)' <=> HasDone(t)) /\ (Did(Here, t)' <=> Did(Here, t))
      BY <1>1, <3>1, <3>4 DEF HasDone, Did, Right, pool
    <3> QED
      BY <1>1, <3>1, <3>2, <3>3, <3>4, <3>5 DEF IInv, Data, Right
  <2> QED
    BY <1>4, <1>7, <1>8, <2>13, <2>14 DEF IInv, TypeOK
<1>11. QED
  BY <1>9, <1>10

\* A request that is given up leaves the TPU nothing that is awaited.
LEMMA GiveUpKeeps ==
  ASSUME IInv, GiveUp
  PROVE  IInv'
<1>1. /\ Service /\ cur # <<>> /\ cur' = <<>> /\ Failed /\ late < MaxLate /\ late' = late + 1
      /\ tpu' = [i \in 1 .. Len(tpu) |-> [tpu[i] EXCEPT !.awaited = FALSE]]
      /\ UNCHANGED <<mode, bounce, encoder, pool, glueData, library, conn, up, known, ibuf, blind, obuf>>
  BY DEF Service, Daemon, GiveUp
<1>2. down' \in Seq(Bufs \cup {Us}) /\ failed' \in BOOLEAN /\ failed' /\ Replied(1)
  BY <1>1, FailedFacts
<1>3. Pool' /\ PoolTypes' /\ Under' = Under /\ EncoderTypes' /\ Data'
  BY <1>1, <1>2, ServiceCommon DEF glueData
<1>4. tpu' \in Seq(Jobs) /\ \A i \in 1 .. Len(tpu') : ~tpu'[i].awaited
  <2>1. tpu \in Seq(Jobs)
    BY DEF IInv, TypeOK, TpudTypes, Jobs
  <2>2. Len(tpu) \in Nat /\ \A i \in 1 .. Len(tpu) : tpu[i] \in Jobs
    BY <2>1
  <2>3. \A r \in Jobs : [r EXCEPT !.awaited = FALSE] \in Jobs /\ ~[r EXCEPT !.awaited = FALSE].awaited
    BY DEF Jobs
  <2>4. tpu' \in [1 .. Len(tpu) -> Jobs] /\ \A i \in 1 .. Len(tpu) : ~tpu'[i].awaited
    BY <1>1, <2>2, <2>3
  <2>5. \A n \in Nat : \A r \in [1 .. n -> Jobs] : r \in Seq(Jobs) /\ Len(r) = n
    OBVIOUS
  <2> QED
    BY <2>2, <2>4, <2>5
<1>5. DataTypes' /\ TpudTypes'
  <2>1. late' \in 0 .. MaxLate
    BY <1>1, BoundAssumption DEF IInv, TypeOK, TpudTypes
  <2> QED
    BY <1>1, <1>2, <1>4, <2>1 DEF IInv, TypeOK, DataTypes, TpudTypes, glueData, Jobs
<1>6. conn = "up"
  BY <1>1 DEF IInv, TypeOK, TpudTypes, Course
<1>7. Course'
  BY <1>1, <1>2, <1>4, <1>6, ServiceCourse
<1>8. Wire'
  <2> SUFFICES ASSUME ~left, sock = "open" PROVE Wire'
    BY <1>1 DEF Wire, library
  <2>1. pc # "import"
    BY <1>1, ServedFacts
  <2>2. PICK a \in 0 .. 1 : a + 1 \in 1 .. Len(Under) /\ Answers(a) /\ Rest(a + 1)
    BY <1>1, ServedFacts
  <2>3. ResultsStay(a)
    BY <1>1 DEF ResultsStay, glueData
  <2>4. Answers(a + 1)'
    <3>1. a < Len(Under) /\ UNCHANGED <<mode, job, blind>>
      BY <1>1, <2>2 DEF encoder
    <3> QED
      BY <1>2, <1>3, <2>2, <2>3, <3>1, AnswerAdded
  <2>5. Rest(a + 1)'
    BY <1>1, <1>3, <2>2 DEF Rest, Infer
  <2>6. Flow(a + 1)'
    BY <1>1, <1>3, <2>2, <2>4, <2>5 DEF Flow
  <2>7. a + 1 \in 0 .. 2 /\ pc' = pc
    BY <1>1 DEF encoder
  <2> QED
    BY <2>1, <2>6, <2>7 DEF Wire
<1>9. QED
  BY <1>3, <1>5, <1>7, <1>8 DEF IInv, TypeOK

\* The TPU computes the oldest of its requests, which no other follows for the same part.
LEMMA OneLess ==
  ASSUME IInv, Compute, ~left, NEW j \in 1 .. Len(Under), Computing(Under[j]), Under' = Under
  PROVE  Computing(Under[j])'
<1>1. /\ Service /\ tpu # <<>> /\ tpu' = Tail(tpu)
      /\ obuf' = [obuf EXCEPT ![Head(tpu).slot] = IF bounce = 1 THEN ibuf[Head(tpu).slot] ELSE Content(Head(tpu).buf)]
      /\ UNCHANGED <<mode, bounce, job, ibuf, blind>>
  BY DEF Service, Compute, encoder
<1>2. /\ tpu \in Seq(Jobs) /\ Len(tpu) \in Nat \ {0} /\ Head(tpu) = tpu[1] /\ Len(tpu') = Len(tpu) - 1
      /\ \A i \in 1 .. Len(tpu') : tpu'[i] = tpu[i + 1]
  <2>1. tpu \in Seq(Jobs)
    BY DEF IInv, TypeOK, TpudTypes, Jobs
  <2>2. Len(tpu) \in Nat \ {0}
    BY <1>1, <2>1, EmptySeq
  <2>3. Len(Tail(tpu)) = Len(tpu) - 1 /\ \A i \in 1 .. Len(Tail(tpu)) : Tail(tpu)[i] = tpu[i + 1]
    BY <1>1, <2>1, HeadTailProperties
  <2> QED
    BY <1>1, <2>1, <2>2, <2>3
<1>3. obuf \in [1 .. 2 -> Marks]
  BY DEF IInv, TypeOK, DataTypes
<1>4. PICK g : g = Under[j]
  OBVIOUS
<1>5. /\ Len(g) \in 1 .. 2 /\ Computing(g)
      /\ \A p \in 1 .. Len(g) : Content(BufOf(mode, g[p])) = <<job, g[p]>>
  BY <1>4, UnderFacts, ContentRight
<1>6. \A i \in 1 .. Len(tpu') : i + 1 \in 2 .. Len(tpu)
  BY <1>2
<1>7. ASSUME NEW p \in 1 .. Len(g)
      PROVE  <<job, g[p]>> \in blind \/ Computed(g[p], p)' \/ OnTpu(g[p], p)'
  <2>1. /\ p \in 1 .. 2 /\ 1 \in 1 .. Len(tpu)
        /\ <<job, g[p]>> \in blind \/ Computed(g[p], p) \/ OnTpu(g[p], p)
        /\ bounce = 1 => ibuf[p] = <<job, g[p]>>
    BY <1>2, <1>5 DEF Computing
  <2>2. CASE Computed(g[p], p)
    <3>1. obuf[p] = <<job, g[p]>> /\ \A i \in 1 .. Len(tpu) : tpu[i].slot # p
      BY <2>2 DEF Computed
    <3>2. obuf'[p] = obuf[p]
      BY <1>1, <1>2, <1>3, <2>1, <3>1
    <3>3. \A i \in 1 .. Len(tpu') : tpu'[i].slot # p
      BY <1>2, <1>6, <3>1
    <3> QED
      BY <1>1, <3>1, <3>2, <3>3 DEF Computed
  <2>3. CASE OnTpu(g[p], p)
    <3>1. PICK i \in 1 .. Len(tpu) : /\ tpu[i].awaited /\ tpu[i].slot = p /\ tpu[i].buf = BufOf(mode, g[p])
                                     /\ \A n \in (i + 1) .. Len(tpu) : tpu[n].slot # p
      BY <2>3 DEF OnTpu
    <3>2. CASE i = 1
      <4>1. obuf'[p] = <<job, g[p]>>
        BY <1>1, <1>2, <1>3, <1>5, <2>1, <3>1, <3>2
      <4>2. \A n \in 1 .. Len(tpu') : tpu'[n].slot # p
        BY <1>2, <1>6, <3>1, <3>2
      <4> QED
        BY <1>1, <4>1, <4>2 DEF Computed
    <3>3. CASE i # 1
      <4>1. i - 1 \in 1 .. Len(tpu') /\ tpu'[i - 1] = tpu[i]
        BY <1>2, <3>3
      <4>2. ASSUME NEW n \in (i - 1 + 1) .. Len(tpu') PROVE tpu'[n].slot # p
        <5>1. n \in 1 .. Len(tpu') /\ n + 1 \in (i + 1) .. Len(tpu)
          BY <1>2
        <5> QED
          BY <1>2, <3>1, <5>1
      <4> QED
        BY <1>1, <3>1, <4>1, <4>2 DEF OnTpu
    <3> QED
      BY <3>2, <3>3
  <2> QED
    BY <2>1, <2>2, <2>3
<1>8. \A p \in 1 .. Len(g) : bounce = 1 => ibuf[p] = <<job, g[p]>>
  BY <1>5 DEF Computing
<1>9. Computing(g)'
  BY <1>1, <1>7, <1>8 DEF Computing
<1>10. QED
  BY <1>4, <1>9

\* What is awaited last is computed last: after a step of the TPU nothing new is awaited.
LEMMA TpuShrinks ==
  ASSUME IInv, Compute
  PROVE  /\ tpu' \in Seq(Jobs) /\ obuf' \in [1 .. 2 -> Marks]
         /\ cur = <<>> => \A i \in 1 .. Len(tpu') : ~tpu'[i].awaited
<1>1. tpu \in Seq(Jobs) /\ tpu # <<>> /\ tpu' = Tail(tpu)
  BY DEF IInv, TypeOK, TpudTypes, Jobs, Compute
<1>2. /\ Head(tpu) \in Jobs /\ Tail(tpu) \in Seq(Jobs) /\ Len(Tail(tpu)) = Len(tpu) - 1 /\ Len(tpu) \in Nat
      /\ \A i \in 1 .. Len(Tail(tpu)) : Tail(tpu)[i] = tpu[i + 1]
  BY <1>1, HeadTailProperties
<1>3. cur = <<>> => \A i \in 1 .. Len(tpu') : ~tpu'[i].awaited
  <2> SUFFICES ASSUME cur = <<>>, NEW i \in 1 .. Len(tpu') PROVE ~tpu'[i].awaited
    OBVIOUS
  <2>1. i + 1 \in 1 .. Len(tpu) /\ tpu'[i] = tpu[i + 1]
    BY <1>1, <1>2
  <2> QED
    BY <2>1 DEF IInv, Course
<1>4. obuf' \in [1 .. 2 -> Marks]
  <2>1. Head(tpu).slot \in 1 .. 2 /\ Head(tpu).buf \in Bufs
    BY <1>2 DEF Jobs
  <2>2. Content(Head(tpu).buf) \in Marks
    BY <2>1, ContentType DEF IInv, TypeOK
  <2> QED
    BY <2>1, <2>2 DEF IInv, TypeOK, DataTypes, Compute
<1>5. QED
  BY <1>1, <1>2, <1>3, <1>4

\* The TPU keeps the invariant.
LEMMA ComputeKeeps ==
  ASSUME IInv, Compute
  PROVE  IInv'
<1>1. /\ Service /\ tpu # <<>>
      /\ UNCHANGED <<mode, bounce, encoder, pool, glueData, library, down, conn, up, known, cur, ibuf, late, blind, failed>>
  BY DEF Service, Compute
<1>2. Pool' /\ PoolTypes' /\ Under' = Under /\ Need' = Need /\ EncoderTypes' /\ Data'
  BY <1>1, ServiceCommon DEF IInv, TypeOK, EncoderTypes, glueData
<1>3. DataTypes' /\ TpudTypes'
  BY <1>1, TpuShrinks DEF IInv, TypeOK, DataTypes, TpudTypes, glueData, Jobs
<1>4. conn = "up"
  BY <1>1 DEF IInv, TypeOK, TpudTypes, Course
<1>5. Course'
  BY <1>1, <1>4, TpuShrinks, ServiceCourse
<1>6. Wire'
  <2> SUFFICES ASSUME ~left, sock = "open" PROVE Wire'
    BY <1>1 DEF Wire, library
  <2>1. CASE pc = "import"
    BY <1>1, <1>2, <2>1 DEF IInv, Wire, Importing, encoder
  <2>2. CASE pc # "import" /\ cur = <<>>
    <3>1. PICK a \in 0 .. 2 : Flow(a)
      BY <2>2 DEF IInv, Wire
    <3>2. Rest(a)
      <4> SUFFICES ASSUME a < Len(Under), cur = BufsOf(mode, Under[a + 1]) PROVE FALSE
        BY <1>4, <3>1 DEF Flow
      <4>1. BufsOf(mode, Under[a + 1]) # <<>>
        BY DEF BufsOf
      <4> QED
        BY <2>2, <4>1
    <3>3. a <= Len(Under) /\ Answers(a)
      BY <3>1 DEF Flow
    <3>4. Rest(a)' /\ Answers(a)'
      BY <1>1, <1>2, <3>2, <3>3, AnswersStay DEF Rest, Infer, encoder, glueData
    <3>5. Flow(a)'
      BY <1>1, <1>2, <2>2, <3>3, <3>4 DEF Flow
    <3> QED
      BY <1>1, <2>2, <3>5 DEF Wire, encoder
  <2>3. CASE pc # "import" /\ cur # <<>>
    <3>1. PICK a \in 0 .. 1 :
            /\ a + 1 \in 1 .. Len(Under) /\ Answers(a) /\ Rest(a + 1)
            /\ cur = BufsOf(mode, Under[a + 1]) /\ Computing(Under[a + 1])
      BY <2>3, ServedFacts
    <3>2. a < Len(Under) /\ a <= Len(Under) /\ a \in 0 .. 2
      BY <3>1, UnderFacts
    <3>3. Computing(Under[a + 1])'
      BY <1>2, <3>1, OneLess
    <3>4. Rest(a + 1)' /\ Answers(a)'
      BY <1>1, <1>2, <3>1, AnswersStay DEF Rest, Infer, encoder, glueData
    <3>5. Flow(a)'
      <4>1. PICK g : g = Under[a + 1]
        OBVIOUS
      <4>2. cur' = BufsOf(mode, g)' /\ Computing(g)'
        BY <1>1, <1>2, <3>1, <3>3, <4>1 DEF BufsOf, BufOf
      <4> QED
        BY <1>1, <1>2, <3>2, <3>4, <4>1, <4>2 DEF Flow
    <3> QED
      BY <1>1, <2>3, <3>2, <3>5 DEF Wire, encoder
  <2> QED
    BY <2>1, <2>2, <2>3
<1>7. QED
  BY <1>2, <1>3, <1>5, <1>6 DEF IInv, TypeOK

\* tpud and the TPU keep the invariant.
LEMMA ServiceStep ==
  ASSUME IInv, Service
  PROVE  IInv'
  BY ImportKeeps, StartKeeps, RefusedKeeps, CompleteKeeps, GiveUpKeeps, ComputeKeeps, CrashKeeps
     DEF Service, Daemon

-------------------------------------------------------------------------------
(* The invariant *)

\* Before the first encoding every thread has made all calls of the pool, and nothing is sent.
LEMMA InitIInv == Init => IInv
<1> SUFFICES ASSUME Init PROVE IInv
  OBVIOUS
<1>1. /\ pc = "idle" /\ ip = 0 /\ seq = 0 /\ seen = [w \in Workers |-> 0] /\ wpc = [w \in Workers |-> "sleep"]
      /\ known = ImportAhead(mode) /\ tpu_h = [k \in Bufs |-> IF k \in known THEN k ELSE -1]
      /\ sock = "open" /\ owed = 0 /\ left = FALSE /\ conn = "up" /\ up = <<>> /\ down = <<>>
      /\ cur = <<>> /\ tpu = <<>>
  BY DEF Init
<1>2. ~InRound /\ ~Gluing /\ Under = <<>>
  BY <1>1 DEF InRound, Gluing, Under
<1>3. Pool
  BY <1>1, <1>2 DEF Pool, Through
<1>4. Course
  <2>1. Len(Under) = 0 /\ Len(tpu) = 0
    BY <1>1, <1>2
  <2>2. \A k \in Bufs : tpu_h[k] = k \/ (tpu_h[k] = -1 /\ mode # "ovl")
    BY <1>1 DEF ImportAhead
  <2> QED
    BY <1>1, <1>2, <2>1, <2>2 DEF Course
<1>5. Data
  BY <1>1, <1>2 DEF Data
<1>6. Wire
  BY <1>1, <1>2, FlowEmpty DEF Wire
<1>7. QED
  BY <1>3, <1>4, <1>5, <1>6, InitTypes DEF IInv

\* A step that changes nothing keeps the invariant.
LEMMA Stutter ==
  ASSUME IInv, UNCHANGED vars
  PROVE  IInv'
<1>1. UNCHANGED <<mode, bounce, pc, round, job, ip, fn, done, seq, wpc, seen, task, kv, q, out, ctx,
                  sock, tpu_h, owed, left, conn, up, down, known, cur, ibuf, obuf, tpu, late, blind, failed>>
  BY DEF vars, encoder, pool, glueData, library, tpud
<1>2. TypeOK'
  BY <1>1 DEF IInv, TypeOK, EncoderTypes, PoolTypes, DataTypes, TpudTypes
<1>3. Under' = Under /\ (InRound' <=> InRound) /\ (Gluing' <=> Gluing) /\ Here' = Here /\ Through' = Through
      /\ Need' = Need
  BY <1>1 DEF Under, InRound, Gluing, Here, Through, Need
<1>4. Pool' /\ Course'
  BY <1>1, <1>3 DEF IInv, Pool, Course
<1>5. Data'
  BY <1>1, <1>3 DEF IInv, Data, Strips, BlockOK, HasDone, Did, Right
<1>6. Wire'
  <2>1. CASE pc = "import"
    BY <1>1, <1>3, <2>1 DEF IInv, Wire, Importing
  <2>2. CASE pc # "import" /\ ~left /\ sock = "open"
    <3>1. \E a \in 0 .. 2 : Flow(a)
      BY <2>2 DEF IInv, Wire
    <3>2. \E a \in 0 .. 2 : Flow(a)'
      BY <1>1, <1>3, <3>1, FlowSame
    <3> QED
      BY <1>1, <2>2, <3>2 DEF Wire
  <2> QED
    BY <1>1, <2>1, <2>2 DEF Wire
<1>7. QED
  BY <1>2, <1>4, <1>5, <1>6 DEF IInv

\* Every step keeps the invariant.
LEMMA NextIInv ==
  ASSUME IInv, [Next]_vars
  PROVE  IInv'
  BY Actors, AloneStep, PoolAll, ServiceStep, Stutter

\* The invariant of the encoder, its pool and its daemon.
THEOREM Inductive == Spec => []IInv
<1>1. Init => IInv
  BY InitIInv
<1>2. IInv /\ [Next]_vars => IInv'
  BY NextIInv
<1>3. QED
  BY <1>1, <1>2, PTL DEF Spec

\* The variables of the encoder, its pool and its daemon hold values of their sets.
THEOREM TypeCorrect == Spec => []TypeOK
<1>1. IInv => TypeOK
  BY DEF IInv
<1>2. QED
  BY <1>1, Inductive, PTL

\* Every part of the attention's result (wsp_barra_encode) is computed from the input of its own
\* round and block, for any number of threads, rounds, crashes and requests given up, unless the
\* block's request got no fence (tpud then answers 0 before the TPU is done: blind); only a failed
\* request can leave an answer in the socket.
THEOREM EveryAnswerMatches == Spec => []AnswersMatch
<1>1. IInv => AnswersMatch
  BY DEF IInv, Course, Data, AnswersMatch, Right
<1>2. QED
  BY <1>1, Inductive, PTL

\* Every buffer that tpud has been given belongs to a request that is under way.
LEMMA InHandsOfTpud ==
  ASSUME IInv, ~left, pc # "import",
         NEW k \in ToSet(cur) \cup UNION {ToSet(up[i].hs) : i \in 1 .. Len(up)}
  PROVE  \E j \in 1 .. Len(Under) : k \in ToSet(BufsOf(mode, Under[j]))
<1>1. sock = "open" /\ conn = "up"
  <2>1. ToSet(<<>>) = {} /\ Len(<<>>) = 0
    BY DEF ToSet
  <2>2. conn # "down"
    BY <2>1 DEF IInv, Course
  <2> QED
    BY <2>2 DEF IInv, Course, TypeOK, EncoderTypes, TpudTypes
<1>2. PICK a \in 0 .. 2 : Flow(a)
  BY <1>1 DEF IInv, Wire
<1>3. Len(Under) \in 0 .. 2 /\ Len(up) \in Nat
  BY UnderFacts DEF IInv, TypeOK, TpudTypes
<1>4. CASE k \in ToSet(cur)
  <2>1. cur # <<>>
    BY <1>4 DEF ToSet
  <2>2. a < Len(Under) /\ cur = BufsOf(mode, Under[a + 1])
    BY <1>1, <1>2, <2>1 DEF Flow
  <2>3. a + 1 \in 1 .. Len(Under)
    BY <1>3, <2>2
  <2> QED
    BY <1>4, <2>2, <2>3
<1>5. ASSUME NEW i \in 1 .. Len(up), k \in ToSet(up[i].hs)
      PROVE  \E j \in 1 .. Len(Under) : k \in ToSet(BufsOf(mode, Under[j]))
  <2>1. \E c \in {a, a + 1} : Rest(c)
    BY <1>1, <1>2 DEF Flow
  <2>2. PICK c \in {a, a + 1} : Rest(c)
    BY <2>1
  <2>3. c \in Nat /\ Len(up) = Len(Under) - c /\ up[i] = Infer(Under[c + i])
    BY <2>2 DEF Rest
  <2>4. c + i \in 1 .. Len(Under)
    BY <1>3, <2>3
  <2>5. up[i].hs = BufsOf(mode, Under[c + i])
    BY <2>3 DEF Infer
  <2> QED
    BY <1>5, <2>4, <2>5
<1>6. QED
  BY <1>4, <1>5

\* A block that is being filled has a buffer that tpud has not.
LEMMA FilledApart ==
  ASSUME IInv, NEW j \in 1 .. Len(Under), NEW b \in Blocks, ip = QAt(mode, b)
  PROVE  BufOf(mode, b) \notin ToSet(BufsOf(mode, Under[j]))
<1> SUFFICES ASSUME BufOf(mode, b) \in ToSet(BufsOf(mode, Under[j])) PROVE FALSE
  OBVIOUS
<1>1. PICK p \in 1 .. Len(Under[j]) : BufOf(mode, b) = BufOf(mode, Under[j][p])
  BY ServedBuf
<1> DEFINE c == Under[j][p]
<1>2. mode \in Modes /\ c \in Blocks /\ SubAt(mode, c) < ip /\ ip <= WaitAt(mode, c) /\ ip \in 1 .. Size(mode)
  BY UnderFacts
<1>3. BufOf(mode, b) = BufOf(mode, c)
  BY <1>1
<1> HIDE DEF c
<1>4. /\ QAt(mode, b) \in Int /\ SubAt(mode, b) \in Int /\ WaitAt(mode, b) \in Int /\ DivAt(mode, b) \in Int
      /\ QAt(mode, b) < SubAt(mode, b) /\ SubAt(mode, b) < WaitAt(mode, b) /\ WaitAt(mode, b) < DivAt(mode, b)
  BY <1>2, Order
<1>5. /\ QAt(mode, c) \in Int /\ SubAt(mode, c) \in Int /\ WaitAt(mode, c) \in Int /\ DivAt(mode, c) \in Int
      /\ QAt(mode, c) < SubAt(mode, c) /\ WaitAt(mode, c) < DivAt(mode, c)
  BY <1>2, Order
<1>6. b # c
  BY <1>2, <1>5
<1>7. DivAt(mode, b) < QAt(mode, c) \/ DivAt(mode, c) < QAt(mode, b)
  BY <1>2, <1>3, <1>6, Apart
<1>8. QED
  BY <1>2, <1>4, <1>5, <1>7

\* The k and v strips are complete before the first request.
LEMMA NothingSentEarly ==
  ASSUME IInv, InRound, ip = 1 \/ (ip = 2 /\ mode # "single")
  PROVE  Len(Under) = 0
<1> SUFFICES ASSUME Len(Under) # 0 PROVE FALSE
  OBVIOUS
<1>1. 1 \in 1 .. Len(Under)
  BY UnderFacts
<1>2. 1 \in 1 .. Len(Under[1])
  <2>1. Len(Under[1]) \in 1 .. 2
    BY <1>1, UnderFacts
  <2>2. \A n \in 1 .. 2 : 1 \in 1 .. n
    OBVIOUS
  <2> QED
    BY <2>1, <2>2, Zenon
<1> DEFINE c == Under[1][1]
<1>3. mode \in Modes /\ c \in Blocks /\ SubAt(mode, c) < ip
  BY <1>1, <1>2, UnderFacts
<1> HIDE DEF c
<1>4. QED
  BY <1>3, Order

\* Whoever is active is at the current step.
LEMMA ActiveHere ==
  ASSUME IInv, NEW s \in Active
  PROVE  s = Here /\ InRound /\ pc # "import" /\ Here.do \in {"kv", "q", "div", "copy"}
<1>1. ASSUME NEW w \in Workers, wpc[w] = "run", s = task[w]
      PROVE  Gluing /\ s = Here
  <2>1. Gluing
    BY <1>1, LateMeansGluing DEF IInv
  <2> QED
    BY <1>1, <2>1 DEF IInv, Pool
<1>2. (Gluing /\ s = Here) \/ (At("copy") /\ s = Here)
  <2>1. CASE pc = "slice" /\ s = fn
    BY <2>1 DEF IInv, Pool, Gluing
  <2> QED
    BY <1>1, <2>1 DEF Active
<1>3. CASE Gluing /\ s = Here
  BY <1>3 DEF IInv, Pool, Gluing, InRound
<1>4. CASE At("copy") /\ s = Here
  BY <1>4 DEF At, InRound
<1>5. QED
  BY <1>2, <1>3, <1>4

\* No thread of the pool (wsp_par), however late, is at a buffer that tpud has been given and that
\* has not been awaited.
THEOREM NoGlueAtTpud == Spec => []GlueAndTpuApart
<1>1. ASSUME IInv, ~left, NEW s \in Active, NEW k \in ToSet(s.bufs),
             k \in ToSet(cur) \cup UNION {ToSet(up[i].hs) : i \in 1 .. Len(up)}
      PROVE  FALSE
  <2>1. s = Here /\ InRound /\ pc # "import" /\ Here.do \in {"kv", "q", "div", "copy"}
    BY <1>1, ActiveHere
  <2>2. PICK j \in 1 .. Len(Under) : k \in ToSet(BufsOf(mode, Under[j]))
    BY <1>1, <2>1, InHandsOfTpud
  <2>3. CASE Here.do \in {"kv", "copy"}
    <3>1. ip = 1 \/ (ip = 2 /\ mode # "single")
      BY <1>1, <2>1, <2>3, HereFacts DEF IInv
    <3> QED
      BY <1>1, <2>1, <2>2, <3>1, NothingSentEarly
  <2>4. CASE Here.do = "q"
    <3>1. PICK b \in Blocks : ip = QAt(mode, b) /\ Here = Q(b, BufOf(mode, b))
      BY <1>1, <2>1, <2>4, HereFacts DEF IInv
    <3>2. k = BufOf(mode, b)
      BY <1>1, <2>1, <3>1 DEF Q, Step, ToSet
    <3> QED
      BY <1>1, <2>2, <3>1, <3>2, FilledApart
  <2>5. CASE Here.do = "div"
    <3>1. PICK b \in Blocks : ip = DivAt(mode, b) /\ Here = Div(b, BufOf(mode, b))
      BY <1>1, <2>1, <2>5, HereFacts DEF IInv
    <3>2. k = BufOf(mode, b)
      BY <1>1, <2>1, <3>1 DEF Div, Step, ToSet
    <3>3. WaitAt(mode, b) < ip /\ ip <= DivAt(mode, b)
      BY <1>1, <3>1, Order, UnderFacts
    <3> QED
      BY <1>1, <2>2, <3>2, <3>3, ResultApart
  <2> QED
    BY <2>1, <2>3, <2>4, <2>5
<1>2. IInv => GlueAndTpuApart
  BY <1>1 DEF GlueAndTpuApart
<1>3. QED
  BY <1>2, Inductive, PTL

-------------------------------------------------------------------------------
(* wsp_par keeps the promise of ForkJoin *)

\* The parts of a call, as counted for ForkJoin.
Times == [t \in Threads |-> IF PartDone(t) THEN 1 ELSE 0]

\* What ForkJoin sees of a step.
LEMMA ForkStep ==
  ASSUME \/ InCall' = InCall /\ Times' = Times
         \/ ~InCall /\ InCall' /\ \A t \in Threads : ~PartDone(t)'
         \/ InCall /\ ~InCall' /\ (\A t \in Threads : PartDone(t)) /\ Times' = Times
         \/ /\ InCall /\ InCall'
            /\ \E t \in Threads : /\ ~PartDone(t) /\ PartDone(t)'
                                  /\ \A u \in Threads \ {t} : PartDone(u)' = PartDone(u)
  PROVE  [Fork!Next]_(Fork!vars)
<1> USE DEF Fork!Next, Fork!vars
<1>1. CASE InCall' = InCall /\ Times' = Times
  BY <1>1 DEF Times
<1>2. CASE ~InCall /\ InCall' /\ \A t \in Threads : ~PartDone(t)'
  <2>1. Times' = [t \in Threads |-> 0]
    BY <1>2 DEF Times
  <2>2. InCall' = TRUE /\ Threads \in SUBSET Threads
    BY <1>2 DEF InCall
  <2>3. Fork!Call
    BY <1>2, <2>1, <2>2 DEF Fork!Call, Times
  <2> QED
    BY <2>3
<1>3. CASE InCall /\ ~InCall' /\ (\A t \in Threads : PartDone(t)) /\ Times' = Times
  <2>1. InCall' = FALSE
    BY <1>3 DEF InCall
  <2>2. \A t \in Threads : Times[t] = 1
    BY <1>3 DEF Times
  <2>3. Fork!Return
    BY <1>3, <2>1, <2>2 DEF Fork!Return, Times
  <2> QED
    BY <2>3
<1>4. ASSUME InCall, InCall', NEW t \in Threads, ~PartDone(t), PartDone(t)',
             \A u \in Threads \ {t} : PartDone(u)' = PartDone(u)
      PROVE  \E p \in Threads : Fork!Do(p)
  <2>1. Times[t] = 0
    BY <1>4 DEF Times
  <2>2. Times' = [Times EXCEPT ![t] = 1]
    BY <1>4 DEF Times
  <2>3. InCall' = InCall
    BY <1>4 DEF InCall
  <2>4. Fork!Do(t)
    BY <1>4, <2>1, <2>2, <2>3 DEF Fork!Do, Times
  <2> QED
    BY <2>4
<1>5. QED
  BY <1>1, <1>2, <1>3, <1>4

\* A step that leaves the pool alone, and does not go to its calls or come from them.
LEMMA ForkSame ==
  ASSUME UNCHANGED pool, ~InCall, ~InCall'
  PROVE  InCall' = InCall /\ Times' = Times
<1>1. InCall' = InCall
  BY DEF InCall
<1>2. \A t \in Threads : PartDone(t)' = PartDone(t)
  BY DEF PartDone, InCall, pool
<1>3. QED
  BY <1>1, <1>2 DEF Times

\* A step of the pool opens the call, does one part, closes the call, or does not show.
LEMMA PoolFork ==
  ASSUME IInv, PoolStep
  PROVE  [Fork!Next]_(Fork!vars)
<1>0. /\ Pool /\ TypeOK /\ seq \in Nat /\ seen \in [Workers -> 0 .. seq]
      /\ wpc \in [Workers -> {"sleep", "run", "count"}] /\ Main \notin Workers
  BY ThreadAssumption DEF IInv, TypeOK, PoolTypes
<1>1. CASE Publish
  <2>1. ~InCall /\ InCall' /\ pc' = "slice" /\ seq' = seq + 1 /\ seen' = seen
    BY <1>1 DEF Publish, At, InCall
  <2>2. ASSUME NEW t \in Threads PROVE ~PartDone(t)'
    <3>1. CASE t = Main
      BY <2>1, <3>1 DEF PartDone
    <3>2. CASE t # Main
      <4>1. t \in Workers /\ seen[t] \in 0 .. seq
        BY <1>0, <3>2 DEF Threads
      <4>2. seen'[t] # seq'
        BY <1>0, <2>1, <4>1
      <4> QED
        BY <3>2, <4>2 DEF PartDone
    <3> QED
      BY <3>1, <3>2
  <2> QED
    BY <2>1, <2>2, ForkStep
<1>2. CASE OwnSlice
  <2>1. pc = "slice" /\ pc' = "join" /\ UNCHANGED <<wpc, seen, seq>>
    BY <1>2 DEF OwnSlice, pool
  <2>2. InCall /\ InCall' /\ ~PartDone(Main) /\ PartDone(Main)' /\ Main \in Threads
    BY <2>1 DEF InCall, PartDone, Threads
  <2>3. \A u \in Threads \ {Main} : PartDone(u)' = PartDone(u)
    BY <2>1 DEF PartDone
  <2> QED
    BY <2>2, <2>3, ForkStep
<1>3. CASE Join
  <2>1. pc = "join" /\ pc' \in {"round", "step"} /\ UNCHANGED <<wpc, seen, seq>>
    BY <1>3 DEF Join, Advance, pool
  <2>2. Through = Workers
    BY <1>0, <1>3, AllThrough
  <2>3. InCall /\ ~InCall'
    BY <2>1 DEF InCall
  <2>4. ASSUME NEW t \in Threads PROVE PartDone(t) /\ PartDone(t)'
    <3>1. CASE t = Main
      BY <2>1, <3>1 DEF PartDone
    <3>2. CASE t # Main
      <4>1. t \in Through
        BY <2>2, <3>2 DEF Threads
      <4>2. wpc[t] = "sleep" /\ seen[t] = seq
        BY <4>1 DEF Through
      <4> QED
        BY <2>1, <3>2, <4>2 DEF PartDone
    <3> QED
      BY <3>1, <3>2
  <2>5. Times' = Times
    BY <2>4 DEF Times
  <2> QED
    BY <2>3, <2>4, <2>5, ForkStep
<1>4. ASSUME NEW w \in Workers, Worker(w) PROVE [Fork!Next]_(Fork!vars)
  <2>1. w # Main /\ w \in Threads /\ UNCHANGED <<pc, seq>>
    BY <1>0, <1>4 DEF Worker, Take, WorkerSlice, Count, encoder, Threads
  <2>2. InCall' = InCall
    BY <2>1 DEF InCall
  <2>3. \A u \in Threads \ {w} : PartDone(u)' = PartDone(u)
    <3>1. \A u \in Workers \ {w} : wpc'[u] = wpc[u] /\ seen'[u] = seen[u]
      BY <1>0, <1>4 DEF Worker, Take, WorkerSlice, Count
    <3> QED
      BY <2>1, <3>1 DEF PartDone, Threads
  <2>4. CASE Take(w) \/ Count(w)
    <3>1. \/ wpc[w] = "sleep" /\ seen[w] # seq /\ wpc'[w] = "run"
          \/ wpc[w] = "count" /\ wpc'[w] = "sleep" /\ seen' = seen
      BY <1>0, <2>4 DEF Take, Count
    <3>2. PartDone(w)' = PartDone(w)
      BY <2>1, <3>1 DEF PartDone
    <3>3. \A u \in Threads : PartDone(u)' = PartDone(u)
      BY <2>3, <3>2
    <3>4. Times' = Times
      BY <3>3 DEF Times
    <3> QED
      BY <2>2, <3>4, ForkStep
  <2>5. CASE WorkerSlice(w)
    <3>1. wpc[w] = "run" /\ wpc'[w] = "count" /\ seen' = seen
      BY <1>0, <2>5 DEF WorkerSlice
    <3>2. Gluing /\ seen[w] = seq
      BY <1>0, <3>1, LateMeansGluing DEF Pool
    <3>3. InCall /\ InCall'
      BY <2>2, <3>2 DEF InCall, Gluing
    <3>4. ~PartDone(w) /\ PartDone(w)'
      BY <2>1, <3>1, <3>2 DEF PartDone
    <3> QED
      BY <2>1, <2>3, <3>3, <3>4, ForkStep
  <2> QED
    BY <1>4, <2>4, <2>5 DEF Worker
<1>5. QED
  BY <1>1, <1>2, <1>3, <1>4 DEF PoolStep

\* No thread has a part to do when the encoder starts.
LEMMA ForkInit == Init => Fork!Init
<1> SUFFICES ASSUME Init PROVE Fork!Init
  OBVIOUS
<1>1. ~InCall
  BY DEF Init, InCall
<1>2. Threads \in SUBSET Threads /\ Times \in [Threads -> {0, 1}]
  BY DEF Times
<1>3. QED
  BY <1>1, <1>2 DEF Fork!Init, Times

\* The pool of the encoder (wsp_par) keeps the promise of ForkJoin: every thread does its part of
\* every step once, while the step lasts, and the encoder goes on when all have done theirs.
THEOREM ParImplementsFork == Spec => ForkSpec
<1>1. IInv /\ [Next]_vars => [Fork!Next]_(Fork!vars)
  <2> SUFFICES ASSUME IInv, [Next]_vars PROVE [Fork!Next]_(Fork!vars)
    OBVIOUS
  <2>1. CASE PoolStep
    BY <2>1, PoolFork
  <2>2. CASE Alone
    <3>1. UNCHANGED pool /\ ~Gluing /\ ~Gluing'
      BY <2>2, AloneKeeps DEF IInv, TypeOK
    <3>2. ~InCall /\ ~InCall'
      BY <3>1 DEF InCall, Gluing
    <3> QED
      BY <3>1, <3>2, ForkSame, ForkStep
  <2>3. CASE Service \/ UNCHANGED vars
    <3>1. UNCHANGED <<pc, wpc, seen, seq>>
      BY <2>3, ServiceKeeps DEF vars, encoder, pool
    <3>2. InCall' = InCall /\ Times' = Times
      BY <3>1 DEF InCall, Times, PartDone
    <3> QED
      BY <3>2, ForkStep
  <2> QED
    BY <2>1, <2>2, <2>3, Actors
<1>2. QED
  BY <1>1, ForkInit, Inductive, PTL DEF Spec, ForkSpec, Fork!Spec

-------------------------------------------------------------------------------
(* No answer is awaited in vain *)

\* In overlapping pairs an encoding that returns early leaves answers behind, and Wire says
\* nothing more.  What stays true is that there are enough: two words for every request not yet
\* awaited are there or will be, and nothing but such requests is sent.
Busy  == IF cur = <<>> THEN 0 ELSE 1
Debts == conn = "up" => Len(down) + 2 * (Len(up) + Busy) >= 2 * owed
Debt  == mode = "ovl" => Debts /\ \A i \in 1 .. Len(up) : up[i].cmd = "infer"

\* The lengths are numbers.
LEMMA DebtTypes ==
  ASSUME TypeOK
  PROVE  /\ Len(down) \in Nat /\ Len(up) \in Nat /\ owed \in Nat /\ Busy \in {0, 1}
         /\ up \in Seq([cmd : {"import", "infer"}, hs : Tuples]) /\ down \in Seq(Bufs \cup {Us})
<1>1. up \in Seq([cmd : {"import", "infer"}, hs : Tuples]) /\ down \in Seq(Bufs \cup {Us}) /\ owed \in 0 .. 2
  BY DEF TypeOK, TpudTypes, EncoderTypes
<1>2. Busy \in {0, 1}
  BY DEF Busy
<1>3. Len(down) \in Nat /\ Len(up) \in Nat /\ owed \in Nat
  BY <1>1
<1>4. QED
  BY <1>1, <1>2, <1>3

\* What does not touch the wire keeps the debt.
LEMMA DebtSame ==
  ASSUME Debt, UNCHANGED <<mode, conn, up, down, cur, owed>>
  PROVE  Debt'
  BY DEF Debt, Debts, Busy

\* The encoding thread: a request sent adds its words to come, an answer read takes its own.
LEMMA DebtAlone ==
  ASSUME IInv, Debt, Alone
  PROVE  Debt'
<1>1. TypeOK /\ Course /\ UNCHANGED <<mode, conn, cur>>
  BY AloneKeeps DEF IInv
<1> SUFFICES ASSUME mode = "ovl" PROVE Debt'
  BY <1>1 DEF Debt
<1>2. Debts /\ \A i \in 1 .. Len(up) : up[i].cmd = "infer"
  BY DEF Debt
<1>3. CASE Encode \/ StartRound \/ Return \/ CopyStrips
  <2>1. UNCHANGED <<up, down, owed>>
    BY <1>3 DEF Encode, StartRound, Return, CopyStrips, library, tpud
  <2> QED
    BY <1>1, <2>1, DebtSame
<1>4. CASE SendImport
  <2>1. InRound /\ Here.do = "submit" /\ Need # <<>>
    BY <1>4 DEF SendImport, At, InRound
  <2> QED
    BY <1>1, <2>1, NeedFacts
<1>5. CASE Imported
  BY <1>1, <1>5 DEF Imported, Course
<1>6. CASE SendRequest
  <2>1. PICK g \in Pieces : up' = Append(up, Infer(g)) /\ BufsOf(mode, g) \in Tuples
    BY <1>6, SendRequestFacts
  <2>2. Infer(g) \in [cmd : {"import", "infer"}, hs : Tuples] /\ Infer(g).cmd = "infer"
    BY <2>1 DEF Infer
  <2>3. Len(up') = Len(up) + 1 /\ \A i \in 1 .. Len(up) + 1 : up'[i] = IF i <= Len(up) THEN up[i] ELSE Infer(g)
    BY <1>1, <2>1, <2>2, DebtTypes
  <2>4. \A i \in 1 .. Len(up') : up'[i].cmd = "infer"
    BY <1>1, <1>2, <2>2, <2>3, DebtTypes
  <2>5. owed' = owed + 1 /\ down' = down /\ Busy' = Busy
    BY <1>1, <1>6 DEF SendRequest, Busy
  <2>6. Debts'
    BY <1>1, <1>2, <2>3, <2>5, DebtTypes DEF Debts
  <2> QED
    BY <2>4, <2>6 DEF Debt
<1>7. CASE SendFails \/ AnswerLost
  <2>1. owed' = 0 /\ UNCHANGED <<up, down>>
    BY <1>7 DEF SendFails, AnswerLost, Fail, tpud
  <2>2. Busy' = Busy
    BY <1>1 DEF Busy
  <2>3. Debts'
    BY <1>1, <2>1, <2>2, DebtTypes DEF Debts
  <2> QED
    BY <1>2, <2>1, <2>3 DEF Debt
<1>8. CASE Awaited
  <2>1. Len(down) >= 2 /\ down' = SubSeq(down, 3, Len(down))
    BY <1>8, AwaitedFacts
  <2>2. Len(down') = Len(down) - 2
    <3>1. down \in Seq(Bufs \cup {Us}) /\ Len(down) \in Nat
      BY <1>1, DebtTypes
    <3>2. \A n \in Nat : n >= 2 => n + 1 >= 3 /\ n - 3 + 1 = n - 2 /\ (3 <= n \/ n = 2)
      OBVIOUS
    <3>3. CASE 3 <= Len(down)
      <4>1. Len(SubSeq(down, 3, Len(down))) = Len(down) - 3 + 1
        BY <3>1, <3>3
      <4> QED
        BY <2>1, <3>1, <3>2, <4>1
    <3>4. CASE Len(down) = 2
      <4>1. Len(SubSeq(down, 3, 2)) = 0
        BY <3>1
      <4> QED
        BY <2>1, <3>4, <4>1
    <3> QED
      BY <2>1, <3>1, <3>2, <3>3, <3>4
  <2>3. up' = up /\ Busy' = Busy
    BY <1>1, <1>8 DEF Awaited, tpud, Busy
  <2>4. owed' = owed - 1 \/ owed' = 0
    BY <1>8 DEF Awaited, Fail
  <2>5. Debts'
    <3>1. \A d, u, b, o \in Nat : d + 2 * (u + b) >= 2 * o /\ d >= 2
                                  => /\ d - 2 + 2 * (u + b) >= 2 * (o - 1)
                                     /\ d - 2 + 2 * (u + b) >= 2 * 0
      OBVIOUS
    <3>2. Len(down) \in Nat /\ Len(up) \in Nat /\ Busy \in Nat /\ owed \in Nat
      BY <1>1, DebtTypes
    <3>3. SUFFICES ASSUME conn = "up" PROVE Len(down') + 2 * (Len(up') + Busy') >= 2 * owed'
      BY <1>1 DEF Debts
    <3>4. Len(down) + 2 * (Len(up) + Busy) >= 2 * owed
      BY <1>2, <3>3 DEF Debts
    <3>5. Len(down) - 2 + 2 * (Len(up) + Busy) >= 2 * (owed - 1) /\ Len(down) - 2 + 2 * (Len(up) + Busy) >= 2 * 0
      BY <2>1, <3>1, <3>2, <3>4
    <3> QED
      BY <2>2, <2>3, <2>4, <3>5
  <2> QED
    BY <1>2, <2>3, <2>5 DEF Debt
<1>9. QED
  BY <1>3, <1>4, <1>5, <1>6, <1>7, <1>8 DEF Alone

\* tpud reads a request: the first of the wire, and no import.
LEMMA DebtRead ==
  ASSUME IInv, Debt, mode = "ovl", Free, up' = Tail(up)
  PROVE  /\ Head(up).cmd = "infer" /\ Len(up') = Len(up) - 1 /\ Len(up) \in Nat \ {0}
         /\ \A i \in 1 .. Len(up') : up'[i].cmd = "infer"
<1>1. up \in Seq([cmd : {"import", "infer"}, hs : Tuples]) /\ up # <<>>
  BY DebtTypes DEF IInv, Free
<1>2. Head(up) = up[1] /\ Len(up) \in Nat \ {0} /\ Len(up') = Len(up) - 1
      /\ \A i \in 1 .. Len(up) - 1 : up'[i] = up[i + 1]
  BY <1>1
<1>3. \A i \in 1 .. Len(up) : up[i].cmd = "infer"
  BY DEF Debt
<1>4. QED
  BY <1>2, <1>3

\* tpud: a request it has read is served or answered by two words, one it serves is answered.
LEMMA DebtService ==
  ASSUME IInv, Debt, Service
  PROVE  Debt'
<1>1. TypeOK /\ Course /\ UNCHANGED <<mode, owed>>
  BY ServiceKeeps DEF IInv, library
<1> SUFFICES ASSUME mode = "ovl" PROVE Debt'
  BY <1>1 DEF Debt
<1>2. Debts /\ \A i \in 1 .. Len(up) : up[i].cmd = "infer"
  BY DEF Debt
<1>3. CASE Import
  <2>1. Free /\ up' = Tail(up) /\ Head(up).cmd = "import"
    BY <1>3 DEF Import, Asked
  <2> QED
    BY <2>1, DebtRead
<1>4. CASE Start
  <2>1. Free /\ up' = Tail(up) /\ cur' = Ask /\ down' = down /\ conn' = conn
    BY <1>4 DEF Start, Asked
  <2>2. Busy = 0 /\ Busy' = 1
    <3>1. cur = <<>> /\ Ask \in Tuples
      BY <2>1, AskTypes
    <3>2. Ask # <<>>
      BY <3>1 DEF Tuples
    <3> QED
      BY <2>1, <3>1, <3>2 DEF Busy
  <2>3. /\ Len(up') = Len(up) - 1 /\ Len(up) \in Nat \ {0}
        /\ \A i \in 1 .. Len(up') : up'[i].cmd = "infer"
    BY <2>1, DebtRead
  <2>4. Debts'
    BY <1>1, <1>2, <2>1, <2>2, <2>3, DebtTypes DEF Debts
  <2> QED
    BY <2>3, <2>4 DEF Debt
<1>5. CASE Refuse \/ StartHalf
  <2>1. Free /\ up' = Tail(up) /\ Failed /\ UNCHANGED <<cur, conn>>
    BY <1>5 DEF Refuse, StartHalf, Asked
  <2>2. Len(down') = Len(down) + 2 /\ Busy' = Busy
    BY <2>1, FailedFacts DEF Replied, Busy
  <2>3. /\ Len(up') = Len(up) - 1 /\ Len(up) \in Nat \ {0}
        /\ \A i \in 1 .. Len(up') : up'[i].cmd = "infer"
    BY <2>1, DebtRead
  <2>4. Debts'
    BY <1>1, <1>2, <2>1, <2>2, <2>3, DebtTypes DEF Debts
  <2> QED
    BY <2>3, <2>4 DEF Debt
<1>6. CASE Complete \/ GiveUp
  <2>1. cur # <<>> /\ cur' = <<>> /\ UNCHANGED <<up, conn>>
    BY <1>6 DEF Complete, GiveUp
  <2>2. Len(down') = Len(down) + 2
    <3>1. CASE Complete
      <4>1. 0 \in Bufs /\ Us \in Bufs \cup {Us} /\ Reply(<<0, Us>>)
        BY <3>1 DEF Complete, Bufs
      <4> QED
        BY <1>1, <4>1, TwoWords DEF Replied
    <3>2. CASE GiveUp
      BY <3>2, FailedFacts DEF GiveUp, Replied
    <3> QED
      BY <1>6, <3>1, <3>2
  <2>3. Busy = 1 /\ Busy' = 0
    BY <2>1 DEF Busy
  <2>4. Debts'
    BY <1>1, <1>2, <2>1, <2>2, <2>3, DebtTypes DEF Debts
  <2> QED
    BY <1>2, <2>1, <2>4 DEF Debt
<1>7. CASE Compute
  <2>1. UNCHANGED <<conn, up, down, cur>>
    BY <1>7 DEF Compute
  <2> QED
    BY <1>1, <2>1, DebtSame
<1>8. CASE Crash
  <2>1. conn' = "down" /\ up' = <<>>
    BY <1>8 DEF Crash
  <2> QED
    BY <2>1 DEF Debt, Debts
<1>9. QED
  BY <1>3, <1>4, <1>5, <1>6, <1>7, <1>8 DEF Service, Daemon

\* Every step keeps the debt.
LEMMA DebtKept ==
  ASSUME IInv, Debt, [Next]_vars
  PROVE  Debt'
<1>1. CASE PoolStep
  <2>1. UNCHANGED <<mode, conn, up, down, cur, owed>>
    BY <1>1, PoolKeeps DEF IInv, library, tpud
  <2> QED
    BY <2>1, DebtSame
<1>2. CASE UNCHANGED vars
  <2>1. UNCHANGED <<mode, conn, up, down, cur, owed>>
    BY <1>2 DEF vars, library, tpud
  <2> QED
    BY <2>1, DebtSame
<1>3. QED
  BY <1>1, <1>2, Actors, DebtAlone, DebtService

\* Where no answer was left, the course says what is awaited.
LEMMA FlowDue ==
  ASSUME IInv, At("wait"), NEW a \in 0 .. 2, Flow(a), Len(down) < 2, conn = "up"
  PROVE  up # <<>> \/ cur # <<>>
<1>1. Len(Under) \in Nat \ {0}
  <2>1. InRound /\ Here.do = "wait" /\ TypeOK /\ Course
    BY DEF At, InRound, IInv
  <2>2. PICK b \in Blocks : ip = WaitAt(mode, b) /\ mode \in Modes /\ Under = Sent(mode, ip) /\ ip \in Int
    <3>1. 1 .. Size(mode) \subseteq Int
      OBVIOUS
    <3> QED
      BY <2>1, <3>1, HereFacts
  <2>3. Among(b, Under)
    BY <2>2, UnderWay, Order
  <2>4. Len(Under) \in Nat
    BY <2>2, UnderWay
  <2> QED
    BY <2>3, <2>4 DEF Among
<1>2. a = 0
  BY DEF Flow, Answers
<1>3. CASE cur = <<>>
  <2>1. Rest(0)
    BY <1>2, <1>3 DEF Flow, BufsOf
  <2>2. Len(up) # 0
    BY <1>1, <2>1 DEF Rest
  <2> QED
    BY <2>2
<1>4. QED
  BY <1>3

\* Where an answer may have been left, the debt says so.
LEMMA DebtDue ==
  ASSUME IInv, Debt, mode = "ovl", At("wait"), Len(down) < 2, conn = "up"
  PROVE  up # <<>> \/ cur # <<>>
<1>1. owed \in Nat \ {0} /\ TypeOK
  <2>1. InRound /\ Here.do = "wait" /\ TypeOK /\ Course
    BY DEF At, InRound, IInv
  <2>2. PICK b \in Blocks : ip = WaitAt(mode, b) /\ mode \in Modes /\ Under = Sent(mode, ip) /\ ip \in Int
    <3>1. 1 .. Size(mode) \subseteq Int
      OBVIOUS
    <3> QED
      BY <2>1, <3>1, HereFacts
  <2>3. Among(b, Under)
    BY <2>2, UnderWay, Order
  <2>4. Len(Under) \in Nat
    BY <2>2, UnderWay
  <2>5. owed = Len(Under)
    BY <2>1 DEF Course
  <2> QED
    BY <2>1, <2>3, <2>4, <2>5 DEF Among
<1>2. SUFFICES ASSUME up = <<>>, cur = <<>> PROVE FALSE
  OBVIOUS
<1>3. Busy = 0 /\ Len(up) = 0
  BY <1>2 DEF Busy
<1>4. QED
  BY <1>1, <1>3, DebtTypes DEF Debt, Debts

\* An import that has not been answered is still to be read.
LEMMA ImportDue ==
  ASSUME pc = "import", Importing, Len(down) < Words, conn = "up"
  PROVE  up # <<>> \/ cur # <<>>
<1>1. CASE down = <<>>
  BY <1>1 DEF Importing
<1>2. CASE down = <<1>>
  BY <1>2 DEF Words
<1>3. CASE down = <<0>> \o Need
  BY <1>3 DEF Words
<1>4. QED
  BY <1>1, <1>2, <1>3 DEF Importing

\* The encoder never waits for an answer that is not there, not on its way and not being computed:
\* what keeps it, while the connection is up, is a request in the hands of tpud.
THEOREM NoWaitInVain == Spec => []NeverInVain
<1>1. Init => Debt
  <2> SUFFICES ASSUME Init PROVE Debt
    OBVIOUS
  <2>1. up = <<>> /\ down = <<>> /\ cur = <<>> /\ owed = 0
    BY DEF Init
  <2>2. Len(up) = 0 /\ Len(down) = 0 /\ Busy = 0
    BY <2>1 DEF Busy
  <2> QED
    BY <2>1, <2>2 DEF Debt, Debts
<1>2. IInv /\ Debt /\ [Next]_vars => Debt'
  BY DebtKept
<1>3. IInv /\ Debt => NeverInVain
  <2> SUFFICES ASSUME IInv, Debt, pc = "import" \/ At("wait"), Len(down) < Words, conn = "up"
               PROVE  up # <<>> \/ cur # <<>>
    BY DEF NeverInVain
  <2>1. sock = "open"
    BY DEF IInv, Course, TypeOK, EncoderTypes
  <2>2. CASE pc = "import"
    <3>1. ~left /\ Importing
      BY <2>1, <2>2 DEF IInv, Course, Wire
    <3> QED
      BY <2>2, <3>1, ImportDue
  <2>3. CASE At("wait")
    <3>1. Words = 2 /\ pc # "import"
      BY <2>3 DEF At, Words
    <3>2. CASE mode = "ovl"
      BY <2>3, <3>1, <3>2, DebtDue
    <3>3. CASE mode # "ovl"
      <4>1. \E a \in 0 .. 2 : Flow(a)
        BY <2>1, <3>1, <3>3 DEF IInv, Course, Wire
      <4> QED
        BY <2>3, <3>1, <4>1, FlowDue
    <3> QED
      BY <3>2, <3>3
  <2> QED
    BY <2>2, <2>3
<1>4. QED
  BY <1>1, <1>2, <1>3, Inductive, PTL DEF Spec
===============================================================================
