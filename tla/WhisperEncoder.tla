---------------------------- MODULE WhisperEncoder ----------------------------
(***************************************************************************)
(* The encoder of whisper on the TPU (whisper-barra.cpp): the attention of *)
(* a layer, for each group of heads a round of four blocks, on the tpud    *)
(* that has the core package.  The input of a block is put together, and   *)
(* its output taken apart, by the threads of a pool; requests go to tpud   *)
(* one by one, in pairs, or in two pairs of which the second is sent while *)
(* the TPU computes the first.                                             *)
(*                                                                         *)
(* Data is known by where it comes from: a round and a block.  The other   *)
(* packages (proj, woc, ffn, conv, cross) are computed in between by       *)
(* another tpud, with one request at a time; they may fail.  Calls of      *)
(* the library that send and await pairs are modelled from their use.      *)
(***************************************************************************)
EXTENDS Integers, Sequences, FiniteSets, SequencesExt

CONSTANTS Workers,    \* pl.th, the threads of the pool
          Main,       \* the thread that encodes
          Rounds,     \* rounds of an encoding: layers times groups of heads
          MaxRounds,  \* bound: rounds in all
          MaxLate     \* bound: requests that tpud leaves to themselves

ASSUME ThreadAssumption == IsFiniteSet(Workers) /\ Workers # {} /\ Main \notin Workers
ASSUME BoundAssumption  == Rounds \in Nat \ {0} /\ MaxRounds \in Nat /\ MaxLate \in Nat

Threads == Workers \cup {Main}
Blocks  == 0 .. 3
Bufs    == 0 .. 3    \* bC with bO, bC2 with bO2, ...
Bad     == <<-1, -1>>

\* Words of an answer: a status, and a time, which is no handle.
Us      == 99

\* A round is a sequence of steps on blocks and buffers.
Step(what, b, ks) == [do |-> what, blk |-> b, bufs |-> ks]
KV         == Step("kv", 0, <<0>>)
Copy(ks)   == Step("copy", 0, ks)
Q(b, k)    == Step("q", b, <<k>>)
Div(b, k)  == Step("div", b, <<k>>)
Submit(ks) == Step("submit", 0, ks)
Wait(ks)   == Step("wait", 0, ks)

\* The blocks of a round, by WSP_PAIR and WSP_OVL.
Script ==
  [single |-> <<KV, Q(0, 0), Submit(<<0>>), Wait(<<0>>), Div(0, 0),
                    Q(1, 0), Submit(<<0>>), Wait(<<0>>), Div(1, 0),
                    Q(2, 0), Submit(<<0>>), Wait(<<0>>), Div(2, 0),
                    Q(3, 0), Submit(<<0>>), Wait(<<0>>), Div(3, 0)>>,
   pair   |-> <<KV, Copy(<<1>>),
                Q(0, 0), Q(1, 1), Submit(<<0, 1>>), Wait(<<0, 1>>), Div(0, 0), Div(1, 1),
                Q(2, 0), Q(3, 1), Submit(<<0, 1>>), Wait(<<0, 1>>), Div(2, 0), Div(3, 1)>>,
   ovl    |-> <<KV, Copy(<<1, 2, 3>>),
                Q(0, 0), Q(1, 1), Submit(<<0, 1>>), Q(2, 2), Q(3, 3), Submit(<<2, 3>>),
                Wait(<<0, 1>>), Div(0, 0), Div(1, 1), Wait(<<2, 3>>), Div(2, 2), Div(3, 3)>>]

VARIABLES
  mode, bounce,       \* of the encoder; of tpud: TPU_ZC_BOUNCE
  pc, round, job, ip, \* the encoding thread: its place, its round here and in all, its step
  fn, done, seq,      \* members of the pool
  wpc, seen, task,    \* locals of its threads
  kv, q, out, ctx,    \* content of the buffers and of ctx, by thread
  sock, tpu_h,        \* the library's session, the handle of each buffer (-1: none)
  owed, left,         \* requests sent and not awaited; did an encoding leave some?
  conn, up, down,     \* the connection, requests and answers in it
  known, cur,         \* tpud: buffers it has imported, the request it serves
  ibuf, obuf,         \* its own buffers for a pair
  tpu, late,          \* requests on the TPU; how often some were left to themselves
  blind,              \* history: the blocks of this round whose requests had no fence
  failed              \* has an answer been a failure?

encoder  == <<pc, round, job, ip>>
pool     == <<fn, done, seq, wpc, seen, task>>
glueData == <<kv, q, out, ctx>>
library  == <<sock, tpu_h, owed, left>>
tpud     == <<conn, up, known, cur, ibuf, tpu, late, blind, failed>>
vars     == <<mode, bounce, encoder, pool, glueData, library, down, tpud, obuf>>

\* Mutant: no buffers are imported ahead.
ImportNone(m) == {}

\* wsp_init: an import while a pair is computed would read the pair's answer.
ImportAhead(m) == IF m = "ovl" THEN Bufs ELSE {}

Init ==
  /\ mode \in {"single", "pair", "ovl"} /\ bounce \in {1, 2}
  /\ pc = "idle" /\ round = 0 /\ job = 0 /\ ip = 0
  /\ fn = KV /\ done = 0 /\ seq = 0
  /\ wpc = [w \in Workers |-> "sleep"] /\ seen = [w \in Workers |-> 0]
  /\ task = [w \in Workers |-> KV]
  /\ kv = [k \in Bufs |-> [t \in Threads |-> 0]]
  /\ q = [k \in Bufs |-> [t \in Threads |-> Bad]]
  /\ out = [k \in Bufs |-> Bad] /\ ctx = [b \in Blocks |-> [t \in Threads |-> Bad]]
  /\ known = ImportAhead(mode) /\ tpu_h = [k \in Bufs |-> IF k \in known THEN k ELSE -1]
  /\ sock = "open" /\ owed = 0 /\ left = FALSE
  /\ conn = "up" /\ up = <<>> /\ down = <<>>
  /\ cur = <<>> /\ ibuf = [i \in 1 .. 2 |-> Bad] /\ obuf = [i \in 1 .. 2 |-> Bad]
  /\ tpu = <<>> /\ late = 0 /\ blind = {} /\ failed = FALSE

-------------------------------------------------------------------------------
(* wsp_barra_encode *)

Encode ==
  /\ pc = "idle" /\ job < MaxRounds
  /\ pc' = "round" /\ round' = 0
  /\ UNCHANGED <<mode, bounce, job, ip, pool, glueData, library, down, tpud, obuf>>

StartRound ==
  /\ pc = "round" /\ round < Rounds /\ job < MaxRounds
  /\ pc' = "step" /\ ip' = 1 /\ round' = round + 1 /\ job' = job + 1 /\ blind' = {}
  /\ UNCHANGED <<mode, bounce, pool, glueData, library, down, conn, up, known, cur, ibuf,
                 tpu, late, failed, obuf>>

\* After the last round, or because one of the other packages fails.
Return ==
  /\ pc = "round"
  /\ pc' = "idle"
  /\ UNCHANGED <<mode, bounce, round, job, ip, pool, glueData, library, down, tpud, obuf>>

Here == Script[mode][ip]
At(what) == pc = "step" /\ Here.do = what

Advance ==
  /\ IF ip = Len(Script[mode]) THEN pc' = "round" /\ ip' = 0 ELSE pc' = "step" /\ ip' = ip + 1
  /\ UNCHANGED <<round, job>>

\* return -1, with n requests not awaited on a session that is s.
Fail(n, s) ==
  /\ pc' = "idle" /\ ip' = 0 /\ UNCHANGED <<round, job>>
  /\ sock' = s /\ owed' = 0
  /\ left' = (left \/ (s = "open" /\ n > 0))

\* memcpy of the k and v strips.
CopyStrips ==
  /\ At("copy")
  /\ kv' = [k \in Bufs |-> IF k \in ToSet(Here.bufs) THEN kv[0] ELSE kv[k]]
  /\ Advance
  /\ UNCHANGED <<mode, bounce, pool, q, out, ctx, library, down, tpud, obuf>>

-------------------------------------------------------------------------------
(* wsp_par: all threads do their parts of fn *)

\* What thread t does of step s: it fills its part of the k and v or the q strips,
\* or divides its part of the output.
Slice(s, t) ==
  /\ kv'  = IF s.do = "kv" THEN [kv EXCEPT ![0][t] = job] ELSE kv
  /\ q'   = IF s.do = "q" THEN [q EXCEPT ![s.bufs[1]][t] = <<job, s.blk>>] ELSE q
  /\ ctx' = IF s.do = "div" THEN [ctx EXCEPT ![s.blk][t] = out[s.bufs[1]]] ELSE ctx

\* Mutant: the number of the finished keeps its value.
PublishNoReset ==
  /\ At("kv") \/ At("q") \/ At("div")
  /\ fn' = Here /\ seq' = seq + 1
  /\ pc' = "slice"
  /\ UNCHANGED <<mode, bounce, round, job, ip, done, wpc, seen, task, glueData, library,
                 down, tpud, obuf>>

\* Under mu, as are Take, Count and Join; the condition variables only spare the
\* threads their looks at seq and done.
Publish ==
  /\ At("kv") \/ At("q") \/ At("div")
  /\ fn' = Here /\ done' = 0 /\ seq' = seq + 1
  /\ pc' = "slice"
  /\ UNCHANGED <<mode, bounce, round, job, ip, wpc, seen, task, glueData, library, down,
                 tpud, obuf>>

OwnSlice ==
  /\ pc = "slice"
  /\ Slice(fn, Main)
  /\ pc' = "join"
  /\ UNCHANGED <<mode, bounce, round, job, ip, pool, out, library, down, tpud, obuf>>

Join ==
  /\ pc = "join" /\ done >= Cardinality(Workers)
  /\ Advance
  /\ UNCHANGED <<mode, bounce, pool, glueData, library, down, tpud, obuf>>

Take(w) ==
  /\ wpc[w] = "sleep" /\ seq # seen[w]
  /\ wpc' = [wpc EXCEPT ![w] = "run"] /\ seen' = [seen EXCEPT ![w] = seq]
  /\ task' = [task EXCEPT ![w] = fn]
  /\ UNCHANGED <<mode, bounce, encoder, fn, done, seq, glueData, library, down, tpud, obuf>>

WorkerSlice(w) ==
  /\ wpc[w] = "run"
  /\ Slice(task[w], w)
  /\ wpc' = [wpc EXCEPT ![w] = "count"]
  /\ UNCHANGED <<mode, bounce, encoder, fn, done, seq, seen, task, out, library, down,
                 tpud, obuf>>

Count(w) ==
  /\ wpc[w] = "count"
  /\ done' = done + 1
  /\ wpc' = [wpc EXCEPT ![w] = "sleep"]
  /\ UNCHANGED <<mode, bounce, encoder, fn, seq, seen, task, glueData, library, down,
                 tpud, obuf>>

-------------------------------------------------------------------------------
(* The calls of libbarra *)

Place(k, ks) == CHOOSE i \in DOMAIN ks : ks[i] = k
Send(cmd, hs) == up' = Append(up, [cmd |-> cmd, hs |-> hs])
Read(n) == down' = SubSeq(down, n + 1, Len(down))

\* What has no handle yet is imported first, in one request, and whatever comes next is its
\* answer: a status, followed by the handles if it is 0.
Need == SetToSeq({k \in ToSet(Here.bufs) : tpu_h[k] = -1})

SendImport ==
  /\ At("submit") /\ sock = "open" /\ conn = "up" /\ Need # <<>>
  /\ Send("import", Need)
  /\ pc' = "import"
  /\ UNCHANGED <<mode, bounce, round, job, ip, pool, glueData, library, down, conn,
                 known, cur, ibuf, tpu, late, blind, failed, obuf>>

Words == IF pc = "step" THEN 2 ELSE IF down # <<>> /\ down[1] = 0 THEN 1 + Len(Need) ELSE 1

Imported ==
  /\ pc = "import" /\ Len(down) >= Words
  /\ Read(Words)
  /\ IF down[1] = 0
     THEN /\ tpu_h' = [k \in Bufs |-> IF k \in ToSet(Need) THEN down[1 + Place(k, Need)] ELSE tpu_h[k]]
          /\ pc' = "step" /\ UNCHANGED <<round, job, ip, sock, owed, left>>
     ELSE Fail(owed, sock) /\ UNCHANGED tpu_h
  /\ UNCHANGED <<mode, bounce, pool, glueData, tpud, obuf>>

SendRequest ==
  /\ At("submit") /\ sock = "open" /\ conn = "up" /\ Need = <<>>
  /\ Send("infer", [i \in 1 .. Len(Here.bufs) |-> tpu_h[Here.bufs[i]]])
  /\ owed' = owed + 1
  /\ Advance
  /\ UNCHANGED <<mode, bounce, pool, glueData, sock, tpu_h, left, down, conn, known, cur,
                 ibuf, tpu, late, blind, failed, obuf>>

\* tpu_dead, now or before.
SendFails ==
  /\ At("submit") /\ (sock = "closed" \/ conn = "down")
  /\ Fail(owed, "closed")
  /\ UNCHANGED <<mode, bounce, pool, glueData, tpu_h, down, tpud, obuf>>

Awaited ==
  /\ At("wait") /\ Len(down) >= Words
  /\ Read(Words)
  /\ IF down[1] = 0
     THEN Advance /\ owed' = owed - 1 /\ UNCHANGED <<sock, left>>
     ELSE Fail(owed - 1, sock)
  /\ UNCHANGED <<mode, bounce, pool, glueData, tpu_h, tpud, obuf>>

\* The connection ends before the answer.
AnswerLost ==
  /\ pc = "import" \/ At("wait")
  /\ Len(down) < Words /\ conn = "down"
  /\ Fail(owed, "closed")
  /\ UNCHANGED <<mode, bounce, pool, glueData, tpu_h, down, tpud, obuf>>

-------------------------------------------------------------------------------
(* tpud, with TPU_ZC_BOUNCE; a buffer's slot has the buffer's number *)

Free == conn = "up" /\ cur = <<>> /\ up # <<>>
Asked(cmd) == Free /\ Head(up).cmd = cmd
Ask == Head(up).hs
Reply(words) == down' = down \o words
Failed == Reply(<<1, 0>>) /\ failed' = TRUE

Import ==
  /\ Asked("import")
  /\ \/ Reply(<<0>> \o Ask) /\ known' = known \cup ToSet(Ask) /\ UNCHANGED failed
     \/ Reply(<<1>>) /\ failed' = TRUE /\ UNCHANGED known
  /\ up' = Tail(up)
  /\ UNCHANGED <<mode, bounce, encoder, pool, glueData, library, conn, cur, ibuf, tpu,
                 late, blind, obuf>>

\* The input of a block: good if all its parts belong together.
Content(k) == LET x == q[k][Main]
              IN IF \A t \in Threads : q[k][t] = x /\ kv[k][t] = x[1] THEN x ELSE Bad

Request(i, waiting) == [slot |-> i, buf |-> Ask[i], awaited |-> waiting]

\* The input is copied to a buffer of tpud's own, or taken from the client's.
Bounced == [i \in 1 .. 2 |-> IF bounce = 1 /\ i <= Len(Ask) THEN Content(Ask[i]) ELSE ibuf[i]]

\* The requests are put on the TPU.  It may not accept one, or accept it (on) and
\* give it no fence: nobody waits for that one, and it counts as done.
Start ==
  /\ Asked("infer") /\ ToSet(Ask) \subseteq known
  /\ ibuf' = Bounced
  /\ \E on \in {<<>>, <<1>>, <<2>>, <<1, 2>>} : \E fenced \in SUBSET ToSet(on) :
       /\ ToSet(on) \subseteq 1 .. Len(Ask)
       /\ tpu' = tpu \o [i \in 1 .. Len(on) |-> Request(on[i], on[i] \in fenced)]
       /\ blind' = blind \cup {Content(Ask[i]) : i \in (1 .. Len(Ask)) \ fenced}
       /\ IF fenced = 1 .. Len(Ask) THEN UNCHANGED late ELSE late < MaxLate /\ late' = late + 1
  /\ cur' = Ask /\ up' = Tail(up)
  /\ UNCHANGED <<mode, bounce, encoder, pool, glueData, library, down, conn, known, failed,
                 obuf>>

\* Mutant: a request that is refused has no answer.
RefuseSilently ==
  /\ Asked("infer")
  /\ up' = Tail(up)
  /\ UNCHANGED <<mode, bounce, encoder, pool, glueData, library, down, conn, known, cur,
                 ibuf, tpu, late, blind, failed, obuf>>

\* Unknown handles, or no request can be made.
Refuse ==
  /\ Asked("infer")
  /\ ibuf' = IF ToSet(Ask) \subseteq known THEN Bounced ELSE ibuf
  /\ Failed /\ up' = Tail(up)
  /\ UNCHANGED <<mode, bounce, encoder, pool, glueData, library, conn, known, cur, tpu,
                 late, blind, obuf>>

\* The second request cannot be made: nobody awaits the first.
StartHalf ==
  /\ Asked("infer") /\ ToSet(Ask) \subseteq known /\ Len(Ask) = 2 /\ late < MaxLate
  /\ ibuf' = Bounced
  /\ tpu' = Append(tpu, Request(1, FALSE)) /\ late' = late + 1
  /\ Failed /\ up' = Tail(up)
  /\ UNCHANGED <<mode, bounce, encoder, pool, glueData, library, conn, known, cur, blind,
                 obuf>>

Pending == \E i \in 1 .. Len(tpu) : tpu[i].awaited

\* The fences are passed: the results are copied to the client's buffers.
Complete ==
  /\ cur # <<>> /\ ~Pending
  /\ out' = [k \in Bufs |-> IF k \in ToSet(cur) THEN obuf[Place(k, cur)] ELSE out[k]]
  /\ Reply(<<0, Us>>) /\ cur' = <<>>
  /\ UNCHANGED <<mode, bounce, encoder, pool, kv, q, ctx, library, conn, up, known, ibuf,
                 tpu, late, blind, failed, obuf>>

\* g_max_wait_us has passed; what is on the TPU stays there.
GiveUp ==
  /\ cur # <<>> /\ Pending /\ late < MaxLate
  /\ tpu' = [i \in 1 .. Len(tpu) |-> [tpu[i] EXCEPT !.awaited = FALSE]]
  /\ late' = late + 1
  /\ Failed /\ cur' = <<>>
  /\ UNCHANGED <<mode, bounce, encoder, pool, glueData, library, conn, up, known, ibuf,
                 blind, obuf>>

\* The TPU computes requests in order.
Compute ==
  /\ tpu # <<>>
  /\ LET r == Head(tpu)
     IN obuf' = [obuf EXCEPT ![r.slot] = IF bounce = 1 THEN ibuf[r.slot] ELSE Content(r.buf)]
  /\ tpu' = Tail(tpu)
  /\ UNCHANGED <<mode, bounce, encoder, pool, glueData, library, down, conn, up, known,
                 cur, ibuf, late, blind, failed>>

\* Answers that were sent can still be read.
Crash ==
  /\ conn = "up"
  /\ conn' = "down" /\ up' = <<>> /\ known' = {} /\ cur' = <<>> /\ tpu' = <<>>
  /\ UNCHANGED <<mode, bounce, encoder, pool, glueData, library, down, ibuf, late,
                 blind, failed, obuf>>

-------------------------------------------------------------------------------
Encoding ==
  \/ StartRound \/ Return \/ CopyStrips \/ Publish \/ OwnSlice \/ Join
  \/ SendImport \/ Imported \/ SendRequest \/ SendFails \/ Awaited \/ AnswerLost

Worker(w) == Take(w) \/ WorkerSlice(w) \/ Count(w)
Daemon == Import \/ Start \/ Refuse \/ StartHalf \/ Complete \/ GiveUp

Next ==
  \/ Encode \/ Encoding \/ Daemon \/ Compute \/ Crash
  \/ \E w \in Workers : Worker(w)

Spec == Init /\ [][Next]_vars

\* The threads run, and the TPU finishes what it is given.  (A request that hangs
\* is given up; GiveUp is bounded here.)  Nobody has to call the encoder.
FairSpec == /\ Spec /\ WF_vars(Encoding) /\ WF_vars(Daemon) /\ WF_vars(Compute)
            /\ \A w \in Workers : WF_vars(Worker(w))

-------------------------------------------------------------------------------
Marks   == {Bad} \cup {<<r, b>> : r \in 0 .. MaxRounds, b \in Blocks}
Tuples  == {<<k>> : k \in Bufs} \cup {<<k, l>> : k, l \in Bufs}
Steps   == [do : {"kv", "q", "div"}, blk : Blocks, bufs : {<<k>> : k \in Bufs}]

EncoderTypes ==
  /\ mode \in {"single", "pair", "ovl"} /\ bounce \in {1, 2}
  /\ pc \in {"idle", "round", "step", "slice", "join", "import"}
  /\ round \in 0 .. Rounds /\ job \in 0 .. MaxRounds /\ ip \in 0 .. Len(Script[mode])
  /\ sock \in {"open", "closed"} /\ tpu_h \in [Bufs -> Bufs \cup {-1}]
  /\ owed \in 0 .. 2 /\ left \in BOOLEAN /\ failed \in BOOLEAN

PoolTypes ==
  /\ fn \in Steps /\ done \in 0 .. Cardinality(Workers) /\ seq \in Nat
  /\ wpc \in [Workers -> {"sleep", "run", "count"}]
  /\ seen \in [Workers -> 0 .. seq] /\ task \in [Workers -> Steps]

DataTypes ==
  /\ kv \in [Bufs -> [Threads -> 0 .. MaxRounds]] /\ q \in [Bufs -> [Threads -> Marks]]
  /\ out \in [Bufs -> Marks] /\ ctx \in [Blocks -> [Threads -> Marks]]
  /\ ibuf \in [1 .. 2 -> Marks] /\ obuf \in [1 .. 2 -> Marks]

TpudTypes ==
  /\ conn \in {"up", "down"} /\ down \in Seq(Bufs \cup {Us})
  /\ up \in Seq([cmd : {"import", "infer"}, hs : Tuples])
  /\ known \subseteq Bufs /\ cur \in {<<>>} \cup Tuples
  /\ tpu \in Seq([slot : 1 .. 2, buf : Bufs, awaited : BOOLEAN])
  /\ late \in 0 .. MaxLate /\ blind \subseteq Marks

\* The variables hold values of these sets.
TypeOK == EncoderTypes /\ PoolTypes /\ DataTypes /\ TpudTypes

(* Every part of the attention's result is computed from the input of its *)
(* own round and block: pairs that overlap, buffers used again for every  *)
(* block, imports and requests that were given up do not mix answers.     *)
(* Excepted are the blocks whose requests got no fence: tpud answers 0 at *)
(* once, with what its output held before (tpud.c:151, 224).              *)
(* When an encoding returns between submit2 and wait2 of a pair, an answer *)
(* stays in the socket and is taken for the next one's (see the README);  *)
(* nothing but a failed request does that.                                *)
AnswersMatch ==
  /\ left => failed
  /\ pc = "round" /\ round > 0 /\ ~left =>
       \A b \in Blocks, t \in Threads : ctx[b][t] = <<job, b>> \/ <<job, b>> \in blind

\* The steps that threads are working on.
Active == {task[w] : w \in {x \in Workers : wpc[x] = "run"}}
            \cup (IF pc = "slice" THEN {fn} ELSE {}) \cup (IF At("copy") THEN {Here} ELSE {})

(* No thread of the pool, however late, is at a buffer that was passed to *)
(* the TPU and not yet awaited: neither filling an input that tpud reads, *)
(* nor dividing an output that tpud writes.  (A request that was given up *)
(* or had no fence has been answered, and is out of anybody's sight.)     *)
GlueAndTpuApart == ~left =>
  \A s \in Active :
    ToSet(s.bufs) \cap (ToSet(cur) \cup UNION {ToSet(up[i].hs) : i \in 1 .. Len(up)}) = {}

\* The encoder waits in the library only for an answer that is there, or that tpud is asked
\* for: no answer is given twice, skipped, or read as the end of another.
NeverInVain ==
  (pc = "import" \/ At("wait")) /\ Len(down) < Words /\ conn = "up" => up # <<>> \/ cur # <<>>

\* The calls of wsp_par, and the part of each thread: has it been done?
InCall == pc \in {"slice", "join"}
PartDone(t) == IF t = Main THEN pc # "slice" ELSE wpc[t] # "run" /\ seen[t] = seq

Fork == INSTANCE ForkJoin WITH
          Pieces <- Threads, open <- InCall, asked <- Threads,
          times <- [t \in Threads |-> IF PartDone(t) THEN 1 ELSE 0]

\* wsp_par implements the promise of ForkJoin: every thread does its part of every step
\* once, and the encoder goes on when all have.
ForkSpec == Fork!Spec

(* Every encoding returns, whichever request fails and whenever tpud goes *)
(* away.                                                                  *)
EncodeReturns == pc # "idle" ~> pc = "idle"
===============================================================================
