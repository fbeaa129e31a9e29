---------------------------- MODULE DspClientProofs ----------------------------
(***************************************************************************)
(* Proofs about the DSP session of libbarra and the command loop of gxpd3  *)
(* (DspClient): a job works on the buffers its caller has named, they are  *)
(* closed to the CPU meanwhile and open again between two calls, whatever  *)
(* is refused, fails, is freed or lost; for any number of buffers,         *)
(* handles and tokens and any limits of the two sides.                     *)
(***************************************************************************)
EXTENDS DspClient, FiniteSetTheorems, SequenceTheorems, TLAPS

USE SizeAssumption

\* What has sent the call under way.
Query == IF call.at = "imported" THEN ImportItems(call.op, call.bufs)
         ELSE CommandItems(call.op, call.bufs, call.tok, dsp_h)

\* The front of the queue is a payload without its command.
Stuck == up # <<>> /\ up[1].op = "payload"
Quiet == conn = "serve" => up = <<>> \/ Stuck
Asked == conn = "serve" => up = Query \/ Stuck

\* The daemon has not answered yet.
Awaited ==
  /\ down = <<>> /\ Asked
  /\ conn \in {"run", "wait"} => call.at = "answer" /\ call.op = conn /\ up = <<>>
  /\ conn = "wait" => cmd = call.tok

GivesHandles ==
  LET need == Need(call.op, call.bufs)
  IN  /\ Len(down) = 1 + Cardinality(need) /\ down[1] = 0
      /\ \A i \in 1..Cardinality(need) :
           down[1 + i] \in Slots /\ (conn = "serve" => table[down[1 + i]] = SetToSeq(need)[i])

\* Its answer is complete, and says what is the case.
Answered ==
  \/ call.at = "imported" /\ (down = <<1>> \/ GivesHandles)
  \/ call.at = "answer" /\ call.op = "release" /\ down \in {<<0>>, <<1>>}
  \/ call.at = "answer" /\ call.op = "submit" /\ (down = <<1, NoTok>> \/ \E t \in Tokens : down = <<0, t>>)
  \/ call.at = "answer" /\ call.op = "run" /\ Len(down) = 3
  \/ call.at = "answer" /\ call.op = "wait" /\ Len(down) = 3 /\ req[call.tok].fw # "running"

\* One command is on the way at a time: the answer is to the call under way.
Traffic ==
  IF call.at = "none" THEN down = <<>> /\ Quiet /\ conn \notin {"run", "wait"}
  ELSE sock = "open" /\ (Awaited \/ (Answered /\ Quiet /\ conn \notin {"run", "wait"}))

\* The calls of the application, and the access to their buffers.
Calls ==
  /\ call.at = "none" <=> call = NoCall
  /\ call.at = "imported" => call.op \in {"import", "run", "submit"} /\ call.tok = NoTok
                             /\ \A b \in call.bufs : access[b] = "cpu"
  /\ call.at = "answer" => call.op \in {"release", "run", "submit", "wait"}
  /\ call.at = "answer" /\ call.op = "wait" => call.tok \in Tokens
  /\ call.at # "none" /\ call.op # "release" => call.bufs # {} /\ call.bufs \cap Busy = {}
  /\ call.at = "answer" /\ call.op \in {"run", "submit", "wait"} => \A b \in call.bufs : access[b] = "device"
  /\ call.at = "answer" /\ call.op \in {"run", "submit"} => \A b \in call.bufs : dsp_h[b] # -1

\* Submitted buffers are the device's, and of one job.
Pending ==
  /\ \A p \in pend : p.bufs # {} /\ \A b \in p.bufs : access[b] = "device"
  /\ \A p, q \in pend : p # q => p.bufs \cap q.bufs = {}

OpenBrackets ==
  sock = "open" => \A b \in Bufs : access[b] = "device" =>
    b \in Busy \/ (call.at = "answer" /\ call.op \in {"run", "submit", "wait"} /\ b \in call.bufs)

\* A handle stands for its buffer, until the answer to its release.
GivenBack == call.at = "answer" /\ call.op = "release" /\ down = <<0>>

Handles ==
  /\ \A b \in Bufs : access[b] = "free" => dsp_h[b] = -1
  /\ conn \in {"serve", "run", "wait"} =>
       \A b \in Bufs : dsp_h[b] # -1 => table[dsp_h[b]] = b \/ (GivenBack /\ b \in call.bufs)

\* Without a session the daemon has nothing.
Gone == conn \in {"none", "down"} => (\A s \in Slots : table[s] = None) /\ \A r \in Reqs : req[r] = NoReq

\* A running job works on the buffers of a submit that has not been waited for, or of the
\* call that waits for it.
Works(r, bs) == req[r].on \cap Bufs \subseteq bs

Owner(t) ==
  \/ \E p \in pend : p.tok = t /\ Works(t, p.bufs)
  \/ call.at = "answer" /\ call.op = "wait" /\ call.tok = t /\ down = <<>> /\ Works(t, call.bufs)
  \/ call.at = "answer" /\ call.op = "submit" /\ down = <<0, t>> /\ Works(t, call.bufs)

Owners == sock = "open" =>
  /\ req[Sync].fw = "running" => conn = "run" /\ Works(Sync, call.bufs)
  /\ \A t \in Tokens : req[t].fw = "running" => Owner(t)

IInv == TypeOK /\ Calls /\ Traffic /\ Pending /\ OpenBrackets /\ Handles /\ Gone /\ Owners
        /\ RightBuffers /\ DeviceOwns

-------------------------------------------------------------------------------
(* Numbers, sets and sequences *)

\* What is no token, no handle.
LEMMA Apart ==
  /\ Tokens \subseteq Nat /\ Slots \subseteq Nat /\ NoTok \notin Tokens /\ -1 \notin Slots
  /\ Sync \notin Tokens /\ Sync \in Reqs /\ Tokens \subseteq Reqs
  BY DEF Tokens, Slots, NoTok, Sync, Reqs

\* The order in which a set of buffers is sent names each of them once.
LEMMA Order ==
  ASSUME NEW S \in SUBSET Bufs
  PROVE  /\ IsFiniteSet(S) /\ Cardinality(S) \in Nat
         /\ SetToSeq(S) \in [1..Cardinality(S) -> S]
         /\ SetToSeq(S) \in Seq(Bufs) /\ Len(SetToSeq(S)) = Cardinality(S)
         /\ IsInjective(SetToSeq(S))
         /\ \A b \in S : \E i \in 1..Cardinality(S) : SetToSeq(S)[i] = b
<1> DEFINE n == Cardinality(S)
<1>1. IsFiniteSet(S) /\ n \in Nat /\ ExistsBijection(1..n, S)
  BY FS_Subset, FS_CardinalityType
<1>2. \E f \in [1..n -> S] : IsInjective(f)
  BY <1>1 DEF ExistsBijection, Bijection, Injection
<1>3. SetToSeq(S) \in [1..n -> S] /\ IsInjective(SetToSeq(S))
  BY <1>2 DEF SetToSeq
<1>4. SetToSeq(S) \in Injection(1..n, S)
  BY <1>3 DEF Injection
<1>5. Cardinality(1..n) = n
  BY <1>1, FS_Interval
<1>6. SetToSeq(S) \in Surjection(1..n, S)
  BY <1>1, <1>4, <1>5, FS_Injection
<1>7. \A b \in S : \E i \in 1..n : SetToSeq(S)[i] = b
  BY <1>6 DEF Surjection
<1>8. SetToSeq(S) \in Seq(Bufs) /\ Len(SetToSeq(S)) = n
  BY <1>1, <1>3
<1>9. QED
  BY <1>1, <1>3, <1>7, <1>8

\* Reading or dropping words from the front of a queue.
LEMMA Behind ==
  ASSUME NEW S, NEW s \in Seq(S), NEW k \in Nat
  PROVE  /\ SubSeq(s, k + 1, Len(s)) \in Seq(S)
         /\ Len(SubSeq(s, k + 1, Len(s))) <= Len(s)
         /\ Len(s) <= k => SubSeq(s, k + 1, Len(s)) = <<>>
         /\ k < Len(s) => /\ Len(SubSeq(s, k + 1, Len(s))) = Len(s) - k
                          /\ SubSeq(s, k + 1, Len(s))[1] = s[k + 1]
<1>1. Len(s) \in Nat /\ \A i \in k + 1 .. Len(s) : s[i] \in S
  OBVIOUS
<1>2. QED
  BY <1>1, SubSeqProperties, SubSeqEmpty

-------------------------------------------------------------------------------
(* The socket *)

\* What an import sends.
LEMMA ImportSends ==
  ASSUME ClientTypes, NEW op \in {"import", "run", "submit"}, NEW bs \in SUBSET Bufs
  PROVE  LET need == Need(op, bs)
             it   == ImportItems(op, bs)
         IN  /\ need \in SUBSET Bufs /\ it \in Seq(Items) /\ Len(it) = 2
             /\ it[1].op = "import" /\ it[1].n = Cardinality(need)
             /\ it[2].op = "payload" /\ it[2].fds = SetToSeq(need)
<1> DEFINE need == Need(op, bs)
<1>1. need \in SUBSET Bufs
  BY DEF Need
<1>2. Cardinality(need) \in Nat /\ SetToSeq(need) \in Seq(Bufs)
  BY <1>1, Order
<1> HIDE DEF need
<1>3. Header("import", Cardinality(need), NoTok) \in Items /\ Carries(SetToSeq(need), {}, {}) \in Items
  BY <1>2 DEF Header, Carries, Items
<1>4. ImportItems(op, bs) = <<Header("import", Cardinality(need), NoTok), Carries(SetToSeq(need), {}, {})>>
  BY DEF ImportItems, need
<1>5. QED
  BY <1>1, <1>3, <1>4 DEF Header, Carries, need

\* What a command sends.
LEMMA CommandSends ==
  ASSUME NEW op \in {"release", "run", "submit", "wait"}, NEW bs \in SUBSET Bufs,
         NEW t \in Tokens \cup {NoTok}, NEW h \in [Bufs -> Slots \cup {-1}]
  PROVE  LET it == CommandItems(op, bs, t, h)
         IN  /\ it \in Seq(Items) /\ it # <<>> /\ it[1].op = op /\ it[1].tok = t
             /\ op = "wait" => Len(it) = 1
             /\ op # "wait" => /\ Len(it) = 2 /\ it[2].op = "payload"
                               /\ it[2].hs = HandlesOf(bs, h) /\ it[2].for = bs
<1> DEFINE hs == HandlesOf(bs, h)
<1>1. hs \in SUBSET Slots
  BY DEF HandlesOf
<1>2. IsFiniteSet(Slots)
  BY FS_Interval DEF Slots
<1>3. Cardinality(hs) \in Nat
  BY <1>1, <1>2, FS_Subset, FS_CardinalityType
<1>4. Header(op, Cardinality(hs), t) \in Items /\ Carries(<<>>, hs, bs) \in Items
  BY <1>1, <1>3 DEF Header, Carries, Items
<1>5. CommandItems(op, bs, t, h) = IF op = "wait" THEN <<Header(op, Cardinality(hs), t)>>
                                   ELSE <<Header(op, Cardinality(hs), t), Carries(<<>>, hs, bs)>>
  BY DEF CommandItems
<1>6. CASE op = "wait"
  BY <1>3, <1>4, <1>5, <1>6 DEF Header
<1>7. CASE op # "wait"
  BY <1>3, <1>4, <1>5, <1>7 DEF Header, Carries
<1>8. QED
  BY <1>6, <1>7

\* A call that sends either is at the front of the queue, or is stuck behind a payload.
LEMMA Sent ==
  ASSUME up \in Seq(Items), Quiet, NEW items \in Seq(Items), Send(items)
  PROVE  up' \in Seq(Items) /\ (conn = "serve" => up' = items \/ (up' # <<>> /\ up'[1].op = "payload"))
<1>1. CASE conn # "serve"
  BY <1>1 DEF Send
<1>2. CASE conn = "serve" /\ up = <<>>
  BY <1>2, ConcatEmptySeq DEF Send
<1>3. CASE conn = "serve" /\ Stuck
  <2>1. up' = up \o items
    BY <1>3 DEF Send
  <2>2. up' \in Seq(Items) /\ Len(up') = Len(up) + Len(items) /\ up'[1] = up[1]
    BY <2>1, <1>3, ConcatProperties DEF Stuck
  <2>3. QED
    BY <2>2, <1>3 DEF Stuck
<1>4. QED
  BY <1>1, <1>2, <1>3 DEF Quiet

\* A command is served for the call under way, which awaits its answer.
LEMMA Served ==
  ASSUME TypeOK, Calls, Traffic, Serving
  PROVE  /\ conn = "serve" /\ sock = "open" /\ call.at # "none" /\ down = <<>>
         /\ up = Query /\ up[1] \in Items
<1>1. conn = "serve" /\ up # <<>> /\ ~Stuck
  BY DEF Serving, Stuck
<1>2. call.at # "none" /\ sock = "open"
  BY <1>1 DEF Traffic, Quiet
<1>3. Awaited
  BY <1>1, <1>2 DEF Traffic, Quiet
<1>4. down = <<>> /\ up = Query
  BY <1>1, <1>3 DEF Awaited, Asked
<1>5. up[1] \in Items
  BY <1>1 DEF TypeOK, SocketTypes
<1>6. QED
  BY <1>1, <1>2, <1>4, <1>5

\* The import of a call.
LEMMA ImportServed ==
  ASSUME TypeOK, Calls, Traffic, Serving, up[1].op = "import"
  PROVE  LET need == Need(call.op, call.bufs)
         IN  /\ call.at = "imported" /\ call.op \in {"import", "run", "submit"}
             /\ need \in SUBSET Bufs /\ up \in Seq(Items) /\ Len(up) = 2
             /\ up[1].n = Cardinality(need) /\ up[2].op = "payload" /\ up[2].fds = SetToSeq(need)
<1>1. call \in [op : {"none", "import", "release", "run", "submit", "wait"}, at : {"none", "imported", "answer"},
                bufs : SUBSET Bufs, tok : Tokens \cup {NoTok}] /\ ClientTypes
  BY DEF TypeOK, ClientTypes
<1>2. call.at # "none" /\ up = Query
  BY Served
<1>3. CASE call.at = "imported"
  <2>1. call.op \in {"import", "run", "submit"} /\ up = ImportItems(call.op, call.bufs)
    BY <1>2, <1>3 DEF Calls, Query
  <2>2. QED
    BY <2>1, <1>1, <1>3, ImportSends
<1>4. CASE call.at = "answer"
  <2>1. call.op \in {"release", "run", "submit", "wait"} /\ up = CommandItems(call.op, call.bufs, call.tok, dsp_h)
    BY <1>2, <1>4 DEF Calls, Query
  <2>2. up[1].op = call.op
    BY <2>1, <1>1, CommandSends DEF ClientTypes
  <2>3. QED
    BY <2>1, <2>2
<1>5. QED
  BY <1>1, <1>2, <1>3, <1>4

\* The command of a call.
LEMMA CommandServed ==
  ASSUME TypeOK, Calls, Traffic, Serving, up[1].op # "import"
  PROVE  /\ call.at = "answer" /\ call.op = up[1].op /\ call.tok = up[1].tok
         /\ call.op \in {"release", "run", "submit", "wait"} /\ up \in Seq(Items)
         /\ call.op = "wait" => Len(up) = 1
         /\ call.op # "wait" => /\ Len(up) = 2 /\ up[2].op = "payload"
                                /\ Payload.hs = HandlesOf(call.bufs, dsp_h)
                                /\ Payload.for = call.bufs
<1>1. call \in [op : {"none", "import", "release", "run", "submit", "wait"}, at : {"none", "imported", "answer"},
                bufs : SUBSET Bufs, tok : Tokens \cup {NoTok}] /\ ClientTypes
  BY DEF TypeOK, ClientTypes
<1>2. call.at # "none" /\ up = Query
  BY Served
<1>3. CASE call.at = "imported"
  <2>1. call.op \in {"import", "run", "submit"} /\ up = ImportItems(call.op, call.bufs)
    BY <1>2, <1>3 DEF Calls, Query
  <2>2. QED
    BY <2>1, <1>1, ImportSends
<1>4. CASE call.at = "answer"
  <2>1. call.op \in {"release", "run", "submit", "wait"} /\ up = CommandItems(call.op, call.bufs, call.tok, dsp_h)
    BY <1>2, <1>4 DEF Calls, Query
  <2>2. LET it == CommandItems(call.op, call.bufs, call.tok, dsp_h)
        IN  /\ it \in Seq(Items) /\ it # <<>> /\ it[1].op = call.op /\ it[1].tok = call.tok
            /\ call.op = "wait" => Len(it) = 1
            /\ call.op # "wait" => /\ Len(it) = 2 /\ it[2].op = "payload"
                                   /\ it[2].hs = HandlesOf(call.bufs, dsp_h) /\ it[2].for = call.bufs
    <3>1. call.bufs \in SUBSET Bufs /\ call.tok \in Tokens \cup {NoTok} /\ dsp_h \in [Bufs -> Slots \cup {-1}]
      BY <1>1 DEF ClientTypes
    <3>2. QED
      BY <2>1, <3>1, CommandSends
  <2>3. QED
    BY <2>1, <2>2, <1>4 DEF Payload
<1>5. QED
  BY <1>1, <1>2, <1>3, <1>4

\* An answer that is long enough is complete, and it is all there is to read.
LEMMA Collected ==
  ASSUME TypeOK, Calls, Traffic, call.at # "none"
  PROVE  /\ Words \in Nat \ {0}
         /\ \/ Len(down) >= Words /\ Len(down) = Words /\ Answered /\ Quiet /\ conn \notin {"run", "wait"}
            \/ ~(Len(down) >= Words) /\ Awaited /\ down = <<>>
<1>1. Cardinality(Need(call.op, call.bufs)) \in Nat
  <2>1. Need(call.op, call.bufs) \in SUBSET Bufs
    BY DEF TypeOK, ClientTypes, Need
  <2>2. QED
    BY <2>1, Order
<1>2. Words \in Nat \ {0}
  <2>1. CASE call.at = "imported"
    BY <1>1, <2>1 DEF Words
  <2>2. CASE call.at = "answer"
    <3>1. call.op \in {"release", "run", "submit", "wait"}
      BY <2>2 DEF Calls
    <3>2. QED
      BY <2>2, <3>1 DEF Words
  <2>3. QED
    BY <2>1, <2>2 DEF TypeOK, ClientTypes
<1>3. CASE Awaited
  <2>1. down = <<>> /\ Len(down) = 0
    BY <1>3 DEF Awaited
  <2>2. QED
    BY <1>2, <1>3, <2>1
<1>4. CASE Answered /\ Quiet /\ conn \notin {"run", "wait"}
  <2>1. CASE call.at = "imported"
    BY <1>1, <1>4, <2>1 DEF Answered, GivesHandles, Words, TypeOK, SocketTypes
  <2>2. CASE call.at # "imported"
    <3>1. call.at = "answer"
      BY <2>2 DEF TypeOK, ClientTypes
    <3>2. Words = [release |-> 1, submit |-> 2, run |-> 3, wait |-> 3][call.op]
      BY <2>2 DEF Words
    <3>3. Len(down) = Words
      <4>1. CASE call.op = "release"
        BY <1>4, <3>1, <3>2, <4>1 DEF Answered
      <4>2. CASE call.op = "submit"
        <5>1. down = <<1, NoTok>> \/ \E t \in Tokens : down = <<0, t>>
          BY <1>4, <3>1, <4>2 DEF Answered
        <5>2. Len(down) = 2
          BY <5>1
        <5>3. QED
          BY <3>2, <4>2, <5>2
      <4>3. CASE call.op \in {"run", "wait"}
        <5>1. Len(down) = 3
          BY <1>4, <3>1, <4>3 DEF Answered
        <5>2. QED
          BY <3>2, <4>3, <5>1
      <4>4. QED
        BY <3>1, <4>1, <4>2, <4>3 DEF Calls
    <3>4. QED
      BY <1>2, <1>4, <3>3
  <2>3. QED
    BY <1>2, <1>4, <2>1, <2>2
<1>5. Awaited \/ (Answered /\ Quiet /\ conn \notin {"run", "wait"})
  BY DEF Traffic
<1>6. QED
  BY <1>2, <1>3, <1>4, <1>5

\* After it nothing is left.
LEMMA ReadAll ==
  ASSUME TypeOK, NEW k \in Nat, Read(k)
  PROVE  down' \in Seq(Int) /\ (Len(down) = k => down' = <<>>)
<1> DEFINE rest == SubSeq(down, k + 1, Len(down))
<1>1. down \in Seq(Int) /\ Len(down) \in Nat /\ down' = rest
  BY DEF TypeOK, SocketTypes, Read
<1>2. rest \in Seq(Int) /\ (Len(down) <= k => rest = <<>>)
  BY <1>1, Behind
<1>3. QED
  BY <1>1, <1>2

\* What is left in the queue when a command, or a command and its payload, are taken.
LEMMA Dropped ==
  ASSUME TypeOK, NEW k \in Nat, Drop(k)
  PROVE  /\ up' \in Seq(Items)
         /\ Len(up) <= k => up' = <<>>
         /\ k < Len(up) => up' # <<>> /\ up'[1] = up[k + 1]
<1> DEFINE rest == SubSeq(up, k + 1, Len(up))
<1>1. up \in Seq(Items) /\ Len(up) \in Nat /\ up' = rest
  BY DEF TypeOK, SocketTypes, Drop
<1> HIDE DEF rest
<1>2. /\ rest \in Seq(Items) /\ (Len(up) <= k => rest = <<>>)
      /\ k < Len(up) => Len(rest) = Len(up) - k /\ rest[1] = up[k + 1]
  BY <1>1, Behind DEF rest
<1>3. QED
  BY <1>1, <1>2

-------------------------------------------------------------------------------
(* Steps that more than one invariant needs *)

\* The daemon and the firmware do not touch the client, the library not the daemon.
DaemonStep  == Daemon \/ Restart \/ Watchdog \/ \E r \in Reqs : Finish(r)
LibraryCall == Library \/ Close \/ (\E p \in pend : Wait(p) \/ WaitDead(p)) \/ (\E b \in Bufs : Alloc(b))
               \/ \E bs \in SUBSET Bufs : Import(bs) \/ Release(bs) \/ RunOrSubmit("run", bs)
                                          \/ RunOrSubmit("submit", bs)

\* Every step is one of the library or the daemon alone, or opens a session, or frees a buffer.
LEMMA Sides ==
  ASSUME Next
  PROVE  Open \/ (\E b \in Bufs : Free(b)) \/ LibraryCall \/ DaemonStep
  BY DEF Next, Application, LibraryCall, DaemonStep

\* The daemon and the firmware change nothing of the client's.
LEMMA ClientKept ==
  ASSUME DaemonStep
  PROVE  UNCHANGED client
<1>1. CASE Refuse \/ DoImport \/ DoRelease \/ WaitUnknown \/ DoWait \/ LeaveLoop \/ End \/ Restart \/ Watchdog
  BY <1>1 DEF Refuse, DoImport, DoRelease, WaitUnknown, DoWait, LeaveLoop, End, Restart, Watchdog
<1>2. CASE DoRun \/ DoSubmit
  BY <1>2 DEF DoRun, DoSubmit, Start
<1>3. CASE Fails("run") \/ Fails("submit")
  BY <1>3 DEF Fails
<1>4. CASE \E r \in Reqs : Done(r) \/ Finish(r)
  BY <1>4 DEF Done, Finish
<1>5. QED
  BY <1>1, <1>2, <1>3, <1>4 DEF DaemonStep, Daemon

\* A call of the library changes nothing of the daemon's.
LEMMA DaemonKept ==
  ASSUME LibraryCall
  PROVE  UNCHANGED daemon
<1>1. CASE Library
  BY <1>1 DEF Library, ImportRefused, Imported, Released, Submitted, RunOrWaitReturns, IoError
<1>2. CASE Close \/ (\E p \in pend : Wait(p) \/ WaitDead(p)) \/ (\E b \in Bufs : Alloc(b))
  BY <1>2 DEF Close, Wait, WaitDead, Alloc
<1>3. CASE \E bs \in SUBSET Bufs : Import(bs) \/ Release(bs) \/ RunOrSubmit("run", bs) \/ RunOrSubmit("submit", bs)
  BY <1>3 DEF Import, Release, RunOrSubmit
<1>4. QED
  BY <1>1, <1>2, <1>3 DEF LibraryCall

\* The handles of an import arrive at the buffers they were given for, and the call goes on.
LEMMA HandlesArrive ==
  ASSUME TypeOK, Calls, Traffic, Imported
  PROVE  LET need == Need(call.op, call.bufs)
         IN  /\ sock = "open" /\ Quiet /\ conn \notin {"run", "wait"} /\ down' = <<>>
             /\ dsp_h' \in [Bufs -> Slots \cup {-1}]
             /\ \A b \in Bufs \ need : dsp_h'[b] = dsp_h[b]
             /\ \A b \in need : dsp_h'[b] \in Slots /\ (conn = "serve" => table[dsp_h'[b]] = b)
             /\ \/ call.op = "import" /\ call' = NoCall /\ UNCHANGED <<access, up>>
                \/ /\ call.op \in {"run", "submit"} /\ SendCommand(call.op, call.bufs, NoTok, dsp_h')
                   /\ \A b \in call.bufs : dsp_h'[b] # -1
<1> DEFINE need == Need(call.op, call.bufs)
           fds  == SetToSeq(need)
           h    == [b \in Bufs |-> IF b \in need THEN down[1 + CHOOSE i \in DOMAIN fds : fds[i] = b] ELSE dsp_h[b]]
<1>1. /\ call.at = "imported" /\ Len(down) >= Words /\ down[1] = 0 /\ Read(Words) /\ dsp_h' = h
      /\ IF call.op = "import" THEN Returns /\ UNCHANGED <<access, up>>
         ELSE SendCommand(call.op, call.bufs, NoTok, h)
  BY DEF Imported
<1>2. /\ Words \in Nat /\ Len(down) = Words /\ Answered /\ Quiet /\ conn \notin {"run", "wait"}
      /\ sock = "open"
  BY <1>1, Collected DEF Traffic
<1>3. down' = <<>>
  BY <1>1, <1>2, ReadAll
<1>4. GivesHandles
  BY <1>1, <1>2 DEF Answered
<1>5. need \in SUBSET Bufs /\ dsp_h \in [Bufs -> Slots \cup {-1}]
  BY DEF TypeOK, ClientTypes, Need
<1> HIDE DEF need
<1>6. /\ DOMAIN fds = 1..Cardinality(need)
      /\ \A b \in need : \E i \in 1..Cardinality(need) : fds[i] = b
  BY <1>5, Order
<1> HIDE DEF fds
<1>7. \A i \in 1..Cardinality(need) : down[1 + i] \in Slots /\ (conn = "serve" => table[down[1 + i]] = fds[i])
  BY <1>4 DEF GivesHandles, need, fds
<1>8. \A b \in need : dsp_h'[b] \in Slots /\ (conn = "serve" => table[dsp_h'[b]] = b)
  <2> TAKE b \in need
  <2> DEFINE i == CHOOSE j \in DOMAIN fds : fds[j] = b
  <2>1. i \in 1..Cardinality(need) /\ fds[i] = b
    BY <1>6
  <2>2. dsp_h'[b] = down[1 + i]
    BY <1>1, <1>5
  <2>3. QED
    BY <2>1, <2>2, <1>7
<1>9. \A b \in Bufs \ need : dsp_h'[b] = dsp_h[b]
  BY <1>1
<1>10. dsp_h' \in [Bufs -> Slots \cup {-1}]
  <2>1. dsp_h' = [b \in Bufs |-> dsp_h'[b]]
    BY <1>1
  <2>2. \A b \in Bufs : dsp_h'[b] \in Slots \cup {-1}
    BY <1>5, <1>8, <1>9
  <2>3. QED
    BY <2>1, <2>2
<1>11. \/ call.op = "import" /\ call' = NoCall /\ UNCHANGED <<access, up>>
       \/ /\ call.op \in {"run", "submit"} /\ SendCommand(call.op, call.bufs, NoTok, dsp_h')
          /\ \A b \in call.bufs : dsp_h'[b] # -1
  <2>1. call.op \in {"import", "run", "submit"}
    BY <1>1 DEF Calls
  <2>2. CASE call.op = "import"
    BY <1>1, <2>2 DEF Returns
  <2>3. CASE call.op # "import"
    <3>1. SendCommand(call.op, call.bufs, NoTok, dsp_h')
      BY <1>1, <2>3
    <3>2. need = {b \in call.bufs : dsp_h[b] = -1} /\ call.bufs \in SUBSET Bufs
      BY <2>3 DEF need, Need, TypeOK, ClientTypes
    <3>3. \A b \in call.bufs : dsp_h'[b] # -1
      BY <3>2, <1>8, <1>9, Apart
    <3>4. QED
      BY <2>1, <2>3, <3>1, <3>3
  <2>4. QED
    BY <2>2, <2>3
<1>12. QED
  BY <1>2, <1>3, <1>8, <1>9, <1>10, <1>11 DEF need

-------------------------------------------------------------------------------
(* Types *)

\* barra_zc_cpu_begin and its end leave every buffer with one of the three accesses.
LEMMA GiveType ==
  ASSUME ClientTypes, NEW bs, NEW a \in {"cpu", "device"}, Give(bs, a)
  PROVE  access' \in [Bufs -> {"cpu", "device", "free"}]
  BY DEF ClientTypes, Give

\* No call is a value of call.
LEMMA NoCallType ==
  NoCall \in [op : {"none", "import", "release", "run", "submit", "wait"}, at : {"none", "imported", "answer"},
              bufs : SUBSET Bufs, tok : Tokens \cup {NoTok}]
  BY DEF NoCall

\* A command leaves access and call in their sets.
LEMMA CommandTypes ==
  ASSUME ClientTypes, NEW op \in {"release", "run", "submit", "wait"}, NEW bs \in SUBSET Bufs,
         NEW t \in Tokens \cup {NoTok}, NEW h, SendCommand(op, bs, t, h)
  PROVE  /\ access' \in [Bufs -> {"cpu", "device", "free"}]
         /\ call' \in [op : {"none", "import", "release", "run", "submit", "wait"},
                      at : {"none", "imported", "answer"}, bufs : SUBSET Bufs, tok : Tokens \cup {NoTok}]
<1>1. access' \in [Bufs -> {"cpu", "device", "free"}]
  BY GiveType DEF SendCommand, ClientTypes
<1>2. call' = [op |-> op, at |-> "answer", bufs |-> bs, tok |-> t]
  BY DEF SendCommand
<1>3. QED
  BY <1>1, <1>2

\* So does an import.
LEMMA ImportCallTypes ==
  ASSUME ClientTypes, NEW op \in {"import", "run", "submit"}, NEW bs \in SUBSET Bufs, SendImport(op, bs)
  PROVE  /\ UNCHANGED access
         /\ call' \in [op : {"none", "import", "release", "run", "submit", "wait"},
                      at : {"none", "imported", "answer"}, bufs : SUBSET Bufs, tok : Tokens \cup {NoTok}]
<1>1. call' = [op |-> op, at |-> "imported", bufs |-> bs, tok |-> NoTok] /\ UNCHANGED access
  BY DEF SendImport
<1>2. QED
  BY <1>1

\* Every step keeps the types of the client's variables.
LEMMA ClientTypesStep ==
  ASSUME IInv, Next
  PROVE  ClientTypes'
<1> USE DEF IInv
<1>1. ClientTypes
  BY DEF TypeOK
<1>2. CASE Open
  BY <1>1, <1>2 DEF Open, ClientTypes
<1>3. ASSUME NEW b \in Bufs, Free(b) \/ Alloc(b) PROVE ClientTypes'
  BY <1>1, <1>3 DEF Free, Alloc, ClientTypes
<1>4. CASE Close
  BY <1>1, <1>4 DEF Close, ClientTypes
<1>5. ASSUME NEW p \in pend, Wait(p) PROVE ClientTypes'
  <2>1. p.bufs \in SUBSET Bufs /\ p.tok \in Tokens /\ SendCommand("wait", p.bufs, p.tok, dsp_h)
        /\ pend' = pend \ {p} /\ UNCHANGED <<sock, dsp_h>>
    BY <1>1, <1>5 DEF Wait, ClientTypes
  <2>2. QED
    BY <1>1, <2>1, CommandTypes DEF ClientTypes
<1>6. ASSUME NEW p \in pend, WaitDead(p) PROVE ClientTypes'
  BY <1>1, <1>6 DEF WaitDead, ClientTypes
<1>7. ASSUME NEW bs \in SUBSET Bufs, Import(bs) PROVE ClientTypes'
  <2>1. SendImport("import", bs) /\ UNCHANGED <<sock, dsp_h, pend>>
    BY <1>7 DEF Import
  <2>2. QED
    BY <1>1, <2>1, ImportCallTypes DEF ClientTypes
<1>8. ASSUME NEW bs \in SUBSET Bufs, Release(bs) PROVE ClientTypes'
  <2>1. SendCommand("release", bs, NoTok, dsp_h) /\ UNCHANGED <<sock, dsp_h, pend>>
    BY <1>8 DEF Release
  <2>2. QED
    BY <1>1, <2>1, CommandTypes DEF ClientTypes
<1>9. ASSUME NEW bs \in SUBSET Bufs, NEW op \in {"run", "submit"}, RunOrSubmit(op, bs) PROVE ClientTypes'
  <2>1. SendImport(op, bs) \/ SendCommand(op, bs, NoTok, dsp_h)
    BY <1>9 DEF RunOrSubmit
  <2>2. UNCHANGED <<sock, dsp_h, pend>>
    BY <1>9 DEF RunOrSubmit
  <2>3. QED
    BY <1>1, <2>1, <2>2, ImportCallTypes, CommandTypes DEF ClientTypes
<1>10. CASE ImportRefused
  BY <1>1, <1>10, NoCallType DEF ImportRefused, Returns, ClientTypes
<1>11. CASE Imported
  <2>1. /\ dsp_h' \in [Bufs -> Slots \cup {-1}]
        /\ \/ call' = NoCall /\ UNCHANGED access
           \/ call.op \in {"run", "submit"} /\ SendCommand(call.op, call.bufs, NoTok, dsp_h')
    BY <1>11, HandlesArrive
  <2>2. call.bufs \in SUBSET Bufs /\ UNCHANGED <<sock, pend>>
    BY <1>1, <1>11 DEF Imported, ClientTypes
  <2>3. QED
    BY <1>1, <2>1, <2>2, CommandTypes, NoCallType DEF ClientTypes
<1>12. CASE Released
  BY <1>1, <1>12, NoCallType DEF Released, Answer, Returns, ClientTypes
<1>13. CASE Submitted
  <2>1. call.at = "answer" /\ call.op = "submit" /\ Len(down) >= Words /\ call' = NoCall /\ UNCHANGED <<sock, dsp_h>>
    BY <1>13 DEF Submitted, Answer, Returns
  <2>2. down = <<1, NoTok>> \/ \E t \in Tokens : down = <<0, t>>
    BY <2>1, Collected DEF Answered
  <2>3. pend' \subseteq [bufs : SUBSET Bufs, tok : Tokens]
    <3>1. CASE down[1] = 0
      BY <1>1, <1>13, <2>2, <3>1 DEF Submitted, ClientTypes
    <3>2. CASE down[1] # 0
      BY <1>1, <1>13, <3>2 DEF Submitted, ClientTypes
    <3>3. QED
      BY <3>1, <3>2
  <2>4. access' \in [Bufs -> {"cpu", "device", "free"}]
    BY <1>1, <1>13, GiveType DEF Submitted, ClientTypes
  <2>5. QED
    BY <1>1, <2>1, <2>3, <2>4, NoCallType DEF ClientTypes
<1>14. CASE RunOrWaitReturns
  <2>1. call' = NoCall /\ Give(call.bufs, "cpu") /\ UNCHANGED <<sock, dsp_h, pend>>
    BY <1>14 DEF RunOrWaitReturns, Answer, Returns
  <2>2. QED
    BY <1>1, <2>1, GiveType, NoCallType DEF ClientTypes
<1>15. CASE IoError
  <2>1. call' = NoCall /\ (Give(call.bufs, "cpu") \/ UNCHANGED access) /\ sock' = "closed" /\ UNCHANGED <<dsp_h, pend>>
    BY <1>15 DEF IoError, Returns
  <2>2. QED
    BY <1>1, <2>1, GiveType, NoCallType DEF ClientTypes
<1>16. CASE DaemonStep
  BY <1>1, <1>16, ClientKept DEF client, ClientTypes
<1>17. QED
  BY <1>2, <1>3, <1>4, <1>5, <1>6, <1>7, <1>8, <1>9, <1>10, <1>11, <1>12, <1>13, <1>14, <1>15, <1>16, Sides
     DEF LibraryCall, Library

-------------------------------------------------------------------------------
(* What is on the wire after a step *)

\* Between two calls no command and no answer is on the way.
LEMMA IdleQuiet ==
  ASSUME Calls, Traffic, call = NoCall
  PROVE  call.at = "none" /\ down = <<>> /\ Quiet /\ conn \notin {"run", "wait"}
  BY DEF Calls, Traffic

\* Once an import has been sent it is the only command in the queue.
LEMMA ImportAsked ==
  ASSUME TypeOK, Quiet, NEW op \in {"import", "run", "submit"}, NEW bs \in SUBSET Bufs, SendImport(op, bs),
         UNCHANGED <<dsp_h, conn>>
  PROVE  up' \in Seq(Items) /\ Asked' /\ call' = [op |-> op, at |-> "imported", bufs |-> bs, tok |-> NoTok]
<1>1. call' = [op |-> op, at |-> "imported", bufs |-> bs, tok |-> NoTok]
  BY DEF SendImport
<1> DEFINE it == ImportItems(op, bs)
<1>2. Query' = it
  BY <1>1 DEF Query, ImportItems, Need
<1>3. it \in Seq(Items) /\ Send(it)
  BY ImportSends DEF SendImport, TypeOK
<1> HIDE DEF it
<1>4. up' \in Seq(Items) /\ (conn = "serve" => up' = it \/ (up' # <<>> /\ up'[1].op = "payload"))
  BY <1>3, Sent DEF TypeOK, SocketTypes
<1>5. QED
  BY <1>1, <1>2, <1>4 DEF Asked, Stuck

\* So is a command, also one sent with the handles that have just arrived.
LEMMA CommandAsked ==
  ASSUME TypeOK, Quiet, NEW op \in {"release", "run", "submit", "wait"}, NEW bs \in SUBSET Bufs,
         NEW t \in Tokens \cup {NoTok}, SendCommand(op, bs, t, dsp_h'), dsp_h' \in [Bufs -> Slots \cup {-1}],
         UNCHANGED conn
  PROVE  up' \in Seq(Items) /\ Asked' /\ call' = [op |-> op, at |-> "answer", bufs |-> bs, tok |-> t]
<1>1. call' = [op |-> op, at |-> "answer", bufs |-> bs, tok |-> t]
  BY DEF SendCommand
<1> DEFINE it == CommandItems(op, bs, t, dsp_h')
<1>2. Query' = it
  BY <1>1 DEF Query
<1>3. it \in Seq(Items) /\ Send(it)
  BY CommandSends DEF SendCommand
<1> HIDE DEF it
<1>4. up' \in Seq(Items) /\ (conn = "serve" => up' = it \/ (up' # <<>> /\ up'[1].op = "payload"))
  BY <1>3, Sent DEF TypeOK, SocketTypes
<1>5. QED
  BY <1>1, <1>2, <1>4 DEF Asked, Stuck

\* The same for calls that do not import first.
LEMMA CommandAskedAtOnce ==
  ASSUME TypeOK, Quiet, NEW op \in {"release", "run", "submit", "wait"}, NEW bs \in SUBSET Bufs,
         NEW t \in Tokens \cup {NoTok}, SendCommand(op, bs, t, dsp_h), UNCHANGED <<dsp_h, conn>>
  PROVE  up' \in Seq(Items) /\ Asked' /\ call' = [op |-> op, at |-> "answer", bufs |-> bs, tok |-> t]
<1>1. dsp_h' = dsp_h /\ dsp_h' \in [Bufs -> Slots \cup {-1}]
  BY DEF TypeOK, ClientTypes
<1>2. SendCommand(op, bs, t, dsp_h')
  BY <1>1
<1>3. QED
  BY <1>1, <1>2, CommandAsked

\* A refusal is as long as the library expects the answer to be.
LEMMA RefusalType ==
  ASSUME NEW op \in {"import", "release", "run", "submit", "wait"}
  PROVE  /\ op \in {"import", "release"} => Refusal(op) = <<1>>
         /\ op = "submit" => Refusal(op) = <<1, NoTok>>
         /\ op \in {"run", "wait"} => Refusal(op) = <<1, 0, 0>>
         /\ Refusal(op) \in Seq(Int)
<1>1. /\ op \in {"import", "release"} => Refusal(op) = <<1>>
      /\ op = "submit" => Refusal(op) = <<1, NoTok>>
      /\ op \in {"run", "wait"} => Refusal(op) = <<1, 0, 0>>
  BY DEF Refusal
<1>2. <<1>> \in Seq(Int) /\ <<1, NoTok>> \in Seq(Int) /\ <<1, 0, 0>> \in Seq(Int)
  BY DEF NoTok
<1>3. QED
  BY <1>1, <1>2

\* The answer with the handles of k slots.
LEMMA FreeSlots ==
  ASSUME NEW k \in Nat, NEW free \in Lowest(k)
  PROVE  /\ free \in [1..k -> Slots \ Used] /\ free \in Seq(Int)
         /\ \A i, j \in 1..k : free[i] = free[j] => i = j
         /\ <<0>> \o free \in Seq(Int) /\ Len(<<0>> \o free) = 1 + k /\ (<<0>> \o free)[1] = 0
         /\ \A i \in 1..k : (<<0>> \o free)[1 + i] = free[i]
<1>1. free \in [1..k -> Slots \ Used] /\ \A i, j \in 1..k : i < j => free[i] < free[j]
  BY DEF Lowest
<1>2. free \in [1..k -> Int]
  <2>1. \A x \in Slots \ Used : x \in Int
    BY DEF Slots
  <2>2. QED
    BY <1>1, <2>1
<1>3. free \in Seq(Int) /\ Len(free) = k
  BY <1>2
<1>4. \A i, j \in 1..k : free[i] = free[j] => i = j
  <2> SUFFICES ASSUME NEW i \in 1..k, NEW j \in 1..k, free[i] = free[j], i # j PROVE FALSE
    OBVIOUS
  <2>1. free[i] \in Int /\ (free[i] < free[j] \/ free[j] < free[i])
    BY <1>1, <1>2
  <2>2. QED
    BY <2>1
<1>5. <<0>> \in Seq(Int) /\ Len(<<0>>) = 1
  OBVIOUS
<1>6. /\ <<0>> \o free \in Seq(Int) /\ Len(<<0>> \o free) = 1 + k
      /\ \A i \in 1..1 + k : (<<0>> \o free)[i] = IF i <= 1 THEN <<0>>[i] ELSE free[i - 1]
  BY <1>3, <1>5, ConcatProperties
<1>7. QED
  BY <1>1, <1>3, <1>4, <1>6

\* The words of a daemon that has been awaited are the whole answer.
LEMMA Said ==
  ASSUME down = <<>>, NEW ws \in Seq(Int), Say(ws)
  PROVE  down' = ws /\ down' \in Seq(Int)
  BY ConcatEmptySeq DEF Say

\* Between two calls of the library.
LEMMA IdleTraffic ==
  ASSUME call'.at = "none", down' = <<>>, Quiet', conn' \notin {"run", "wait"}
  PROVE  Traffic'
  BY DEF Traffic

\* A call has been sent.
LEMMA AskedTraffic ==
  ASSUME call'.at \in {"imported", "answer"}, sock' = "open", down' = <<>>, Asked', conn' \notin {"run", "wait"}
  PROVE  Traffic'
  BY DEF Traffic, Awaited

\* It has been answered.
LEMMA AnsweredTraffic ==
  ASSUME call'.at # "none", sock' = "open", Answered', Quiet', conn' \notin {"run", "wait"}
  PROVE  Traffic'
  BY DEF Traffic

\* The steps of the application and the library keep the wire in order.
LEMMA WireClient ==
  ASSUME IInv, Open \/ (\E b \in Bufs : Free(b)) \/ LibraryCall
  PROVE  SocketTypes' /\ Traffic'
<1> USE DEF IInv
<1>1. up \in Seq(Items) /\ down \in Seq(Int) /\ dsp_h \in [Bufs -> Slots \cup {-1}]
  BY DEF TypeOK, SocketTypes, ClientTypes
<1>2. CASE Open
  <2>1. call.at = "none" /\ UNCHANGED call /\ up' = <<>> /\ down' = <<>> /\ conn' = "serve"
    BY <1>2, IdleQuiet DEF Open
  <2>2. QED
    BY <2>1, IdleTraffic DEF Quiet, SocketTypes
<1>3. ASSUME NEW b \in Bufs, Free(b) PROVE SocketTypes' /\ Traffic'
  <2>1. call.at = "none" /\ down = <<>> /\ Quiet /\ conn \notin {"run", "wait"} /\ UNCHANGED <<call, up, down, conn>>
    BY <1>3, IdleQuiet DEF Free, DaemonForgets
  <2>2. QED
    BY <1>1, <2>1, IdleTraffic DEF Quiet, Stuck, SocketTypes
<1>4. CASE Close \/ (\E p \in pend : WaitDead(p)) \/ \E b \in Bufs : Alloc(b)
  <2>1. call.at = "none" /\ down = <<>> /\ Quiet /\ conn \notin {"run", "wait"} /\ UNCHANGED <<call, up, down, conn>>
    BY <1>4, IdleQuiet DEF Close, WaitDead, Alloc, daemon
  <2>2. QED
    BY <1>1, <2>1, IdleTraffic DEF Quiet, Stuck, SocketTypes
<1>5. ASSUME Idle, UNCHANGED <<sock, down, conn, dsp_h>>, NEW op \in {"release", "run", "submit", "wait"},
             NEW bs \in SUBSET Bufs, NEW t \in Tokens \cup {NoTok}, SendCommand(op, bs, t, dsp_h)
      PROVE  SocketTypes' /\ Traffic'
  <2>1. down = <<>> /\ Quiet /\ conn \notin {"run", "wait"} /\ sock = "open"
    BY <1>5, IdleQuiet DEF Idle
  <2>2. up' \in Seq(Items) /\ Asked' /\ call'.at = "answer"
    BY <1>5, <2>1, CommandAskedAtOnce
  <2>3. QED
    BY <1>1, <1>5, <2>1, <2>2, AskedTraffic DEF SocketTypes
<1>6. ASSUME Idle, UNCHANGED <<sock, down, conn, dsp_h>>, NEW op \in {"import", "run", "submit"},
             NEW bs \in SUBSET Bufs, SendImport(op, bs)
      PROVE  SocketTypes' /\ Traffic'
  <2>1. down = <<>> /\ Quiet /\ conn \notin {"run", "wait"} /\ sock = "open"
    BY <1>6, IdleQuiet DEF Idle
  <2>2. up' \in Seq(Items) /\ Asked' /\ call'.at = "imported"
    BY <1>6, <2>1, ImportAsked
  <2>3. QED
    BY <1>1, <1>6, <2>1, <2>2, AskedTraffic DEF SocketTypes
<1>7. ASSUME NEW p \in pend, Wait(p) PROVE SocketTypes' /\ Traffic'
  <2>1. p.bufs \in SUBSET Bufs /\ p.tok \in Tokens
    BY DEF TypeOK, ClientTypes
  <2>2. Idle /\ UNCHANGED <<sock, down, conn, dsp_h>> /\ SendCommand("wait", p.bufs, p.tok, dsp_h)
    BY <1>7 DEF Wait, daemon
  <2>3. QED
    BY <1>5, <2>1, <2>2
<1>8. ASSUME NEW bs \in SUBSET Bufs, Import(bs) \/ Release(bs) PROVE SocketTypes' /\ Traffic'
  <2>1. Idle /\ UNCHANGED <<sock, down, conn, dsp_h>>
        /\ (SendImport("import", bs) \/ SendCommand("release", bs, NoTok, dsp_h))
    BY <1>8 DEF Import, Release, daemon
  <2>2. QED
    BY <1>5, <1>6, <2>1
<1>9. ASSUME NEW bs \in SUBSET Bufs, NEW op \in {"run", "submit"}, RunOrSubmit(op, bs)
      PROVE  SocketTypes' /\ Traffic'
  <2>1. Idle /\ UNCHANGED <<sock, down, conn, dsp_h>>
        /\ (SendImport(op, bs) \/ SendCommand(op, bs, NoTok, dsp_h))
    BY <1>9 DEF RunOrSubmit, daemon
  <2>2. QED
    BY <1>5, <1>6, <2>1
<1>10. CASE ImportRefused
  <2>1. call.at = "imported" /\ down # <<>> /\ down[1] # 0 /\ Read(1) /\ call' = NoCall /\ UNCHANGED <<up, conn>>
    BY <1>10 DEF ImportRefused, Returns, daemon
  <2>2. Quiet /\ conn \notin {"run", "wait"} /\ down = <<1>>
    BY <2>1 DEF Traffic, Awaited, Answered, GivesHandles
  <2>3. down' \in Seq(Int) /\ down' = <<>>
    BY <2>1, <2>2, ReadAll
  <2>4. QED
    BY <1>1, <2>1, <2>2, <2>3, IdleTraffic DEF NoCall, Quiet, Stuck, SocketTypes
<1>11. CASE Imported
  <2>1. /\ sock = "open" /\ Quiet /\ conn \notin {"run", "wait"} /\ down' = <<>>
        /\ dsp_h' \in [Bufs -> Slots \cup {-1}]
        /\ \/ call' = NoCall /\ UNCHANGED up
           \/ call.op \in {"run", "submit"} /\ SendCommand(call.op, call.bufs, NoTok, dsp_h')
    BY <1>11, HandlesArrive
  <2>2. UNCHANGED <<sock, conn>>
    BY <1>11 DEF Imported, daemon
  <2>3. CASE call' = NoCall /\ UNCHANGED up
    BY <1>1, <2>1, <2>2, <2>3, IdleTraffic DEF NoCall, Quiet, Stuck, SocketTypes
  <2>4. CASE call.op \in {"run", "submit"} /\ SendCommand(call.op, call.bufs, NoTok, dsp_h')
    <3>1. call.bufs \in SUBSET Bufs
      BY DEF TypeOK, ClientTypes
    <3>2. up' \in Seq(Items) /\ Asked' /\ call'.at = "answer"
      BY <2>1, <2>2, <2>4, <3>1, CommandAsked
    <3>3. QED
      BY <2>1, <2>2, <3>2, AskedTraffic DEF SocketTypes
  <2>5. QED
    BY <2>1, <2>3, <2>4
<1>12. CASE Released \/ Submitted \/ RunOrWaitReturns
  <2>1. call.at = "answer" /\ Len(down) >= Words /\ Read(Words) /\ call' = NoCall /\ UNCHANGED <<up, conn>>
    BY <1>12 DEF Released, Submitted, RunOrWaitReturns, Answer, Returns, daemon
  <2>2. Words \in Nat /\ Len(down) = Words /\ Quiet /\ conn \notin {"run", "wait"}
    BY <2>1, Collected
  <2>3. down' = <<>>
    BY <2>1, <2>2, ReadAll
  <2>4. QED
    BY <1>1, <2>1, <2>2, <2>3, IdleTraffic DEF NoCall, Quiet, Stuck, SocketTypes
<1>13. CASE IoError
  <2>1. /\ call.at # "none" /\ Len(down) < Words /\ conn \in {"none", "down"}
        /\ call' = NoCall /\ UNCHANGED <<up, down, conn>>
    BY <1>13 DEF IoError, Returns, daemon
  <2>2. down = <<>>
    <3>1. Words \in Nat /\ Len(down) \in Nat
      BY <1>1, <2>1, Collected
    <3>2. ~(Len(down) >= Words)
      BY <2>1, <3>1
    <3>3. QED
      BY <2>1, <3>2, Collected
  <2>3. QED
    BY <1>1, <2>1, <2>2, IdleTraffic DEF NoCall, Quiet, SocketTypes
<1>14. QED
  BY <1>2, <1>3, <1>4, <1>7, <1>8, <1>9, <1>10, <1>11, <1>12, <1>13 DEF LibraryCall, Library

\* The same for the steps of the daemon, which answer the call under way or none.
LEMMA WireDaemon ==
  ASSUME IInv, DaemonStep
  PROVE  SocketTypes' /\ Traffic'
<1> USE DEF IInv
<1>1. /\ up \in Seq(Items) /\ down \in Seq(Int) /\ call.bufs \in SUBSET Bufs
      /\ call.op \in {"none", "import", "release", "run", "submit", "wait"}
  BY DEF TypeOK, SocketTypes, ClientTypes
<1>2. UNCHANGED <<sock, dsp_h, access, call, pend>>
  BY ClientKept DEF client
<1>3. CASE Refuse
  <2>1. Serving /\ up[1].op # "wait" /\ Say(Refusal(up[1].op)) /\ Drop(1) /\ UNCHANGED conn
    BY <1>3 DEF Refuse, daemon
  <2>2. conn = "serve" /\ sock = "open" /\ call.at # "none" /\ down = <<>> /\ up[1] \in Items /\ up[1].op # "payload"
    BY <2>1, Served DEF Serving
  <2>3. up[1].op \in {"import", "release", "run", "submit", "wait"}
    BY <2>2 DEF Items
  <2>4. down' = Refusal(up[1].op) /\ down' \in Seq(Int)
    BY <2>1, <2>2, <2>3, RefusalType, Said
  <2>5. up' \in Seq(Items) /\ Quiet'
    <3>1. Len(up) = 2 /\ up[2].op = "payload"
      BY <2>1, ImportServed, CommandServed
    <3>2. up' \in Seq(Items) /\ up' # <<>> /\ up'[1] = up[2]
      BY <2>1, <3>1, Dropped
    <3>3. QED
      BY <3>1, <3>2 DEF Quiet, Stuck
  <2>6. Answered'
    <3>1. CASE up[1].op = "import"
      BY <1>2, <2>1, <2>4, <3>1, ImportServed, RefusalType DEF Answered
    <3>2. CASE up[1].op # "import"
      <4>1. call.at = "answer" /\ call.op = up[1].op /\ call.op \in {"release", "run", "submit"}
        BY <2>1, <3>2, CommandServed
      <4>2. CASE call.op = "release"
        BY <1>2, <2>4, <4>1, <4>2, RefusalType DEF Answered
      <4>3. CASE call.op = "submit"
        BY <1>2, <2>4, <4>1, <4>3, RefusalType DEF Answered
      <4>4. CASE call.op = "run"
        <5>1. down' = <<1, 0, 0>>
          BY <2>4, <4>1, <4>4, RefusalType
        <5>2. QED
          BY <1>2, <4>1, <4>4, <5>1 DEF Answered
      <4>5. QED
        BY <4>1, <4>2, <4>3, <4>4
    <3>3. QED
      BY <3>1, <3>2
  <2>7. QED
    BY <1>2, <2>1, <2>2, <2>4, <2>5, <2>6, AnsweredTraffic DEF SocketTypes
<1>4. CASE DoImport
  <2>1. /\ Serving /\ up[1].op = "import" /\ Drop(2) /\ UNCHANGED conn
    BY <1>4 DEF DoImport, Taken
  <2>2. conn = "serve" /\ sock = "open" /\ call.at # "none" /\ down = <<>>
    BY <2>1, Served
  <2> DEFINE need == Need(call.op, call.bufs)
             fds  == SetToSeq(need)
  <2>3. /\ call.at = "imported" /\ need \in SUBSET Bufs /\ Len(up) = 2
        /\ up[1].n = Cardinality(need) /\ up[2].fds = fds
    BY <2>1, ImportServed
  <2>4. Cardinality(need) \in Nat
    BY <2>3, Order
  <2>5. need' = need
    BY <1>2 DEF Need
  <2> HIDE DEF need, fds
  <2>6. up' \in Seq(Items) /\ Quiet'
    BY <2>1, <2>3, Dropped DEF Quiet
  <2>7. PICK k \in 0 .. up[1].n : \E free \in Lowest(k) : FillSlots(k, free)
    BY <1>4 DEF DoImport, FillSlots
  <2>8. k \in Nat
    BY <2>3, <2>4, <2>7
  <2> PICK free \in Lowest(k) : FillSlots(k, free)
    BY <2>7
  <2>fill. /\ table' = [s \in Slots |-> IF s \in Range(free)
                                    THEN Payload.fds[CHOOSE i \in 1..k : free[i] = s] ELSE table[s]]
        /\ Say(IF k = up[1].n THEN <<0>> \o free ELSE <<1>>)
    BY DEF FillSlots
  <2>9. CASE k = up[1].n
    <3>1. /\ free \in [1..k -> Slots \ Used] /\ \A i, j \in 1..k : free[i] = free[j] => i = j
          /\ <<0>> \o free \in Seq(Int) /\ Len(<<0>> \o free) = 1 + k /\ (<<0>> \o free)[1] = 0
          /\ \A i \in 1..k : (<<0>> \o free)[1 + i] = free[i]
      BY <2>8, FreeSlots
    <3>2. down' = <<0>> \o free /\ down' \in Seq(Int)
      BY <2>2, <2>fill, <2>9, <3>1, Said
    <3>3. \A i \in 1..k : free[i] \in Slots /\ table'[free[i]] = fds[i]
      <4> TAKE i \in 1..k
      <4>1. free[i] \in Slots /\ free[i] \in Range(free)
        BY <3>1 DEF Range
      <4>2. (CHOOSE j \in 1..k : free[j] = free[i]) = i
        BY <3>1
      <4>3. table'[free[i]] = Payload.fds[CHOOSE j \in 1..k : free[j] = free[i]]
        BY <2>fill, <4>1
      <4>4. QED
        BY <2>3, <4>1, <4>2, <4>3 DEF Payload
    <3>4. Len(down') = 1 + Cardinality(need) /\ down'[1] = 0
          /\ \A i \in 1..Cardinality(need) : down'[1 + i] \in Slots /\ table'[down'[1 + i]] = fds[i]
      BY <2>3, <2>9, <3>1, <3>2, <3>3
    <3>5. GivesHandles'
      BY <1>2, <2>5, <3>4 DEF GivesHandles, need, fds
    <3>6. Answered'
      BY <1>2, <2>3, <3>5 DEF Answered
    <3>7. QED
      BY <1>2, <2>1, <2>2, <2>6, <3>2, <3>6, AnsweredTraffic DEF SocketTypes
  <2>10. CASE k # up[1].n
    <3>1. down' = <<1>> /\ down' \in Seq(Int)
      <4>1. <<1>> \in Seq(Int) /\ Say(<<1>>)
        BY <2>fill, <2>10
      <4>2. QED
        BY <2>2, <4>1, Said
    <3>2. Answered'
      BY <1>2, <2>3, <3>1 DEF Answered
    <3>3. QED
      BY <1>2, <2>1, <2>2, <2>6, <3>1, <3>2, AnsweredTraffic DEF SocketTypes
  <2>11. QED
    BY <2>9, <2>10
<1>5. CASE DoRelease
  <2>1. Serving /\ up[1].op = "release" /\ Drop(2) /\ Say(<<0>>) /\ UNCHANGED conn
    BY <1>5 DEF DoRelease, Taken
  <2>2. conn = "serve" /\ sock = "open" /\ down = <<>>
    BY <2>1, Served
  <2>3. call.at = "answer" /\ call.op = "release" /\ Len(up) = 2
    BY <2>1, CommandServed
  <2>4. up' \in Seq(Items) /\ Quiet'
    BY <2>1, <2>3, Dropped DEF Quiet
  <2>5. <<0>> \in Seq(Int)
    OBVIOUS
  <2>6. down' = <<0>> /\ down' \in Seq(Int)
    BY <2>1, <2>2, <2>5, Said
  <2>7. QED
    BY <1>2, <2>1, <2>2, <2>3, <2>4, <2>6, AnsweredTraffic DEF Answered, SocketTypes
<1>6. ASSUME NEW op \in {"run", "submit"}, Fails(op) PROVE SocketTypes' /\ Traffic'
  <2>1. Serving /\ up[1].op = op /\ Say(Refusal(op)) /\ (Dies \/ (Drop(2) /\ UNCHANGED conn))
    BY <1>6 DEF Fails, Taken
  <2>2. conn = "serve" /\ sock = "open" /\ down = <<>>
    BY <2>1, Served
  <2>3. call.at = "answer" /\ call.op = op /\ Len(up) = 2
    BY <2>1, CommandServed
  <2>4. up' \in Seq(Items) /\ Quiet' /\ conn' \in {"serve", "down"}
    <3>1. CASE Dies
      BY <3>1 DEF Dies, Quiet
    <3>2. CASE Drop(2) /\ UNCHANGED conn
      BY <2>2, <2>3, <3>2, Dropped DEF Quiet
    <3>3. QED
      BY <2>1, <3>1, <3>2
  <2>5. down' = Refusal(op) /\ down' \in Seq(Int)
    BY <2>1, <2>2, RefusalType, Said
  <2>6. Answered'
    <3>1. CASE op = "submit"
      BY <1>2, <2>3, <2>5, <3>1, RefusalType DEF Answered
    <3>2. CASE op = "run"
      <4>1. down' = <<1, 0, 0>>
        BY <2>5, <3>2, RefusalType
      <4>2. QED
        BY <1>2, <2>3, <3>2, <4>1 DEF Answered
    <3>3. QED
      BY <3>1, <3>2
  <2>7. QED
    BY <1>2, <2>2, <2>3, <2>4, <2>5, <2>6, AnsweredTraffic DEF SocketTypes
<1>7. CASE DoRun
  <2>1. Serving /\ up[1].op = "run" /\ Drop(2) /\ conn' = "run" /\ UNCHANGED down
    BY <1>7 DEF DoRun, Taken, Start
  <2>2. sock = "open" /\ down = <<>>
    BY <2>1, Served
  <2>3. call.at = "answer" /\ call.op = "run" /\ Len(up) = 2
    BY <2>1, CommandServed
  <2>4. up' \in Seq(Items) /\ up' = <<>>
    BY <2>1, <2>3, Dropped
  <2>5. QED
    BY <1>1, <1>2, <2>1, <2>2, <2>3, <2>4 DEF Traffic, Awaited, Asked, SocketTypes
<1>8. CASE DoSubmit
  <2>1. PICK t \in Tokens : Start(t) /\ Say(<<0, t>>)
    BY <1>8 DEF DoSubmit
  <2>2. Serving /\ up[1].op = "submit" /\ Drop(2) /\ UNCHANGED conn
    BY <1>8 DEF DoSubmit, Taken, Start
  <2>3. conn = "serve" /\ sock = "open" /\ down = <<>>
    BY <2>2, Served
  <2>4. call.at = "answer" /\ call.op = "submit" /\ Len(up) = 2
    BY <2>2, CommandServed
  <2>5. up' \in Seq(Items) /\ Quiet'
    BY <2>2, <2>4, Dropped DEF Quiet
  <2>6. <<0, t>> \in Seq(Int)
    BY DEF Tokens
  <2>7. down' = <<0, t>> /\ down' \in Seq(Int)
    BY <2>1, <2>3, <2>6, Said
  <2>8. Answered'
    BY <1>2, <2>4, <2>7 DEF Answered
  <2>9. QED
    BY <1>2, <2>2, <2>3, <2>4, <2>5, <2>7, <2>8, AnsweredTraffic DEF SocketTypes
<1>9. CASE WaitUnknown \/ DoWait
  <2>1. Serving /\ up[1].op = "wait" /\ Drop(1)
    BY <1>9 DEF WaitUnknown, DoWait
  <2>2. conn = "serve" /\ sock = "open" /\ down = <<>>
    BY <2>1, Served
  <2>3. call.at = "answer" /\ call.op = "wait" /\ call.tok = up[1].tok /\ Len(up) = 1
    BY <2>1, CommandServed
  <2>4. up' \in Seq(Items) /\ up' = <<>>
    BY <2>1, <2>3, Dropped
  <2>5. CASE WaitUnknown
    <3>1. down' = <<1, 0, 0>> /\ down' \in Seq(Int)
      BY <2>2, <2>5, RefusalType, Said DEF WaitUnknown
    <3>2. req'[call'.tok].fw # "running" /\ UNCHANGED conn
      BY <1>2, <2>3, <2>5 DEF WaitUnknown, NoReq, daemon
    <3>3. Answered'
      BY <1>2, <2>3, <3>1, <3>2 DEF Answered
    <3>4. QED
      BY <1>2, <2>2, <2>3, <2>4, <3>1, <3>2, <3>3, AnsweredTraffic DEF SocketTypes, Quiet
  <2>6. CASE DoWait
    <3>1. conn' = "wait" /\ cmd' = call.tok /\ UNCHANGED down
      BY <2>3, <2>6 DEF DoWait
    <3>2. QED
      BY <1>1, <1>2, <2>2, <2>3, <2>4, <3>1 DEF Traffic, Awaited, Asked, SocketTypes
  <2>7. QED
    BY <1>9, <2>5, <2>6
<1>10. ASSUME NEW r \in Reqs, Done(r) PROVE SocketTypes' /\ Traffic'
  <2>1. conn \in {"run", "wait"} /\ (conn = "wait" => r = cmd)
    BY <1>10 DEF Done
  <2>2. call.at = "answer" /\ sock = "open" /\ down = <<>> /\ call.op = conn /\ up = <<>> /\ (conn = "wait" => cmd = call.tok)
    BY <2>1 DEF Traffic, Awaited
  <2>3. Len(down') = 3 /\ down' \in Seq(Int)
    <3>1. <<0, 0, 0>> \in Seq(Int) /\ <<1, 0, 0>> \in Seq(Int) /\ Refusal("wait") = <<1, 0, 0>>
      BY RefusalType
    <3>2. Say(<<0, 0, 0>>) \/ Say(<<1, 0, 0>>)
      BY <1>10, <3>1 DEF Done
    <3>3. down' = <<0, 0, 0>> \/ down' = <<1, 0, 0>>
      BY <2>2, <3>1, <3>2, Said
    <3>4. QED
      BY <3>1, <3>3
  <2>4. up' = <<>> /\ conn' \in {"serve", "down"} /\ (conn = "wait" => req'[r].fw # "running")
    <3>1. CASE Dies
      BY <2>2, <3>1 DEF Dies, NoReq
    <3>2. CASE conn' = "serve" /\ req' = [req EXCEPT ![r] = NoReq] /\ UNCHANGED <<up, table>>
      BY <2>2, <3>2 DEF NoReq, TypeOK, DaemonTypes
    <3>3. QED
      BY <1>10, <3>1, <3>2 DEF Done
  <2>5. Answered'
    BY <1>2, <2>1, <2>2, <2>3, <2>4 DEF Answered
  <2>6. QED
    BY <1>2, <2>2, <2>3, <2>4, <2>5, AnsweredTraffic DEF SocketTypes, Quiet
<1>11. CASE LeaveLoop \/ End \/ Restart
  <2>1. /\ conn \notin {"run", "wait"} /\ conn' \notin {"serve", "run", "wait"} /\ UNCHANGED down
        /\ (UNCHANGED up \/ up' = <<>>) /\ (UNCHANGED req \/ req' = [r \in Reqs |-> NoReq])
    BY <1>11 DEF LeaveLoop, End, Restart
  <2>2. SocketTypes'
    <3>1. <<>> \in Seq(Items)
      OBVIOUS
    <3>2. up' \in Seq(Items) /\ down' \in Seq(Int)
      BY <1>1, <2>1, <3>1
    <3>3. QED
      BY <3>2 DEF SocketTypes
  <2>3. call.at = "none" => Traffic'
    BY <1>2, <2>1 DEF Traffic, Quiet
  <2>4. call.at # "none" /\ Awaited => Traffic'
    BY <1>2, <2>1 DEF Traffic, Awaited, Asked
  <2>5. call.at # "none" /\ Answered => Traffic'
    <3>1. SUFFICES ASSUME call.at # "none", Answered PROVE Answered'
      BY <1>2, <2>1 DEF Traffic, Quiet
    <3>2. call.op = "wait" /\ call.at = "answer" => call.tok \in Reqs
      BY Apart DEF Calls
    <3>3. GivesHandles => GivesHandles'
      BY <1>2, <2>1 DEF GivesHandles, Need
    <3>4. call.op = "wait" /\ call.at = "answer" /\ req[call.tok].fw # "running" => req'[call.tok].fw # "running"
      BY <2>1, <3>2 DEF NoReq
    <3>5. QED
      BY <1>2, <2>1, <3>1, <3>3, <3>4 DEF Answered
  <2>6. QED
    BY <2>2, <2>3, <2>4, <2>5 DEF Traffic
<1>12. CASE Watchdog \/ \E r \in Reqs : Finish(r)
  <2>1. UNCHANGED <<up, down, conn, cmd, table>>
    BY <1>12 DEF Watchdog, Finish
  <2>2. \A r \in Reqs : req[r].fw # "running" => req'[r].fw # "running"
    BY <1>12 DEF Watchdog, Finish, TypeOK, DaemonTypes
  <2>3. call.op = "wait" /\ call.at = "answer" => call.tok \in Reqs
    BY Apart DEF Calls
  <2>4. Query' = Query /\ (GivesHandles => GivesHandles')
    BY <1>2, <2>1 DEF Query, ImportItems, Need, GivesHandles
  <2>5. (Asked => Asked') /\ (Quiet => Quiet')
    BY <2>1, <2>4 DEF Asked, Quiet, Stuck
  <2>6. (Awaited => Awaited') /\ (Answered => Answered')
    BY <1>2, <2>1, <2>2, <2>3, <2>4, <2>5 DEF Awaited, Answered
  <2>7. QED
    BY <1>1, <1>2, <2>1, <2>5, <2>6 DEF Traffic, SocketTypes
<1>13. QED
  BY <1>3, <1>4, <1>5, <1>6, <1>7, <1>8, <1>9, <1>10, <1>11, <1>12 DEF DaemonStep, Daemon

-------------------------------------------------------------------------------
(* The calls and the access to the buffers *)

Books == Calls /\ Pending /\ OpenBrackets

\* The access to the buffers given, and to the others.
LEMMA Given ==
  ASSUME ClientTypes, NEW bs, NEW a, Give(bs, a)
  PROVE  \A b \in Bufs : access'[b] = IF b \in bs THEN a ELSE access[b]
  BY DEF Give, ClientTypes

\* A call that has returned has no books to keep.
LEMMA ReturnedCalls ==
  ASSUME call' = NoCall
  PROVE  Calls'
  BY DEF Calls, NoCall

\* Submits that are left as they were.
LEMMA PendingKept ==
  ASSUME ClientTypes, Pending, pend' \subseteq pend, \A b \in Busy : access'[b] = access[b]
  PROVE  Pending'
  BY DEF ClientTypes, Pending, Busy

\* A call that begins with an import.
LEMMA ImportBooks ==
  ASSUME IInv, Idle, NEW op \in {"import", "run", "submit"}, NEW bs \in SUBSET Bufs, Passable(bs),
         SendImport(op, bs), UNCHANGED <<sock, pend>>
  PROVE  Books'
<1>1. call.at = "none" /\ Calls /\ Pending /\ OpenBrackets /\ ClientTypes
  BY DEF Idle, NoCall, IInv, TypeOK
<1>2. call' = [op |-> op, at |-> "imported", bufs |-> bs, tok |-> NoTok] /\ UNCHANGED access
  BY DEF SendImport
<1>3. bs # {} /\ bs \cap Busy = {} /\ \A b \in bs : access[b] = "cpu"
  BY DEF Passable
<1>4. Busy' = Busy
  BY DEF Busy
<1>5. Calls'
  BY <1>2, <1>3, <1>4 DEF Calls, NoCall
<1>6. Pending'
  BY <1>1, <1>2, PendingKept
<1>7. OpenBrackets'
  BY <1>1, <1>2, <1>4 DEF OpenBrackets
<1>8. QED
  BY <1>5, <1>6, <1>7 DEF Books

\* A run or submit whose buffers all have handles.
LEMMA CommandBooks ==
  ASSUME IInv, NEW op \in {"run", "submit"}, NEW bs \in SUBSET Bufs, NEW h, SendCommand(op, bs, NoTok, h),
         bs # {}, bs \cap Busy = {}, \A b \in bs : dsp_h'[b] # -1, UNCHANGED <<sock, pend>>,
         call.at # "answer"
  PROVE  Books'
<1>1. Calls /\ Pending /\ OpenBrackets /\ ClientTypes
  BY DEF IInv, TypeOK
<1>2. call' = [op |-> op, at |-> "answer", bufs |-> bs, tok |-> NoTok] /\ Give(bs, "device")
  BY DEF SendCommand
<1>3. \A b \in Bufs : access'[b] = IF b \in bs THEN "device" ELSE access[b]
  BY <1>1, <1>2, Given
<1>4. Busy' = Busy /\ Busy \subseteq Bufs
  BY <1>1 DEF Busy, ClientTypes
<1>5. Calls'
  BY <1>2, <1>3, <1>4 DEF Calls, NoCall
<1>6. Pending'
  BY <1>1, <1>3, <1>4, PendingKept
<1>7. OpenBrackets'
  BY <1>1, <1>2, <1>3, <1>4 DEF OpenBrackets
<1>8. QED
  BY <1>5, <1>6, <1>7 DEF Books

\* Every step keeps the books.
LEMMA BooksStep ==
  ASSUME IInv, Next
  PROVE  Books'
<1>1. Calls /\ Pending /\ OpenBrackets /\ ClientTypes /\ TypeOK /\ Traffic
  BY DEF IInv, TypeOK
<1>2. Busy \subseteq Bufs /\ call.bufs \subseteq Bufs /\ \A b \in Busy : access[b] = "device"
  BY <1>1 DEF Busy, ClientTypes, Pending
<1>3. CASE Open
  <2>1. call' = NoCall /\ UNCHANGED <<access, pend>> /\ \A b \in Bufs : access[b] = "free"
    BY <1>3 DEF Open
  <2>2. Pending' /\ OpenBrackets'
    BY <1>1, <2>1, PendingKept DEF OpenBrackets
  <2>3. QED
    BY <2>1, <2>2, ReturnedCalls DEF Books
<1>4. ASSUME NEW b \in Bufs, Alloc(b) \/ Free(b) PROVE Books'
  <2>1. /\ call = NoCall /\ UNCHANGED <<sock, call, pend>> /\ b \notin Busy
        /\ access' = [access EXCEPT ![b] = "cpu"] \/ access' = [access EXCEPT ![b] = "free"]
    BY <1>2, <1>4 DEF Alloc, Free
  <2>2. access'[b] # "device" /\ \A x \in Bufs \ {b} : access'[x] = access[x]
    BY <1>1, <2>1 DEF ClientTypes
  <2>3. Pending'
    BY <1>1, <1>2, <2>1, <2>2, PendingKept
  <2>4. OpenBrackets'
    BY <1>1, <2>1, <2>2 DEF OpenBrackets, Busy
  <2>5. QED
    BY <2>1, <2>3, <2>4, ReturnedCalls DEF Books
<1>5. CASE Close \/ \E p \in pend : WaitDead(p)
  <2>1. call' = NoCall /\ sock' = "closed" /\ pend' \subseteq pend /\ UNCHANGED access
    BY <1>5 DEF Close, WaitDead
  <2>2. Pending' /\ OpenBrackets'
    BY <1>1, <2>1, PendingKept DEF OpenBrackets
  <2>3. QED
    BY <2>1, <2>2, ReturnedCalls DEF Books
<1>6. ASSUME NEW p \in pend, Wait(p) PROVE Books'
  <2>1. /\ call' = [op |-> "wait", at |-> "answer", bufs |-> p.bufs, tok |-> p.tok]
        /\ pend' = pend \ {p} /\ UNCHANGED <<sock, access>> /\ call = NoCall
    BY <1>6 DEF Wait, SendCommand, Idle
  <2>2. p.bufs # {} /\ p.tok \in Tokens /\ \A b \in p.bufs : access[b] = "device"
    BY <1>1 DEF Pending, ClientTypes
  <2>3. p.bufs \cap Busy' = {} /\ Busy \subseteq Busy' \cup p.bufs
    BY <1>1, <2>1 DEF Pending, Busy
  <2>4. Calls'
    BY <2>1, <2>2, <2>3 DEF Calls, NoCall
  <2>5. Pending'
    BY <1>1, <2>1, PendingKept
  <2>6. OpenBrackets'
    BY <1>1, <2>1, <2>3 DEF OpenBrackets, NoCall
  <2>7. QED
    BY <2>4, <2>5, <2>6 DEF Books
<1>7. ASSUME NEW bs \in SUBSET Bufs, Import(bs) PROVE Books'
  BY <1>7, ImportBooks DEF Import
<1>8. ASSUME NEW bs \in SUBSET Bufs, Release(bs) PROVE Books'
  <2>1. /\ call' = [op |-> "release", at |-> "answer", bufs |-> bs, tok |-> NoTok]
        /\ UNCHANGED <<sock, access, pend>> /\ call = NoCall
    BY <1>8 DEF Release, SendCommand, Idle
  <2>2. Pending'
    BY <1>1, <2>1, PendingKept
  <2>3. Calls' /\ OpenBrackets'
    BY <1>1, <2>1 DEF Calls, OpenBrackets, NoCall, Busy
  <2>4. QED
    BY <2>2, <2>3 DEF Books
<1>9. ASSUME NEW bs \in SUBSET Bufs, NEW op \in {"run", "submit"}, RunOrSubmit(op, bs) PROVE Books'
  <2>1. Idle /\ Passable(bs) /\ UNCHANGED <<sock, dsp_h, pend>>
    BY <1>9 DEF RunOrSubmit
  <2>2. CASE Need(op, bs) # {}
    BY <1>9, <2>1, <2>2, ImportBooks DEF RunOrSubmit
  <2>3. CASE Need(op, bs) = {}
    <3>1. \A b \in bs : dsp_h'[b] # -1
      BY <2>1, <2>3 DEF Need
    <3>2. bs # {} /\ bs \cap Busy = {} /\ call.at # "answer"
      BY <2>1 DEF Passable, Idle, NoCall
    <3>3. SendCommand(op, bs, NoTok, dsp_h)
      BY <1>9, <2>3 DEF RunOrSubmit
    <3>4. QED
      BY <2>1, <3>1, <3>2, <3>3, CommandBooks
  <2>4. QED
    BY <2>2, <2>3
<1>10. ASSUME call.at # "answer" \/ call.op = "release", call' = NoCall, UNCHANGED <<sock, access, pend>>
       PROVE  Books'
  <2>1. Pending'
    BY <1>1, <1>10, PendingKept
  <2>2. OpenBrackets'
    BY <1>1, <1>10 DEF OpenBrackets, Busy
  <2>3. QED
    BY <1>10, <2>1, <2>2, ReturnedCalls DEF Books
<1>11. CASE ImportRefused
  <2>1. call.at # "answer" /\ call' = NoCall /\ UNCHANGED <<sock, access, pend>>
    BY <1>11 DEF ImportRefused, Returns
  <2>2. QED
    BY <1>10, <2>1
<1>12. CASE Imported
  <2>1. /\ call.at = "imported" /\ UNCHANGED <<sock, pend>>
        /\ \/ call' = NoCall /\ UNCHANGED access
           \/ /\ call.op \in {"run", "submit"} /\ SendCommand(call.op, call.bufs, NoTok, dsp_h')
              /\ \A b \in call.bufs : dsp_h'[b] # -1
    BY <1>1, <1>12, HandlesArrive DEF Imported
  <2>2. call.bufs # {} /\ call.bufs \cap Busy = {} /\ call.bufs \in SUBSET Bufs
    BY <1>1, <2>1 DEF Calls, ClientTypes
  <2>3. QED
    BY <1>10, <2>1, <2>2, CommandBooks
<1>13. CASE Released
  <2>1. call.op = "release" /\ call' = NoCall /\ UNCHANGED <<sock, access, pend>>
    BY <1>13 DEF Released, Answer, Returns
  <2>2. QED
    BY <1>10, <2>1
<1>14. CASE Submitted
  <2>1. call.at = "answer" /\ call.op = "submit" /\ call' = NoCall /\ UNCHANGED sock
    BY <1>14 DEF Submitted, Answer, Returns
  <2>2. call.bufs # {} /\ call.bufs \cap Busy = {} /\ \A b \in call.bufs : access[b] = "device"
    BY <1>1, <2>1 DEF Calls
  <2>3. CASE down[1] = 0
    <3>1. pend' = pend \cup {[bufs |-> call.bufs, tok |-> down[2]]} /\ UNCHANGED access
      BY <1>14, <2>3 DEF Submitted
    <3>2. Busy' = Busy \cup call.bufs
      <4> DEFINE new == [bufs |-> call.bufs, tok |-> down[2]]
      <4>1. new.bufs = call.bufs /\ pend' = pend \cup {new}
        BY <3>1
      <4> HIDE DEF new
      <4>2. \A x : x \in Busy' <=> \E p \in pend \cup {new} : x \in p.bufs
        BY <4>1 DEF Busy
      <4>3. \A x : x \in Busy <=> \E p \in pend : x \in p.bufs
        BY DEF Busy
      <4>4. QED
        BY <4>1, <4>2, <4>3
    <3>3. \A p \in pend : p.bufs \cap call.bufs = {}
      BY <2>2 DEF Busy
    <3>4. Pending'
      BY <1>1, <2>2, <3>1, <3>3 DEF Pending
    <3>5. OpenBrackets'
      BY <1>1, <2>1, <3>1, <3>2 DEF OpenBrackets
    <3>6. QED
      BY <2>1, <3>4, <3>5, ReturnedCalls DEF Books
  <2>4. CASE down[1] # 0
    <3>1. UNCHANGED pend /\ Give(call.bufs, "cpu")
      BY <1>14, <2>4 DEF Submitted
    <3>2. \A b \in Bufs : access'[b] = IF b \in call.bufs THEN "cpu" ELSE access[b]
      BY <1>1, <3>1, Given
    <3>3. Pending'
      BY <1>1, <1>2, <2>2, <3>1, <3>2, PendingKept
    <3>4. OpenBrackets'
      BY <1>1, <2>1, <3>1, <3>2 DEF OpenBrackets, Busy
    <3>5. QED
      BY <2>1, <3>3, <3>4, ReturnedCalls DEF Books
  <2>5. QED
    BY <2>3, <2>4
<1>15. CASE RunOrWaitReturns
  <2>1. /\ call.at = "answer" /\ call.op \in {"run", "wait"} /\ call' = NoCall /\ UNCHANGED <<sock, pend>>
        /\ Give(call.bufs, "cpu")
    BY <1>15 DEF RunOrWaitReturns, Answer, Returns
  <2>2. call.bufs \cap Busy = {}
    BY <1>1, <2>1 DEF Calls
  <2>3. \A b \in Bufs : access'[b] = IF b \in call.bufs THEN "cpu" ELSE access[b]
    BY <1>1, <2>1, Given
  <2>4. Pending'
    BY <1>1, <1>2, <2>1, <2>2, <2>3, PendingKept
  <2>5. OpenBrackets'
    BY <1>1, <2>1, <2>3 DEF OpenBrackets, Busy
  <2>6. QED
    BY <2>1, <2>4, <2>5, ReturnedCalls DEF Books
<1>16. CASE IoError
  <2>1. call.at # "none" /\ call' = NoCall /\ sock' = "closed" /\ UNCHANGED pend
    BY <1>16 DEF IoError, Returns
  <2>2. \A b \in Busy : access'[b] = access[b]
    <3>1. CASE call.at = "answer" /\ call.op # "release"
      <4>1. Give(call.bufs, "cpu") /\ call.bufs \cap Busy = {}
        BY <1>1, <1>16, <3>1 DEF IoError, Calls
      <4>2. QED
        BY <1>1, <1>2, <4>1, Given
    <3>2. CASE ~(call.at = "answer" /\ call.op # "release")
      BY <1>16, <3>2 DEF IoError
    <3>3. QED
      BY <3>1, <3>2
  <2>3. Pending' /\ OpenBrackets'
    BY <1>1, <2>1, <2>2, PendingKept DEF OpenBrackets
  <2>4. QED
    BY <2>1, <2>3, ReturnedCalls DEF Books
<1>17. CASE DaemonStep
  BY <1>1, <1>17, ClientKept DEF client, Books, Calls, Pending, OpenBrackets, Busy
<1>18. QED
  BY <1>3, <1>4, <1>5, <1>6, <1>7, <1>8, <1>9, <1>11, <1>12, <1>13, <1>14, <1>15, <1>16, <1>17, Sides
     DEF LibraryCall, Library

-------------------------------------------------------------------------------
(* The tables of the daemon *)

Tables == DaemonTypes /\ Gone /\ RightBuffers

Request == [hs : SUBSET Slots, on : SUBSET (Bufs \cup {Old}), for : SUBSET (Bufs \cup {Old}),
            fw : {"none", "running", "done", "failed"}]

\* A daemon that is empty.
LEMMA EmptyTables ==
  ASSUME table' = [s \in Slots |-> None], req' = [r \in Reqs |-> NoReq]
  PROVE  /\ table' \in [Slots -> Bufs \cup {Old, None}] /\ req' \in [Reqs -> Request]
         /\ Gone' /\ RightBuffers' /\ \A r \in Reqs : req'[r].fw # "running"
  BY DEF Gone, RightBuffers, NoReq, Request

\* A job is started on the buffers of the call under way.
LEMMA Started ==
  ASSUME IInv, NEW op \in {"run", "submit"}, Taken(op), NEW r \in Reqs, Start(r)
  PROVE  /\ call.at = "answer" /\ call.op = op /\ sock = "open" /\ conn = "serve"
         /\ call.bufs \in SUBSET Bufs
         /\ \E hs \in SUBSET Slots :
              req' = [req EXCEPT ![r] = [hs |-> hs, on |-> call.bufs, for |-> call.bufs, fw |-> "running"]]
<1> USE DEF IInv
<1> DEFINE hs == HandlesOf(call.bufs, dsp_h)
<1>1. Serving /\ up[1].op = op
  BY DEF Taken
<1>2. conn = "serve" /\ sock = "open"
  BY <1>1, Served
<1>3. call.at = "answer" /\ call.op = op /\ Payload.hs = hs /\ Payload.for = call.bufs
  BY <1>1, CommandServed
<1>4. call.bufs \in SUBSET Bufs /\ dsp_h \in [Bufs -> Slots \cup {-1}]
  BY DEF TypeOK, ClientTypes
<1>5. hs \in SUBSET Slots /\ \A s : s \in hs <=> s # -1 /\ \E b \in call.bufs : s = dsp_h[b]
  BY <1>4 DEF HandlesOf
<1>6. \A b \in call.bufs : dsp_h[b] # -1 /\ table[dsp_h[b]] = b
  BY <1>2, <1>3, <1>4 DEF Calls, Handles, GivenBack
<1> HIDE DEF hs
<1>7. {table[s] : s \in hs} = call.bufs
  <2>1. \A s \in hs : table[s] \in call.bufs
    BY <1>5, <1>6
  <2>2. \A b \in call.bufs : \E s \in hs : table[s] = b
    BY <1>5, <1>6
  <2>3. QED
    BY <2>1, <2>2
<1>8. req' = [req EXCEPT ![r] = [hs |-> hs, on |-> call.bufs, for |-> call.bufs, fw |-> "running"]]
  BY <1>3, <1>7 DEF Start
<1>9. QED
  BY <1>2, <1>3, <1>4, <1>5, <1>8

\* The slots after an import: some that were free hold buffers, the others are the same.
LEMMA Filled ==
  ASSUME IInv, DoImport
  PROVE  /\ call.at = "imported" /\ conn = "serve"
         /\ table' \in [Slots -> Bufs \cup {Old, None}]
         /\ \A s \in Slots : table[s] # None => table'[s] = table[s]
<1> USE DEF IInv
<1> DEFINE fds == SetToSeq(Need(call.op, call.bufs))
<1>1. Serving /\ up[1].op = "import"
  BY DEF DoImport, Taken
<1>2. /\ call.at = "imported" /\ up[1].n = Cardinality(Need(call.op, call.bufs)) /\ Payload.fds = fds
      /\ Need(call.op, call.bufs) \in SUBSET Bufs
  BY <1>1, ImportServed DEF Payload
<1>3. conn = "serve"
  BY <1>1, Served
<1>4. up[1].n \in Nat /\ fds \in [1..up[1].n -> Bufs]
  BY <1>2, Order
<1> HIDE DEF fds
<1>5. PICK k \in 0 .. up[1].n : \E free \in Lowest(k) : FillSlots(k, free)
  BY DEF DoImport
<1>6. PICK free \in Lowest(k) : FillSlots(k, free)
  BY <1>5
<1>7. table' = [s \in Slots |-> IF s \in Range(free) THEN fds[CHOOSE i \in 1..k : free[i] = s] ELSE table[s]]
  BY <1>2, <1>6 DEF FillSlots
<1>8. k \in Nat /\ free \in [1..k -> Slots \ Used]
  <2>1. k \in Nat
    BY <1>4, <1>5
  <2>2. QED
    BY <2>1, FreeSlots
<1>9. \A s \in Range(free) : s \notin Used /\ fds[CHOOSE i \in 1..k : free[i] = s] \in Bufs
  <2> TAKE s \in Range(free)
  <2> DEFINE i == CHOOSE j \in 1..k : free[j] = s
  <2>1. \E j \in 1..k : free[j] = s
    BY <1>8 DEF Range
  <2>2. i \in 1..k /\ free[i] = s
    BY <2>1
  <2>3. i \in 1..up[1].n
    BY <1>4, <1>5, <2>2
  <2>4. QED
    BY <1>4, <1>8, <2>2, <2>3
<1>10. table \in [Slots -> Bufs \cup {Old, None}]
  BY DEF TypeOK, DaemonTypes
<1>11. QED
  BY <1>2, <1>3, <1>7, <1>9, <1>10 DEF Used

\* Every step keeps the tables.
LEMMA TablesStep ==
  ASSUME IInv, Next
  PROVE  Tables'
<1> USE DEF IInv
<1>1. /\ table \in [Slots -> Bufs \cup {Old, None}] /\ req \in [Reqs -> Request] /\ dev \in {"alive", "dead"}
      /\ conn \in {"none", "serve", "run", "wait", "end", "down"} /\ cmd \in Tokens \cup {None}
      /\ DaemonTypes
  BY DEF TypeOK, DaemonTypes, Request
<1>2. ASSUME UNCHANGED daemon PROVE Tables'
  BY <1>1, <1>2 DEF Tables, DaemonTypes, Gone, RightBuffers, daemon
<1>3. CASE Open
  BY <1>1, <1>3 DEF Open, Tables, DaemonTypes, Gone, RightBuffers
<1>4. ASSUME NEW b \in Bufs, Free(b) PROVE Tables'
  <2>1. /\ table' = [s \in Slots |-> IF table[s] = b THEN Old ELSE table[s]]
        /\ req' = [r \in Reqs |-> [req[r] EXCEPT !.on = Forget(@, b), !.for = Forget(@, b)]]
        /\ UNCHANGED <<conn, cmd, dev>>
    BY <1>4 DEF Free, DaemonForgets
  <2>2. table' \in [Slots -> Bufs \cup {Old, None}]
    BY <1>1, <2>1
  <2>3. \A X \in SUBSET (Bufs \cup {Old}) : Forget(X, b) \in SUBSET (Bufs \cup {Old})
    BY DEF Forget
  <2>4. req' \in [Reqs -> Request]
    <3>1. \A q \in Request : [q EXCEPT !.on = Forget(@, b), !.for = Forget(@, b)] \in Request
      BY <2>3 DEF Request
    <3> QED
      BY <1>1, <2>1, <3>1
  <2>5. DaemonTypes'
    BY <1>1, <2>1, <2>2, <2>4 DEF DaemonTypes, Request
  <2>6. RightBuffers'
    BY <1>1, <2>1 DEF RightBuffers, Request
  <2>7. Gone'
    <3>1. SUFFICES ASSUME conn \in {"none", "down"}
                   PROVE  (\A s \in Slots : table'[s] = None) /\ \A r \in Reqs : req'[r] = NoReq
      BY <2>1 DEF Gone
    <3>2. (\A s \in Slots : table[s] = None) /\ \A r \in Reqs : req[r] = NoReq
      BY <3>1 DEF Gone
    <3>3. Forget({}, b) = {}
      BY DEF Forget
    <3>4. ASSUME NEW r \in Reqs PROVE req'[r] = NoReq
      <4>1. req[r] = NoReq /\ NoReq \in Request /\ NoReq.on = {} /\ NoReq.for = {}
        BY <3>2 DEF NoReq, Request
      <4>2. req'[r] = [req[r] EXCEPT !.on = Forget(@, b), !.for = Forget(@, b)] /\ req[r] \in Request
        BY <1>1, <2>1
      <4>3. /\ req'[r] \in Request /\ req'[r].hs = NoReq.hs /\ req'[r].on = NoReq.on
            /\ req'[r].for = NoReq.for /\ req'[r].fw = NoReq.fw
        BY <2>4, <3>3, <4>1, <4>2 DEF Request
      <4>4. QED
        BY <4>1, <4>3 DEF Request
    <3>5. QED
      BY <2>1, <3>2, <3>4
  <2>8. QED
    BY <2>5, <2>6, <2>7 DEF Tables
<1>5. ASSUME conn \notin {"none", "down"}, conn' = conn \/ conn' \in {"run", "wait", "end", "serve"},
             table' \in [Slots -> Bufs \cup {Old, None}], req' \in [Reqs -> Request],
             cmd' \in Tokens \cup {None}, dev' \in {"alive", "dead"}, RightBuffers'
      PROVE  Tables'
  BY <1>1, <1>5 DEF Tables, DaemonTypes, Gone, Request
<1>6. ASSUME Dies, cmd' \in Tokens \cup {None}, dev' = dev PROVE Tables'
  <2>1. conn' = "down" /\ table' = [s \in Slots |-> None] /\ req' = [r \in Reqs |-> NoReq]
    BY <1>6 DEF Dies
  <2>2. QED
    BY <1>1, <1>6, <2>1, EmptyTables DEF Tables, DaemonTypes, Request
<1>7. CASE Refuse \/ WaitUnknown
  BY <1>2, <1>7 DEF Refuse, WaitUnknown
<1>8. CASE DoImport
  BY <1>1, <1>5, <1>8, Filled DEF DoImport, RightBuffers
<1>9. CASE DoRelease
  <2>1. conn = "serve" /\ UNCHANGED <<conn, cmd, dev>>
    BY <1>9 DEF DoRelease, Taken, Serving
  <2>2. table' \in [Slots -> Bufs \cup {Old, None}]
    BY <1>1, <1>9 DEF DoRelease
  <2>3. \A r \in Reqs : req'[r] = req[r] \/ req'[r] = NoReq
    BY <1>9 DEF DoRelease
  <2>4. req' \in [Reqs -> Request]
    BY <1>1, <1>9 DEF DoRelease, NoReq, Request
  <2>5. RightBuffers'
    <3>1. NoReq.on = NoReq.for
      BY DEF NoReq
    <3>2. QED
      BY <2>3, <3>1 DEF RightBuffers
  <2>6. QED
    BY <1>1, <1>5, <2>1, <2>2, <2>4, <2>5
<1>10. ASSUME NEW op \in {"run", "submit"}, Fails(op) PROVE Tables'
  <2>1. UNCHANGED <<cmd, dev>> /\ (Dies \/ UNCHANGED <<conn, table, req>>)
    BY <1>10 DEF Fails
  <2>2. QED
    BY <1>1, <1>2, <1>6, <2>1 DEF daemon
<1>11. ASSUME NEW op \in {"run", "submit"}, Taken(op), NEW r \in Reqs, Start(r), conn' \in {"run", "serve"},
              UNCHANGED cmd
       PROVE  Tables'
  <2>1. conn = "serve" /\ call.bufs \in SUBSET Bufs
    BY <1>11, Started
  <2>2. PICK hs \in SUBSET Slots :
          req' = [req EXCEPT ![r] = [hs |-> hs, on |-> call.bufs, for |-> call.bufs, fw |-> "running"]]
    BY <1>11, Started
  <2>3. req' \in [Reqs -> Request]
    BY <1>1, <2>1, <2>2 DEF Request
  <2>4. RightBuffers'
    BY <1>1, <2>2 DEF RightBuffers
  <2>5. UNCHANGED <<table, dev>>
    BY <1>11 DEF Start
  <2>6. QED
    BY <1>1, <1>5, <1>11, <2>1, <2>3, <2>4, <2>5
<1>12. CASE DoRun
  <2>1. Taken("run") /\ Start(Sync) /\ conn' = "run" /\ UNCHANGED cmd /\ Sync \in Reqs
    BY <1>12, Apart DEF DoRun
  <2>2. QED
    BY <1>11, <2>1
<1>13. CASE DoSubmit
  <2>1. \E t \in Tokens : Start(t)
    BY <1>13 DEF DoSubmit
  <2>2. Taken("submit") /\ conn' = "serve" /\ UNCHANGED cmd /\ Tokens \subseteq Reqs
    BY <1>13, Apart DEF DoSubmit, Taken, Serving
  <2>3. QED
    BY <1>11, <2>1, <2>2
<1>14. CASE DoWait
  <2>1. conn = "serve" /\ conn' = "wait" /\ cmd' = up[1].tok /\ UNCHANGED <<table, req, dev>>
    BY <1>14 DEF DoWait, Serving
  <2>2. up[1].tok \in Tokens
    BY <1>14, CommandServed DEF DoWait, Calls
  <2>3. QED
    BY <1>1, <1>5, <2>1, <2>2 DEF RightBuffers
<1>15. ASSUME NEW r \in Reqs, Done(r) PROVE Tables'
  <2>1. conn \in {"run", "wait"} /\ cmd' = None /\ dev' = dev
    BY <1>15 DEF Done
  <2>2. CASE Dies
    BY <1>6, <2>1, <2>2
  <2>3. CASE conn' = "serve" /\ req' = [req EXCEPT ![r] = NoReq] /\ UNCHANGED table
    <3>1. req' \in [Reqs -> Request] /\ RightBuffers'
      BY <1>1, <2>3 DEF RightBuffers, NoReq, Request
    <3>2. QED
      BY <1>1, <1>5, <2>1, <2>3, <3>1
  <2>4. QED
    BY <1>15, <2>2, <2>3 DEF Done
<1>16. CASE LeaveLoop
  <2>1. conn = "serve" /\ conn' = "end" /\ UNCHANGED <<cmd, table, req, dev>>
    BY <1>16 DEF LeaveLoop
  <2>2. QED
    BY <1>1, <1>5, <2>1 DEF RightBuffers
<1>17. CASE End
  <2>1. /\ conn' = "none" /\ table' = [s \in Slots |-> None] /\ req' = [r \in Reqs |-> NoReq]
        /\ UNCHANGED <<cmd, dev>>
    BY <1>17 DEF End
  <2>2. QED
    BY <1>1, <2>1, EmptyTables DEF Tables, DaemonTypes, Request
<1>18. CASE Restart
  BY <1>1, <1>18 DEF Restart, Tables, DaemonTypes, Gone, RightBuffers
<1>19. CASE Watchdog \/ \E r \in Reqs : Finish(r)
  <2>1. \E r \in Reqs : req[r].fw = "running"
    BY <1>19 DEF Watchdog, Finish
  <2>2. conn \notin {"none", "down"}
    BY <2>1 DEF Gone, NoReq
  <2>3. UNCHANGED <<conn, cmd, table>> /\ dev' \in {"alive", "dead"}
    BY <1>1, <1>19 DEF Watchdog, Finish
  <2>4. req' \in [Reqs -> Request]
    BY <1>1, <1>19 DEF Watchdog, Finish, Request
  <2>5. \A r \in Reqs : req'[r].on = req[r].on /\ req'[r].for = req[r].for
    BY <1>1, <1>19 DEF Watchdog, Finish, Request
  <2>6. RightBuffers'
    BY <2>5 DEF RightBuffers
  <2>7. QED
    BY <1>1, <1>5, <2>2, <2>3, <2>4, <2>6
<1>20. CASE LibraryCall
  BY <1>2, <1>20, DaemonKept
<1>21. QED
  BY <1>3, <1>4, <1>7, <1>8, <1>9, <1>10, <1>12, <1>13, <1>14, <1>15, <1>16, <1>17, <1>18, <1>19, <1>20, Sides
     DEF DaemonStep, Daemon

-------------------------------------------------------------------------------
(* The handles *)

\* The client keeps, or drops, the handles it has.
LEMMA HandlesOfClient ==
  ASSUME IInv, UNCHANGED <<conn, table>>,
         \A b \in Bufs : access'[b] = "free" => access[b] = "free" \/ dsp_h'[b] = -1,
         \A b \in Bufs : dsp_h'[b] # -1 => dsp_h'[b] = dsp_h[b] /\ ~(GivenBack /\ b \in call.bufs)
  PROVE  Handles'
  BY DEF IInv, Handles

\* The daemon keeps the buffers of the handles it has given.
LEMMA HandlesOfDaemon ==
  ASSUME IInv, UNCHANGED client,
         conn' \in {"serve", "run", "wait"} =>
           /\ conn \in {"serve", "run", "wait"} /\ (GivenBack => UNCHANGED down)
           /\ \A s \in Slots : table[s] \in Bufs => table'[s] = table[s]
  PROVE  Handles'
<1>1. UNCHANGED <<dsp_h, access, call>>
  BY DEF client
<1>2. dsp_h \in [Bufs -> Slots \cup {-1}]
  BY DEF IInv, TypeOK, ClientTypes
<1>3. QED
  BY <1>1, <1>2 DEF IInv, Handles, GivenBack

\* Every step keeps the handles.
LEMMA HandlesStep ==
  ASSUME IInv, Next
  PROVE  Handles'
<1> USE DEF IInv
<1>1. /\ dsp_h \in [Bufs -> Slots \cup {-1}] /\ access \in [Bufs -> {"cpu", "device", "free"}]
      /\ table \in [Slots -> Bufs \cup {Old, None}] /\ ClientTypes
  BY DEF TypeOK, ClientTypes, DaemonTypes
<1>2. CASE Open
  BY <1>2 DEF Open, Handles
<1>3. ASSUME NEW b \in Bufs, Alloc(b) PROVE Handles'
  BY <1>1, <1>3, HandlesOfClient DEF Alloc, NoCall, GivenBack, daemon
<1>4. ASSUME NEW b \in Bufs, Free(b) PROVE Handles'
  <2>1. /\ call = NoCall /\ UNCHANGED conn /\ dsp_h' = [dsp_h EXCEPT ![b] = -1]
        /\ access' = [access EXCEPT ![b] = "free"]
        /\ table' = [s \in Slots |-> IF table[s] = b THEN Old ELSE table[s]]
    BY <1>4 DEF Free, DaemonForgets
  <2>2. ~GivenBack
    BY <2>1 DEF NoCall, GivenBack
  <2>3. QED
    BY <1>1, <2>1, <2>2, Apart DEF Handles
<1>5. ASSUME call.op # "release" \/ call.at # "answer", UNCHANGED <<dsp_h, conn, table>>,
             UNCHANGED access \/ \E bs : \E a \in {"cpu", "device"} : Give(bs, a)
      PROVE  Handles'
  <2>1. ~GivenBack
    BY <1>5 DEF GivenBack
  <2>2. \A b \in Bufs : access'[b] = "free" => access[b] = "free"
    BY <1>1, <1>5, Given
  <2>3. QED
    BY <1>5, <2>1, <2>2, HandlesOfClient
<1>6. CASE Close \/ \E p \in pend : WaitDead(p)
  <2>1. call.at # "answer" /\ UNCHANGED <<dsp_h, conn, table, access>>
    BY <1>6 DEF Close, WaitDead, NoCall, daemon
  <2>2. QED
    BY <1>5, <2>1
<1>7. ASSUME NEW p \in pend, Wait(p) PROVE Handles'
  <2>1. call.at # "answer" /\ UNCHANGED <<dsp_h, conn, table, access>>
    BY <1>7 DEF Wait, Idle, SendCommand, NoCall, daemon
  <2>2. QED
    BY <1>5, <2>1
<1>8. ASSUME NEW bs \in SUBSET Bufs, Import(bs) \/ Release(bs) PROVE Handles'
  <2>1. call.at # "answer" /\ UNCHANGED <<dsp_h, conn, table, access>>
    BY <1>8 DEF Import, Release, SendImport, Idle, SendCommand, NoCall, daemon
  <2>2. QED
    BY <1>5, <2>1
<1>9. ASSUME NEW bs \in SUBSET Bufs, NEW op \in {"run", "submit"}, RunOrSubmit(op, bs) PROVE Handles'
  <2>1. call.at # "answer" /\ UNCHANGED <<dsp_h, conn, table>>
    BY <1>9 DEF RunOrSubmit, Idle, NoCall, daemon
  <2>2. UNCHANGED access \/ Give(bs, "device")
    BY <1>9 DEF RunOrSubmit, SendImport, SendCommand
  <2>3. QED
    BY <1>5, <2>1, <2>2
<1>10. CASE ImportRefused
  <2>1. call.at # "answer" /\ UNCHANGED <<dsp_h, conn, table, access>>
    BY <1>10 DEF ImportRefused, daemon
  <2>2. QED
    BY <1>5, <2>1
<1>11. CASE Imported
  <2> DEFINE need == Need(call.op, call.bufs)
  <2>1. /\ \A b \in Bufs \ need : dsp_h'[b] = dsp_h[b]
        /\ \A b \in need : dsp_h'[b] \in Slots /\ (conn = "serve" => table[dsp_h'[b]] = b)
        /\ conn \notin {"run", "wait"}
        /\ UNCHANGED access \/ SendCommand(call.op, call.bufs, NoTok, dsp_h')
    BY <1>11, HandlesArrive
  <2>2. call.at = "imported" /\ UNCHANGED <<conn, table>> /\ \A b \in call.bufs : access[b] = "cpu"
    BY <1>11 DEF Imported, daemon, Calls
  <2>3. need \subseteq call.bufs /\ call.bufs \subseteq Bufs
    BY <1>1 DEF Need, ClientTypes
  <2> HIDE DEF need
  <2>4. \A b \in Bufs : access'[b] = "free" => access[b] = "free"
    <3>1. CASE UNCHANGED access
      BY <3>1
    <3>2. CASE SendCommand(call.op, call.bufs, NoTok, dsp_h')
      <4>1. UNCHANGED access \/ Give(call.bufs, "device")
        BY <3>2 DEF SendCommand
      <4>2. QED
        BY <1>1, <4>1, Given
    <3>3. QED
      BY <2>1, <3>1, <3>2
  <2>5. \A b \in Bufs : access'[b] = "free" => dsp_h'[b] = -1
    BY <2>1, <2>2, <2>3, <2>4 DEF Handles
  <2>6. ~GivenBack
    BY <2>2 DEF GivenBack
  <2>7. conn' \in {"serve", "run", "wait"} => \A b \in Bufs : dsp_h'[b] # -1 => table'[dsp_h'[b]] = b
    BY <2>1, <2>2, <2>6 DEF Handles
  <2>8. QED
    BY <2>5, <2>7 DEF Handles
<1>12. CASE Released
  <2>1. /\ call.at = "answer" /\ call.op = "release" /\ UNCHANGED <<access, conn, table>>
        /\ dsp_h' = [b \in Bufs |-> IF b \in call.bufs /\ down[1] = 0 THEN -1 ELSE dsp_h[b]]
    BY <1>12 DEF Released, Answer, daemon
  <2>2. GivenBack => down[1] = 0
    BY DEF GivenBack
  <2>3. QED
    BY <2>1, <2>2, HandlesOfClient
<1>13. CASE Submitted \/ RunOrWaitReturns
  <2>1. call.op # "release" /\ UNCHANGED <<dsp_h, conn, table>>
    BY <1>13 DEF Submitted, RunOrWaitReturns, Answer, daemon
  <2>2. UNCHANGED access \/ Give(call.bufs, "cpu")
    BY <1>13 DEF Submitted, RunOrWaitReturns
  <2>3. QED
    BY <1>5, <2>1, <2>2
<1>14. CASE IoError
  <2>1. conn' \in {"none", "down"} /\ UNCHANGED dsp_h /\ (UNCHANGED access \/ Give(call.bufs, "cpu"))
    BY <1>14 DEF IoError, daemon
  <2>2. \A b \in Bufs : access'[b] = "free" => access[b] = "free"
    BY <1>1, <2>1, Given
  <2>3. QED
    BY <2>1, <2>2 DEF Handles
<1>15. ASSUME DaemonStep, UNCHANGED table, conn' \in {"serve", "run", "wait"} => conn \in {"serve", "run", "wait"},
              conn' \in {"serve", "run", "wait"} => UNCHANGED down \/ down = <<>>
       PROVE  Handles'
  <2>1. GivenBack => down # <<>>
    BY DEF GivenBack
  <2>2. QED
    BY <1>15, <2>1, ClientKept, HandlesOfDaemon
<1>16. CASE Refuse \/ WaitUnknown \/ DoRun \/ DoSubmit \/ DoWait
  <2>1. Serving /\ UNCHANGED table
    BY <1>16 DEF Refuse, WaitUnknown, DoRun, DoSubmit, DoWait, Taken, Start, daemon
  <2>2. conn = "serve" /\ down = <<>>
    BY <2>1, Served
  <2>3. QED
    BY <1>15, <1>16, <2>1, <2>2 DEF DaemonStep, Daemon
<1>17. CASE DoImport
  <2>1. call.at = "imported" /\ conn = "serve" /\ \A s \in Slots : table[s] # None => table'[s] = table[s]
    BY <1>17, Filled
  <2>2. UNCHANGED client /\ ~GivenBack
    BY <1>17, <2>1 DEF DoImport, GivenBack
  <2>3. QED
    BY <2>1, <2>2, HandlesOfDaemon
<1>18. CASE DoRelease
  <2>1. /\ Serving /\ up[1].op = "release" /\ UNCHANGED <<client, conn>> /\ Say(<<0>>)
        /\ table' = [s \in Slots |-> IF s \in Payload.hs THEN None ELSE table[s]]
    BY <1>18 DEF DoRelease, Taken
  <2>2. conn = "serve" /\ down = <<>>
    BY <2>1, Served
  <2>3. call.at = "answer" /\ call.op = "release" /\ Payload.hs = HandlesOf(call.bufs, dsp_h)
    BY <2>1, CommandServed
  <2>4. GivenBack'
    <3>1. <<0>> \in Seq(Int)
      OBVIOUS
    <3>2. down' = <<0>>
      BY <2>1, <2>2, <3>1, Said
    <3>3. QED
      BY <2>1, <2>3, <3>2 DEF GivenBack, client
  <2>5. \A b \in Bufs : dsp_h[b] # -1 => table[dsp_h[b]] = b
    BY <2>2 DEF Handles, GivenBack
  <2>6. ASSUME NEW b \in Bufs \ call.bufs, dsp_h[b] # -1 PROVE table'[dsp_h[b]] = b
    <3>1. \A c \in call.bufs : c \in Bufs /\ c # b
      BY <1>1 DEF ClientTypes
    <3>2. dsp_h[b] \notin Payload.hs
      BY <2>3, <2>5, <2>6, <3>1 DEF HandlesOf
    <3>3. dsp_h[b] \in Slots
      BY <1>1, <2>6
    <3>4. QED
      BY <2>1, <2>5, <2>6, <3>2, <3>3
  <2>7. QED
    BY <2>1, <2>4, <2>6 DEF Handles, client
<1>19. CASE LeaveLoop \/ End \/ Restart
  <2>1. conn' \notin {"serve", "run", "wait"} /\ UNCHANGED client
    BY <1>19 DEF LeaveLoop, End, Restart
  <2>2. QED
    BY <2>1, HandlesOfDaemon
<1>20. ASSUME NEW op \in {"run", "submit"}, Fails(op) PROVE Handles'
  <2>1. Serving /\ UNCHANGED client /\ (conn' = "down" \/ UNCHANGED table)
    BY <1>20 DEF Fails, Taken, Dies
  <2>2. conn = "serve" /\ down = <<>>
    BY <2>1, Served
  <2>3. QED
    BY <2>1, <2>2, HandlesOfDaemon DEF GivenBack
<1>21. ASSUME NEW r \in Reqs, Done(r) PROVE Handles'
  <2>1. conn \in {"run", "wait"} /\ UNCHANGED client /\ (conn' = "down" \/ UNCHANGED table)
    BY <1>21 DEF Done, Dies
  <2>2. down = <<>>
    BY <2>1 DEF Traffic, Awaited
  <2>3. QED
    BY <2>1, <2>2, HandlesOfDaemon DEF GivenBack
<1>22. CASE Watchdog \/ \E r \in Reqs : Finish(r)
  <2>1. UNCHANGED <<client, table, conn, down>>
    BY <1>22 DEF Watchdog, Finish
  <2>2. QED
    BY <2>1, HandlesOfDaemon
<1>23. QED
  BY <1>2, <1>3, <1>4, <1>6, <1>7, <1>8, <1>9, <1>10, <1>11, <1>12, <1>13, <1>14, <1>16, <1>17, <1>18, <1>19,
     <1>20, <1>21, <1>22, Sides DEF LibraryCall, Library, DaemonStep, Daemon

-------------------------------------------------------------------------------
(* The owners of the jobs *)

Owned == Owners /\ DeviceOwns

\* Every job is one of a submit that has not been waited for.
AllSubmitted ==
  /\ req[Sync].fw # "running"
  /\ \A t \in Tokens : req[t].fw = "running" => \E p \in pend : p.tok = t /\ Works(t, p.bufs)

\* So it is unless a run, a wait or a submit that has succeeded are under way.
LEMMA Submits ==
  ASSUME IInv, sock = "open", conn # "run",
         call.at # "answer" \/ call.op \notin {"wait", "submit"}
           \/ (call.op = "wait" /\ (down # <<>> \/ req[call.tok].fw # "running"))
           \/ (call.op = "submit" /\ (down = <<>> \/ down[1] # 0))
  PROVE  AllSubmitted
<1>1. req[Sync].fw # "running" /\ \A t \in Tokens : req[t].fw = "running" => Owner(t)
  BY DEF IInv, Owners
<1>2. ASSUME NEW t \in Tokens, req[t].fw = "running" PROVE \E p \in pend : p.tok = t /\ Works(t, p.bufs)
  <2>1. Owner(t)
    BY <1>1, <1>2
  <2>2. ~(call.at = "answer" /\ call.op = "wait" /\ call.tok = t /\ down = <<>>)
    BY <1>2
  <2>3. ~(call.at = "answer" /\ call.op = "submit" /\ down = <<0, t>>)
    BY <1>2
  <2>4. QED
    BY <2>1, <2>2, <2>3 DEF Owner
<1>3. QED
  BY <1>1, <1>2 DEF AllSubmitted

\* Then nothing runs on other buffers than those of the submits.
LEMMA OnlyBusy ==
  ASSUME IInv, AllSubmitted, NEW r \in Reqs, req[r].fw = "running"
  PROVE  req[r].on \cap Bufs \subseteq Busy
<1>1. r \in Tokens
  BY DEF AllSubmitted, Reqs
<1>2. QED
  BY <1>1 DEF AllSubmitted, Works, Busy

\* A step of the client after which all jobs are still those of submits.
LEMMA OwnedByClient ==
  ASSUME IInv, UNCHANGED req, AllSubmitted, pend \subseteq pend',
         \A b \in Busy : access'[b] = access[b]
  PROVE  Owned'
<1>1. AllSubmitted'
  BY DEF AllSubmitted, Works
<1>2. Owners'
  BY <1>1 DEF AllSubmitted, Owners, Owner
<1>3. DeviceOwns'
  BY OnlyBusy DEF DeviceOwns, IInv
<1>4. QED
  BY <1>2, <1>3 DEF Owned

\* A step of the daemon that starts no job.
LEMMA OwnedByDaemon ==
  ASSUME IInv, UNCHANGED client,
         \A r \in Reqs : req'[r].fw = "running" => req[r].fw = "running" /\ req'[r].on = req[r].on,
         sock = "open" => UNCHANGED down \/ AllSubmitted',
         req'[Sync].fw = "running" /\ sock = "open" => UNCHANGED conn
  PROVE  Owned'
<1>1. UNCHANGED <<sock, access, call, pend>> /\ Sync \in Reqs /\ Tokens \subseteq Reqs
  BY Apart DEF client
<1>2. DeviceOwns'
  BY <1>1 DEF DeviceOwns, IInv
<1>3. CASE sock = "open" /\ AllSubmitted'
  BY <1>2, <1>3 DEF AllSubmitted, Owners, Owner, Owned
<1>4. CASE sock = "open" /\ UNCHANGED down
  <2>1. req'[Sync].fw = "running" => conn' = "run" /\ Works(Sync, call.bufs)'
    BY <1>1, <1>4 DEF IInv, Owners, Works
  <2>2. ASSUME NEW t \in Tokens, req'[t].fw = "running" PROVE Owner(t)'
    <3>1. Owner(t) /\ req'[t].on = req[t].on
      BY <1>1, <1>4, <2>2 DEF IInv, Owners
    <3>2. QED
      BY <1>1, <1>4, <3>1 DEF Owner, Works
  <2>3. QED
    BY <1>2, <2>1, <2>2 DEF Owners, Owned
<1>5. CASE sock # "open"
  BY <1>1, <1>2, <1>5 DEF Owners, Owned
<1>6. QED
  BY <1>3, <1>4, <1>5

\* Nothing runs without a session.
LEMMA NothingRuns ==
  ASSUME IInv, conn \in {"none", "down"}
  PROVE  \A r \in Reqs : req[r].fw # "running"
  BY DEF IInv, Gone, NoReq

\* The steps of the application and the library.
LEMMA OwnedClientStep ==
  ASSUME IInv, Open \/ (\E b \in Bufs : Free(b)) \/ LibraryCall
  PROVE  Owned'
<1> USE DEF IInv
<1>1. /\ access \in [Bufs -> {"cpu", "device", "free"}] /\ ClientTypes /\ req \in [Reqs -> Request]
      /\ call.bufs \subseteq Bufs /\ Busy \subseteq Bufs
  BY DEF TypeOK, ClientTypes, DaemonTypes, Request, Busy
<1>2. call = NoCall => call.at = "none" /\ conn # "run"
  BY IdleQuiet
<1>3. CASE Open
  <2>1. conn = "none" /\ UNCHANGED req
    BY <1>3 DEF Open
  <2>2. \A r \in Reqs : req'[r].fw # "running"
    BY <2>1, NothingRuns
  <2>3. QED
    BY <2>2, Apart DEF Owned, Owners, DeviceOwns
<1>4. ASSUME NEW b \in Bufs, Free(b) PROVE Owned'
  <2>1. /\ call = NoCall /\ UNCHANGED <<sock, call, pend, conn, down>>
        /\ access' = [access EXCEPT ![b] = "free"]
        /\ req' = [r \in Reqs |-> [req[r] EXCEPT !.on = Forget(@, b), !.for = Forget(@, b)]]
    BY <1>4 DEF Free, DaemonForgets
  <2>2. \A r \in Reqs : req'[r].fw = req[r].fw /\ req'[r].on = Forget(req[r].on, b)
    BY <1>1, <2>1 DEF Request
  <2>3. \A r \in Reqs : req'[r].on \cap Bufs \subseteq (req[r].on \cap Bufs) \ {b}
    <3>1. Old \notin Bufs
      OBVIOUS
    <3>2. QED
      BY <2>2, <3>1 DEF Forget
  <2>4. DeviceOwns'
    <3>1. ASSUME NEW r \in Reqs, req'[r].fw = "running", NEW c \in req'[r].on \cap Bufs
          PROVE  access'[c] = "device"
      <4>1. c # b /\ c \in req[r].on \cap Bufs /\ req[r].fw = "running"
        BY <2>2, <2>3, <3>1
      <4>2. access[c] = "device"
        BY <4>1 DEF Owned, DeviceOwns
      <4> QED
        BY <1>1, <2>1, <4>1, <4>2
    <3> QED
      BY <3>1 DEF DeviceOwns
  <2>5. CASE sock = "open"
    <3>1. AllSubmitted
      BY <1>2, <2>1, <2>5, Submits
    <3>2. AllSubmitted'
      <4>1. Sync \in Reqs /\ Tokens \subseteq Reqs
        BY Apart
      <4>2. \A r \in Reqs : \A bs : Works(r, bs) => Works(r, bs)'
        BY <2>3 DEF Works
      <4>3. QED
        BY <2>1, <2>2, <3>1, <4>1, <4>2 DEF AllSubmitted, Works
    <3>3. QED
      BY <2>4, <3>2 DEF AllSubmitted, Owners, Owner, Owned
  <2>6. CASE sock # "open"
    BY <2>1, <2>4, <2>6 DEF Owned, Owners
  <2>7. QED
    BY <2>5, <2>6
<1>5. UNCHANGED <<req, conn>> \/ ~LibraryCall
  BY DaemonKept DEF daemon
<1>6. ASSUME LibraryCall, sock = "open", call = NoCall, pend \subseteq pend', \A b \in Busy : access'[b] = access[b]
      PROVE  Owned'
  BY <1>2, <1>5, <1>6, Submits, OwnedByClient
<1>7. CASE Close \/ \E p \in pend : WaitDead(p)
  BY <1>7 DEF Close, WaitDead, Owned, Owners, DeviceOwns, daemon
<1>8. ASSUME NEW b \in Bufs, Alloc(b) PROVE Owned'
  <2>1. /\ access[b] = "free" /\ UNCHANGED <<sock, call, pend, conn, down, req>>
        /\ access' = [access EXCEPT ![b] = "cpu"]
    BY <1>8 DEF Alloc, daemon
  <2>2. DeviceOwns'
    BY <1>1, <2>1 DEF DeviceOwns
  <2>3. Owners'
    BY <2>1 DEF Owners, Owner, Works
  <2>4. QED
    BY <2>2, <2>3 DEF Owned
<1>9. ASSUME NEW p \in pend, Wait(p) PROVE Owned'
  <2>1. /\ sock = "open" /\ call = NoCall /\ UNCHANGED <<sock, access, down, conn, req>> /\ pend' = pend \ {p}
        /\ call' = [op |-> "wait", at |-> "answer", bufs |-> p.bufs, tok |-> p.tok]
    BY <1>9 DEF Wait, Idle, SendCommand, daemon
  <2>2. down = <<>>
    BY <2>1, IdleQuiet
  <2>3. AllSubmitted
    BY <1>2, <2>1, Submits
  <2>4. ASSUME NEW t \in Tokens, req'[t].fw = "running" PROVE Owner(t)'
    <3>1. PICK q \in pend : q.tok = t /\ Works(t, q.bufs)
      BY <2>1, <2>3, <2>4 DEF AllSubmitted
    <3>2. CASE q = p
      BY <2>1, <2>2, <3>1, <3>2 DEF Owner, Works
    <3>3. CASE q # p
      BY <2>1, <3>1, <3>3 DEF Owner, Works
    <3>4. QED
      BY <3>2, <3>3
  <2>5. Owners'
    BY <2>1, <2>3, <2>4 DEF Owners, AllSubmitted
  <2>6. QED
    BY <2>1, <2>5 DEF Owned, DeviceOwns
<1>10. ASSUME NEW bs \in SUBSET Bufs, Import(bs) \/ Release(bs) PROVE Owned'
  <2>1. sock = "open" /\ call = NoCall /\ UNCHANGED <<access, pend>> /\ LibraryCall
    BY <1>10 DEF Import, Release, SendImport, SendCommand, Idle, LibraryCall
  <2>2. QED
    BY <1>6, <2>1
<1>11. ASSUME NEW bs \in SUBSET Bufs, NEW op \in {"run", "submit"}, RunOrSubmit(op, bs) PROVE Owned'
  <2>1. sock = "open" /\ call = NoCall /\ UNCHANGED pend /\ bs \cap Busy = {} /\ LibraryCall
    BY <1>11 DEF RunOrSubmit, Idle, Passable, LibraryCall
  <2>2. UNCHANGED access \/ Give(bs, "device")
    BY <1>11 DEF RunOrSubmit, SendImport, SendCommand
  <2>3. \A b \in Busy : access'[b] = access[b]
    BY <1>1, <2>1, <2>2, Given
  <2>4. QED
    BY <1>6, <2>1, <2>3
<1>12. CASE ImportRefused \/ Imported
  <2>1. call.at = "imported" /\ UNCHANGED pend /\ LibraryCall
    BY <1>12 DEF ImportRefused, Imported, LibraryCall, Library
  <2>2. sock = "open" /\ conn # "run"
    BY <2>1 DEF Traffic, Awaited
  <2>3. UNCHANGED access \/ Give(call.bufs, "device")
    BY <1>12 DEF ImportRefused, Imported, SendCommand
  <2>4. call.bufs \cap Busy = {}
    BY <2>1 DEF Calls
  <2>5. \A b \in Busy : access'[b] = access[b]
    BY <1>1, <2>3, <2>4, Given
  <2>6. QED
    BY <1>5, <2>1, <2>2, <2>5, Submits, OwnedByClient
<1>13. CASE Released \/ Submitted \/ RunOrWaitReturns
  <2>1. call.at = "answer" /\ Len(down) >= Words /\ LibraryCall /\ call' = NoCall /\ UNCHANGED sock
    BY <1>13 DEF Released, Submitted, RunOrWaitReturns, Answer, LibraryCall, Library, Returns
  <2>2. sock = "open" /\ conn # "run" /\ down # <<>> /\ Answered
    <3>1. /\ Words \in Nat \ {0} /\ Len(down) = Words /\ Answered /\ Quiet /\ conn \notin {"run", "wait"}
      BY <2>1, Collected
    <3>2. down # <<>>
      BY <3>1
    <3>3. QED
      BY <2>1, <3>1, <3>2 DEF Traffic
  <2>3. CASE Released
    <3>1. call.op = "release" /\ UNCHANGED <<access, pend>>
      BY <2>3 DEF Released, Answer
    <3>2. QED
      BY <1>5, <2>1, <2>2, <3>1, Submits, OwnedByClient
  <2>4. CASE Submitted /\ down[1] = 0
    <3>1. /\ call.op = "submit" /\ UNCHANGED access
          /\ pend' = pend \cup {[bufs |-> call.bufs, tok |-> down[2]]}
      BY <2>4 DEF Submitted, Answer
    <3>2. UNCHANGED <<req, conn>>
      BY <1>5, <2>1
    <3>3. req[Sync].fw # "running" /\ \A t \in Tokens : req[t].fw = "running" => Owner(t)
      BY <2>2 DEF Owners
    <3>4. ASSUME NEW t \in Tokens, req'[t].fw = "running" PROVE Owner(t)'
      <4>1. (\E p \in pend : p.tok = t /\ Works(t, p.bufs)) \/ (down = <<0, t>> /\ Works(t, call.bufs))
        BY <3>1, <3>2, <3>3, <3>4 DEF Owner
      <4>2. CASE \E p \in pend : p.tok = t /\ Works(t, p.bufs)
        BY <3>1, <3>2, <4>2 DEF Owner, Works
      <4>3. CASE down = <<0, t>> /\ Works(t, call.bufs)
        <5>1. \E p \in pend' : p.tok = t /\ p.bufs = call.bufs
          <6>1. down[2] = t /\ [bufs |-> call.bufs, tok |-> t] \in pend'
            BY <3>1, <4>3
          <6>2. [bufs |-> call.bufs, tok |-> t].tok = t /\ [bufs |-> call.bufs, tok |-> t].bufs = call.bufs
            OBVIOUS
          <6>3. QED
            BY <6>1, <6>2
        <5>2. \A p \in pend' : p.bufs = call.bufs => req'[t].on \cap Bufs \subseteq p.bufs
          BY <3>2, <4>3 DEF Works
        <5>3. QED
          BY <5>1, <5>2 DEF Owner, Works
      <4>4. QED
        BY <4>1, <4>2, <4>3
    <3>5. QED
      BY <3>1, <3>2, <3>3, <3>4 DEF Owned, Owners, DeviceOwns
  <2>5. CASE Submitted /\ down[1] # 0
    <3>1. call.op = "submit" /\ UNCHANGED pend /\ Give(call.bufs, "cpu")
      BY <2>5 DEF Submitted, Answer
    <3>2. call.bufs \cap Busy = {}
      BY <2>1, <3>1 DEF Calls
    <3>3. \A b \in Busy : access'[b] = access[b]
      BY <1>1, <3>1, <3>2, Given
    <3>4. QED
      BY <1>5, <2>1, <2>2, <2>5, <3>1, <3>3, Submits, OwnedByClient
  <2>6. CASE RunOrWaitReturns
    <3>1. call.op \in {"run", "wait"} /\ UNCHANGED pend /\ Give(call.bufs, "cpu")
      BY <2>6 DEF RunOrWaitReturns, Answer
    <3>2. call.bufs \cap Busy = {}
      BY <2>1, <3>1 DEF Calls
    <3>3. \A b \in Busy : access'[b] = access[b]
      BY <1>1, <3>1, <3>2, Given
    <3>4. QED
      BY <1>5, <2>1, <2>2, <3>1, <3>3, Submits, OwnedByClient
  <2>7. QED
    BY <1>13, <2>3, <2>4, <2>5, <2>6
<1>14. CASE IoError
  <2>1. conn \in {"none", "down"} /\ UNCHANGED req
    BY <1>14 DEF IoError, daemon
  <2>2. \A r \in Reqs : req'[r].fw # "running"
    BY <2>1, NothingRuns
  <2>3. QED
    BY <2>2, Apart DEF Owned, Owners, DeviceOwns
<1>15. QED
  BY <1>3, <1>4, <1>7, <1>8, <1>9, <1>10, <1>11, <1>12, <1>13, <1>14 DEF LibraryCall, Library

\* The steps of the daemon and the firmware.
LEMMA OwnedDaemonStep ==
  ASSUME IInv, DaemonStep
  PROVE  Owned'
<1> USE DEF IInv
<1>1. UNCHANGED client /\ UNCHANGED <<sock, access, call, pend>>
  BY ClientKept DEF client
<1>2. req \in [Reqs -> Request] /\ Sync \in Reqs /\ Sync \notin Tokens /\ Tokens \subseteq Reqs
  BY Apart DEF TypeOK, DaemonTypes, Request
<1>3. ASSUME \A r \in Reqs : req'[r].fw # "running" PROVE Owned'
  BY <1>2, <1>3 DEF Owned, Owners, DeviceOwns
<1>4. ASSUME conn # "run", sock = "open", call.at = "imported" \/ call.op \in {"release", "run"}
                                         \/ (call.op = "submit" /\ down = <<>>)
                                         \/ (call.op = "wait" /\ req[call.tok].fw # "running"),
             \A r \in Reqs : req'[r] = req[r] \/ req'[r] = NoReq
      PROVE  Owned'
  <2>1. AllSubmitted
    BY <1>4, Submits
  <2>2. \A r \in Reqs : req'[r].fw = "running" => req[r].fw = "running" /\ req'[r].on = req[r].on
    BY <1>4 DEF NoReq
  <2>3. AllSubmitted'
    BY <1>1, <1>2, <2>1, <2>2 DEF AllSubmitted, Works
  <2>4. QED
    BY <1>1, <2>2, <2>3, OwnedByDaemon DEF AllSubmitted
<1>5. CASE Refuse
  <2>1. Serving /\ up[1].op # "wait" /\ UNCHANGED req
    BY <1>5 DEF Refuse, daemon
  <2>2. conn = "serve" /\ sock = "open" /\ down = <<>>
    BY <2>1, Served
  <2>3. call.at = "imported" \/ call.op \in {"release", "run", "submit"}
    BY <2>1, ImportServed, CommandServed
  <2>4. QED
    BY <1>4, <2>1, <2>2, <2>3
<1>6. CASE DoImport
  <2>1. Serving /\ up[1].op = "import" /\ UNCHANGED req
    BY <1>6 DEF DoImport, Taken
  <2>2. conn = "serve" /\ sock = "open" /\ call.at = "imported"
    BY <2>1, Served, ImportServed
  <2>3. QED
    BY <1>4, <2>1, <2>2
<1>7. CASE DoRelease
  <2>1. Serving /\ up[1].op = "release" /\ \A r \in Reqs : req'[r] = req[r] \/ req'[r] = NoReq
    BY <1>7 DEF DoRelease, Taken
  <2>2. conn = "serve" /\ sock = "open" /\ call.op = "release"
    BY <2>1, Served, CommandServed
  <2>3. QED
    BY <1>4, <2>1, <2>2
<1>8. ASSUME NEW op \in {"run", "submit"}, Fails(op) PROVE Owned'
  <2>1. Serving /\ up[1].op = op /\ (Dies \/ UNCHANGED req)
    BY <1>8 DEF Fails, Taken
  <2>2. conn = "serve" /\ sock = "open" /\ call.op = op /\ down = <<>>
    BY <2>1, Served, CommandServed
  <2>3. \A r \in Reqs : req'[r] = req[r] \/ req'[r] = NoReq
    BY <2>1 DEF Dies
  <2>4. QED
    BY <1>4, <2>2, <2>3
<1>9. ASSUME NEW op \in {"run", "submit"}, Taken(op), NEW r \in Reqs, Start(r),
             IF op = "run" THEN r = Sync /\ conn' = "run" ELSE r \in Tokens /\ down' = <<0, r>>
      PROVE  Owned'
  <2>1. call.at = "answer" /\ call.op = op /\ sock = "open" /\ conn = "serve" /\ call.bufs \subseteq Bufs
    BY <1>9, Started
  <2>2. PICK hs \in SUBSET Slots :
          req' = [req EXCEPT ![r] = [hs |-> hs, on |-> call.bufs, for |-> call.bufs, fw |-> "running"]]
    BY <1>9, Started
  <2>3. down = <<>>
    BY <1>9, Served DEF Taken
  <2>4. AllSubmitted
    BY <2>1, <2>3, Submits
  <2>5. req'[r].on = call.bufs /\ \A x \in Reqs \ {r} : req'[x] = req[x]
    BY <1>2, <2>2
  <2>6. \A b \in call.bufs : access[b] = "device"
    BY <2>1 DEF Calls
  <2>7. DeviceOwns'
    <3>1. \A b \in req'[r].on \cap Bufs : access'[b] = "device"
      BY <1>1, <2>5, <2>6
    <3>2. \A x \in Reqs \ {r} : req'[x].fw = "running" => \A b \in req'[x].on \cap Bufs : access'[b] = "device"
      BY <1>1, <2>5 DEF DeviceOwns
    <3>3. QED
      BY <3>1, <3>2 DEF DeviceOwns
  <2>8. ASSUME NEW t \in Tokens \ {r}, req'[t].fw = "running" PROVE Owner(t)'
    <3>1. t \in Reqs /\ req'[t] = req[t]
      BY <1>2, <2>5
    <3>2. \E p \in pend : p.tok = t /\ Works(t, p.bufs)
      BY <2>4, <2>8, <3>1 DEF AllSubmitted
    <3>3. QED
      BY <1>1, <3>1, <3>2 DEF Owner, Works
  <2>9. CASE op = "run"
    <3>1. Works(Sync, call.bufs)' /\ conn' = "run" /\ r \notin Tokens
      BY <1>1, <1>2, <1>9, <2>5, <2>9 DEF Works
    <3>2. QED
      BY <1>1, <2>7, <2>8, <3>1 DEF Owned, Owners
  <2>10. CASE op = "submit"
    <3>1. Owner(r)' /\ r # Sync
      BY <1>1, <1>2, <1>9, <2>1, <2>5, <2>10 DEF Owner, Works
    <3>2. req'[Sync].fw # "running"
      BY <1>2, <2>4, <2>5, <3>1 DEF AllSubmitted
    <3>3. QED
      BY <2>7, <2>8, <3>1, <3>2 DEF Owned, Owners
  <2>11. QED
    BY <2>9, <2>10
<1>10. CASE DoRun
  BY <1>2, <1>9, <1>10 DEF DoRun
<1>11. CASE DoSubmit
  <2>1. PICK t \in Tokens : Start(t) /\ Say(<<0, t>>)
    BY <1>11 DEF DoSubmit
  <2>2. Taken("submit")
    BY <1>11 DEF DoSubmit
  <2>3. <<0, t>> \in Seq(Int)
    BY DEF Tokens
  <2>4. down' = <<0, t>>
    BY <2>1, <2>2, <2>3, Served, Said DEF Taken
  <2>5. QED
    BY <1>2, <1>9, <2>1, <2>2, <2>4
<1>12. CASE WaitUnknown \/ DoWait
  <2>1. Serving /\ up[1].op = "wait" /\ UNCHANGED req
    BY <1>12 DEF WaitUnknown, DoWait, daemon
  <2>2. conn = "serve" /\ sock = "open" /\ call.op = "wait" /\ call.tok = up[1].tok
    BY <2>1, Served, CommandServed
  <2>3. CASE WaitUnknown
    <3>1. req[call.tok].fw # "running"
      BY <2>2, <2>3 DEF WaitUnknown, NoReq
    <3>2. QED
      BY <1>4, <2>1, <2>2, <3>1
  <2>4. CASE DoWait
    <3>1. UNCHANGED down /\ req[Sync].fw # "running"
      BY <2>2, <2>4 DEF DoWait, Owners
    <3>2. QED
      BY <1>1, <2>1, <3>1, OwnedByDaemon
  <2>5. QED
    BY <1>12, <2>3, <2>4
<1>13. ASSUME NEW r \in Reqs, Done(r) PROVE Owned'
  <2>1. /\ conn \in {"run", "wait"} /\ req[r].fw # "running"
        /\ (conn = "run" /\ r = Sync) \/ (conn = "wait" /\ r = cmd)
    BY <1>13 DEF Done
  <2>2. sock = "open" /\ call.op = conn /\ (conn = "wait" => cmd = call.tok)
    BY <2>1 DEF Traffic, Awaited
  <2>3. \A x \in Reqs : req'[x] = req[x] \/ req'[x] = NoReq
    BY <1>2, <1>13 DEF Done, Dies
  <2>4. CASE conn = "wait"
    BY <1>4, <2>1, <2>2, <2>3, <2>4
  <2>5. CASE conn = "run"
    <3>1. req'[Sync].fw # "running"
      BY <1>2, <2>1, <2>3, <2>5 DEF NoReq
    <3>2. \A t \in Tokens : req[t].fw = "running" => \E p \in pend : p.tok = t /\ Works(t, p.bufs)
      BY <2>2, <2>5 DEF Owners, Owner
    <3>3. \A x \in Reqs : req'[x].fw = "running" => req[x].fw = "running" /\ req'[x].on = req[x].on
      BY <2>3 DEF NoReq
    <3>4. AllSubmitted'
      BY <1>1, <1>2, <3>1, <3>2, <3>3 DEF AllSubmitted, Works
    <3>5. QED
      BY <1>1, <3>1, <3>3, <3>4, OwnedByDaemon
  <2>6. QED
    BY <2>1, <2>4, <2>5
<1>14. CASE LeaveLoop
  <2>1. conn = "serve" /\ UNCHANGED <<down, req>>
    BY <1>14 DEF LeaveLoop
  <2>2. sock = "open" => req[Sync].fw # "running"
    BY <2>1 DEF Owners
  <2>3. QED
    BY <1>1, <2>1, <2>2, OwnedByDaemon
<1>15. CASE End
  <2>1. \A r \in Reqs : req'[r].fw # "running"
    BY <1>15 DEF End, NoReq
  <2>2. QED
    BY <1>3, <2>1
<1>16. CASE Restart
  <2>1. \A r \in Reqs : req'[r].fw # "running"
    BY <1>16, NothingRuns DEF Restart
  <2>2. QED
    BY <1>3, <2>1
<1>17. CASE Watchdog \/ \E r \in Reqs : Finish(r)
  <2>1. UNCHANGED <<down, conn>>
    BY <1>17 DEF Watchdog, Finish
  <2>2. \A r \in Reqs : req'[r].fw = "running" => req[r].fw = "running" /\ req'[r].on = req[r].on
    BY <1>2, <1>17 DEF Watchdog, Finish, Request
  <2>3. QED
    BY <1>1, <2>1, <2>2, OwnedByDaemon
<1>18. QED
  BY <1>5, <1>6, <1>7, <1>8, <1>10, <1>11, <1>12, <1>13, <1>14, <1>15, <1>16, <1>17 DEF DaemonStep, Daemon

-------------------------------------------------------------------------------
(* The theorems *)

\* The invariant holds when the application and the bridge have started.
LEMMA InitInv == Init => IInv
<1> SUFFICES ASSUME Init PROVE IInv
  OBVIOUS
<1> USE DEF Init
<1>1. TypeOK
  <2>1. ClientTypes
    BY DEF ClientTypes, NoHandles, NoCall
  <2>2. SocketTypes
    BY DEF SocketTypes
  <2>3. DaemonTypes
    BY DEF DaemonTypes, NoReq
  <2>4. QED
    BY <2>1, <2>2, <2>3 DEF TypeOK
<1>2. Calls /\ Pending /\ OpenBrackets
  BY DEF Calls, Pending, OpenBrackets, NoCall
<1>3. Traffic
  BY DEF Traffic, Quiet, NoCall
<1>4. Handles /\ Gone
  BY DEF Handles, Gone, NoHandles
<1>5. \A r \in Reqs : req[r] = NoReq
  OBVIOUS
<1>6. Owners /\ RightBuffers /\ DeviceOwns
  BY <1>5 DEF Owners, RightBuffers, DeviceOwns, NoReq
<1>7. QED
  BY <1>1, <1>2, <1>3, <1>4, <1>6 DEF IInv

\* The invariant is inductive.
LEMMA InvStep == IInv /\ [Next]_vars => IInv'
<1> SUFFICES ASSUME IInv, [Next]_vars PROVE IInv'
  OBVIOUS
<1>1. CASE Next
  <2>1. ClientTypes' /\ Books' /\ Tables' /\ Handles'
    BY <1>1, ClientTypesStep, BooksStep, TablesStep, HandlesStep
  <2>2. SocketTypes' /\ Traffic' /\ Owned'
    BY <1>1, Sides, WireClient, WireDaemon, OwnedClientStep, OwnedDaemonStep
  <2>3. QED
    BY <2>1, <2>2 DEF IInv, TypeOK, Books, Tables, Owned
<1>2. CASE UNCHANGED vars
  <2> USE <1>2 DEF IInv, vars, client, daemon
  <2>1. TypeOK'
    BY DEF TypeOK, ClientTypes, SocketTypes, DaemonTypes
  <2>2. Calls' /\ Pending' /\ OpenBrackets'
    BY DEF Calls, Pending, OpenBrackets, Busy
  <2>3. Traffic'
    BY DEF Traffic, Awaited, Answered, GivesHandles, Quiet, Asked, Stuck, Query, ImportItems, Need
  <2>4. Handles' /\ Gone'
    BY DEF Handles, GivenBack, Gone
  <2>5. Owners' /\ RightBuffers' /\ DeviceOwns'
    BY DEF Owners, Owner, Works, RightBuffers, DeviceOwns
  <2>6. QED
    BY <2>1, <2>2, <2>3, <2>4, <2>5
<1>3. QED
  BY <1>1, <1>2

\* The invariant holds.
THEOREM Invariance == Spec => []IInv
  BY InitInv, InvStep, PTL DEF Spec

\* The variables hold values of their sets.
THEOREM TypeCorrect == Spec => []TypeOK
<1>1. IInv => TypeOK
  BY DEF IInv
<1>2. QED
  BY Invariance, <1>1, PTL

\* Every job of the firmware works on the buffers the call named, not on others that its
\* handles have come to stand for.
THEOREM JobsWorkOnTheirBuffers == Spec => []RightBuffers
<1>1. IInv => RightBuffers
  BY DEF IInv
<1>2. QED
  BY Invariance, <1>1, PTL

\* What the DSP works on is closed to the CPU, in a session and after it.
THEOREM ClosedWhileItWorks == Spec => []DeviceOwns
<1>1. IInv => DeviceOwns
  BY DEF IInv
<1>2. QED
  BY Invariance, <1>1, PTL

\* What is not submitted is open to the CPU between two calls, on every path of every call.
THEOREM BracketsBalance == Spec => []CpuAgain
<1>1. IInv => CpuAgain
  BY DEF IInv, OpenBrackets, CpuAgain, NoCall
<1>2. QED
  BY Invariance, <1>1, PTL


\* The command of a call is not empty.
LEMMA QuerySent ==
  ASSUME TypeOK, Calls, call.at # "none"
  PROVE  Query # <<>>
<1>1. call.at \in {"imported", "answer"} /\ ClientTypes
  BY DEF TypeOK, ClientTypes
<1>2. CASE call.at = "imported"
  <2>1. call.op \in {"import", "run", "submit"} /\ call.bufs \in SUBSET Bufs
    BY <1>1, <1>2 DEF Calls, ClientTypes
  <2>2. Len(ImportItems(call.op, call.bufs)) = 2
    BY <1>1, <2>1, ImportSends
  <2> QED
    BY <1>2, <2>2 DEF Query
<1>3. CASE call.at = "answer"
  <2>1. /\ call.op \in {"release", "run", "submit", "wait"} /\ call.bufs \in SUBSET Bufs
        /\ call.tok \in Tokens \cup {NoTok} /\ dsp_h \in [Bufs -> Slots \cup {-1}]
    BY <1>1, <1>3 DEF Calls, ClientTypes
  <2>2. CommandItems(call.op, call.bufs, call.tok, dsp_h) # <<>>
    BY <1>1, <2>1, CommandSends
  <2> QED
    BY <1>3, <2>2 DEF Query
<1>4. QED
  BY <1>1, <1>2, <1>3

\* A complete answer is as long as the library expects.
LEMMA LongEnough ==
  ASSUME TypeOK, Answered
  PROVE  Len(down) >= Words
<1>1. CASE call.at = "imported"
  <2>1. CASE down = <<1>>
    <3>1. down # <<>> /\ Head(down) # 0 /\ Len(down) = 1
      BY <2>1
    <3>2. Words = 1
      BY <1>1, <3>1 DEF Words
    <3> QED
      BY <3>1, <3>2
  <2>2. CASE GivesHandles
    <3> DEFINE c == Cardinality(Need(call.op, call.bufs))
    <3>1. Len(down) = 1 + c /\ down[1] = 0
      BY <2>2 DEF GivesHandles
    <3>2. c \in Nat
      <4>1. Need(call.op, call.bufs) \in SUBSET Bufs
        BY DEF Need, TypeOK, ClientTypes
      <4> QED
        BY <4>1, Order
    <3>3. down # <<>> /\ Head(down) = 0
      <4>1. down \in Seq(Int)
        BY DEF TypeOK, SocketTypes
      <4>2. down # <<>>
        BY <3>1, <3>2
      <4> QED
        BY <3>1, <4>1, <4>2
    <3>4. Words = 1 + c
      BY <1>1, <3>3 DEF Words
    <3> QED
      BY <3>1, <3>2, <3>4
  <2> QED
    BY <1>1, <2>1, <2>2 DEF Answered
<1>2. CASE call.at = "answer"
  <2>1. Words = [release |-> 1, submit |-> 2, run |-> 3, wait |-> 3][call.op]
    BY <1>2 DEF Words
  <2>2. CASE call.op = "release"
    BY <1>2, <2>1, <2>2 DEF Answered
  <2>3. CASE call.op = "submit"
    <3>1. Len(down) = 2
      BY <1>2, <2>3 DEF Answered
    <3> QED
      BY <2>1, <2>3, <3>1
  <2>4. CASE call.op = "run" \/ call.op = "wait"
    <3>1. Len(down) = 3
      BY <1>2, <2>4 DEF Answered
    <3> QED
      BY <2>1, <2>4, <3>1
  <2> QED
    BY <1>2, <2>2, <2>3, <2>4 DEF Answered
<1>3. QED
  BY <1>1, <1>2 DEF Answered

\* No call of the library waits for words that nobody will write: they are all there, or the daemon
\* still has the command.
THEOREM NoWaitInVain == Spec => []NeverInVain
<1>1. IInv => NeverInVain
  <2> SUFFICES ASSUME IInv, call.at # "none", Len(down) < Words
               PROVE  down = <<>> /\ (conn = "serve" => up # <<>>)
    BY DEF NeverInVain
  <2>1. ~Answered
    <3>1. SUFFICES ASSUME Answered PROVE FALSE
      OBVIOUS
    <3>2. Len(down) >= Words
      BY <3>1, LongEnough DEF IInv
    <3>3. Len(down) \in Nat /\ Words \in Int
      <4>1. down \in Seq(Int) /\ call.op \in {"none", "import", "release", "run", "submit", "wait"}
        BY DEF IInv, TypeOK, SocketTypes, ClientTypes
      <4>2. Need(call.op, call.bufs) \in SUBSET Bufs
        BY DEF Need, IInv, TypeOK, ClientTypes
      <4>3. Cardinality(Need(call.op, call.bufs)) \in Nat
        BY <4>2, Order
      <4>4. call.at \in {"imported", "answer"} /\ (call.at = "answer" => call.op \in {"release", "run", "submit", "wait"})
        BY DEF IInv, TypeOK, ClientTypes, Calls
      <4> QED
        BY <4>1, <4>3, <4>4 DEF Words
    <3> QED
      BY <3>2, <3>3
  <2>2. Awaited
    BY <2>1 DEF IInv, Traffic
  <2>3. Query # <<>>
    BY QuerySent DEF IInv
  <2> QED
    BY <2>2, <2>3 DEF Awaited, Asked, Stuck
<1>2. QED
  BY <1>1, Invariance, PTL
===============================================================================
