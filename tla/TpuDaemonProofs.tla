--------------------------- MODULE TpuDaemonProofs ----------------------------
(***************************************************************************)
(* Proofs about tpud (TpuDaemon), for any number of connections and        *)
(* handles.  The TPU runs requests in order and only the owner of the      *)
(* mutex adds any, so the requests it waits for are the last in the queue: *)
(* when all its requests have fences and none of them is left, the queue   *)
(* is empty, late requests included.                                       *)
(***************************************************************************)
EXTENDS TpuDaemon, SequenceTheorems, TLAPS

Critical == {"touch", "touched", "submit", "await", "unlock"}

\* The mutex belongs to the thread in the critical section, or to the idle thread.
Exclusive ==
  /\ \A t \in Threads : pc[t] \in Critical <=> lock = t
  /\ lock = Idler <=> idle \in {"check", "clear"}

\* Between the lookup of its handles and the reply a thread's buffers are mapped.
ArgIsMapped ==
  \A t \in Threads :
    pc[t] \in Critical \/ (pc[t] = "wait" /\ proto[t] = "zc") => arg[t] \subseteq h[t]

\* An inline connection has buffers only while it owns the mutex, a free one none.
NothingKept ==
  \A t \in Threads :
    pc[t] = "free" \/ (proto[t] = "inline" /\ pc[t] \in {"ready", "wait"}) => h[t] = {}

\* A request that is waited for has the buffers its thread named.
Waiting ==
  \A i \in DOMAIN queue :
    ~queue[i].late => /\ pc[queue[i].by] = "await"
                      /\ queue[i].bufs = arg[queue[i].by]

\* While the owner of the mutex awaits fences, the last request is one of its own.
LastIsAwaited ==
  \A t \in Threads : pc[t] = "await" /\ ~blind[t] /\ queue # <<>> =>
    ~queue[Len(queue)].late /\ queue[Len(queue)].by = t

\* 0 is the outcome of an inference after which the TPU had nothing left to do, or
\* of one that had no fence.
OkMeansIdle ==
  \A t \in Threads : ok[t] => pc[t] = "unlock" /\ (blind[t] \/ queue = <<>>)

\* The kernel's file and what tpud thinks of it differ only while they are changed.
HeldIsAwake ==
  sig = "none" =>
    /\ held => kwl \/ idle = "clear"
    /\ idle = "clear" => ~kwl
    /\ \A t \in Threads : pc[t] \in {"touched", "submit", "await"} => kwl

\* The wakelock is on only if tpud knows of it, or is about to, or if it is one that
\* an earlier process has left on.
OnIsKnown ==
  sig = "none" /\ kwl => held \/ orphan \/ \E t \in Threads : pc[t] = "touched"

TypeInv == TypeOK /\ Exclusive
QueueInv == ArgIsMapped /\ NothingKept /\ Waiting /\ LastIsAwaited
IInv == TypeInv /\ QueueInv /\ HeldIsAwake /\ OnIsKnown

-------------------------------------------------------------------------------
(* The TPU's queue *)

Requests == [by : Threads, bufs : SUBSET Slots, late : BOOLEAN]

\* Putting requests at the end of the queue.
LEMMA Appended ==
  ASSUME NEW q \in Seq(Requests), NEW s \in Seq(Requests), NEW q2, q2 = q \o s
  PROVE  /\ q2 \in Seq(Requests) /\ Len(q) \in Nat /\ Len(s) \in Nat
         /\ Len(q2) = Len(q) + Len(s)
         /\ DOMAIN q = 1 .. Len(q) /\ DOMAIN q2 = 1 .. Len(q) + Len(s)
         /\ \A i \in 1 .. Len(q) : q2[i] = q[i]
         /\ \A i \in 1 .. Len(s) : q2[Len(q) + i] = s[i]
         /\ \A i \in DOMAIN q2 : i \in 1 .. Len(q) \/ \E j \in 1 .. Len(s) : i = Len(q) + j
<1>1. /\ q2 \in Seq(Requests) /\ Len(q2) = Len(q) + Len(s)
      /\ \A i \in 1 .. Len(q) + Len(s) : q2[i] = IF i <= Len(q) THEN q[i] ELSE s[i - Len(q)]
  BY ConcatProperties
<1>2. /\ Len(q) \in Nat /\ Len(s) \in Nat
      /\ DOMAIN q = 1 .. Len(q) /\ DOMAIN q2 = 1 .. Len(q) + Len(s)
  BY <1>1, LenProperties
<1>3. \A i \in 1 .. Len(q) : q2[i] = q[i]
  BY <1>1, <1>2
<1>4. ASSUME NEW i \in 1 .. Len(s) PROVE q2[Len(q) + i] = s[i]
  <2>1. /\ Len(q) + i \in 1 .. Len(q) + Len(s) /\ ~(Len(q) + i <= Len(q))
        /\ (Len(q) + i) - Len(q) = i
    BY <1>2
  <2> QED
    BY <1>1, <2>1
<1>5. ASSUME NEW i \in DOMAIN q2, i \notin 1 .. Len(q)
      PROVE  \E j \in 1 .. Len(s) : i = Len(q) + j
  <2>1. i - Len(q) \in 1 .. Len(s) /\ i = Len(q) + (i - Len(q))
    BY <1>2, <1>5
  <2> QED
    BY <2>1
<1> QED
  BY <1>1, <1>2, <1>3, <1>4, <1>5

\* Completing the oldest request.
LEMMA Completing ==
  ASSUME NEW q \in Seq(Requests), q # <<>>, NEW q2, q2 = Tail(q)
  PROVE  /\ q2 \in Seq(Requests) /\ Len(q2) = Len(q) - 1 /\ Len(q) \in Nat \ {0}
         /\ DOMAIN q = 1 .. Len(q) /\ DOMAIN q2 = 1 .. Len(q) - 1
         /\ \A i \in 1 .. Len(q) - 1 : q2[i] = q[i + 1]
<1>1. /\ q2 \in Seq(Requests) /\ Len(q2) = Len(q) - 1
      /\ \A i \in 1 .. Len(Tail(q)) : Tail(q)[i] = q[i + 1]
  BY HeadTailProperties
<1> QED
  BY <1>1, LenProperties, EmptySeq

\* Giving up marks what was awaited as late and leaves the rest.
LEMMA GivingUp ==
  ASSUME queue \in Seq(Requests), NEW t \in Threads, GiveUp(t)
  PROVE  /\ queue' \in Seq(Requests) /\ Len(queue') = Len(queue) /\ Len(queue) \in Nat
         /\ DOMAIN queue' = DOMAIN queue /\ DOMAIN queue = 1 .. Len(queue)
         /\ \A i \in DOMAIN queue : /\ queue'[i].by = queue[i].by
                                    /\ queue'[i].bufs = queue[i].bufs
                                    /\ ~queue'[i].late <=> ~queue[i].late /\ queue[i].by # t
<1>1. Len(queue) \in Nat /\ DOMAIN queue = 1 .. Len(queue)
  BY LenProperties
<1>2. \A i \in DOMAIN queue : queue[i] \in Requests
  BY <1>1, ElementOfSeq
<1>3. queue' = [i \in DOMAIN queue |-> [queue[i] EXCEPT !.late = @ \/ i \in Awaited(t)]]
  BY DEF GiveUp
<1>4. \A i \in DOMAIN queue : queue'[i] = [queue[i] EXCEPT !.late = queue[i].late \/ i \in Awaited(t)]
  BY <1>3
<1>5. \A i \in DOMAIN queue : /\ queue'[i] \in Requests
                              /\ queue'[i].by = queue[i].by /\ queue'[i].bufs = queue[i].bufs
                              /\ queue'[i].late = (queue[i].late \/ i \in Awaited(t))
  BY <1>2, <1>4 DEF Requests
<1>6. queue' \in [1 .. Len(queue) -> Requests]
  BY <1>1, <1>3, <1>5
<1>7. queue' \in Seq(Requests)
  BY <1>1, <1>6, SeqDef
<1>8. Len(queue') = Len(queue) /\ DOMAIN queue' = DOMAIN queue
  BY <1>1, <1>6, <1>7, LenProperties
<1>9. \A i \in DOMAIN queue : ~queue'[i].late <=> ~queue[i].late /\ queue[i].by # t
  BY <1>5 DEF Awaited
<1> QED
  BY <1>1, <1>5, <1>7, <1>8, <1>9

-------------------------------------------------------------------------------
(* Types and the mutex *)

\* The queue's type, by the name it has here.
LEMMA QueueType ==
  ASSUME TypeOK
  PROVE  /\ queue \in Seq(Requests) /\ Len(queue) \in Nat /\ DOMAIN queue = 1 .. Len(queue)
         /\ \A i \in DOMAIN queue : queue[i].by \in Threads
<1>1. queue \in Seq(Requests)
  BY DEF TypeOK, Requests
<1>2. Len(queue) \in Nat /\ DOMAIN queue = 1 .. Len(queue)
  BY <1>1, LenProperties
<1>3. \A i \in DOMAIN queue : queue[i] \in Requests
  BY <1>1, <1>2, ElementOfSeq
<1> QED
  BY <1>1, <1>2, <1>3 DEF Requests

\* The tables of a process that has just started.
LEMMA EmptyTables ==
  /\ Off \in [Threads -> {"free"}] /\ Zc \in [Threads -> {"zc"}]
  /\ Empty \in [Threads -> {{}}] /\ Bad \in [Threads -> {FALSE}]
  /\ <<>> \in Seq(Requests) /\ Len(<<>>) = 0
BY EmptySeq DEF Off, Zc, Empty, Bad

\* Starting a session, reading its commands, filling and emptying its table.
LEMMA SessionTypes ==
  ASSUME TypeInv, NEW t \in Threads, Session(t)
  PROVE  TypeInv'
<1> USE DEF threads, wake, Goto, Section
<1>1. CASE Accept(t)
  <2>1. PICK p \in {"zc", "inline"} : proto' = [proto EXCEPT ![t] = p]
    BY <1>1 DEF Accept
  <2> QED
    BY <1>1, <2>1 DEF Accept, TypeInv, TypeOK, Exclusive, Critical
<1>2. CASE End(t)
  BY <1>2 DEF End, TypeInv, TypeOK, Exclusive, Critical
<1>3. ASSUME NEW n \in 1 .. MaxH, Import(t, n) PROVE TypeInv'
  BY <1>3 DEF Import, TypeInv, TypeOK, Exclusive
<1>4. ASSUME NEW hs \in SUBSET Slots, Release(t, hs) PROVE TypeInv'
  BY <1>4 DEF Release, TypeInv, TypeOK, Exclusive
<1>5. ASSUME NEW hs \in SUBSET Slots, Infer(t, hs) PROVE TypeInv'
  BY <1>5 DEF Infer, TypeInv, TypeOK, Exclusive, Critical
<1> QED
  BY <1>1, <1>2, <1>3, <1>4, <1>5 DEF Session

\* The requests a thread makes.
LEMMA RequestType ==
  ASSUME TypeOK, NEW t \in Threads, NEW late \in BOOLEAN
  PROVE  Request(t, late) \in Requests
<1> QED
  BY DEF TypeOK, Request, Requests

\* What a thread's requests look like, and what it does about them.
Sending(t, n, s) ==
  /\ s \in Seq(Requests) /\ Len(s) <= n /\ queue' = queue \o s
  /\ \A i \in 1 .. Len(s) : s[i] \in {Request(t, FALSE), Request(t, TRUE)}
  /\ \/ /\ Goto(t, "await") /\ UNCHANGED ok
        /\ blind' = [blind EXCEPT ![t] = Len(s) < n \/ \E i \in 1 .. Len(s) : s[i].late]
     \/ /\ \A i \in 1 .. Len(s) : s[i] = Request(t, TRUE)
        /\ Goto(t, "unlock") /\ ok' = [ok EXCEPT ![t] = FALSE] /\ UNCHANGED blind

\* A function on 1 .. m to the requests of a thread is a sequence of requests.
LEMMA SentType ==
  ASSUME TypeOK, NEW t \in Threads, NEW m \in Nat,
         NEW s \in [1 .. m -> {Request(t, FALSE), Request(t, TRUE)}]
  PROVE  s \in Seq(Requests) /\ Len(s) = m
<1>1. s \in [1 .. m -> Requests]
  BY RequestType
<1>2. s \in Seq(Requests)
  BY <1>1, SeqDef
<1>3. DOMAIN s = 1 .. m /\ Len(s) \in Nat /\ DOMAIN s = 1 .. Len(s)
  BY <1>1, <1>2, LenProperties
<1> QED
  BY <1>2, <1>3

\* Submitting, whether the requests get fences or not and whether or not it fails
\* half way.
LEMMA SubmitQueue ==
  ASSUME TypeOK, NEW t \in Threads, NEW n \in 1 .. 2, Submit(t, n)
  PROVE  /\ \E s \in Seq(Requests) : Sending(t, n, s)
         /\ queue' \in Seq(Requests) /\ Len(queue') <= MaxQueue
<1>1. PICK s \in Seq(Requests) : Sending(t, n, s)
  <2>1. CASE /\ \E m \in 0 .. n : \E sent \in [1 .. m -> {Request(t, FALSE), Request(t, TRUE)}] :
                  /\ Fence \/ \A i \in 1 .. m : ~sent[i].late
                  /\ queue' = queue \o sent
                  /\ blind' = [blind EXCEPT ![t] = m < n \/ \E i \in 1 .. m : sent[i].late]
             /\ Goto(t, "await") /\ UNCHANGED ok
    <3>1. PICK m \in 0 .. n : \E sent \in [1 .. m -> {Request(t, FALSE), Request(t, TRUE)}] :
                  /\ queue' = queue \o sent
                  /\ blind' = [blind EXCEPT ![t] = m < n \/ \E i \in 1 .. m : sent[i].late]
      BY <2>1
    <3>2. PICK sent \in [1 .. m -> {Request(t, FALSE), Request(t, TRUE)}] :
                  /\ queue' = queue \o sent
                  /\ blind' = [blind EXCEPT ![t] = m < n \/ \E i \in 1 .. m : sent[i].late]
      BY <3>1
    <3>3. m \in Nat /\ m <= n
      OBVIOUS
    <3>4. sent \in Seq(Requests) /\ Len(sent) = m
      BY <3>3, SentType
    <3>5. \A i \in 1 .. Len(sent) : sent[i] \in {Request(t, FALSE), Request(t, TRUE)}
      BY <3>4
    <3>6. Sending(t, n, sent)
      BY <2>1, <3>2, <3>3, <3>4, <3>5 DEF Sending
    <3> QED
      BY <3>4, <3>6
  <2>2. CASE /\ \E k \in 0 .. n - 1 : queue' = queue \o [i \in 1 .. k |-> Request(t, TRUE)]
             /\ Goto(t, "unlock") /\ ok' = [ok EXCEPT ![t] = FALSE] /\ UNCHANGED blind
    <3>1. PICK k \in 0 .. n - 1 : queue' = queue \o [i \in 1 .. k |-> Request(t, TRUE)]
      BY <2>2
    <3> DEFINE sent == [i \in 1 .. k |-> Request(t, TRUE)]
    <3>2. k \in Nat /\ k <= n /\ sent \in [1 .. k -> {Request(t, FALSE), Request(t, TRUE)}]
      OBVIOUS
    <3>3. sent \in Seq(Requests) /\ Len(sent) = k
      BY <3>2, SentType
    <3>4. \A i \in 1 .. Len(sent) : sent[i] = Request(t, TRUE)
      BY <3>3
    <3>5. queue' = queue \o sent
      BY <3>1
    <3> HIDE DEF sent
    <3>6. Sending(t, n, sent)
      BY <2>2, <3>2, <3>3, <3>4, <3>5 DEF Sending
    <3> QED
      BY <3>3, <3>6
  <2> QED
    BY <2>1, <2>2 DEF Submit
<1>2. queue' \in Seq(Requests) /\ Len(queue') = Len(queue) + Len(s) /\ Len(s) \in Nat /\ Len(s) <= n
  BY <1>1, QueueType, Appended DEF Sending
<1>3. Len(queue) \in Nat /\ Len(queue) + n <= MaxQueue /\ MaxQueue \in Nat
  BY QueueType, SizeAssumption DEF Submit
<1>4. Len(queue') <= MaxQueue
  BY <1>2, <1>3
<1> QED
  BY <1>1, <1>2, <1>4

\* An inference, from the mutex to the reply.
LEMMA InferringTypes ==
  ASSUME TypeInv, NEW t \in Threads, Inferring(t)
  PROVE  TypeInv'
<1>0. t # None /\ t # Idler
  BY NoneAssumption
<1> USE DEF threads, wake, Goto
<1>1. CASE Lock(t)
  BY <1>0, <1>1, NoneAssumption DEF Lock, TypeInv, TypeOK, Exclusive, Critical
<1>2. CASE AllocFails(t)
  BY <1>2 DEF AllocFails, TypeInv, TypeOK, Exclusive, Critical
<1>3. CASE Touch(t)
  <2>1. /\ pc' \in [Threads -> {"free", "ready", "wait", "touch", "touched", "submit", "await", "unlock"}]
        /\ kwl' \in BOOLEAN /\ recent' = TRUE
    BY <1>3 DEF Touch, TypeInv, TypeOK
  <2>2. TypeOK'
    BY <1>3, <2>1 DEF Touch, TypeInv, TypeOK
  <2>3. Exclusive'
    BY <1>3 DEF Touch, TypeInv, TypeOK, Exclusive, Critical
  <2> QED
    BY <2>2, <2>3 DEF TypeInv
<1>4. CASE Touched(t)
  BY <1>4 DEF Touched, TypeInv, TypeOK, Exclusive, Critical
<1>5. ASSUME NEW n \in 1 .. 2, Submit(t, n) PROVE TypeInv'
  <2>1. PICK s \in Seq(Requests) : Sending(t, n, s)
    BY <1>5, SubmitQueue DEF TypeInv
  <2>2. queue' \in Seq(Requests) /\ Len(queue') <= MaxQueue
    BY <1>5, SubmitQueue DEF TypeInv
  <2>3. TypeOK'
    <3>1. /\ pc' \in [Threads -> {"free", "ready", "wait", "touch", "touched", "submit", "await", "unlock"}]
          /\ ok' \in [Threads -> BOOLEAN]
      BY <2>1 DEF TypeInv, TypeOK, Sending
    <3>2. blind' \in [Threads -> BOOLEAN]
      <4>1. PICK x \in BOOLEAN : blind' = blind \/ blind' = [blind EXCEPT ![t] = x]
        BY <2>1, Zenon DEF Sending
      <4> QED
        BY <4>1 DEF TypeInv, TypeOK
    <3>3. UNCHANGED <<proc, proto, lock, arg, h, held, recent, kwl, orphan, idle, sig>>
      BY <1>5 DEF Submit
    <3> QED
      BY <2>2, <3>1, <3>2, <3>3 DEF TypeInv, TypeOK, Requests
  <2>4. Exclusive'
    <3>1. pc' = [pc EXCEPT ![t] = "await"] \/ pc' = [pc EXCEPT ![t] = "unlock"]
      BY <2>1 DEF Sending
    <3> QED
      BY <1>5, <3>1 DEF Submit, TypeInv, TypeOK, Exclusive, Critical
  <2> QED
    BY <2>3, <2>4 DEF TypeInv
<1>6. CASE Completed(t)
  BY <1>6 DEF Completed, TypeInv, TypeOK, Exclusive, Critical
<1>7. CASE Timeout(t)
  <2>1. queue' \in Seq(Requests) /\ Len(queue') = Len(queue)
    BY <1>7, QueueType, GivingUp DEF Timeout, TypeInv
  <2>2. TypeOK'
    BY <1>7, <2>1, SizeAssumption DEF Timeout, TypeInv, TypeOK, Requests
  <2>3. Exclusive'
    BY <1>7 DEF Timeout, TypeInv, TypeOK, Exclusive, Critical
  <2> QED
    BY <2>2, <2>3 DEF TypeInv
<1>8. CASE Unlock(t)
  BY <1>0, <1>8, NoneAssumption DEF Unlock, TypeInv, TypeOK, Exclusive, Critical
<1> QED
  BY <1>1, <1>2, <1>3, <1>4, <1>5, <1>6, <1>7, <1>8 DEF Inferring

\* The process is gone.
LEMMA GoneTypes ==
  ASSUME TypeInv, NEW how \in {"killed", "ended"}, Gone(how)
  PROVE  TypeInv'
<1>1. TypeOK'
  <2>1. queue' \in Seq(Requests) /\ Len(queue') <= MaxQueue
    BY EmptyTables, SizeAssumption DEF Gone
  <2>2. /\ pc' \in [Threads -> {"free"}] /\ proto' \in [Threads -> {"zc"}]
        /\ h' \in [Threads -> {{}}] /\ arg' \in [Threads -> {{}}] /\ ok' \in [Threads -> {FALSE}]
        /\ blind' \in [Threads -> {FALSE}]
    BY EmptyTables DEF Gone
  <2>3. /\ pc' \in [Threads -> {"free", "ready", "wait", "touch", "touched", "submit", "await", "unlock"}]
        /\ proto' \in [Threads -> {"zc", "inline"}] /\ ok' \in [Threads -> BOOLEAN]
        /\ blind' \in [Threads -> BOOLEAN]
        /\ h' \in [Threads -> SUBSET Slots] /\ arg' \in [Threads -> SUBSET Slots]
    BY <2>2
  <2> QED
    BY <2>1, <2>3 DEF Gone, TypeInv, TypeOK, Requests
<1>2. Exclusive'
  BY EmptyTables, NoneAssumption DEF Gone, TypeInv, TypeOK, Exclusive, Critical
<1> QED
  BY <1>1, <1>2 DEF TypeInv

\* The mutex and the types are kept by every step.
LEMMA TypeInvStep == TypeInv /\ [Next]_vars => TypeInv'
<1> SUFFICES ASSUME TypeInv, [Next]_vars PROVE TypeInv'
  OBVIOUS
<1> USE DEF threads, wake
<1>1. CASE Execute
  <2>1. queue' \in Seq(Requests) /\ Len(queue') = Len(queue) - 1 /\ Len(queue) \in Nat
    BY <1>1, QueueType, Completing DEF Execute, TypeInv
  <2>2. Len(queue') <= MaxQueue
    BY <2>1, SizeAssumption DEF TypeInv, TypeOK
  <2> QED
    BY <1>1, <2>1, <2>2 DEF Execute, TypeInv, TypeOK, Exclusive, Requests
<1>2. CASE Elapse \/ IdleLook \/ Signal \/ SignalWrite \/ SignalClear \/ Respawn \/ UNCHANGED vars
  <2>1. CASE Elapse \/ IdleLook
    BY <2>1 DEF Elapse, IdleLook, TypeInv, TypeOK, Exclusive
  <2>2. CASE Signal \/ SignalWrite \/ SignalClear
    BY <2>2 DEF Signal, SignalWrite, SignalClear, TypeInv, TypeOK, Exclusive
  <2>3. CASE Respawn \/ UNCHANGED vars
    BY <2>3 DEF Respawn, vars, TypeInv, TypeOK, Exclusive
  <2> QED
    BY <1>2, <2>1, <2>2, <2>3
<1>3. CASE IdleLock \/ IdleCheck \/ IdleClear
  <2>1. CASE IdleLock
    BY <2>1, NoneAssumption DEF IdleLock, TypeInv, TypeOK, Exclusive
  <2>2. CASE IdleCheck
    BY <2>2, NoneAssumption DEF IdleCheck, TypeInv, TypeOK, Exclusive
  <2>3. CASE IdleClear
    BY <2>3, NoneAssumption DEF IdleClear, TypeInv, TypeOK, Exclusive
  <2> QED
    BY <1>3, <2>1, <2>2, <2>3
<1>4. CASE SignalExit \/ Kill
  BY <1>4, GoneTypes DEF SignalExit, Kill
<1> QED
  BY <1>1, <1>2, <1>3, <1>4, SessionTypes, InferringTypes DEF Next, IdleStep

\* A process that has just started.
LEMMA TypeInvInit == Init => TypeInv
<1> SUFFICES ASSUME Init PROVE TypeInv
  OBVIOUS
<1>1. TypeOK
  <2>1. queue \in Seq(Requests) /\ Len(queue) <= MaxQueue
    BY EmptyTables, SizeAssumption DEF Init
  <2>2. /\ pc \in [Threads -> {"free"}] /\ proto \in [Threads -> {"zc"}]
        /\ h \in [Threads -> {{}}] /\ arg \in [Threads -> {{}}] /\ ok \in [Threads -> {FALSE}]
        /\ blind \in [Threads -> {FALSE}]
    BY EmptyTables DEF Init
  <2> QED
    BY <2>1, <2>2 DEF Init, TypeOK, Requests
<1>2. Exclusive
  BY EmptyTables, NoneAssumption DEF Init, Exclusive, Critical
<1> QED
  BY <1>1, <1>2 DEF TypeInv

\* The variables of tpud keep their types.
THEOREM TypeCorrect == Spec => []TypeOK
<1>1. TypeInv => TypeOK
  BY DEF TypeInv
<1> QED
  BY <1>1, TypeInvInit, TypeInvStep, PTL DEF Spec

-------------------------------------------------------------------------------
(* Requests that are waited for *)

\* A thread's buffers are mapped from the lookup of its handles to the reply.
LEMMA ArgStep == IInv /\ [Next]_vars => ArgIsMapped'
<1> SUFFICES ASSUME IInv, [Next]_vars PROVE ArgIsMapped'
  OBVIOUS
<1>0. TypeOK /\ ArgIsMapped
  BY DEF IInv, TypeInv, QueueInv
<1> USE <1>0 DEF threads, wake, Goto, Section, TypeOK, ArgIsMapped, Critical
<1>1. ASSUME NEW t \in Threads, Accept(t) \/ End(t) PROVE ArgIsMapped'
  <2>1. CASE Accept(t)
    <3>1. PICK p \in {"zc", "inline"} : proto' = [proto EXCEPT ![t] = p]
      BY <2>1 DEF Accept
    <3> QED
      BY <2>1, <3>1 DEF Accept
  <2>2. CASE End(t)
    BY <2>2 DEF End
  <2> QED
    BY <1>1, <2>1, <2>2
<1>2. ASSUME NEW t \in Threads, NEW n \in 1 .. MaxH, Import(t, n) PROVE ArgIsMapped'
  BY <1>2 DEF Import
<1>3. ASSUME NEW t \in Threads, NEW hs \in SUBSET Slots, Release(t, hs) PROVE ArgIsMapped'
  BY <1>3 DEF Release
<1>4. ASSUME NEW t \in Threads, NEW hs \in SUBSET Slots, Infer(t, hs) PROVE ArgIsMapped'
  BY <1>4 DEF Infer
<1>5. ASSUME NEW t \in Threads, Lock(t) \/ AllocFails(t) \/ Unlock(t) PROVE ArgIsMapped'
  BY <1>5 DEF Lock, AllocFails, Unlock
<1>6. ASSUME NEW t \in Threads, Touch(t) \/ Touched(t) \/ Completed(t) \/ Timeout(t)
      PROVE  ArgIsMapped'
  BY <1>6 DEF Touch, Touched, Completed, Timeout
<1>7. ASSUME NEW t \in Threads, NEW n \in 1 .. 2, Submit(t, n) PROVE ArgIsMapped'
  BY <1>7 DEF Submit
<1>8. CASE Execute \/ Elapse \/ IdleStep \/ Signal \/ SignalWrite \/ SignalClear \/ Respawn \/ UNCHANGED vars
  BY <1>8 DEF Execute, Elapse, IdleStep, IdleLook, IdleLock, IdleCheck, IdleClear,
              Signal, SignalWrite, SignalClear, Respawn, vars
<1>9. CASE SignalExit \/ Kill
  BY <1>9 DEF SignalExit, Kill, Gone, Off
<1> QED
  BY <1>1, <1>2, <1>3, <1>4, <1>5, <1>6, <1>7, <1>8, <1>9 DEF Next, Session, Inferring

\* A connection that is free, or inline and not at work, has no buffers.
LEMMA KeptStep == IInv /\ [Next]_vars => NothingKept'
<1> SUFFICES ASSUME IInv, [Next]_vars PROVE NothingKept'
  OBVIOUS
<1>0. TypeOK /\ NothingKept
  BY DEF IInv, TypeInv, QueueInv
<1> USE <1>0 DEF threads, wake, Goto, Section, TypeOK, NothingKept
<1>1. ASSUME NEW t \in Threads, Accept(t) \/ End(t) PROVE NothingKept'
  <2>1. CASE Accept(t)
    BY <2>1 DEF Accept
  <2>2. CASE End(t)
    BY <2>2 DEF End
  <2> QED
    BY <1>1, <2>1, <2>2
<1>2. ASSUME NEW t \in Threads, NEW n \in 1 .. MaxH, Import(t, n) PROVE NothingKept'
  BY <1>2 DEF Import
<1>3. ASSUME NEW t \in Threads, NEW hs \in SUBSET Slots, Release(t, hs) PROVE NothingKept'
  BY <1>3 DEF Release
<1>4. ASSUME NEW t \in Threads, NEW hs \in SUBSET Slots, Infer(t, hs) PROVE NothingKept'
  BY <1>4 DEF Infer
<1>5. ASSUME NEW t \in Threads, Lock(t) \/ AllocFails(t) \/ Unlock(t) PROVE NothingKept'
  BY <1>5 DEF Lock, AllocFails, Unlock
<1>6. ASSUME NEW t \in Threads, Touch(t) \/ Touched(t) \/ Completed(t) \/ Timeout(t)
      PROVE  NothingKept'
  BY <1>6 DEF Touch, Touched, Completed, Timeout
<1>7. ASSUME NEW t \in Threads, NEW n \in 1 .. 2, Submit(t, n) PROVE NothingKept'
  BY <1>7 DEF Submit
<1>8. CASE Execute \/ Elapse \/ IdleStep \/ Signal \/ SignalWrite \/ SignalClear \/ Respawn \/ UNCHANGED vars
  BY <1>8 DEF Execute, Elapse, IdleStep, IdleLook, IdleLock, IdleCheck, IdleClear,
              Signal, SignalWrite, SignalClear, Respawn, vars
<1>9. CASE SignalExit \/ Kill
  BY <1>9 DEF SignalExit, Kill, Gone, Off, Empty
<1> QED
  BY <1>1, <1>2, <1>3, <1>4, <1>5, <1>6, <1>7, <1>8, <1>9 DEF Next, Session, Inferring

\* Steps that leave the queue and what is awaited alone.
LEMMA QueueUntouched ==
  ASSUME TypeOK, Waiting, LastIsAwaited, UNCHANGED queue,
         \A t \in Threads : pc'[t] = "await" <=> pc[t] = "await",
         \A t \in Threads : pc[t] = "await" => arg'[t] = arg[t] /\ blind'[t] = blind[t]
  PROVE  Waiting' /\ LastIsAwaited'
<1>1. \A i \in DOMAIN queue : queue[i].by \in Threads
  BY QueueType
<1> QED
  BY <1>1 DEF Waiting, LastIsAwaited

\* Only the owner of the mutex awaits anything.
LEMMA OnlyOwner ==
  ASSUME IInv, NEW t \in Threads, pc[t] \in Critical
  PROVE  \A u \in Threads : pc[u] \in Critical => u = t
BY DEF IInv, TypeInv, Exclusive

\* While somebody else's or no request is awaited, every request is late.
LEMMA AllLate ==
  ASSUME IInv, NEW t \in Threads, pc[t] \in Critical, pc[t] # "await"
  PROVE  \A i \in DOMAIN queue : queue[i].late
<1> SUFFICES ASSUME NEW i \in DOMAIN queue, ~queue[i].late PROVE FALSE
  OBVIOUS
<1>1. queue[i].by \in Threads
  BY QueueType DEF IInv, TypeInv
<1>2. pc[queue[i].by] = "await"
  BY DEF IInv, QueueInv, Waiting
<1> QED
  BY <1>1, <1>2, OnlyOwner DEF Critical

\* When all requests had fences and nothing is awaited any more the TPU has nothing
\* left to do.
LEMMA NothingLeft ==
  ASSUME IInv, NEW t \in Threads, Completed(t), ~blind[t]
  PROVE  queue = <<>>
<1> SUFFICES ASSUME queue # <<>> PROVE FALSE
  OBVIOUS
<1>1. queue \in Seq(Requests) /\ Len(queue) \in Nat /\ DOMAIN queue = 1 .. Len(queue)
  BY QueueType DEF IInv, TypeInv
<1>2. Len(queue) \in DOMAIN queue
  BY <1>1, EmptySeq
<1>3. ~queue[Len(queue)].late /\ queue[Len(queue)].by = t
  BY DEF IInv, QueueInv, LastIsAwaited, Completed
<1> QED
  BY <1>2, <1>3 DEF Completed, Awaited

\* Submitting: behind late requests only.
LEMMA SubmitWaits ==
  ASSUME IInv, NEW t \in Threads, NEW n \in 1 .. 2, Submit(t, n)
  PROVE  Waiting' /\ LastIsAwaited'
<1>0. TypeOK /\ pc[t] = "submit" /\ UNCHANGED arg
  BY DEF IInv, TypeInv, Submit, threads
<1>1. PICK s \in Seq(Requests) : Sending(t, n, s)
  BY <1>0, SubmitQueue
<1>2. /\ Len(queue) \in Nat /\ Len(s) \in Nat /\ Len(queue') = Len(queue) + Len(s)
      /\ DOMAIN queue = 1 .. Len(queue)
      /\ \A i \in 1 .. Len(queue) : queue'[i] = queue[i]
      /\ \A i \in 1 .. Len(s) : queue'[Len(queue) + i] = s[i]
      /\ \A i \in DOMAIN queue' : i \in 1 .. Len(queue) \/ \E j \in 1 .. Len(s) : i = Len(queue) + j
  BY <1>0, <1>1, QueueType, Appended DEF Sending
<1>3. \A i \in DOMAIN queue : queue[i].late
  BY <1>0, AllLate DEF Critical
<1>4. \A i \in DOMAIN queue' : ~queue'[i].late => \E j \in 1 .. Len(s) : queue'[i] = s[j] /\ ~s[j].late
  BY <1>2, <1>3
<1>5. \A j \in 1 .. Len(s) : s[j].by = t /\ s[j].bufs = arg[t]
  BY <1>1 DEF Sending, Request
<1>6. \A u \in Threads : u # t => pc[u] # "await"
  BY <1>0, OnlyOwner DEF Critical
<1>7. CASE /\ Goto(t, "await")
           /\ blind' = [blind EXCEPT ![t] = Len(s) < n \/ \E i \in 1 .. Len(s) : s[i].late]
  <2>1. pc'[t] = "await" /\ \A u \in Threads : u # t => pc'[u] # "await"
    BY <1>0, <1>6, <1>7 DEF TypeOK, Goto
  <2>2. Waiting'
    BY <1>0, <1>4, <1>5, <2>1 DEF Waiting
  <2>3. ASSUME ~blind'[t] PROVE ~queue'[Len(queue')].late /\ queue'[Len(queue')].by = t
    <3>1. blind'[t] = (Len(s) < n \/ \E i \in 1 .. Len(s) : s[i].late)
      BY <1>0, <1>7, Zenon DEF TypeOK
    <3>2. ~(Len(s) < n) /\ \A i \in 1 .. Len(s) : ~s[i].late
      BY <2>3, <3>1
    <3>3. Len(s) \in 1 .. Len(s)
      BY <1>2, <3>2
    <3>4. queue'[Len(queue')] = s[Len(s)]
      BY <1>2, <3>3
    <3> QED
      BY <1>5, <3>2, <3>3, <3>4
  <2> QED
    BY <2>1, <2>2, <2>3 DEF LastIsAwaited
<1>8. CASE /\ \A i \in 1 .. Len(s) : s[i] = Request(t, TRUE)
           /\ Goto(t, "unlock")
  <2>1. \A i \in 1 .. Len(s) : s[i].late
    BY <1>8 DEF Request
  <2>2. \A i \in DOMAIN queue' : queue'[i].late
    BY <1>4, <2>1
  <2>3. \A u \in Threads : pc'[u] # "await"
    BY <1>0, <1>6, <1>8 DEF TypeOK, Goto
  <2> QED
    BY <2>2, <2>3 DEF Waiting, LastIsAwaited
<1> QED
  BY <1>1, <1>7, <1>8 DEF Sending

\* All fences are passed: nothing is awaited any more.
LEMMA CompletedWaits ==
  ASSUME IInv, NEW t \in Threads, Completed(t)
  PROVE  Waiting' /\ LastIsAwaited'
<1>0. /\ TypeOK /\ Waiting /\ pc[t] = "await" /\ Awaited(t) = {}
      /\ pc' = [pc EXCEPT ![t] = "unlock"] /\ UNCHANGED queue
  BY DEF IInv, TypeInv, QueueInv, Completed, Goto
<1>1. \A u \in Threads : pc[u] = "await" => u = t
  BY <1>0, OnlyOwner DEF Critical
<1>2. \A i \in DOMAIN queue : queue[i].late
  <2> SUFFICES ASSUME NEW i \in DOMAIN queue, ~queue[i].late PROVE FALSE
    OBVIOUS
  <2>1. queue[i].by \in Threads
    BY <1>0, QueueType
  <2>2. queue[i].by = t
    BY <1>0, <1>1, <2>1 DEF Waiting
  <2> QED
    BY <1>0, <2>2 DEF Awaited
<1>3. \A u \in Threads : pc'[u] # "await"
  BY <1>0, <1>1 DEF TypeOK
<1> QED
  BY <1>0, <1>2, <1>3 DEF Waiting, LastIsAwaited

\* Giving up: nothing is awaited any more.
LEMMA TimeoutWaits ==
  ASSUME IInv, NEW t \in Threads, Timeout(t)
  PROVE  Waiting' /\ LastIsAwaited'
<1>0. TypeOK /\ pc[t] = "await" /\ pc' = [pc EXCEPT ![t] = "unlock"] /\ GiveUp(t)
  BY DEF IInv, TypeInv, Timeout, Goto
<1>1. queue \in Seq(Requests)
  BY <1>0, QueueType
<1>2. DOMAIN queue' = DOMAIN queue
      /\ \A i \in DOMAIN queue : ~queue'[i].late <=> ~queue[i].late /\ queue[i].by # t
  BY <1>0, <1>1, GivingUp
<1>3. \A u \in Threads : pc[u] = "await" => u = t
  BY <1>0, OnlyOwner DEF Critical
<1>4. \A i \in DOMAIN queue : queue[i].by \in Threads /\ (~queue[i].late => queue[i].by = t)
  <2> SUFFICES ASSUME NEW i \in DOMAIN queue
               PROVE  queue[i].by \in Threads /\ (~queue[i].late => queue[i].by = t)
    OBVIOUS
  <2>1. queue[i].by \in Threads
    BY <1>0, QueueType
  <2>2. ~queue[i].late => pc[queue[i].by] = "await"
    BY DEF IInv, QueueInv, Waiting
  <2> QED
    BY <1>3, <2>1, <2>2
<1>5. \A i \in DOMAIN queue' : queue'[i].late
  BY <1>2, <1>4
<1>6. \A u \in Threads : pc'[u] # "await"
  BY <1>0, <1>3 DEF TypeOK
<1> QED
  BY <1>5, <1>6 DEF Waiting, LastIsAwaited

\* The TPU takes the oldest request: the last one stays the last.
LEMMA ExecuteWaits ==
  ASSUME IInv, Execute
  PROVE  Waiting' /\ LastIsAwaited'
<1>0. TypeOK /\ Waiting /\ LastIsAwaited /\ queue # <<>> /\ queue' = Tail(queue)
      /\ UNCHANGED <<pc, arg, blind>>
  BY DEF IInv, TypeInv, QueueInv, Execute, threads
<1>1. /\ Len(queue') = Len(queue) - 1 /\ Len(queue) \in Nat \ {0}
      /\ DOMAIN queue = 1 .. Len(queue) /\ DOMAIN queue' = 1 .. Len(queue) - 1
      /\ \A i \in 1 .. Len(queue) - 1 : queue'[i] = queue[i + 1]
      /\ queue' \in Seq(Requests)
  BY <1>0, QueueType, Completing
<1>2. Waiting'
  BY <1>0, <1>1 DEF Waiting
<1>3. queue' # <<>> => Len(queue') \in 1 .. Len(queue) - 1
  BY <1>1, EmptySeq
<1>4. queue' # <<>> => queue'[Len(queue')] = queue[Len(queue)]
  BY <1>1, <1>3
<1>5. LastIsAwaited'
  BY <1>0, <1>4 DEF LastIsAwaited
<1> QED
  BY <1>2, <1>5

\* What is waited for, after every step.
LEMMA WaitStep == IInv /\ [Next]_vars => Waiting' /\ LastIsAwaited'
<1> SUFFICES ASSUME IInv, [Next]_vars PROVE Waiting' /\ LastIsAwaited'
  OBVIOUS
<1>0. TypeOK /\ Waiting /\ LastIsAwaited
  BY DEF IInv, TypeInv, QueueInv
<1> USE DEF threads, wake, Goto, Section
<1>1. ASSUME NEW t \in Threads, Session(t) PROVE Waiting' /\ LastIsAwaited'
  <2>1. /\ UNCHANGED queue /\ pc[t] # "await" /\ pc'[t] # "await"
        /\ \A u \in Threads : u # t => pc'[u] = pc[u] /\ arg'[u] = arg[u] /\ blind'[u] = blind[u]
    BY <1>0, <1>1 DEF Session, Accept, End, Import, Release, Infer, TypeOK
  <2> QED
    BY <1>0, <2>1, QueueUntouched
<1>2. ASSUME NEW t \in Threads, Lock(t) \/ AllocFails(t) \/ Touch(t) \/ Touched(t) \/ Unlock(t)
      PROVE  Waiting' /\ LastIsAwaited'
  <2>1. /\ UNCHANGED queue /\ pc[t] # "await" /\ pc'[t] # "await"
        /\ \A u \in Threads : u # t => pc'[u] = pc[u] /\ arg'[u] = arg[u] /\ blind'[u] = blind[u]
    BY <1>0, <1>2 DEF Lock, AllocFails, Touch, Touched, Unlock, TypeOK
  <2> QED
    BY <1>0, <2>1, QueueUntouched
<1>3. CASE \/ Elapse \/ IdleStep \/ Signal \/ SignalWrite \/ SignalClear \/ Respawn \/ UNCHANGED vars
  <2>1. UNCHANGED <<queue, pc, arg, blind>>
    BY <1>3 DEF Elapse, IdleStep, IdleLook, IdleLock, IdleCheck, IdleClear, Signal,
                SignalWrite, SignalClear, Respawn, vars
  <2> QED
    BY <1>0, <2>1, QueueUntouched
<1>4. CASE SignalExit \/ Kill
  BY <1>4 DEF SignalExit, Kill, Gone, Waiting, LastIsAwaited
<1> QED
  BY <1>1, <1>2, <1>3, <1>4, SubmitWaits, CompletedWaits, TimeoutWaits, ExecuteWaits DEF Next, Inferring

-------------------------------------------------------------------------------
(* The wakelock *)

\* The kernel's wakelock and g_wl_held, after every step.
LEMMA AwakeStep == IInv /\ [Next]_vars => HeldIsAwake'
<1> SUFFICES ASSUME IInv, [Next]_vars PROVE HeldIsAwake'
  OBVIOUS
<1>0. TypeOK /\ Exclusive /\ HeldIsAwake
  BY DEF IInv, TypeInv
<1> USE <1>0 DEF threads, wake, Goto, Section, TypeOK, HeldIsAwake
<1>1. ASSUME NEW t \in Threads, Session(t) PROVE HeldIsAwake'
  <2>1. UNCHANGED <<held, kwl, idle, sig>> /\ pc'[t] \notin {"touched", "submit", "await"}
        /\ \A u \in Threads : u # t => pc'[u] = pc[u]
    BY <1>1 DEF Session, Accept, End, Import, Release, Infer
  <2> QED
    BY <2>1
<1>2. ASSUME NEW t \in Threads, Lock(t) \/ AllocFails(t) \/ Unlock(t) PROVE HeldIsAwake'
  BY <1>2 DEF Lock, AllocFails, Unlock
<1>3. ASSUME NEW t \in Threads, Touch(t) \/ Touched(t) PROVE HeldIsAwake'
  <2>1. lock = t /\ t # Idler
    BY <1>3, NoneAssumption DEF Touch, Touched, Exclusive, Critical
  <2>2. idle # "clear"
    BY <2>1 DEF Exclusive
  <2> QED
    BY <1>3, <2>2 DEF Touch, Touched
<1>4. ASSUME NEW t \in Threads, Completed(t) \/ Timeout(t) PROVE HeldIsAwake'
  BY <1>4 DEF Completed, Timeout
<1>5. ASSUME NEW t \in Threads, NEW n \in 1 .. 2, Submit(t, n) PROVE HeldIsAwake'
  <2>1. UNCHANGED <<held, kwl, idle, sig>> /\ pc[t] = "submit"
        /\ (pc' = [pc EXCEPT ![t] = "await"] \/ pc' = [pc EXCEPT ![t] = "unlock"])
    BY <1>5 DEF Submit
  <2> QED
    BY <2>1
<1>6. CASE IdleCheck \/ IdleClear
  <2>1. lock = Idler
    BY <1>6 DEF IdleCheck, IdleClear, Exclusive
  <2>2. \A t \in Threads : pc[t] \notin Critical
    BY <2>1, NoneAssumption DEF Exclusive
  <2> QED
    BY <1>6, <2>2 DEF IdleCheck, IdleClear, Critical
<1>7. CASE Execute \/ Elapse \/ IdleLook \/ IdleLock \/ Respawn \/ UNCHANGED vars
  BY <1>7 DEF Execute, Elapse, IdleLook, IdleLock, Respawn, vars
<1>8. CASE Signal \/ SignalWrite \/ SignalClear
  BY <1>8 DEF Signal, SignalWrite, SignalClear
<1>9. CASE SignalExit \/ Kill
  BY <1>9 DEF SignalExit, Kill, Gone, Off
<1> QED
  BY <1>1, <1>2, <1>3, <1>4, <1>5, <1>6, <1>7, <1>8, <1>9 DEF Next, Inferring, IdleStep

\* What tpud knows of a wakelock that is on, after every step.
LEMMA KnownStep == IInv /\ [Next]_vars => OnIsKnown'
<1> SUFFICES ASSUME IInv, [Next]_vars PROVE OnIsKnown'
  OBVIOUS
<1>0. TypeOK /\ HeldIsAwake /\ OnIsKnown
  BY DEF IInv, TypeInv
<1> USE <1>0 DEF threads, wake, Goto, Section, TypeOK, OnIsKnown
<1>1. ASSUME NEW t \in Threads, Session(t) PROVE OnIsKnown'
  <2>1. UNCHANGED <<held, kwl, orphan, sig>> /\ pc[t] # "touched"
        /\ \A u \in Threads : u # t => pc'[u] = pc[u]
    BY <1>1 DEF Session, Accept, End, Import, Release, Infer
  <2> QED
    BY <2>1
<1>2. ASSUME NEW t \in Threads, Lock(t) \/ AllocFails(t) \/ Unlock(t) PROVE OnIsKnown'
  <2>1. UNCHANGED <<held, kwl, orphan, sig>> /\ pc[t] # "touched"
        /\ \A u \in Threads : u # t => pc'[u] = pc[u]
    BY <1>2 DEF Lock, AllocFails, Unlock
  <2> QED
    BY <2>1
<1>3. ASSUME NEW t \in Threads, Touch(t) \/ Touched(t) PROVE OnIsKnown'
  <2>1. CASE Touch(t) /\ held
    BY <2>1 DEF Touch
  <2>2. CASE Touch(t) /\ ~held
    <3>1. pc'[t] = "touched"
      BY <2>2 DEF Touch
    <3> QED
      BY <3>1
  <2>3. CASE Touched(t)
    BY <2>3 DEF Touched
  <2> QED
    BY <1>3, <2>1, <2>2, <2>3
<1>4. ASSUME NEW t \in Threads, (\E n \in 1 .. 2 : Submit(t, n)) \/ Completed(t) \/ Timeout(t)
      PROVE  OnIsKnown'
  <2>1. UNCHANGED <<held, kwl, orphan, sig>> /\ pc[t] # "touched"
        /\ \A u \in Threads : u # t => pc'[u] = pc[u]
    BY <1>4 DEF Submit, Completed, Timeout
  <2> QED
    BY <2>1
<1>5. CASE IdleCheck \/ IdleClear
  BY <1>5 DEF IdleCheck, IdleClear, HeldIsAwake
<1>6. CASE \/ Execute \/ Elapse \/ IdleLook \/ IdleLock \/ Signal \/ SignalWrite
           \/ SignalClear \/ Respawn \/ UNCHANGED vars
  BY <1>6 DEF Execute, Elapse, IdleLook, IdleLock, Signal, SignalWrite, SignalClear,
              Respawn, vars
<1>7. CASE SignalExit \/ Kill
  BY <1>7 DEF SignalExit, Kill, Gone
<1> QED
  BY <1>1, <1>2, <1>3, <1>4, <1>5, <1>6, <1>7 DEF Next, Inferring, IdleStep

-------------------------------------------------------------------------------
(* The invariant *)

\* The inductive invariant.
LEMMA Invariant == Spec => []IInv
<1>1. Init => IInv
  <2> SUFFICES ASSUME Init PROVE IInv
    OBVIOUS
  <2>1. ArgIsMapped /\ NothingKept /\ HeldIsAwake /\ OnIsKnown
    BY DEF Init, Off, Empty, ArgIsMapped, NothingKept, HeldIsAwake, OnIsKnown, Critical
  <2>2. Waiting /\ LastIsAwaited
    BY EmptyTables DEF Init, Waiting, LastIsAwaited
  <2> QED
    BY <2>1, <2>2, TypeInvInit DEF IInv, QueueInv
<1>2. IInv /\ [Next]_vars => IInv'
  BY TypeInvStep, ArgStep, KeptStep, WaitStep, AwakeStep, KnownStep DEF IInv, QueueInv
<1> QED
  BY <1>1, <1>2, PTL DEF Spec

\* The requests tpud waits for belong to the owner of the mutex, and their buffers
\* are mapped, however many others were given up before.
THEOREM AwaitedMapped == Spec => []AwaitedIsMapped
<1>1. IInv => AwaitedIsMapped
  <2> SUFFICES ASSUME IInv, NEW i \in DOMAIN queue, ~queue[i].late
               PROVE  lock = queue[i].by /\ queue[i].bufs \subseteq h[queue[i].by]
    BY DEF AwaitedIsMapped
  <2>1. queue[i].by \in Threads
    BY QueueType DEF IInv, TypeInv
  <2>2. pc[queue[i].by] \in Critical /\ queue[i].bufs = arg[queue[i].by]
    BY DEF IInv, QueueInv, Waiting, Critical
  <2> QED
    BY <2>1, <2>2 DEF IInv, TypeInv, QueueInv, Exclusive, ArgIsMapped
<1> QED
  BY <1>1, Invariant, PTL

\* Until a signal ends the process, nothing takes the wakelock from an inference.
THEOREM WakelockHeld == Spec => []AwakeWhileInferring
<1>1. IInv => AwakeWhileInferring
  BY DEF IInv, HeldIsAwake, AwakeWhileInferring
<1> QED
  BY <1>1, Invariant, PTL

\* No wakelock is forgotten: while tpud runs, one that is on is known to it, and the
\* idle thread looks at it, unless an earlier process has left it on and no inference
\* has taken it since.
THEOREM WakelockKnown == Spec => []OnIsKnown
<1>1. IInv => OnIsKnown
  BY DEF IInv
<1> QED
  BY <1>1, Invariant, PTL

\* With fences an outcome of 0 leaves no request on the TPU, unless one had no fence.
LEMMA OkStep == ASSUME Fence PROVE IInv /\ OkMeansIdle /\ [Next]_vars => OkMeansIdle'
<1> SUFFICES ASSUME IInv, OkMeansIdle, [Next]_vars PROVE OkMeansIdle'
  OBVIOUS
<1>0. TypeOK
  BY DEF IInv, TypeInv
<1> USE <1>0 DEF threads, wake, Goto, Section, TypeOK, OkMeansIdle
<1>1. ASSUME NEW t \in Threads, Session(t) PROVE OkMeansIdle'
  <2>1. UNCHANGED <<ok, queue, blind>> /\ pc[t] # "unlock" /\ \A u \in Threads : u # t => pc'[u] = pc[u]
    BY <1>1 DEF Session, Accept, End, Import, Release, Infer
  <2> QED
    BY <2>1
<1>2. ASSUME NEW t \in Threads, Lock(t) \/ AllocFails(t) \/ Touch(t) \/ Touched(t) \/ Unlock(t)
      PROVE  OkMeansIdle'
  BY <1>2 DEF Lock, AllocFails, Touch, Touched, Unlock
<1>3. ASSUME NEW t \in Threads, Completed(t) PROVE OkMeansIdle'
  BY <1>3, NothingLeft DEF Completed
<1>4. ASSUME NEW t \in Threads, (\E n \in 1 .. 2 : Submit(t, n)) \/ Timeout(t) PROVE OkMeansIdle'
  <2>1. \A u \in Threads : ok[u] => u = t
    BY <1>4, OnlyOwner DEF Submit, Timeout, Critical
  <2>2. ~ok[t]
    BY <1>4 DEF Submit, Timeout
  <2>3. ok' = ok \/ ok' = [ok EXCEPT ![t] = FALSE]
    BY <1>4 DEF Submit, Timeout
  <2> QED
    BY <2>1, <2>2, <2>3
<1>5. CASE Execute
  BY <1>5 DEF Execute
<1>6. CASE Elapse \/ IdleStep \/ Signal \/ SignalWrite \/ SignalClear \/ Respawn \/ UNCHANGED vars
  BY <1>6 DEF Elapse, IdleStep, IdleLook, IdleLock, IdleCheck, IdleClear, Signal,
              SignalWrite, SignalClear, Respawn, vars
<1>7. CASE SignalExit \/ Kill
  BY <1>7 DEF SignalExit, Kill, Gone, Bad
<1> QED
  BY <1>1, <1>2, <1>3, <1>4, <1>5, <1>6, <1>7 DEF Next, Inferring

\* With fences a reply of 0 means that the TPU has run the inference, if each of its
\* requests got a fence; for one that got none, and without fences, where it only
\* means that the polling has ended, nothing is claimed.
THEOREM FencedOk == ASSUME Fence PROVE Spec => []OkMeansComplete
<1>1. Init => OkMeansIdle
  BY DEF Init, OkMeansIdle, Bad
<1>2. OkMeansIdle => OkMeansComplete
  BY DEF OkMeansIdle, OkMeansComplete
<1>3. Spec => []OkMeansIdle
  BY <1>1, OkStep, Invariant, PTL DEF Spec
<1> QED
  BY <1>2, <1>3, PTL

-------------------------------------------------------------------------------
(* The lease *)

\* What a thread's awaited requests use, when all of them use the same.
LEMMA UsedBy ==
  ASSUME NEW q, NEW t, NEW a, NEW A,
         A = {i \in DOMAIN q : q[i].by = t /\ ~q[i].late}, \A i \in A : q[i].bufs = a
  PROVE  {t} \X UNION {q[i].bufs : i \in A} = IF A = {} THEN {} ELSE {t} \X a
<1>1. CASE A = {}
  <2>1. UNION {q[i].bufs : i \in A} = {}
    BY <1>1
  <2> QED
    BY <1>1, <2>1
<1>2. CASE A # {}
  <2>1. UNION {q[i].bufs : i \in A} = a
    BY <1>2
  <2> QED
    BY <1>2, <2>1
<1> QED
  BY <1>1, <1>2

\* What is in use before a step ...
LEMMA UsedNow ==
  ASSUME Waiting
  PROVE  InUse = [t \in Threads |-> IF Awaited(t) = {} THEN {} ELSE {t} \X arg[t]]
<1> SUFFICES ASSUME NEW t \in Threads
             PROVE  {t} \X UNION {queue[i].bufs : i \in Awaited(t)} =
                      IF Awaited(t) = {} THEN {} ELSE {t} \X arg[t]
  BY DEF InUse
<1>1. \A i \in Awaited(t) : queue[i].bufs = arg[t]
  BY DEF Waiting, Awaited
<1> QED
  BY <1>1, UsedBy DEF Awaited

\* ... and after it.
LEMMA UsedNext ==
  ASSUME Waiting'
  PROVE  InUse' = [t \in Threads |-> IF Awaited(t)' = {} THEN {} ELSE {t} \X arg'[t]]
<1> SUFFICES ASSUME NEW t \in Threads
             PROVE  {t} \X UNION {queue'[i].bufs : i \in Awaited(t)'} =
                      IF Awaited(t)' = {} THEN {} ELSE {t} \X arg'[t]
  BY DEF InUse
<1>1. \A i \in Awaited(t)' : queue'[i].bufs = arg'[t]
  BY DEF Waiting, Awaited
<1> QED
  BY <1>1, UsedBy DEF Awaited

\* A thread that does not await has nothing in use.
LEMMA NotAwaiting ==
  ASSUME IInv, NEW t \in Threads, pc[t] # "await"
  PROVE  Awaited(t) = {} /\ InUse[t] = {}
<1>1. Waiting
  BY DEF IInv, QueueInv
<1>2. Awaited(t) = {}
  BY <1>1 DEF Waiting, Awaited
<1> QED
  BY <1>1, <1>2, UsedNow

\* The buffers in use are those of their own thread.
LEMMA UsesItsOwn ==
  ASSUME NEW t \in Threads, NEW p \in InUse[t]
  PROVE  p[1] = t
BY DEF InUse

\* Steps that touch neither the tables nor the queue.
LEMMA Stutter ==
  ASSUME UNCHANGED <<h, queue>>
  PROVE  UNCHANGED Lease!vars
<1>1. Mapped' = Mapped
  BY DEF Mapped
<1>2. InUse' = InUse
  BY DEF InUse, Awaited
<1> QED
  BY <1>1, <1>2 DEF Lease!vars

\* A connection's table grows.
LEMMA Grows ==
  ASSUME TypeOK, NEW t \in Threads, NEW new \in SUBSET Slots,
         h' = [h EXCEPT ![t] = @ \cup new], UNCHANGED queue
  PROVE  Lease!Next
<1> DEFINE S == {t} \X new
<1>1. Mapped' = Mapped \cup S
  BY DEF Mapped, TypeOK
<1>2. InUse' = InUse
  BY DEF InUse, Awaited
<1>3. S \in SUBSET (Threads \X Slots)
  OBVIOUS
<1> QED
  BY <1>1, <1>2, <1>3 DEF Lease!Next, Lease!Map

\* A connection's table shrinks while the connection awaits nothing.
LEMMA Shrinks ==
  ASSUME IInv, NEW t \in Threads, NEW old \in SUBSET Slots,
         h' = [h EXCEPT ![t] = @ \ old], pc[t] # "await", UNCHANGED queue
  PROVE  Lease!Next
<1> DEFINE S == {t} \X old
<1>1. Mapped' = Mapped \ S
  BY DEF Mapped, IInv, TypeInv, TypeOK
<1>2. InUse' = InUse
  BY DEF InUse, Awaited
<1>3. \A u \in Threads : InUse[u] \cap S = {}
  BY UsesItsOwn, NotAwaiting
<1>4. S \in SUBSET (Threads \X Slots)
  OBVIOUS
<1> QED
  BY <1>1, <1>2, <1>3, <1>4 DEF Lease!Next, Lease!Unmap

\* All requests that were awaited are gone or given up.
LEMMA Unpins ==
  ASSUME UNCHANGED h, InUse' = [t \in Threads |-> {}]
  PROVE  Lease!Next
<1>1. Mapped' = Mapped
  BY DEF Mapped
<1>2. Lease!Unpin(Threads)
  BY <1>1 DEF Lease!Unpin
<1> QED
  BY <1>2 DEF Lease!Next

\* Every step of a session is one of the lease's.
LEMMA SessionLease ==
  ASSUME IInv, NEW t \in Threads, Session(t)
  PROVE  [Lease!Next]_(Lease!vars)
<1>0. TypeOK
  BY DEF IInv, TypeInv
<1> USE DEF threads, wake, Section
<1>1. CASE Accept(t)
  BY <1>1, Stutter DEF Accept
<1>2. CASE End(t)
  <2>1. h' = [h EXCEPT ![t] = @ \ h[t]] /\ h[t] \in SUBSET Slots
    BY <1>0, <1>2 DEF End, TypeOK
  <2> QED
    BY <1>2, <2>1, Shrinks DEF End
<1>3. ASSUME NEW n \in 1 .. MaxH, Import(t, n) PROVE Lease!Next
  <2>1. PICK new \in SUBSET (Slots \ h[t]) : h' = [h EXCEPT ![t] = @ \cup new]
    BY <1>3 DEF Import
  <2> QED
    BY <1>0, <1>3, <2>1, Grows DEF Import
<1>4. ASSUME NEW hs \in SUBSET Slots, Release(t, hs) PROVE Lease!Next
  BY <1>4, Shrinks DEF Release
<1>5. ASSUME NEW hs \in SUBSET Slots, Infer(t, hs) PROVE UNCHANGED Lease!vars
  BY <1>5, Stutter DEF Infer
<1> QED
  BY <1>1, <1>2, <1>3, <1>4, <1>5 DEF Session

\* Submitting is the lease's Pin, or nothing when it fails half way.
LEMMA SubmitLease ==
  ASSUME IInv, NEW t \in Threads, NEW n \in 1 .. 2, Submit(t, n)
  PROVE  [Lease!Next]_(Lease!vars)
<1>0. TypeOK /\ pc[t] = "submit" /\ UNCHANGED <<arg, h>> /\ Waiting
  BY DEF IInv, TypeInv, QueueInv, Submit, threads
<1>1. Waiting'
  BY SubmitWaits
<1>2. \A u \in Threads : Awaited(u) = {}
  BY <1>0, AllLate DEF Critical, Awaited
<1>3. InUse = [u \in Threads |-> {}]
  BY <1>0, <1>2, UsedNow
<1>4. InUse' = [u \in Threads |-> IF Awaited(u)' = {} THEN {} ELSE {u} \X arg[u]]
  BY <1>0, <1>1, UsedNext
<1>5. \A u \in Threads : u # t => Awaited(u)' = {}
  <2>1. \A u \in Threads : u # t => pc'[u] # "await"
    BY <1>0, OnlyOwner DEF Submit, Goto, TypeOK, Critical
  <2> QED
    BY <1>1, <2>1 DEF Waiting, Awaited
<1>6. Mapped' = Mapped
  BY <1>0 DEF Mapped
<1>7. CASE Awaited(t)' = {}
  <2>1. InUse' = InUse
    BY <1>3, <1>4, <1>5, <1>7
  <2> QED
    BY <1>6, <2>1 DEF Lease!vars
<1>8. CASE Awaited(t)' # {}
  <2>1. InUse' = [InUse EXCEPT ![t] = {t} \X arg[t]] /\ InUse[t] = {}
    BY <1>3, <1>4, <1>5, <1>8
  <2>2. arg[t] \subseteq h[t] /\ h[t] \subseteq Slots
    BY <1>0 DEF IInv, QueueInv, ArgIsMapped, Critical, TypeOK
  <2>3. {t} \X arg[t] \in SUBSET (Threads \X Slots) /\ {t} \X arg[t] \subseteq Mapped
    BY <2>2 DEF Mapped
  <2> QED
    BY <1>6, <2>1, <2>3 DEF Lease!Next, Lease!Pin
<1> QED
  BY <1>7, <1>8

\* Completing the oldest request unpins the buffers of the last awaited one, else nothing.
LEMMA ExecuteLease ==
  ASSUME IInv, Execute
  PROVE  [Lease!Next]_(Lease!vars)
<1>0. TypeOK /\ Waiting /\ UNCHANGED <<pc, arg, h>> /\ queue # <<>> /\ queue' = Tail(queue)
  BY DEF IInv, TypeInv, QueueInv, Execute, threads
<1>1. Waiting'
  BY ExecuteWaits
<1>2. /\ DOMAIN queue = 1 .. Len(queue) /\ DOMAIN queue' = 1 .. Len(queue) - 1
      /\ \A i \in 1 .. Len(queue) - 1 : queue'[i] = queue[i + 1]
      /\ Len(queue) \in Nat
  BY <1>0, QueueType, Completing
<1>3. InUse = [u \in Threads |-> IF Awaited(u) = {} THEN {} ELSE {u} \X arg[u]]
  BY <1>0, UsedNow
<1>4. InUse' = [u \in Threads |-> IF Awaited(u)' = {} THEN {} ELSE {u} \X arg[u]]
  BY <1>0, <1>1, UsedNext
<1>5. CASE \A u \in Threads : Awaited(u)' = {}
  <2>1. InUse' = [u \in Threads |-> {}]
    BY <1>4, <1>5
  <2> QED
    BY <1>0, <2>1, Unpins
<1>6. ASSUME NEW t \in Threads, Awaited(t)' # {} PROVE UNCHANGED Lease!vars
  <2>1. PICK i \in 1 .. Len(queue) - 1 : queue'[i].by = t /\ ~queue'[i].late
    BY <1>2, <1>6 DEF Awaited
  <2>2. i + 1 \in Awaited(t)
    BY <1>2, <2>1 DEF Awaited
  <2>3. pc[t] = "await"
    BY <1>0, <2>2 DEF Awaited, Waiting
  <2>4. \A u \in Threads : u # t => pc[u] # "await"
    BY <2>3, OnlyOwner DEF Critical
  <2>5. \A u \in Threads : u # t => Awaited(u) = {} /\ Awaited(u)' = {}
    BY <1>0, <1>1, <2>4 DEF Awaited, Waiting
  <2>6. InUse' = InUse
    BY <1>3, <1>4, <1>6, <2>2, <2>5
  <2>7. Mapped' = Mapped
    BY <1>0 DEF Mapped
  <2> QED
    BY <2>6, <2>7 DEF Lease!vars
<1> QED
  BY <1>5, <1>6

\* Every step of an inference is one of the lease's.
LEMMA InferringLease ==
  ASSUME IInv, NEW t \in Threads, Inferring(t)
  PROVE  [Lease!Next]_(Lease!vars)
<1>0. TypeOK
  BY DEF IInv, TypeInv
<1> USE DEF threads, wake
<1>1. CASE Lock(t)
  <2>1. CASE proto[t] = "inline"
    <3>1. h[t] = {} /\ arg[t] \in SUBSET Slots
      BY <1>0, <1>1, <2>1 DEF Lock, IInv, QueueInv, NothingKept, TypeOK
    <3>2. h' = [h EXCEPT ![t] = @ \cup arg[t]]
      BY <1>0, <1>1, <2>1, <3>1 DEF Lock, TypeOK
    <3> QED
      BY <1>0, <1>1, <3>1, <3>2, Grows DEF Lock
  <2>2. CASE proto[t] # "inline"
    BY <1>1, <2>2, Stutter DEF Lock
  <2> QED
    BY <2>1, <2>2
<1>2. CASE AllocFails(t) \/ Touch(t) \/ Touched(t) \/ Completed(t)
  BY <1>2, Stutter DEF AllocFails, Touch, Touched, Completed
<1>3. CASE Timeout(t)
  <2>1. Waiting' /\ UNCHANGED h
    BY <1>3, TimeoutWaits DEF Timeout
  <2>2. \A u \in Threads : pc'[u] # "await"
    BY <1>0, <1>3, OnlyOwner DEF Timeout, Goto, TypeOK, Critical
  <2>3. \A u \in Threads : Awaited(u)' = {}
    BY <2>1, <2>2 DEF Waiting, Awaited
  <2> QED
    BY <2>1, <2>3, UsedNext, Unpins
<1>4. CASE Unlock(t)
  <2>1. CASE proto[t] = "inline"
    <3>1. h' = [h EXCEPT ![t] = @ \ h[t]] /\ h[t] \in SUBSET Slots
      BY <1>0, <1>4, <2>1 DEF Unlock, TypeOK
    <3> QED
      BY <1>4, <3>1, Shrinks DEF Unlock
  <2>2. CASE proto[t] # "inline"
    BY <1>4, <2>2, Stutter DEF Unlock
  <2> QED
    BY <2>1, <2>2
<1> QED
  BY <1>1, <1>2, <1>3, <1>4, SubmitLease DEF Inferring

\* The process is gone, and with it the device context.
LEMMA GoneLease ==
  ASSUME SignalExit \/ Kill
  PROVE  Lease!Next
<1>1. h' = Empty /\ queue' = <<>>
  BY DEF SignalExit, Kill, Gone
<1>2. Mapped' = {}
  BY <1>1 DEF Mapped, Empty
<1>3. \A u \in Threads : Awaited(u)' = {}
  BY <1>1 DEF Awaited
<1>4. InUse' = [u \in Threads |-> {}]
  BY <1>3 DEF InUse
<1> QED
  BY <1>2, <1>4 DEF Lease!Next, Lease!Reset, Lease!NoPins

\* tpud starts with nothing mapped and nothing running.
LEMMA LeaseInit == Init => Lease!Init
<1> SUFFICES ASSUME Init PROVE Lease!Init
  OBVIOUS
<1>1. Mapped = {}
  BY DEF Init, Mapped, Empty
<1>2. \A u \in Threads : Awaited(u) = {}
  BY DEF Init, Awaited
<1>3. InUse = [u \in Threads |-> {}]
  BY <1>2 DEF InUse
<1> QED
  BY <1>1, <1>3 DEF Lease!Init, Lease!NoPins

\* For the requests it waits for tpud implements the lease on shared buffers, whatever
\* sessions import and release beside it and however many requests run out of time.
THEOREM ImplementsLease == Spec => LeaseSpec
<1>1. IInv /\ [Next]_vars => [Lease!Next]_(Lease!vars)
  <2> SUFFICES ASSUME IInv, [Next]_vars PROVE [Lease!Next]_(Lease!vars)
    OBVIOUS
  <2>1. CASE Elapse \/ IdleStep \/ Signal \/ SignalWrite \/ SignalClear \/ Respawn \/ UNCHANGED vars
    BY <2>1, Stutter DEF Elapse, IdleStep, IdleLook, IdleLock, IdleCheck, IdleClear, Signal,
                         SignalWrite, SignalClear, Respawn, vars
  <2> QED
    BY <2>1, SessionLease, InferringLease, ExecuteLease, GoneLease DEF Next
<1> QED
  BY <1>1, LeaseInit, Invariant, PTL DEF Spec, LeaseSpec, Lease!Spec
===============================================================================
