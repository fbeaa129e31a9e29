------------------------------ MODULE TpuDaemon -------------------------------
(***************************************************************************)
(* tpud: the TPU bridge.  One thread per connection, all TPU work under    *)
(* the mutex g_tpu.  An inference is submitted and awaited, by its fence   *)
(* or by polling the output until it stops changing; either way only for a *)
(* limited time.  A request that was given up stays on the TPU, which runs *)
(* requests in order.  The daemon also holds a kernel wakelock while there *)
(* is work; an idle thread gives it back, and so does the signal handler.  *)
(*                                                                         *)
(* INFO, INFO2 and commands refused before the mutex is taken change       *)
(* nothing and are left out; a model's sizes are left out too.  The file   *)
(* of the wakelock is there and can be written.  blind and orphan are      *)
(* history variables: no action reads them, only properties do.            *)
(***************************************************************************)
EXTENDS Integers, Sequences, FiniteSets

CONSTANTS Threads,   \* connections
          MaxH,      \* ZC_MAXH: handles of a session
          Fence,     \* g_use_fence: await the fence, else poll the output
          MaxQueue,  \* bound: requests on the TPU
          None

Slots == 0 .. MaxH - 1
Idler == "idle thread"

ASSUME SizeAssumption == MaxH \in Nat /\ MaxQueue \in Nat /\ Fence \in BOOLEAN
ASSUME NoneAssumption == None \notin Threads /\ Idler \notin Threads /\ None # Idler

VARIABLES
  proc,   \* the daemon: "up", "killed", or "ended" by its signal handler
  pc,     \* where each connection's thread is, "free": no such thread
  proto,  \* "zc" or "inline" ("zc" where there is no thread)
  lock,   \* holder of g_tpu
  h,      \* handle table of each session
  arg,    \* handles of the inference in progress
  ok,     \* its outcome
  blind,  \* history: one of its requests has no fence, or was not accepted
  queue,  \* requests on the TPU, in order
  held,   \* g_wl_held
  recent, \* g_wl_last is younger than TPU_WAKELOCK_IDLE_MS
  kwl,    \* the kernel's wakelock
  orphan, \* history: a process that has ended left it on
  idle,   \* where the idle thread is
  sig     \* where the signal handler is

threads == <<pc, proto, lock, arg, ok, blind>>
wake    == <<held, recent, kwl, orphan, idle>>
vars    == <<proc, threads, h, queue, wake, sig>>

Off   == [t \in Threads |-> "free"]
Zc    == [t \in Threads |-> "zc"]
Empty == [t \in Threads |-> {}]
Bad   == [t \in Threads |-> FALSE]

Init ==
  /\ proc = "up"
  /\ pc = Off /\ proto = Zc /\ lock = None /\ arg = Empty /\ ok = Bad /\ blind = Bad
  /\ h = Empty /\ queue = <<>>
  /\ held = FALSE /\ recent = FALSE /\ kwl = FALSE /\ orphan = FALSE /\ idle = "sleep"
  /\ sig = "none"

Goto(t, l) == pc' = [pc EXCEPT ![t] = l]

-------------------------------------------------------------------------------
(* Connections *)

Accept(t) ==
  /\ proc = "up" /\ pc[t] = "free"
  /\ \E p \in {"zc", "inline"} : proto' = [proto EXCEPT ![t] = p]
  /\ Goto(t, "ready")
  /\ UNCHANGED <<proc, lock, arg, ok, blind, h, queue, wake, sig>>

Section(t) == pc[t] = "ready" /\ lock = None

\* End of stream, wrong magic, or an inline request that is refused; a session
\* frees its handles under the mutex.
End(t) ==
  /\ pc[t] = "ready" /\ (proto[t] = "zc" => lock = None)
  /\ h' = [h EXCEPT ![t] = {}] /\ proto' = [proto EXCEPT ![t] = "zc"]
  /\ Goto(t, "free")
  /\ UNCHANGED <<proc, lock, arg, ok, blind, queue, wake, sig>>

\* The lowest free slots, up to the first buffer that fails.
Import(t, n) ==
  /\ Section(t) /\ proto[t] = "zc"
  /\ \E new \in SUBSET (Slots \ h[t]) :
       /\ Cardinality(new) <= n
       /\ \A s \in new, f \in (Slots \ h[t]) \ new : s < f
       /\ h' = [h EXCEPT ![t] = @ \cup new]
  /\ UNCHANGED <<proc, threads, queue, wake, sig>>

Release(t, hs) ==
  /\ Section(t) /\ proto[t] = "zc"
  /\ h' = [h EXCEPT ![t] = @ \ hs]
  /\ UNCHANGED <<proc, threads, queue, wake, sig>>

-------------------------------------------------------------------------------
(* Inference *)

\* Mutant: the handles are not looked up.
InferUnchecked(t, hs) ==
  /\ pc[t] = "ready"
  /\ arg' = [arg EXCEPT ![t] = hs]
  /\ Goto(t, "wait")
  /\ UNCHANGED <<proc, proto, lock, ok, blind, h, queue, wake, sig>>

\* INFER, INFER2, INFER_MULTI, or an inline request, read and checked; the
\* buffers an inline request will have are all its slots.
Infer(t, hs) ==
  /\ pc[t] = "ready"
  /\ proto[t] = "zc" => hs \subseteq h[t]
  /\ proto[t] = "inline" => hs = Slots
  /\ arg' = [arg EXCEPT ![t] = hs]
  /\ Goto(t, "wait")
  /\ UNCHANGED <<proc, proto, lock, ok, blind, h, queue, wake, sig>>

\* Mutant: the mutex is not taken.
LockFree(t) ==
  /\ pc[t] = "wait"
  /\ lock' = t
  /\ h' = IF proto[t] = "inline" THEN [h EXCEPT ![t] = arg[t]] ELSE h
  /\ Goto(t, "touch")
  /\ UNCHANGED <<proc, proto, arg, ok, blind, queue, wake, sig>>

\* TPU_LOCK; an inline request then allocates its two buffers ...
Lock(t) ==
  /\ pc[t] = "wait" /\ lock = None
  /\ lock' = t
  /\ h' = IF proto[t] = "inline" THEN [h EXCEPT ![t] = arg[t]] ELSE h
  /\ Goto(t, "touch")
  /\ UNCHANGED <<proc, proto, arg, ok, blind, queue, wake, sig>>

\* ... or gives the mutex back and hangs up when it cannot.
AllocFails(t) ==
  /\ pc[t] = "wait" /\ lock = None /\ proto[t] = "inline"
  /\ arg' = [arg EXCEPT ![t] = {}] /\ proto' = [proto EXCEPT ![t] = "zc"]
  /\ Goto(t, "free")
  /\ UNCHANGED <<proc, lock, ok, blind, h, queue, wake, sig>>

\* wl_touch: take the kernel wakelock unless it is held ...
Touch(t) ==
  /\ pc[t] = "touch"
  /\ recent' = TRUE
  /\ IF held
     THEN Goto(t, "submit") /\ UNCHANGED <<kwl, orphan>>
     ELSE Goto(t, "touched") /\ kwl' = TRUE /\ orphan' = FALSE
  /\ UNCHANGED <<proc, proto, lock, arg, ok, blind, h, queue, held, idle, sig>>

\* ... and remember it.
Touched(t) ==
  /\ pc[t] = "touched"
  /\ held' = TRUE
  /\ Goto(t, "submit")
  /\ UNCHANGED <<proc, proto, lock, arg, ok, blind, h, queue, recent, kwl, orphan, idle, sig>>

Request(t, late) == [by |-> t, bufs |-> arg[t], late |-> late]

\* n requests (2 for INFER2 with fences; without, a pair is two inferences).
\* Those the TPU does not accept are missing from m, and one that gets no fence
\* is on the TPU with nobody waiting for it; neither is told from one that is
\* complete.  Creating a request may fail, and of a pair the first is then on
\* the TPU already and left to itself.
Submit(t, n) ==
  /\ pc[t] = "submit" /\ Len(queue) + n <= MaxQueue /\ (n = 2 => Fence)
  /\ \/ /\ \E m \in 0 .. n : \E sent \in [1 .. m -> {Request(t, FALSE), Request(t, TRUE)}] :
             /\ Fence \/ \A i \in 1 .. m : ~sent[i].late
             /\ queue' = queue \o sent
             /\ blind' = [blind EXCEPT ![t] = m < n \/ \E i \in 1 .. m : sent[i].late]
        /\ Goto(t, "await") /\ UNCHANGED ok
     \/ /\ \E k \in 0 .. n - 1 : queue' = queue \o [i \in 1 .. k |-> Request(t, TRUE)]
        /\ Goto(t, "unlock") /\ ok' = [ok EXCEPT ![t] = FALSE] /\ UNCHANGED blind
  /\ UNCHANGED <<proc, proto, lock, arg, h, wake, sig>>

\* The TPU completes its oldest request.
Execute ==
  /\ queue # <<>>
  /\ queue' = Tail(queue)
  /\ UNCHANGED <<proc, threads, h, wake, sig>>

Awaited(t) == {i \in DOMAIN queue : queue[i].by = t /\ ~queue[i].late}

\* No fence is left to wait for: outcome 0.
Completed(t) ==
  /\ pc[t] = "await" /\ Awaited(t) = {}
  /\ ok' = [ok EXCEPT ![t] = TRUE] /\ Goto(t, "unlock")
  /\ UNCHANGED <<proc, proto, lock, arg, blind, h, queue, wake, sig>>

GiveUp(t) == queue' = [i \in DOMAIN queue |-> [queue[i] EXCEPT !.late = @ \/ i \in Awaited(t)]]

\* Mutant: running out of time is not told from completion.
TimeoutUntold(t) ==
  /\ pc[t] = "await" /\ Awaited(t) # {}
  /\ GiveUp(t)
  /\ ok' = [ok EXCEPT ![t] = TRUE] /\ Goto(t, "unlock")
  /\ UNCHANGED <<proc, proto, lock, arg, blind, h, wake, sig>>

\* g_max_wait_us have passed.  The polling loop just ends, with result 0.
Timeout(t) ==
  /\ pc[t] = "await" /\ Awaited(t) # {}
  /\ GiveUp(t)
  /\ ok' = [ok EXCEPT ![t] = ~Fence] /\ Goto(t, "unlock")
  /\ UNCHANGED <<proc, proto, lock, arg, blind, h, wake, sig>>

\* TPU_UNLOCK and the reply; an inline request has freed its buffers before.
Unlock(t) ==
  /\ pc[t] = "unlock"
  /\ lock' = None
  /\ h' = IF proto[t] = "inline" THEN [h EXCEPT ![t] = {}] ELSE h
  /\ arg' = [arg EXCEPT ![t] = {}] /\ ok' = [ok EXCEPT ![t] = FALSE]
  /\ blind' = [blind EXCEPT ![t] = FALSE]
  /\ Goto(t, "ready")
  /\ UNCHANGED <<proc, proto, queue, wake, sig>>

-------------------------------------------------------------------------------
(* The idle thread *)

Elapse ==
  /\ recent /\ recent' = FALSE
  /\ UNCHANGED <<proc, threads, h, queue, held, kwl, orphan, idle, sig>>

\* Every 200 ms, without the mutex.
IdleLook ==
  /\ proc = "up" /\ idle = "sleep" /\ held
  /\ idle' = "lock"
  /\ UNCHANGED <<proc, threads, h, queue, held, recent, kwl, orphan, sig>>

\* Mutant: the look without the mutex is taken for good.
IdleLockFree ==
  /\ idle = "lock"
  /\ idle' = "check" /\ UNCHANGED lock
  /\ UNCHANGED <<proc, pc, proto, arg, ok, blind, h, queue, held, recent, kwl, orphan, sig>>

IdleLock ==
  /\ idle = "lock" /\ lock = None
  /\ idle' = "check" /\ lock' = Idler
  /\ UNCHANGED <<proc, pc, proto, arg, ok, blind, h, queue, held, recent, kwl, orphan, sig>>

\* Mutant: the flag will be cleared, the file is not written.
IdleForgets ==
  /\ idle = "check"
  /\ IF held /\ ~recent
     THEN idle' = "clear" /\ UNCHANGED <<kwl, lock>>
     ELSE idle' = "sleep" /\ lock' = None /\ UNCHANGED kwl
  /\ UNCHANGED <<proc, pc, proto, arg, ok, blind, h, queue, held, recent, orphan, sig>>

IdleCheck ==
  /\ idle = "check"
  /\ IF held /\ ~recent
     THEN idle' = "clear" /\ kwl' = FALSE /\ UNCHANGED lock
     ELSE idle' = "sleep" /\ lock' = None /\ UNCHANGED kwl
  /\ UNCHANGED <<proc, pc, proto, arg, ok, blind, h, queue, held, recent, orphan, sig>>

IdleClear ==
  /\ idle = "clear"
  /\ held' = FALSE /\ idle' = "sleep" /\ lock' = None
  /\ UNCHANGED <<proc, pc, proto, arg, ok, blind, h, queue, recent, kwl, orphan, sig>>

IdleStep == IdleLook \/ IdleLock \/ IdleCheck \/ IdleClear

-------------------------------------------------------------------------------
(* The process *)

\* SIGTERM, SIGINT: wl_on_signal runs on one thread while the others go on.
Signal ==
  /\ proc = "up" /\ sig = "none"
  /\ sig' = IF held THEN "write" ELSE "exit"
  /\ UNCHANGED <<proc, threads, h, queue, wake>>

SignalWrite ==
  /\ sig = "write"
  /\ kwl' = FALSE /\ sig' = "clear"
  /\ UNCHANGED <<proc, threads, h, queue, held, recent, orphan, idle>>

\* g_wl_held is cleared before the process ends: a thread may take the wakelock again.
SignalClear ==
  /\ sig = "clear"
  /\ held' = FALSE /\ sig' = "exit"
  /\ UNCHANGED <<proc, threads, h, queue, recent, kwl, orphan, idle>>

\* The process is gone, and with it what the driver holds for it; the wakelock
\* file belongs to nobody and keeps its value.
Gone(how) ==
  /\ proc' = how
  /\ pc' = Off /\ proto' = Zc /\ lock' = None /\ arg' = Empty /\ ok' = Bad /\ blind' = Bad
  /\ h' = Empty /\ queue' = <<>>
  /\ held' = FALSE /\ recent' = FALSE /\ idle' = "sleep" /\ sig' = "none"
  /\ orphan' = kwl /\ UNCHANGED kwl

SignalExit == sig = "exit" /\ Gone("ended")
Kill       == proc = "up" /\ Gone("killed")

Respawn ==
  /\ proc # "up" /\ proc' = "up"
  /\ UNCHANGED <<threads, h, queue, wake, sig>>

Session(t) ==
  \/ Accept(t) \/ End(t)
  \/ \E n \in 1 .. MaxH : Import(t, n)
  \/ \E hs \in SUBSET Slots : Release(t, hs)
  \/ \E hs \in SUBSET Slots \ {{}} : Infer(t, hs)

Inferring(t) ==
  \/ Lock(t) \/ AllocFails(t) \/ Touch(t) \/ Touched(t)
  \/ \E n \in 1 .. 2 : Submit(t, n)
  \/ Completed(t) \/ Timeout(t) \/ Unlock(t)

Next ==
  \/ \E t \in Threads : Session(t) \/ Inferring(t)
  \/ Execute \/ Elapse \/ IdleStep
  \/ Signal \/ SignalWrite \/ SignalClear \/ SignalExit \/ Kill \/ Respawn

Spec == Init /\ [][Next]_vars

\* Time passes, and the idle thread is scheduled.
FairSpec == Spec /\ WF_vars(Elapse) /\ WF_vars(IdleStep)

-------------------------------------------------------------------------------
\* The variables hold values of these sets.
TypeOK ==
  /\ proc \in {"up", "killed", "ended"}
  /\ pc \in [Threads -> {"free", "ready", "wait", "touch", "touched", "submit", "await", "unlock"}]
  /\ proto \in [Threads -> {"zc", "inline"}]
  /\ lock \in Threads \cup {None, Idler}
  /\ h \in [Threads -> SUBSET Slots] /\ arg \in [Threads -> SUBSET Slots]
  /\ ok \in [Threads -> BOOLEAN] /\ blind \in [Threads -> BOOLEAN]
  /\ queue \in Seq([by : Threads, bufs : SUBSET Slots, late : BOOLEAN])
  /\ Len(queue) <= MaxQueue
  /\ held \in BOOLEAN /\ recent \in BOOLEAN /\ kwl \in BOOLEAN /\ orphan \in BOOLEAN
  /\ idle \in {"sleep", "lock", "check", "clear"}
  /\ sig \in {"none", "write", "clear", "exit"}

\* With fences a reply of 0 is only given for an inference the TPU has completed
\* ("exakte Completion", tpud.c:130-132), whatever was given up before, unless
\* SubmitFenced returned no fence for one of its requests: tpud then says 0
\* although the request is still running, or was never accepted (tpud.c:151, 224).
OkMeansComplete ==
  \A t \in Threads :
    pc[t] = "unlock" /\ ok[t] /\ ~blind[t] => \A i \in DOMAIN queue : queue[i].by # t

\* Requests that are waited for belong to the thread that owns the TPU, and
\* their buffers are mapped; only a request that was given up can outlive its
\* buffers.
AwaitedIsMapped ==
  \A i \in DOMAIN queue :
    ~queue[i].late => lock = queue[i].by /\ queue[i].bufs \subseteq h[queue[i].by]

\* The wakelock is held while an inference is set up and awaited, until a
\* signal ends the process: the idle thread never takes it away.
AwakeWhileInferring ==
  sig = "none" => \A t \in Threads : pc[t] \in {"touched", "submit", "await"} => kwl

Quiet == proc = "up" /\ sig = "none" /\ \A t \in Threads : pc[t] \in {"free", "ready"}

\* When there are no more requests the kernel's wakelock is given back
\* (tpud.c:96-99), except one that a process has left on when it ended and that
\* no inference has taken since: the new process does not know of it.
IdleReleases == <>[]Quiet => <>[](~kwl \/ orphan)

\* The buffers of all connections, and those of the requests waited for.
Mapped == {p \in Threads \X Slots : p[2] \in h[p[1]]}
InUse  == [t \in Threads |-> {t} \X UNION {queue[i].bufs : i \in Awaited(t)}]

Lease == INSTANCE DmaLease WITH
           Handles <- Threads \X Slots, Jobs <- Threads, mapped <- Mapped, pins <- InUse

\* For the requests it waits for tpud implements the lease on shared buffers.
LeaseSpec == Lease!Spec
===============================================================================
