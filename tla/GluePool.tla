------------------------------- MODULE GluePool -------------------------------
(***************************************************************************)
(* barra_pool (ggml-barra.cpp): the threads that share the CPU work next   *)
(* to the TPU.  run(n, f) calls f on the rows 0 .. n - 1 and returns when  *)
(* all are done: it publishes the job, counts a generation up under the    *)
(* mutex and wakes the workers; caller and workers draw rows from one      *)
(* counter.  An idle worker spins on the generation, then sleeps on a      *)
(* condition variable.  The destructor stops and joins the workers.        *)
(***************************************************************************)
EXTENDS Integers, FiniteSets

CONSTANTS Workers,  \* the nt - 1 threads of the pool
          Main,     \* the thread that calls run
          MaxRows,  \* bound: rows of one job
          MaxGen,   \* bound: jobs that are published
          Nobody

ASSUME WorkersAssumption == IsFiniteSet(Workers) /\ Workers # {} /\ Main \notin Workers
ASSUME NobodyAssumption    == Nobody \notin Workers \cup {Main}
ASSUME BoundAssumption   == MaxRows \in Nat /\ MaxGen \in Nat

Threads == Workers \cup {Main}
JobRows == 0 .. MaxRows - 1

VARIABLES
  spot,    \* where each thread is
  gen, next, done, n,   \* the members of barra_pool
  stop,
  job,     \* does fn point to a live function?
  mu,      \* holder of mu
  asleep,  \* threads waiting on cv
  seen,    \* local of worker: the last generation it took part in
  row,     \* local of work: the row drawn
  ran      \* calls of the job's function, for each row

shared   == <<gen, next, done, n, stop, job>>
poolVars == <<spot, shared, mu, asleep, seen, row, ran>>

PoolInit ==
  /\ spot = [t \in Threads |-> IF t = Main THEN "idle" ELSE "spin"]
  /\ gen = 0 /\ next = 0 /\ done = 0 /\ n = 0
  /\ stop = FALSE /\ job = FALSE
  /\ mu = Nobody /\ asleep = {}
  /\ seen = [w \in Workers |-> 0]
  /\ row = [t \in Threads |-> 0] /\ ran = [r \in JobRows |-> 0]

Goto(t, l) == spot' = [spot EXCEPT ![t] = l]

-------------------------------------------------------------------------------
(* work: draw rows until there are none *)

\* Mutant: the counter is not atomic, an increment may be lost.
DrawTwice(t) ==
  /\ spot[t] = "work"
  /\ next' \in {next, next + 1}
  /\ row' = [row EXCEPT ![t] = next]
  /\ Goto(t, IF next < n THEN "call" ELSE IF t = Main THEN "join" ELSE "count")
  /\ UNCHANGED <<gen, done, n, stop, job, mu, asleep, seen, ran>>

Draw(t) ==
  /\ spot[t] = "work"
  /\ next' = next + 1
  /\ row' = [row EXCEPT ![t] = next]
  /\ Goto(t, IF next < n THEN "call" ELSE IF t = Main THEN "join" ELSE "count")
  /\ UNCHANGED <<gen, done, n, stop, job, mu, asleep, seen, ran>>

\* fn(r) returns.
Call(t) ==
  /\ spot[t] = "call"
  /\ ran' = [ran EXCEPT ![row[t]] = @ + 1]
  /\ Goto(t, "work")
  /\ UNCHANGED <<shared, mu, asleep, seen, row>>

-------------------------------------------------------------------------------
(* run *)

\* run returns, and the caller's function goes out of scope.
Return == Goto(Main, "idle") /\ job' = FALSE

\* Fewer than two rows, or a pool without workers: the caller alone, and none
\* of the members changes.  All other jobs:
Run ==
  /\ spot[Main] = "idle" /\ ~stop /\ gen < MaxGen
  /\ n' \in 2 .. MaxRows
  /\ job' = TRUE /\ ran' = [r \in JobRows |-> 0]
  /\ Goto(Main, "reset")
  /\ UNCHANGED <<gen, next, done, stop, mu, asleep, seen, row>>

\* Mutant: the counter of finished workers keeps its value.
ResetNext ==
  /\ spot[Main] = "reset"
  /\ next' = 0
  /\ Goto(Main, "publish")
  /\ UNCHANGED <<gen, done, n, stop, job, mu, asleep, seen, row, ran>>

Reset ==
  /\ spot[Main] = "reset"
  /\ next' = 0 /\ done' = 0
  /\ Goto(Main, "publish")
  /\ UNCHANGED <<gen, n, stop, job, mu, asleep, seen, row, ran>>

\* Mutant: the generation is counted up without the mutex.
PublishUnlocked ==
  /\ spot[Main] = "publish"
  /\ gen' = gen + 1
  /\ Goto(Main, "notify")
  /\ UNCHANGED <<next, done, n, stop, job, mu, asleep, seen, row, ran>>

\* mu is taken and given back around the increment.
Publish ==
  /\ spot[Main] = "publish" /\ mu = Nobody
  /\ gen' = gen + 1
  /\ Goto(Main, "notify")
  /\ UNCHANGED <<next, done, n, stop, job, mu, asleep, seen, row, ran>>

\* cv.notify_all(): the sleepers go on to take the mutex again.
Notify ==
  /\ spot[Main] = "notify"
  /\ spot' = [t \in Threads |-> IF t \in asleep THEN "lock"
                              ELSE IF t = Main THEN (IF stop THEN "quit" ELSE "work") ELSE spot[t]]
  /\ asleep' = {}
  /\ UNCHANGED <<shared, mu, seen, row, ran>>

\* All the others are through with the job.
Join ==
  /\ spot[Main] = "join" /\ done >= Cardinality(Workers)
  /\ Return
  /\ UNCHANGED <<gen, next, done, n, stop, mu, asleep, seen, row, ran>>

\* The destructor, at the end of the program.
Destroy ==
  /\ spot[Main] = "idle" /\ ~stop /\ mu = Nobody
  /\ stop' = TRUE
  /\ Goto(Main, "notify")
  /\ UNCHANGED <<gen, next, done, n, job, mu, asleep, seen, row, ran>>

Destroyed ==
  /\ spot[Main] = "quit" /\ \A w \in Workers : spot[w] = "ended"
  /\ Goto(Main, "ended")
  /\ UNCHANGED <<shared, mu, asleep, seen, row, ran>>

-------------------------------------------------------------------------------
(* worker *)

News(w) == gen # seen[w] \/ stop

\* Out of the spinning loop: there is a job, or it is over.
Leave(w) ==
  /\ spot[w] = "spin" /\ News(w)
  /\ IF stop THEN Goto(w, "ended") /\ UNCHANGED seen
             ELSE Goto(w, "work") /\ seen' = [seen EXCEPT ![w] = gen]
  /\ UNCHANGED <<shared, mu, asleep, row, ran>>

\* Spun for long enough.
Tire(w) ==
  /\ spot[w] = "spin" /\ ~News(w)
  /\ Goto(w, "lock")
  /\ UNCHANGED <<shared, mu, asleep, seen, row, ran>>

Lock(w) ==
  /\ spot[w] = "lock" /\ mu = Nobody
  /\ mu' = w /\ Goto(w, "check")
  /\ UNCHANGED <<shared, asleep, seen, row, ran>>

\* cv.wait: the condition is looked at under the mutex ...
Check(w) ==
  /\ spot[w] = "check"
  /\ IF News(w) THEN Goto(w, "spin") /\ mu' = Nobody ELSE Goto(w, "doze") /\ UNCHANGED mu
  /\ UNCHANGED <<shared, asleep, seen, row, ran>>

\* ... and going to sleep gives it back.
Doze(w) ==
  /\ spot[w] = "doze"
  /\ asleep' = asleep \cup {w} /\ mu' = Nobody
  /\ Goto(w, "asleep")
  /\ UNCHANGED <<shared, seen, row, ran>>

\* Condition variables may wake up for no reason.
Spurious(w) ==
  /\ w \in asleep
  /\ asleep' = asleep \ {w} /\ Goto(w, "lock")
  /\ UNCHANGED <<shared, mu, seen, row, ran>>

Count(w) ==
  /\ spot[w] = "count"
  /\ done' = done + 1
  /\ Goto(w, "spin")
  /\ UNCHANGED <<gen, next, n, stop, job, mu, asleep, seen, row, ran>>

-------------------------------------------------------------------------------
MainStep ==
  Draw(Main) \/ Call(Main) \/ Reset \/ Publish \/ Notify \/ Join \/ Destroyed

WorkerStep(w) == Draw(w) \/ Call(w) \/ Leave(w) \/ Tire(w) \/ Lock(w) \/ Check(w) \/ Doze(w) \/ Count(w)

PoolNext ==
  \/ Run \/ Destroy \/ MainStep
  \/ \E w \in Workers : WorkerStep(w) \/ Spurious(w)

PoolSpec == PoolInit /\ [][PoolNext]_poolVars

\* Every thread is scheduled and the job's function returns; a waiter gets the
\* mutex at last.  Nobody has to call run, and spurious wake-ups need not come.
PoolFairSpec ==
  /\ PoolSpec /\ WF_poolVars(MainStep)
  /\ SF_poolVars(Publish)
  /\ \A w \in Workers : WF_poolVars(WorkerStep(w)) /\ SF_poolVars(Lock(w))

-------------------------------------------------------------------------------
\* The variables hold values of these sets.
PoolTypeOK ==
  /\ spot \in [Threads -> {"idle", "reset", "publish", "notify", "join", "quit", "ended",
                         "work", "call", "spin", "lock", "check", "doze", "asleep", "count"}]
  /\ gen \in 0 .. MaxGen /\ next \in Nat /\ done \in Nat /\ n \in 0 .. MaxRows
  /\ stop \in BOOLEAN /\ job \in BOOLEAN
  /\ mu \in Workers \cup {Nobody} /\ asleep \subseteq Workers
  /\ seen \in [Workers -> 0 .. MaxGen]
  /\ row \in [Threads -> Nat] /\ ran \in [JobRows -> Nat]

\* When run returns the function has been called exactly once on every row of
\* the job (ggml-barra.cpp:258-260 waits for the workers by their number only).
EachRowOnce ==
  spot[Main] = "idle" => \A r \in JobRows : ran[r] = IF r < n THEN 1 ELSE 0

\* A worker asleep is told of every job and of the end: there are no news that nobody
\* is about to wake it for.
NoLostWakeUp == \A w \in asleep : News(w) => spot[Main] = "notify"

\* The calls of run, and the rows of each.
Fork == INSTANCE ForkJoin WITH
          Pieces <- JobRows, open <- job, asked <- {r \in JobRows : r < n}, times <- ran

\* The pool implements the promise of ForkJoin: what is called, however often and until
\* when, is the job of one call of run.
ForkSpec == Fork!Spec

\* No thread calls the function after the caller has gone on: fn is a pointer
\* to an object on the caller's stack (ggml-barra.cpp:266).
NoCallAfterReturn == \A t \in Threads : spot[t] = "call" => job

\* run returns and the destructor joins all workers: no wake-up is lost between
\* a worker's look at the generation and its sleep.
RunReturns == spot[Main] # "idle" ~> spot[Main] \in {"idle", "ended"}
===============================================================================
