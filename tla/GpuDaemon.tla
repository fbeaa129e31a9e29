------------------------------ MODULE GpuDaemon -------------------------------
(***************************************************************************)
(* gpud-zc: the zero-copy GPU bridge.  One thread per connection; a        *)
(* connection is a single request (v1), a session that sends its shaders   *)
(* with every dispatch (v2), or a session that loads them first (v3).  All *)
(* Vulkan work happens under one mutex.  v1 and v2 share a cache of        *)
(* compiled pipelines; its entries are pinned while a dispatch collects    *)
(* them, so that a later stage of the dispatch cannot evict an earlier one.*)
(*                                                                         *)
(* A command that is refused before the mutex is taken changes nothing and *)
(* is left out.  So are sizes: a buffer is its handle, and a shader stands *)
(* for its SPIR-V with its number of bindings (the key of the cache).      *)
(***************************************************************************)
EXTENDS Integers, Sequences, FiniteSetsExt

CONSTANTS Threads,   \* connections
          Shaders,   \* keys of the pipeline cache
          PCache,    \* PCACHE: its entries
          MaxH,      \* MAXH: handles of a session
          MaxSh,     \* MAXSH3: loaded shaders of a v3 session
          MaxStage,  \* MAXSTAGE: stages of a dispatch
          None

Entries == 0 .. PCache - 1
Slots   == 0 .. MaxH - 1
Loads   == 0 .. MaxSh - 1

ASSUME SizeAssumption == PCache \in Nat \ {0} /\ MaxH \in Nat /\ MaxSh \in Nat /\ MaxStage \in Nat
ASSUME NoneAssumption == None \notin Threads /\ None \notin Shaders

VARIABLES
  up,     \* the daemon process exists
  pc,     \* where each connection's thread is, "free": no such thread
  proto,  \* protocol of each connection
  lock,   \* g_vk: thread that holds it
  h,      \* handle table of each session
  sh,     \* v3: shader table of each session
  want,   \* shaders of the stages of the thread's dispatch (v1, v2)
  st,     \* cache entries collected for them so far: the stages' pc pointers
  bind,   \* handles the dispatch binds
  use,    \* v3: loaded shaders the dispatch runs
  busy,   \* dispatches executing on the GPU
  cache,  \* shader of each cache entry
  pins,   \* pinned entries
  next    \* g_pc_next: where the search for a victim starts

session  == <<h, sh>>
dispatch == <<want, st, bind, use>>
pipes    == <<cache, pins, next>>
vars     == <<up, pc, proto, lock, session, dispatch, busy, pipes>>

NoThreads == [t \in Threads |-> "free"]
Anything  == [t \in Threads |-> "v1"]
NoSets    == [t \in Threads |-> {}]
NoStages  == [t \in Threads |-> <<>>]
NoShaders == [e \in Entries |-> None]

Init ==
  /\ up = TRUE
  /\ pc = NoThreads /\ proto = Anything /\ lock = None
  /\ h = NoSets /\ sh = NoSets
  /\ want = NoStages /\ st = NoStages /\ bind = NoSets /\ use = NoSets
  /\ busy = {}
  /\ cache = NoShaders /\ pins = {} /\ next = 0

-------------------------------------------------------------------------------
(* Connections *)

Goto(t, l) == pc' = [pc EXCEPT ![t] = l]

Accept(t) ==
  /\ up /\ pc[t] = "free"
  /\ \E p \in {"v1", "v2", "v3"} : proto' = [proto EXCEPT ![t] = p]
  /\ Goto(t, "ready")
  /\ UNCHANGED <<up, lock, session, dispatch, busy, pipes>>

\* End of stream, wrong magic, or a v1 request that is refused.
Eof(t) ==
  /\ pc[t] = "ready"
  /\ Goto(t, IF proto[t] = "v1" THEN "free" ELSE "end")
  /\ UNCHANGED <<up, proto, lock, session, dispatch, busy, pipes>>

\* Critical sections that contain no wait are one step each.
Section(t) == pc[t] = "ready" /\ lock = None

\* The session frees its buffers and its shaders.
End(t) ==
  /\ pc[t] = "end" /\ lock = None /\ busy = {}
  /\ h' = [h EXCEPT ![t] = {}] /\ sh' = [sh EXCEPT ![t] = {}]
  /\ Goto(t, "free")
  /\ UNCHANGED <<up, proto, lock, dispatch, busy, pipes>>

\* IMPORT fills the lowest free slots and stops at the first failure; what was
\* imported up to there stays in the table.  ALLOC_NATIVE is the case n = 1.
Import(t, n) ==
  /\ Section(t) /\ proto[t] # "v1"
  /\ \E new \in SUBSET (Slots \ h[t]) :
       /\ Cardinality(new) <= n
       /\ \A s \in new, f \in (Slots \ h[t]) \ new : s < f
       /\ h' = [h EXCEPT ![t] = @ \cup new]
  /\ UNCHANGED <<up, pc, proto, lock, sh, dispatch, busy, pipes>>

Release(t, hs) ==
  /\ Section(t) /\ proto[t] # "v1" /\ busy = {}
  /\ h' = [h EXCEPT ![t] = @ \ hs]
  /\ UNCHANGED <<up, pc, proto, lock, sh, dispatch, busy, pipes>>

Load(t) ==
  /\ Section(t) /\ proto[t] = "v3"
  /\ sh[t] # Loads
  /\ sh' = [sh EXCEPT ![t] = @ \cup {Min(Loads \ @)}]
  /\ UNCHANGED <<up, pc, proto, lock, h, dispatch, busy, pipes>>

Unload(t, s) ==
  /\ Section(t) /\ proto[t] = "v3" /\ busy = {}
  /\ s \in sh[t]
  /\ sh' = [sh EXCEPT ![t] = @ \ {s}]
  /\ UNCHANGED <<up, pc, proto, lock, h, dispatch, busy, pipes>>

-------------------------------------------------------------------------------
(* Dispatches *)

\* DISPATCH of a v2 session, or a v1 request (one stage, buffers of its own):
\* everything is read and checked before the mutex is asked for.
Dispatch(t, shaders, hs) ==
  /\ pc[t] = "ready" /\ proto[t] # "v3"
  /\ IF proto[t] = "v1" THEN Len(shaders) = 1 ELSE hs \subseteq h[t]
  /\ want' = [want EXCEPT ![t] = shaders] /\ bind' = [bind EXCEPT ![t] = hs]
  /\ Goto(t, "wait")
  /\ UNCHANGED <<up, proto, lock, session, st, use, busy, pipes>>

\* Mutant: the handles of the stages are not looked up.
Dispatch3Unchecked(t, loaded, hs) ==
  /\ pc[t] = "ready" /\ proto[t] = "v3"
  /\ loaded \subseteq sh[t]
  /\ use' = [use EXCEPT ![t] = loaded] /\ bind' = [bind EXCEPT ![t] = hs]
  /\ Goto(t, "wait")
  /\ UNCHANGED <<up, proto, lock, session, want, st, busy, pipes>>

\* DISPATCH of a v3 session names loaded shaders.  COPY is the case without one.
Dispatch3(t, loaded, hs) ==
  /\ pc[t] = "ready" /\ proto[t] = "v3"
  /\ loaded \subseteq sh[t] /\ hs \subseteq h[t]
  /\ use' = [use EXCEPT ![t] = loaded] /\ bind' = [bind EXCEPT ![t] = hs]
  /\ Goto(t, "wait")
  /\ UNCHANGED <<up, proto, lock, session, want, st, busy, pipes>>

\* Mutant: the GPU work is done without the mutex.
LockFree(t) ==
  /\ pc[t] = "wait"
  /\ lock' = t
  /\ \/ /\ proto[t] = "v1"
        /\ h' = [h EXCEPT ![t] = bind[t]] /\ \E l \in {"pipes", "unlock"} : Goto(t, l)
     \/ proto[t] = "v2" /\ Goto(t, "pipes") /\ UNCHANGED h
     \/ proto[t] = "v3" /\ Goto(t, "submit") /\ UNCHANGED h
  /\ UNCHANGED <<up, proto, sh, dispatch, busy, pipes>>

\* VK_LOCK; a v1 request then imports its buffers, or fails to.
Lock(t) ==
  /\ pc[t] = "wait" /\ lock = None
  /\ lock' = t
  /\ \/ /\ proto[t] = "v1"
        /\ h' = [h EXCEPT ![t] = bind[t]] /\ \E l \in {"pipes", "unlock"} : Goto(t, l)
     \/ proto[t] = "v2" /\ Goto(t, "pipes") /\ UNCHANGED h
     \/ proto[t] = "v3" /\ Goto(t, "submit") /\ UNCHANGED h
  /\ UNCHANGED <<up, proto, sh, dispatch, busy, pipes>>

\* The shader of the stage whose pipeline is looked up now.
Wanted(t) == want[t][Len(st[t]) + 1]

Free   == {e \in Entries : cache[e] = None}
Victim == CHOOSE e \in Entries \ pins :
            \A f \in Entries \ pins : (e - next) % PCache <= (f - next) % PCache

Collect(t, e) ==
  /\ pins' = pins \cup {e}
  /\ st' = [st EXCEPT ![t] = Append(@, e)]
  /\ Goto(t, IF Len(st[t]) + 1 = Len(want[t]) THEN "submit" ELSE "pipes")

\* Mutant: only an entry that is compiled gets pinned.
HitUnpinned(t) ==
  /\ pc[t] = "pipes"
  /\ \E e \in Entries :
       /\ cache[e] = Wanted(t)
       /\ st' = [st EXCEPT ![t] = Append(@, e)]
       /\ Goto(t, IF Len(st[t]) + 1 = Len(want[t]) THEN "submit" ELSE "pipes")
  /\ UNCHANGED <<up, proto, lock, session, want, bind, use, busy, pipes>>

\* get_pipe, hit.
Hit(t) ==
  /\ pc[t] = "pipes"
  /\ \E e \in Entries : cache[e] = Wanted(t) /\ Collect(t, e)
  /\ UNCHANGED <<up, proto, lock, session, want, bind, use, busy, cache, next>>

Miss(t) == pc[t] = "pipes" /\ \A e \in Entries : cache[e] # Wanted(t)

\* get_pipe, miss: into a free entry, else over the next one that is not pinned.
Compile(t) ==
  LET e == IF Free # {} THEN Min(Free) ELSE Victim IN
  /\ Miss(t)
  /\ Free # {} \/ pins # Entries
  /\ next' = IF Free # {} THEN next ELSE (e + 1) % PCache
  /\ \/ cache' = [cache EXCEPT ![e] = Wanted(t)] /\ Collect(t, e)
     \/ cache' = [cache EXCEPT ![e] = None] /\ Goto(t, "unlock") /\ UNCHANGED <<pins, st>>
  /\ UNCHANGED <<up, proto, lock, session, want, bind, use, busy>>

\* get_pipe, miss: every entry is pinned, the dispatch is refused.
Exhausted(t) ==
  /\ Miss(t) /\ Free = {} /\ pins = Entries
  /\ Goto(t, "refused")
  /\ UNCHANGED <<up, proto, lock, session, dispatch, busy, pipes>>

\* run_stages, run_stages3: record and submit one command buffer ...
Submit(t) ==
  /\ pc[t] = "submit"
  /\ \/ busy' = busy \cup {t} /\ Goto(t, "fence")
     \/ UNCHANGED busy /\ Goto(t, "unlock")
  /\ UNCHANGED <<up, proto, lock, session, dispatch, pipes>>

GpuDone(t) ==
  /\ t \in busy
  /\ busy' = busy \ {t}
  /\ UNCHANGED <<up, pc, proto, lock, session, dispatch, pipes>>

\* ... and wait for its fence; a wait that fails, the device being lost, ends alike.
Fence(t) ==
  /\ pc[t] = "fence" /\ t \notin busy
  /\ Goto(t, "unlock")
  /\ UNCHANGED <<up, proto, lock, session, dispatch, busy, pipes>>

\* Mutant: a refused dispatch leaves its pins behind.
UnlockKeepsPins(t) ==
  /\ pc[t] \in {"unlock", "refused"}
  /\ lock' = None
  /\ pins' = IF proto[t] = "v3" \/ pc[t] = "refused" THEN pins ELSE {}
  /\ want' = [want EXCEPT ![t] = <<>>] /\ st' = [st EXCEPT ![t] = <<>>]
  /\ bind' = [bind EXCEPT ![t] = {}] /\ use' = [use EXCEPT ![t] = {}]
  /\ h' = IF proto[t] = "v1" THEN [h EXCEPT ![t] = {}] ELSE h
  /\ Goto(t, IF proto[t] = "v1" THEN "free" ELSE "ready")
  /\ UNCHANGED <<up, proto, sh, busy, cache, next>>

\* unpin_all, VK_UNLOCK; a v1 request has freed its buffers before.
Unlock(t) ==
  /\ pc[t] \in {"unlock", "refused"}
  /\ lock' = None
  /\ pins' = IF proto[t] = "v3" THEN pins ELSE {}
  /\ want' = [want EXCEPT ![t] = <<>>] /\ st' = [st EXCEPT ![t] = <<>>]
  /\ bind' = [bind EXCEPT ![t] = {}] /\ use' = [use EXCEPT ![t] = {}]
  /\ h' = IF proto[t] = "v1" THEN [h EXCEPT ![t] = {}] ELSE h
  /\ Goto(t, IF proto[t] = "v1" THEN "free" ELSE "ready")
  /\ UNCHANGED <<up, proto, sh, busy, cache, next>>

-------------------------------------------------------------------------------
(* The process *)

\* EXIT of a v3 session ends the daemon, for every other session as well.
Exit(t) ==
  /\ Section(t) /\ proto[t] = "v3" /\ busy = {}
  /\ up' = FALSE
  /\ pc' = NoThreads /\ proto' = Anything /\ lock' = None
  /\ h' = NoSets /\ sh' = NoSets
  /\ want' = NoStages /\ st' = NoStages /\ bind' = NoSets /\ use' = NoSets
  /\ busy' = {}
  /\ cache' = NoShaders /\ pins' = {} /\ next' = 0

Respawn ==
  /\ ~up /\ up' = TRUE
  /\ UNCHANGED <<pc, proto, lock, session, dispatch, busy, pipes>>

Stagings == UNION {[1 .. k -> Shaders] : k \in 1 .. MaxStage}

Session(t) ==
  \/ Accept(t) \/ Eof(t) \/ End(t) \/ Load(t) \/ Exit(t)
  \/ \E n \in 1 .. MaxH : Import(t, n)
  \/ \E hs \in SUBSET Slots : Release(t, hs)
  \/ \E s \in Loads : Unload(t, s)

Dispatching(t) ==
  \/ \E hs \in SUBSET Slots :
       \/ \E shaders \in Stagings : Dispatch(t, shaders, hs)
       \/ \E loaded \in SUBSET Loads : Dispatch3(t, loaded, hs)
  \/ Lock(t) \/ Hit(t) \/ Compile(t) \/ Exhausted(t)
  \/ Submit(t) \/ GpuDone(t) \/ Fence(t) \/ Unlock(t)

Next == Respawn \/ \E t \in Threads : Session(t) \/ Dispatching(t)

Spec == Init /\ [][Next]_vars

-------------------------------------------------------------------------------
\* The variables hold values of these sets.
TypeOK ==
  /\ up \in BOOLEAN
  /\ pc \in [Threads -> {"free", "ready", "end", "wait", "pipes", "submit", "fence", "unlock", "refused"}]
  /\ proto \in [Threads -> {"v1", "v2", "v3"}]
  /\ lock \in Threads \cup {None}
  /\ h \in [Threads -> SUBSET Slots] /\ sh \in [Threads -> SUBSET Loads]
  /\ want \in [Threads -> Seq(Shaders)] /\ st \in [Threads -> Seq(Entries)]
  /\ bind \in [Threads -> SUBSET Slots] /\ use \in [Threads -> SUBSET Loads]
  /\ busy \subseteq Threads
  /\ cache \in [Entries -> Shaders \cup {None}]
  /\ pins \subseteq Entries /\ next \in Entries

\* The pipelines a dispatch has collected are still the ones of its stages when
\* the command buffer is recorded and while it runs: no eviction in between.
PipelinesAlive ==
  \A t \in Threads : \A i \in DOMAIN st[t] : cache[st[t][i]] = want[t][i]

\* No shader is compiled into two entries.
CacheDistinct ==
  \A e, f \in Entries : cache[e] # None /\ cache[e] = cache[f] => e = f

\* A dispatch is refused for want of an entry only if it alone needs more than
\* there are: earlier dispatches leave no pins behind, whichever way they ended.
RefusedOnlyIfTooWide ==
  \A t \in Threads :
    pc[t] = "refused" => Cardinality({want[t][i] : i \in 1 .. Len(st[t]) + 1}) > PCache

\* Vulkan's queue is used by one thread at a time, the owner of the mutex.
QueueHasOneUser == busy \subseteq {lock}

\* The buffers of all sessions, and the ones of each the GPU is working on.
Mapped == {p \in Threads \X Slots : p[2] \in h[p[1]]}
Bound  == [t \in Threads |-> IF t \in busy THEN {t} \X bind[t] ELSE {}]

Lease == INSTANCE DmaLease WITH
           Handles <- Threads \X Slots, Jobs <- Threads, mapped <- Mapped, pins <- Bound

\* gpud-zc implements the lease on shared buffers.
LeaseSpec == Lease!Spec
===============================================================================
