--------------------------- MODULE GpuDaemonProofs ----------------------------
(***************************************************************************)
(* Proofs about gpud-zc (GpuDaemon), for any number of connections, any    *)
(* size of the tables and of the pipeline cache.  The argument is the      *)
(* mutex: whoever is in one of the places of Critical holds it, the GPU    *)
(* and the pins are its own, and everybody else has collected nothing.     *)
(***************************************************************************)
EXTENDS GpuDaemon, SequenceTheorems, FiniteSetTheorems, WellFoundedInduction, TLAPS

Critical == {"pipes", "submit", "fence", "unlock", "refused"}

\* The mutex belongs to the thread in the critical section, the GPU to the mutex.
Exclusive ==
  /\ \A t \in Threads : pc[t] \in Critical <=> lock = t
  /\ \A t \in busy : pc[t] = "fence"

\* What a thread has collected is a prefix of what it wants.
Collecting ==
  \A t \in Threads :
    /\ st[t] # <<>> => lock = t /\ proto[t] # "v3"
    /\ Len(st[t]) <= Len(want[t])
    /\ pc[t] = "pipes" => proto[t] # "v3" /\ Len(st[t]) < Len(want[t])
    /\ pc[t] = "wait" /\ proto[t] # "v3" => want[t] # <<>>

\* The pins are the entries the owner of the mutex has collected.
PinsAreHis ==
  /\ lock = None => pins = {}
  /\ \A t \in Threads : lock = t => pins = {st[t][i] : i \in DOMAIN st[t]}

\* A dispatch binds handles of its session; a v1 request has buffers only while
\* it holds the mutex.
BoundIsMapped ==
  \A t \in Threads :
    /\ pc[t] = "free" \/ (proto[t] = "v1" /\ lock # t) => h[t] = {}
    /\ pc[t] \in {"pipes", "submit", "fence"} \/ (pc[t] = "wait" /\ proto[t] # "v1")
         => bind[t] \subseteq h[t]

TypeInv == TypeOK /\ Exclusive /\ Collecting
IInv == /\ TypeInv /\ PinsAreHis /\ BoundIsMapped
        /\ PipelinesAlive /\ CacheDistinct /\ RefusedOnlyIfTooWide

-------------------------------------------------------------------------------
(* Helpers *)

\* A set of numbers that is not empty has a minimum.
LEMMA HasMin ==
  ASSUME NEW T, T \subseteq Nat, T # {}
  PROVE  \E m \in T : \A k \in T : m <= k
<1>1. IsWellFoundedOn(OpToRel(<, Nat), Nat)
  BY NatLessThanWellFounded
<1>2. PICK m \in T : \A k \in T : ~(<<k, m>> \in OpToRel(<, Nat))
  BY <1>1, WFMin
<1>3. \A k \in T : ~(k < m)
  BY <1>2 DEF OpToRel
<1> QED
  BY <1>3

\* Min returns an element of such a set.
LEMMA MinIsElement ==
  ASSUME NEW T, T \subseteq Nat, T # {}
  PROVE  Min(T) \in T
<1>1. \E m \in T : \A k \in T : m <= k
  BY HasMin
<1> QED
  BY <1>1 DEF Min

\* Where the round robin stops is an entry that is not pinned.
LEMMA VictimUnpinned ==
  ASSUME TypeOK, pins # Entries
  PROVE  Victim \in Entries \ pins
<1> DEFINE d(e) == (e - next) % PCache
           D == {d(e) : e \in Entries \ pins}
<1>1. next \in Int /\ PCache \in Nat \ {0} /\ \A e \in Entries : e \in Int
  BY SizeAssumption DEF TypeOK, Entries
<1>2. \A e \in Entries : d(e) \in Nat
  BY <1>1
<1>3. D \subseteq Nat /\ D # {}
  <2>1. PICK e \in Entries : e \in Entries \ pins
    BY DEF TypeOK
  <2>2. d(e) \in D
    BY <2>1
  <2>3. D \subseteq Nat
    BY <1>2
  <2> HIDE DEF D
  <2> QED
    BY <2>2, <2>3
<1>4. \E m \in D : \A k \in D : m <= k
  BY <1>3, HasMin
<1>5. \E e \in Entries \ pins : \A f \in Entries \ pins : d(e) <= d(f)
  BY <1>4
<1> QED
  BY <1>5 DEF Victim

\* The entry get_pipe compiles into.
Target == IF Free # {} THEN Min(Free) ELSE Victim

\* It is empty, or not pinned.
LEMMA TargetType ==
  ASSUME TypeOK, Free # {} \/ pins # Entries
  PROVE  /\ Target \in Entries
         /\ cache[Target] = None \/ Target \notin pins
<1>1. CASE Free # {}
  <2>1. Free \subseteq Nat
    BY SizeAssumption DEF Free, Entries
  <2>2. Min(Free) \in Free
    BY <1>1, <2>1, MinIsElement
  <2> QED
    BY <1>1, <2>2 DEF Target, Free
<1>2. CASE Free = {}
  BY <1>2, VictimUnpinned DEF Target
<1> QED
  BY <1>1, <1>2

\* The shader of the stage that is looked up is one of the dispatch's.
LEMMA WantedType ==
  ASSUME TypeInv, NEW t \in Threads, pc[t] = "pipes"
  PROVE  /\ Len(st[t]) + 1 \in DOMAIN want[t]
         /\ Wanted(t) \in Shaders
<1>1. want[t] \in Seq(Shaders) /\ st[t] \in Seq(Entries) /\ Len(st[t]) < Len(want[t])
  BY DEF TypeInv, TypeOK, Collecting
<1>2. Len(st[t]) + 1 \in 1 .. Len(want[t])
  BY <1>1, LenProperties
<1> QED
  BY <1>1, <1>2, ElementOfSeq, LenProperties DEF Wanted

\* What a client can send as the stages of a dispatch.
LEMMA StagingType ==
  ASSUME NEW s \in Stagings
  PROVE  s \in Seq(Shaders) /\ s # <<>>
<1>1. PICK k \in 1 .. MaxStage : s \in [1 .. k -> Shaders]
  BY DEF Stagings
<1>2. k \in Nat /\ s \in Seq(Shaders)
  BY <1>1, SizeAssumption, SeqDef
<1>3. 1 \in 1 .. k /\ DOMAIN s = 1 .. k
  BY <1>1, SizeAssumption
<1> QED
  BY <1>2, <1>3

\* Collecting one more entry.
LEMMA CollectType ==
  ASSUME TypeInv, NEW t \in Threads, pc[t] = "pipes", NEW e \in Entries, Collect(t, e)
  PROVE  /\ pins' = pins \cup {e}
         /\ st' \in [Threads -> Seq(Entries)]
         /\ Len(st'[t]) = Len(st[t]) + 1
         /\ DOMAIN st'[t] = 1 .. Len(st[t]) + 1
         /\ \A i \in DOMAIN st[t] : st'[t][i] = st[t][i]
         /\ st'[t][Len(st[t]) + 1] = e
         /\ \A u \in Threads \ {t} : st'[u] = st[u]
         /\ pc' = [pc EXCEPT ![t] = IF Len(st[t]) + 1 = Len(want[t]) THEN "submit" ELSE "pipes"]
<1>1. st[t] \in Seq(Entries) /\ st \in [Threads -> Seq(Entries)]
  BY DEF TypeInv, TypeOK
<1>2. /\ Append(st[t], e) \in Seq(Entries)
      /\ Len(Append(st[t], e)) = Len(st[t]) + 1
      /\ \A i \in 1 .. Len(st[t]) : Append(st[t], e)[i] = st[t][i]
      /\ Append(st[t], e)[Len(st[t]) + 1] = e
  BY <1>1, AppendProperties
<1>3. st' = [st EXCEPT ![t] = Append(st[t], e)] /\ pins' = pins \cup {e}
  BY DEF Collect
<1>4. DOMAIN st[t] = 1 .. Len(st[t]) /\ DOMAIN Append(st[t], e) = 1 .. Len(st[t]) + 1
  BY <1>1, <1>2, LenProperties
<1> QED
  BY <1>1, <1>2, <1>3, <1>4 DEF Collect, Goto

-------------------------------------------------------------------------------
(* Types and mutual exclusion *)

\* The empty tables have the types of the tables.
LEMMA EmptyTables ==
  /\ NoThreads \in [Threads -> {"free"}] /\ Anything \in [Threads -> {"v1"}]
  /\ NoSets \in [Threads -> {{}}] /\ NoStages \in [Threads -> {<<>>}]
  /\ NoShaders \in [Entries -> {None}] /\ 0 \in Entries
BY SizeAssumption DEF NoThreads, Anything, NoSets, NoStages, NoShaders, Entries

\* The tables of a process that has just started.
LEMMA FreshTypes ==
  ASSUME pc = NoThreads, proto = Anything, lock = None, h = NoSets, sh = NoSets,
         want = NoStages, st = NoStages, bind = NoSets, use = NoSets,
         busy = {}, cache = NoShaders, pins = {}, next = 0, up \in BOOLEAN
  PROVE  TypeInv
<1>1. TypeOK
  <2>1. <<>> \in Seq(Shaders) /\ <<>> \in Seq(Entries)
    BY EmptySeq
  <2>2. /\ pc \in [Threads -> {"free"}] /\ proto \in [Threads -> {"v1"}]
        /\ h \in [Threads -> {{}}] /\ sh \in [Threads -> {{}}]
        /\ want \in [Threads -> {<<>>}] /\ st \in [Threads -> {<<>>}]
        /\ bind \in [Threads -> {{}}] /\ use \in [Threads -> {{}}]
        /\ cache \in [Entries -> {None}] /\ next \in Entries
    BY EmptyTables, Zenon
  <2>3. \A S, e : e \in S => \A f \in [Threads -> {e}] : f \in [Threads -> S]
    OBVIOUS
  <2>4. want \in [Threads -> Seq(Shaders)] /\ st \in [Threads -> Seq(Entries)]
    BY <2>1, <2>2, <2>3, Zenon
  <2> QED
    BY <2>2, <2>4 DEF TypeOK
<1>2. Exclusive
  BY NoneAssumption, EmptyTables DEF Exclusive, Critical
<1>3. Collecting
  BY EmptyTables, EmptySeq DEF Collecting
<1> QED
  BY <1>1, <1>2, <1>3 DEF TypeInv

\* A session that waits for the mutex, or does not need it, keeps the types.
LEMMA SessionTypes ==
  ASSUME TypeInv, NEW t \in Threads, Session(t), ~Exit(t)
  PROVE  TypeInv'
<1> USE NoneAssumption, SizeAssumption
    DEF TypeInv, TypeOK, Exclusive, Collecting, Critical, session, dispatch, pipes, Goto, Section
<1>1. CASE Accept(t)
  <2>1. PICK p \in {"v1", "v2", "v3"} : proto' = [proto EXCEPT ![t] = p]
    BY <1>1 DEF Accept
  <2>2. st[t] = <<>>
    BY <1>1 DEF Accept
  <2> QED
    BY <1>1, <2>1, <2>2 DEF Accept
<1>2. CASE Eof(t)
  BY <1>2 DEF Eof
<1>3. CASE End(t)
  BY <1>3 DEF End
<1>4. CASE Load(t)
  <2>1. Loads \ sh[t] \subseteq Nat /\ Loads \ sh[t] # {}
    <3>1. sh[t] \subseteq Loads /\ sh[t] # Loads
      BY <1>4 DEF Load
    <3>2. Loads \subseteq Nat
      BY DEF Loads
    <3> QED
      BY <3>1, <3>2
  <2>2. Min(Loads \ sh[t]) \in Loads
    BY <2>1, MinIsElement
  <2> QED
    BY <1>4, <2>2 DEF Load
<1>5. ASSUME NEW n \in 1 .. MaxH, Import(t, n) PROVE TypeInv'
  BY <1>5 DEF Import
<1>6. ASSUME NEW hs \in SUBSET Slots, Release(t, hs) PROVE TypeInv'
  BY <1>6 DEF Release
<1>7. ASSUME NEW s \in Loads, Unload(t, s) PROVE TypeInv'
  BY <1>7 DEF Unload
<1> QED
  BY <1>1, <1>2, <1>3, <1>4, <1>5, <1>6, <1>7 DEF Session

\* Appending to what is collected keeps it a prefix.
LEMMA CollectKeeps ==
  ASSUME TypeInv, NEW t \in Threads, pc[t] = "pipes", NEW e \in Entries, Collect(t, e),
         UNCHANGED <<up, proto, lock, session, want, bind, use, busy>>,
         cache' \in [Entries -> Shaders \cup {None}], next' \in Entries
  PROVE  TypeInv'
<1>1. /\ pins' = pins \cup {e}
      /\ st' \in [Threads -> Seq(Entries)]
      /\ Len(st'[t]) = Len(st[t]) + 1
      /\ \A u \in Threads \ {t} : st'[u] = st[u]
      /\ pc' = [pc EXCEPT ![t] = IF Len(st[t]) + 1 = Len(want[t]) THEN "submit" ELSE "pipes"]
  BY CollectType
<1>2. TypeOK'
  BY <1>1 DEF TypeInv, TypeOK, session
<1>3. Exclusive'
  BY <1>1 DEF TypeInv, TypeOK, Exclusive, Critical
<1>4. Len(st[t]) \in Nat /\ Len(want[t]) \in Nat
  BY LenProperties DEF TypeInv, TypeOK
<1>5. lock = t /\ proto[t] # "v3" /\ Len(st[t]) < Len(want[t])
  BY DEF TypeInv, Exclusive, Critical, Collecting
<1>6. Collecting'
  <2> SUFFICES ASSUME NEW u \in Threads
               PROVE  (/\ st[u] # <<>> => lock = u /\ proto[u] # "v3"
                       /\ Len(st[u]) <= Len(want[u])
                       /\ pc[u] = "pipes" => proto[u] # "v3" /\ Len(st[u]) < Len(want[u])
                       /\ pc[u] = "wait" /\ proto[u] # "v3" => want[u] # <<>>)'
    BY DEF Collecting
  <2>1. CASE u = t
    BY <1>1, <1>4, <1>5, <2>1 DEF TypeInv, TypeOK
  <2>2. CASE u # t
    BY <1>1, <2>2 DEF TypeInv, TypeOK, Collecting
  <2> QED
    BY <2>1, <2>2
<1> QED
  BY <1>2, <1>3, <1>6 DEF TypeInv

\* A thread that works on a dispatch keeps the types.
LEMMA DispatchTypes ==
  ASSUME TypeInv, NEW t \in Threads, Dispatching(t)
  PROVE  TypeInv'
<1> USE NoneAssumption DEF session, dispatch, pipes
<1>1. ASSUME NEW s \in Stagings, NEW hs \in SUBSET Slots, Dispatch(t, s, hs) PROVE TypeInv'
  <2>1. s \in Seq(Shaders) /\ s # <<>>
    BY StagingType
  <2>2. Len(s) \in Nat /\ Len(<<>>) = 0
    BY <2>1, LenProperties, EmptySeq
  <2>3. st[t] = <<>>
    BY <1>1 DEF Dispatch, TypeInv, Exclusive, Collecting, Critical
  <2> QED
    BY <1>1, <2>1, <2>2, <2>3
    DEF Dispatch, Goto, TypeInv, TypeOK, Exclusive, Collecting, Critical
<1>2. ASSUME NEW l \in SUBSET Loads, NEW hs \in SUBSET Slots, Dispatch3(t, l, hs) PROVE TypeInv'
  BY <1>2 DEF Dispatch3, Goto, TypeInv, TypeOK, Exclusive, Collecting, Critical
<1>3. CASE Lock(t)
  <2>1. st[t] = <<>> /\ Len(<<>>) = 0
    BY <1>3, EmptySeq DEF Lock, TypeInv, Exclusive, Collecting, Critical
  <2>2. proto[t] # "v3" => Len(want[t]) > 0
    BY <1>3, EmptySeq DEF Lock, TypeInv, TypeOK, Collecting
  <2>3. TypeOK'
    <3>1. \E l \in {"pipes", "unlock", "submit"} : pc' = [pc EXCEPT ![t] = l]
      BY <1>3 DEF Lock, Goto
    <3>2. h' \in [Threads -> SUBSET Slots]
      BY <1>3 DEF Lock, TypeInv, TypeOK
    <3>3. /\ lock' = t /\ UNCHANGED <<up, proto, sh, want, st, bind, use, busy, cache, pins, next>>
          /\ pc' \in [Threads -> {"free", "ready", "end", "wait", "pipes", "submit", "fence", "unlock", "refused"}]
      BY <1>3, <3>1 DEF Lock, dispatch, pipes, TypeInv, TypeOK
    <3> QED
      BY <3>2, <3>3 DEF TypeInv, TypeOK
  <2>4. Exclusive'
    BY <1>3 DEF Lock, Goto, TypeInv, TypeOK, Exclusive, Critical
  <2>5. Collecting'
    BY <1>3, <2>1, <2>2 DEF Lock, Goto, TypeInv, TypeOK, Exclusive, Collecting, Critical
  <2> QED
    BY <2>3, <2>4, <2>5 DEF TypeInv
<1>4. CASE Hit(t)
  <2>1. PICK e \in Entries : Collect(t, e)
    BY <1>4 DEF Hit
  <2> QED
    BY <1>4, <2>1, CollectKeeps DEF Hit, TypeInv, TypeOK
<1>5. CASE Compile(t)
  <2>1. pc[t] = "pipes" /\ (Free # {} \/ pins # Entries)
    BY <1>5 DEF Compile, Miss
  <2>2. Target \in Entries
    BY <2>1, TargetType DEF TypeInv
  <2>3. Wanted(t) \in Shaders
    BY <2>1, WantedType
  <2>4. next' \in Entries
    <3>1. next' = IF Free # {} THEN next ELSE (Target + 1) % PCache
      BY <1>5 DEF Compile, Target
    <3>2. (Target + 1) % PCache \in Entries
      BY <2>2, SizeAssumption DEF Entries
    <3> QED
      BY <3>1, <3>2 DEF TypeInv, TypeOK
  <2>5. CASE cache' = [cache EXCEPT ![Target] = Wanted(t)] /\ Collect(t, Target)
    BY <1>5, <2>1, <2>2, <2>3, <2>4, <2>5, CollectKeeps DEF Compile, TypeInv, TypeOK
  <2>6. CASE cache' = [cache EXCEPT ![Target] = None] /\ Goto(t, "unlock") /\ UNCHANGED <<pins, st>>
    BY <1>5, <2>1, <2>2, <2>4, <2>6
    DEF Compile, Goto, TypeInv, TypeOK, Exclusive, Collecting, Critical
  <2> QED
    BY <1>5, <2>5, <2>6 DEF Compile, Target
<1>6. CASE Exhausted(t)
  BY <1>6 DEF Exhausted, Miss, Goto, TypeInv, TypeOK, Exclusive, Collecting, Critical
<1>7. CASE Submit(t)
  <2>1. TypeOK'
    BY <1>7 DEF Submit, Goto, TypeInv, TypeOK
  <2>2. Exclusive'
    BY <1>7 DEF Submit, Goto, TypeInv, TypeOK, Exclusive, Critical
  <2>3. Collecting'
    BY <1>7 DEF Submit, Goto, TypeInv, TypeOK, Collecting
  <2> QED
    BY <2>1, <2>2, <2>3 DEF TypeInv
<1>8. CASE GpuDone(t)
  BY <1>8 DEF GpuDone, TypeInv, TypeOK, Exclusive, Collecting
<1>9. CASE Fence(t)
  BY <1>9 DEF Fence, Goto, TypeInv, TypeOK, Exclusive, Collecting, Critical
<1>10. CASE Unlock(t)
  <2>1. \A S : <<>> \in Seq(S) /\ Len(<<>>) = 0
    BY EmptySeq
  <2>2. TypeOK'
    BY <1>10, <2>1 DEF Unlock, Goto, TypeInv, TypeOK
  <2>3. Exclusive'
    BY <1>10 DEF Unlock, Goto, TypeInv, TypeOK, Exclusive, Critical
  <2>4. Collecting'
    BY <1>10, <2>1 DEF Unlock, Goto, TypeInv, TypeOK, Exclusive, Collecting, Critical
  <2> QED
    BY <2>2, <2>3, <2>4 DEF TypeInv
<1> QED
  BY <1>1, <1>2, <1>3, <1>4, <1>5, <1>6, <1>7, <1>8, <1>9, <1>10 DEF Dispatching

\* The mutex and the types are kept by every step.
LEMMA TypeInvStep == TypeInv /\ [Next]_vars => TypeInv'
<1> SUFFICES ASSUME TypeInv, [Next]_vars PROVE TypeInv'
  OBVIOUS
<1>1. CASE Respawn
  BY <1>1 DEF Respawn, TypeInv, TypeOK, Exclusive, Collecting, session, dispatch, pipes
<1>2. ASSUME NEW t \in Threads, Exit(t) PROVE TypeInv'
  <2>1. \A S : <<>> \in Seq(S) /\ Len(<<>>) = 0
    BY EmptySeq
  <2>2. TypeOK'
    <3>1. /\ pc' \in [Threads -> {"free"}] /\ proto' \in [Threads -> {"v1"}]
          /\ h' \in [Threads -> {{}}] /\ sh' \in [Threads -> {{}}]
          /\ want' \in [Threads -> {<<>>}] /\ st' \in [Threads -> {<<>>}]
          /\ bind' \in [Threads -> {{}}] /\ use' \in [Threads -> {{}}]
          /\ cache' \in [Entries -> {None}] /\ next' \in Entries
          /\ up' = FALSE /\ lock' = None /\ busy' = {} /\ pins' = {}
      BY <1>2, EmptyTables, Zenon DEF Exit
    <3>2. want' \in [Threads -> Seq(Shaders)] /\ st' \in [Threads -> Seq(Entries)]
      <4>1. <<>> \in Seq(Shaders) /\ <<>> \in Seq(Entries)
        BY <2>1
      <4>2. \A S, e : e \in S => \A f \in [Threads -> {e}] : f \in [Threads -> S]
        OBVIOUS
      <4> QED
        BY <3>1, <4>1, <4>2, Zenon
    <3> QED
      BY <3>1, <3>2 DEF TypeOK
  <2>3. Exclusive'
    BY <1>2, EmptyTables, NoneAssumption DEF Exit, Exclusive, Critical
  <2>4. Collecting'
    BY <1>2, <2>1, EmptyTables DEF Exit, Collecting
  <2> QED
    BY <2>2, <2>3, <2>4 DEF TypeInv
<1>3. CASE UNCHANGED vars
  BY <1>3 DEF vars, TypeInv, TypeOK, Exclusive, Collecting, session, dispatch, pipes
<1> QED
  BY <1>1, <1>2, <1>3, SessionTypes, DispatchTypes DEF Next

\* The variables of gpud-zc keep their types.
THEOREM TypeCorrect == Spec => []TypeOK
<1>1. Init => TypeInv
  BY FreshTypes DEF Init
<1>2. TypeInv => TypeOK
  BY DEF TypeInv
<1> QED
  BY <1>1, <1>2, TypeInvStep, PTL DEF Spec

\* Whatever the connections do, Vulkan's queue is only used by the owner of the mutex.
THEOREM OneUserOfTheQueue == Spec => []QueueHasOneUser
<1>1. Init => TypeInv
  BY FreshTypes DEF Init
<1>2. TypeInv => QueueHasOneUser
  BY DEF TypeInv, TypeOK, Exclusive, Critical, QueueHasOneUser
<1> QED
  BY <1>1, <1>2, TypeInvStep, PTL DEF Spec

-------------------------------------------------------------------------------
(* The pipeline cache *)

\* Nobody but the owner of the mutex has collected anything.
LEMMA OthersEmpty ==
  ASSUME TypeInv, NEW t \in Threads, lock # t
  PROVE  st[t] = <<>>
<1> QED
  BY DEF TypeInv, Collecting

\* Every pinned entry holds a shader of the dispatch, so none of them is empty.
LEMMA PinnedIsCompiled ==
  ASSUME IInv, NEW e \in pins
  PROVE  cache[e] # None
<1>1. lock \in Threads
  BY DEF IInv, TypeInv, TypeOK, PinsAreHis
<1>2. PICK i \in DOMAIN st[lock] : e = st[lock][i]
  BY <1>1 DEF IInv, PinsAreHis
<1>3. cache[e] = want[lock][i]
  BY <1>1, <1>2 DEF IInv, PipelinesAlive
<1>4. want[lock] \in Seq(Shaders) /\ i \in 1 .. Len(want[lock])
  <2>1. st[lock] \in Seq(Entries) /\ want[lock] \in Seq(Shaders) /\ Len(st[lock]) <= Len(want[lock])
    BY <1>1 DEF IInv, TypeInv, TypeOK, Collecting
  <2>2. Len(st[lock]) \in Nat /\ Len(want[lock]) \in Nat /\ DOMAIN st[lock] = 1 .. Len(st[lock])
    BY <2>1, LenProperties
  <2> QED
    BY <1>2, <2>1, <2>2
<1>5. want[lock][i] \in Shaders
  BY <1>4, ElementOfSeq
<1> QED
  BY <1>3, <1>5, NoneAssumption

\* The entry get_pipe compiles into is not one the dispatch has collected.
LEMMA TargetUnpinned ==
  ASSUME IInv, Free # {} \/ pins # Entries
  PROVE  Target \in Entries /\ Target \notin pins
<1> QED
  BY TargetType, PinnedIsCompiled DEF IInv, TypeInv

\* What the cache promises: the part of the invariant about it.
CacheInv == PinsAreHis /\ PipelinesAlive /\ CacheDistinct

\* Collecting an entry that holds the wanted shader keeps the promises, if the
\* entries collected before are left alone.
LEMMA CollectAlive ==
  ASSUME IInv, NEW t \in Threads, pc[t] = "pipes", NEW e \in Entries, Collect(t, e),
         UNCHANGED <<lock, want>>, cache'[e] = Wanted(t), \A f \in pins : cache'[f] = cache[f]
  PROVE  PinsAreHis' /\ PipelinesAlive'
<1>1. TypeInv /\ lock = t
  BY DEF IInv, TypeInv, Exclusive, Critical
<1>2. /\ pins' = pins \cup {e}
      /\ DOMAIN st'[t] = 1 .. Len(st[t]) + 1
      /\ \A i \in DOMAIN st[t] : st'[t][i] = st[t][i]
      /\ st'[t][Len(st[t]) + 1] = e
      /\ \A u \in Threads \ {t} : st'[u] = st[u]
  BY <1>1, CollectType
<1>3. Len(st[t]) \in Nat /\ DOMAIN st[t] = 1 .. Len(st[t])
  BY LenProperties DEF IInv, TypeInv, TypeOK
<1>4. pins = {st[t][i] : i \in DOMAIN st[t]}
  BY <1>1 DEF IInv, PinsAreHis
<1>5. pins' = {st'[t][i] : i \in DOMAIN st'[t]}
  BY <1>2, <1>3, <1>4
<1>6. PinsAreHis'
  BY <1>1, <1>5, NoneAssumption DEF PinsAreHis
<1>7. ASSUME NEW i \in DOMAIN st'[t] PROVE cache'[st'[t][i]] = want[t][i]
  <2>1. CASE i = Len(st[t]) + 1
    BY <1>2, <2>1 DEF Wanted
  <2>2. CASE i \in DOMAIN st[t]
    BY <1>2, <1>4, <2>2 DEF IInv, PipelinesAlive
  <2> QED
    BY <1>2, <1>3, <2>1, <2>2
<1>8. ASSUME NEW u \in Threads, u # t PROVE st'[u] = <<>>
  BY <1>1, <1>2, <1>8, OthersEmpty
<1> QED
  BY <1>6, <1>7, <1>8 DEF PipelinesAlive

\* Steps that leave the cache, the pins and what is collected alone.
LEMMA CacheUntouched ==
  ASSUME IInv, UNCHANGED <<lock, st, pins, cache>>,
         \A t \in Threads : st[t] # <<>> => want'[t] = want[t]
  PROVE  CacheInv'
<1>1. \A t \in Threads : st[t] = <<>> => DOMAIN st[t] = {}
  OBVIOUS
<1> QED
  BY <1>1 DEF IInv, CacheInv, PinsAreHis, PipelinesAlive, CacheDistinct

\* Every step of a dispatch keeps the promises.
LEMMA DispatchCache ==
  ASSUME IInv, NEW t \in Threads, Dispatching(t)
  PROVE  CacheInv'
<1> USE DEF session, dispatch, pipes
<1>1. ASSUME NEW s \in Stagings, NEW hs \in SUBSET Slots, Dispatch(t, s, hs) PROVE CacheInv'
  <2>1. st[t] = <<>>
    BY <1>1 DEF Dispatch, IInv, TypeInv, Exclusive, Collecting, Critical
  <2>2. \A u \in Threads : st[u] # <<>> => want'[u] = want[u]
    BY <1>1, <2>1 DEF Dispatch, IInv, TypeInv, TypeOK
  <2> QED
    BY <1>1, <2>2, CacheUntouched DEF Dispatch
<1>2. ASSUME NEW l \in SUBSET Loads, NEW hs \in SUBSET Slots, Dispatch3(t, l, hs) PROVE CacheInv'
  BY <1>2, CacheUntouched DEF Dispatch3
<1>3. CASE Lock(t)
  <2>1. \A u \in Threads : st[u] = <<>>
    BY <1>3, OthersEmpty, NoneAssumption DEF Lock, IInv
  <2>2. pins' = {} /\ lock' = t /\ UNCHANGED <<st, want, cache>>
    BY <1>3 DEF Lock, IInv, PinsAreHis
  <2>3. DOMAIN <<>> = {}
    OBVIOUS
  <2>4. PinsAreHis'
    BY <2>1, <2>2, <2>3, NoneAssumption DEF PinsAreHis
  <2> QED
    BY <2>2, <2>4 DEF IInv, CacheInv, PipelinesAlive, CacheDistinct
<1>4. CASE Hit(t)
  <2>1. PICK e \in Entries : cache[e] = Wanted(t) /\ Collect(t, e)
    BY <1>4 DEF Hit
  <2> QED
    BY <1>4, <2>1, CollectAlive DEF Hit, IInv, CacheInv, CacheDistinct
<1>5. CASE Compile(t)
  <2>1. pc[t] = "pipes" /\ (Free # {} \/ pins # Entries)
    BY <1>5 DEF Compile, Miss
  <2>2. Target \in Entries /\ Target \notin pins
    BY <2>1, TargetUnpinned
  <2>3. \A e \in Entries : cache[e] # Wanted(t)
    BY <1>5 DEF Compile, Miss
  <2>4. CASE cache' = [cache EXCEPT ![Target] = Wanted(t)] /\ Collect(t, Target)
    <3>1. cache'[Target] = Wanted(t) /\ \A f \in Entries \ {Target} : cache'[f] = cache[f]
      BY <2>2, <2>4 DEF IInv, TypeInv, TypeOK
    <3>2. pins \subseteq Entries \ {Target}
      BY <2>2 DEF IInv, TypeInv, TypeOK
    <3>3. PinsAreHis' /\ PipelinesAlive'
      BY <1>5, <2>1, <2>2, <2>4, <3>1, <3>2, CollectAlive DEF Compile
    <3>4. CacheDistinct'
      BY <2>3, <3>1 DEF IInv, CacheDistinct
    <3> QED
      BY <3>3, <3>4 DEF CacheInv
  <2>5. CASE cache' = [cache EXCEPT ![Target] = None] /\ Goto(t, "unlock") /\ UNCHANGED <<pins, st>>
    <3>1. cache'[Target] = None /\ \A f \in Entries \ {Target} : cache'[f] = cache[f]
      BY <2>2, <2>5 DEF IInv, TypeInv, TypeOK
    <3>2. UNCHANGED <<lock, want, pins, st>>
      BY <1>5, <2>5 DEF Compile
    <3>3. PinsAreHis'
      BY <3>2 DEF IInv, PinsAreHis
    <3>4. \A u \in Threads : \A i \in DOMAIN st[u] : st[u][i] \in pins /\ st[u][i] \in Entries
      <4> SUFFICES ASSUME NEW u \in Threads, NEW i \in DOMAIN st[u]
                   PROVE  st[u][i] \in pins /\ st[u][i] \in Entries
        OBVIOUS
      <4>1. st[u] # <<>>
        OBVIOUS
      <4>2. lock = u
        BY <4>1 DEF IInv, TypeInv, Collecting
      <4>3. st[u][i] \in pins
        BY <4>2 DEF IInv, PinsAreHis
      <4> QED
        BY <4>3 DEF IInv, TypeInv, TypeOK
    <3>5. PipelinesAlive'
      BY <2>2, <3>1, <3>2, <3>4 DEF IInv, PipelinesAlive
    <3>6. CacheDistinct'
      BY <3>1 DEF IInv, CacheDistinct
    <3> QED
      BY <3>3, <3>5, <3>6 DEF CacheInv
  <2> QED
    BY <1>5, <2>4, <2>5 DEF Compile, Target
<1>6. CASE Exhausted(t)
  BY <1>6, CacheUntouched DEF Exhausted
<1>7. CASE Submit(t)
  BY <1>7, CacheUntouched DEF Submit
<1>8. CASE GpuDone(t)
  BY <1>8, CacheUntouched DEF GpuDone
<1>9. CASE Fence(t)
  BY <1>9, CacheUntouched DEF Fence
<1>10. CASE Unlock(t)
  <2>1. lock = t /\ lock' = None
    BY <1>10 DEF Unlock, IInv, TypeInv, Exclusive, Critical
  <2>2. \A u \in Threads : st'[u] = <<>>
    BY <1>10, <2>1, OthersEmpty DEF Unlock, IInv, TypeInv, TypeOK
  <2>3. pins' = {}
    <3>1. CASE proto[t] = "v3"
      <4>1. st[t] = <<>>
        BY <3>1 DEF IInv, TypeInv, Collecting
      <4>2. pins = {}
        BY <2>1, <4>1 DEF IInv, PinsAreHis
      <4> QED
        BY <1>10, <3>1, <4>2 DEF Unlock
    <3> QED
      BY <1>10, <3>1 DEF Unlock
  <2>4. PinsAreHis' /\ PipelinesAlive'
    BY <2>1, <2>2, <2>3, NoneAssumption DEF PinsAreHis, PipelinesAlive
  <2>5. CacheDistinct'
    BY <1>10 DEF Unlock, IInv, CacheDistinct
  <2> QED
    BY <2>4, <2>5 DEF CacheInv
<1> QED
  BY <1>1, <1>2, <1>3, <1>4, <1>5, <1>6, <1>7, <1>8, <1>9, <1>10 DEF Dispatching

-------------------------------------------------------------------------------
(* Refused dispatches *)

\* When every entry is pinned by one dispatch, its pipelines are as many as
\* there are entries, and the one that is missing is one more.
LEMMA RefusedIsWide ==
  ASSUME IInv, NEW t \in Threads, Exhausted(t)
  PROVE  Cardinality({want[t][i] : i \in 1 .. Len(st[t]) + 1}) > PCache
<1> DEFINE C == {cache[e] : e \in Entries}
           f == [e \in Entries |-> cache[e]]
           W == {want[t][i] : i \in 1 .. Len(st[t]) + 1}
<1>1. /\ pc[t] = "pipes" /\ lock = t /\ pins = Entries /\ Free = {}
      /\ \A e \in Entries : cache[e] # Wanted(t)
  BY DEF Exhausted, Miss, IInv, TypeInv, Exclusive, Critical
<1>2. IsFiniteSet(Entries) /\ Cardinality(Entries) = PCache
  BY SizeAssumption, FS_Interval DEF Entries
<1>3. IsFiniteSet(C) /\ Cardinality(C) = PCache
  <2>1. \A e, g \in Entries : cache[e] = cache[g] => e = g
    BY <1>1 DEF Free, IInv, CacheDistinct
  <2>2. f \in Bijection(Entries, C)
    <3>1. f \in [Entries -> C] /\ \A e \in Entries : f[e] = cache[e]
      OBVIOUS
    <3>2. \A c \in C : \E e \in Entries : f[e] = c
      BY <3>1
    <3>3. f \in Injection(Entries, C)
      BY <2>1, <3>1 DEF Injection, IsInjective
    <3>4. f \in Surjection(Entries, C)
      BY <3>1, <3>2 DEF Surjection
    <3> QED
      BY <3>3, <3>4 DEF Bijection
  <2>3. ExistsBijection(Entries, C)
    BY <2>2 DEF ExistsBijection
  <2> QED
    BY <1>2, <2>3, FS_Bijection
<1>4. Len(st[t]) \in Nat /\ DOMAIN st[t] = 1 .. Len(st[t])
  BY LenProperties DEF IInv, TypeInv, TypeOK
<1>5. W = C \cup {Wanted(t)}
  <2>1. pins = {st[t][i] : i \in DOMAIN st[t]}
    BY <1>1 DEF IInv, PinsAreHis
  <2>2. \A i \in DOMAIN st[t] : st[t][i] \in Entries /\ want[t][i] = cache[st[t][i]]
    BY <1>1, <2>1 DEF IInv, PipelinesAlive
  <2>3. C = {want[t][i] : i \in DOMAIN st[t]}
    BY <1>1, <2>1, <2>2
  <2>4. \A i \in 1 .. Len(st[t]) + 1 : i \in DOMAIN st[t] \/ i = Len(st[t]) + 1
    BY <1>4
  <2>5. W = {want[t][i] : i \in DOMAIN st[t]} \cup {want[t][Len(st[t]) + 1]}
    BY <1>4, <2>4
  <2> QED
    BY <2>3, <2>5 DEF Wanted
<1>6. Wanted(t) \notin C
  BY <1>1
<1>7. Cardinality(W) = PCache + 1
  BY <1>3, <1>5, <1>6, FS_AddElement
<1> QED
  BY <1>7, SizeAssumption

\* The steps of other threads, and those of t that do not refuse its dispatch.
LEMMA RefusedStep == IInv /\ [Next]_vars => RefusedOnlyIfTooWide'
<1> SUFFICES ASSUME IInv, [Next]_vars, NEW t \in Threads, pc'[t] = "refused"
             PROVE  Cardinality({want'[t][i] : i \in 1 .. Len(st'[t]) + 1}) > PCache
  BY DEF RefusedOnlyIfTooWide
<1> USE DEF session, dispatch, pipes
<1>1. CASE Exhausted(t)
  BY <1>1, RefusedIsWide DEF Exhausted
<1>2. CASE ~Exhausted(t)
  <2>1. pc[t] = "refused" /\ want'[t] = want[t] /\ st'[t] = st[t]
    <3>1. CASE Respawn \/ UNCHANGED vars
      BY <3>1 DEF Respawn, vars
    <3>2. ASSUME NEW u \in Threads, Session(u) PROVE pc[t] = "refused" /\ want'[t] = want[t] /\ st'[t] = st[t]
      BY <3>2 DEF Session, Accept, Eof, End, Load, Exit, Import, Release, Unload, Goto, NoThreads,
                  IInv, TypeInv, TypeOK
    <3>3. ASSUME NEW u \in Threads, Dispatching(u) PROVE pc[t] = "refused" /\ want'[t] = want[t] /\ st'[t] = st[t]
      <4>1. pc \in [Threads -> {"free", "ready", "end", "wait", "pipes", "submit", "fence", "unlock", "refused"}]
            /\ want \in [Threads -> Seq(Shaders)] /\ st \in [Threads -> Seq(Entries)]
        BY DEF IInv, TypeInv, TypeOK
      <4>2. CASE u # t
        BY <3>3, <4>1, <4>2
        DEF Dispatching, Dispatch, Dispatch3, Lock, Hit, Collect, Compile, Exhausted, Submit, GpuDone,
            Fence, Unlock, Goto
      <4>3. CASE u = t
        BY <1>2, <3>3, <4>1, <4>3
        DEF Dispatching, Dispatch, Dispatch3, Lock, Hit, Collect, Compile, Submit, GpuDone,
            Fence, Unlock, Goto
      <4> QED
        BY <4>2, <4>3
    <3> QED
      BY <3>1, <3>2, <3>3 DEF Next
  <2> QED
    BY <2>1 DEF IInv, RefusedOnlyIfTooWide
<1> QED
  BY <1>1, <1>2

-------------------------------------------------------------------------------
(* Handles *)

\* Whatever a dispatch binds stays in the table of its session.
LEMMA BoundStep == IInv /\ [Next]_vars => BoundIsMapped'
<1> SUFFICES ASSUME IInv, [Next]_vars PROVE BoundIsMapped'
  OBVIOUS
<1>0. TypeOK /\ Exclusive /\ BoundIsMapped
  BY DEF IInv, TypeInv
<1> USE NoneAssumption DEF session, dispatch, pipes, Goto, Section
<1>1. CASE Respawn \/ UNCHANGED vars
  BY <1>0, <1>1 DEF Respawn, vars, BoundIsMapped
<1>2. ASSUME NEW t \in Threads, Session(t) PROVE BoundIsMapped'
  <2>1. CASE Accept(t)
    <3>1. PICK p \in {"v1", "v2", "v3"} : proto' = [proto EXCEPT ![t] = p]
      BY <2>1 DEF Accept
    <3> QED
      BY <1>0, <2>1, <3>1 DEF Accept, TypeOK, BoundIsMapped
  <2>2. CASE End(t)
    BY <1>0, <2>2 DEF End, TypeOK, BoundIsMapped
  <2>3. CASE Load(t)
    BY <1>0, <2>3 DEF Load, BoundIsMapped
  <2>8. CASE Eof(t)
    BY <1>0, <2>8 DEF Eof, TypeOK, Exclusive, Critical, BoundIsMapped
  <2>4. CASE Exit(t)
    BY <1>0, <2>4 DEF Exit, BoundIsMapped, NoThreads, NoSets
  <2>5. ASSUME NEW n \in 1 .. MaxH, Import(t, n) PROVE BoundIsMapped'
    BY <1>0, <2>5 DEF Import, TypeOK, BoundIsMapped
  <2>6. ASSUME NEW hs \in SUBSET Slots, Release(t, hs) PROVE BoundIsMapped'
    BY <1>0, <2>6 DEF Release, TypeOK, BoundIsMapped
  <2>7. ASSUME NEW s \in Loads, Unload(t, s) PROVE BoundIsMapped'
    BY <1>0, <2>7 DEF Unload, BoundIsMapped
  <2> QED
    BY <1>2, <2>1, <2>2, <2>3, <2>4, <2>5, <2>6, <2>7, <2>8 DEF Session
<1>3. ASSUME NEW t \in Threads, Dispatching(t) PROVE BoundIsMapped'
  <2>1. ASSUME NEW s \in Stagings, NEW hs \in SUBSET Slots, Dispatch(t, s, hs) PROVE BoundIsMapped'
    BY <1>0, <2>1 DEF Dispatch, TypeOK, BoundIsMapped
  <2>2. ASSUME NEW l \in SUBSET Loads, NEW hs \in SUBSET Slots, Dispatch3(t, l, hs) PROVE BoundIsMapped'
    BY <1>0, <2>2 DEF Dispatch3, TypeOK, BoundIsMapped
  <2>3. CASE Lock(t)
    <3>1. PICK l \in {"pipes", "unlock", "submit"} : pc' = [pc EXCEPT ![t] = l]
      BY <2>3 DEF Lock
    <3>2. CASE proto[t] = "v1"
      <4>1. h' = [h EXCEPT ![t] = bind[t]] /\ lock = None /\ lock' = t /\ UNCHANGED <<proto, bind>>
        BY <2>3, <3>2 DEF Lock, dispatch
      <4> QED
        BY <1>0, <3>1, <3>2, <4>1 DEF TypeOK, BoundIsMapped
    <3>3. CASE proto[t] # "v1"
      BY <1>0, <2>3, <3>1, <3>3 DEF Lock, TypeOK, BoundIsMapped
    <3> QED
      BY <3>2, <3>3
  <2>4. CASE Hit(t)
    BY <1>0, <2>4 DEF Hit, Collect, TypeOK, BoundIsMapped
  <2>5. CASE Compile(t)
    BY <1>0, <2>5 DEF Compile, Miss, Collect, TypeOK, BoundIsMapped
  <2>6. CASE Exhausted(t) \/ Submit(t) \/ Fence(t) \/ GpuDone(t)
    BY <1>0, <2>6 DEF Exhausted, Miss, Submit, Fence, GpuDone, TypeOK, BoundIsMapped
  <2>7. CASE Unlock(t)
    BY <1>0, <2>7 DEF Unlock, TypeOK, Exclusive, Critical, BoundIsMapped
  <2> QED
    BY <1>3, <2>1, <2>2, <2>3, <2>4, <2>5, <2>6, <2>7 DEF Dispatching
<1> QED
  BY <1>1, <1>2, <1>3 DEF Next

-------------------------------------------------------------------------------
(* The invariant *)

\* Steps other than those of a dispatch keep what the cache promises.
LEMMA CacheStep == IInv /\ [Next]_vars => CacheInv'
<1> SUFFICES ASSUME IInv, [Next]_vars PROVE CacheInv'
  OBVIOUS
<1> USE DEF session, dispatch, pipes
<1>1. CASE Respawn \/ UNCHANGED vars
  BY <1>1, CacheUntouched DEF Respawn, vars
<1>2. ASSUME NEW t \in Threads, Exit(t) PROVE CacheInv'
  BY <1>2, EmptyTables, NoneAssumption
  DEF Exit, CacheInv, PinsAreHis, PipelinesAlive, CacheDistinct
<1>3. ASSUME NEW t \in Threads, Session(t), ~Exit(t) PROVE CacheInv'
  BY <1>3, CacheUntouched DEF Session, Accept, Eof, End, Load, Import, Release, Unload
<1> QED
  BY <1>1, <1>2, <1>3, DispatchCache DEF Next

\* The inductive invariant.
LEMMA Invariant == Spec => []IInv
<1>1. Init => IInv
  <2> SUFFICES ASSUME Init PROVE IInv
    OBVIOUS
  <2>1. TypeInv
    BY FreshTypes DEF Init
  <2>2. PinsAreHis /\ BoundIsMapped /\ PipelinesAlive /\ CacheDistinct /\ RefusedOnlyIfTooWide
    BY EmptyTables, NoneAssumption
    DEF Init, PinsAreHis, BoundIsMapped, PipelinesAlive, CacheDistinct, RefusedOnlyIfTooWide
  <2> QED
    BY <2>1, <2>2 DEF IInv
<1>2. IInv /\ [Next]_vars => IInv'
  BY TypeInvStep, CacheStep, BoundStep, RefusedStep DEF IInv, CacheInv
<1> QED
  BY <1>1, <1>2, PTL DEF Spec

\* No pipeline a dispatch has collected is evicted before the dispatch has run, for any
\* size of the cache and any mix of dispatches and failures.
THEOREM CollectedPipelinesLive == Spec => []PipelinesAlive
<1>1. IInv => PipelinesAlive
  BY DEF IInv
<1> QED
  BY <1>1, Invariant, PTL

\* The cache never holds one shader twice.
THEOREM CacheHasNoCopies == Spec => []CacheDistinct
<1>1. IInv => CacheDistinct
  BY DEF IInv
<1> QED
  BY <1>1, Invariant, PTL

\* A dispatch is only refused when it needs more pipelines than the cache can hold:
\* no earlier dispatch, however it ended, has left a pin.
THEOREM OnlyWideIsRefused == Spec => []RefusedOnlyIfTooWide
<1>1. IInv => RefusedOnlyIfTooWide
  BY DEF IInv
<1> QED
  BY <1>1, Invariant, PTL

-------------------------------------------------------------------------------
(* The lease *)

\* Steps that touch neither the tables nor a dispatch on the GPU.
LEMMA Stutter ==
  ASSUME UNCHANGED <<h, busy>>, \A t \in busy : bind'[t] = bind[t]
  PROVE  UNCHANGED Lease!vars
<1> QED
  BY DEF Lease!vars, Mapped, Bound

\* A session's table grows.
LEMMA Grows ==
  ASSUME TypeOK, NEW t \in Threads, NEW new \in SUBSET Slots,
         h' = [h EXCEPT ![t] = @ \cup new], UNCHANGED <<busy, bind>>
  PROVE  Lease!Next
<1> DEFINE S == {t} \X new
<1>1. Mapped' = Mapped \cup S
  BY DEF Mapped, TypeOK
<1>2. Bound' = Bound
  BY DEF Bound
<1>3. S \in SUBSET (Threads \X Slots)
  OBVIOUS
<1> QED
  BY <1>1, <1>2, <1>3 DEF Lease!Next, Lease!Map

\* A session's table shrinks while nothing runs on the GPU.
LEMMA Shrinks ==
  ASSUME TypeOK, NEW t \in Threads, NEW old \in SUBSET Slots,
         h' = [h EXCEPT ![t] = @ \ old], busy = {}, busy' = {}
  PROVE  Lease!Next
<1> DEFINE S == {t} \X old
<1>1. Mapped' = Mapped \ S
  BY DEF Mapped, TypeOK
<1>2. Bound' = Bound /\ \A u \in Threads : Bound[u] = {}
  BY DEF Bound
<1>3. S \in SUBSET (Threads \X Slots)
  OBVIOUS
<1> QED
  BY <1>1, <1>2, <1>3 DEF Lease!Next, Lease!Unmap

\* Every step of a session is one of the lease's.
LEMMA SessionLease ==
  ASSUME IInv, NEW t \in Threads, Session(t)
  PROVE  [Lease!Next]_(Lease!vars)
<1> USE DEF session, dispatch, pipes
<1>0. TypeOK
  BY DEF IInv, TypeInv
<1>1. CASE Accept(t) \/ Eof(t) \/ Load(t) \/ \E s \in Loads : Unload(t, s)
  BY <1>1, Stutter DEF Accept, Eof, Load, Unload
<1>2. CASE End(t)
  <2>1. h' = [h EXCEPT ![t] = @ \ h[t]] /\ h[t] \in SUBSET Slots
    BY <1>0, <1>2 DEF End, TypeOK
  <2> QED
    BY <1>0, <1>2, <2>1, Shrinks DEF End
<1>3. CASE Exit(t)
  <2>1. Mapped' = {}
    BY <1>3 DEF Exit, Mapped, NoSets
  <2>2. Bound' = [u \in Threads |-> {}]
    BY <1>3 DEF Exit, Bound
  <2> QED
    BY <2>1, <2>2 DEF Lease!Next, Lease!Reset, Lease!NoPins
<1>4. ASSUME NEW n \in 1 .. MaxH, Import(t, n) PROVE Lease!Next
  <2>1. PICK new \in SUBSET (Slots \ h[t]) : h' = [h EXCEPT ![t] = @ \cup new]
    BY <1>4 DEF Import
  <2> QED
    BY <1>0, <1>4, <2>1, Grows DEF Import
<1>5. ASSUME NEW hs \in SUBSET Slots, Release(t, hs) PROVE Lease!Next
  BY <1>0, <1>5, Shrinks DEF Release
<1> QED
  BY <1>1, <1>2, <1>3, <1>4, <1>5 DEF Session

\* Every step of a dispatch is one of the lease's.
LEMMA DispatchLease ==
  ASSUME IInv, NEW t \in Threads, Dispatching(t)
  PROVE  [Lease!Next]_(Lease!vars)
<1> USE DEF session, dispatch, pipes
<1>0. TypeOK /\ Exclusive /\ BoundIsMapped
  BY DEF IInv, TypeInv
<1>1. CASE \/ \E hs \in SUBSET Slots :
                \/ \E s \in Stagings : Dispatch(t, s, hs)
                \/ \E l \in SUBSET Loads : Dispatch3(t, l, hs)
  <2>1. \A u \in busy : u # t
    BY <1>0, <1>1 DEF Dispatch, Dispatch3, Exclusive
  <2>2. UNCHANGED <<h, busy>> /\ \A u \in busy : bind'[u] = bind[u]
    BY <1>0, <1>1, <2>1 DEF Dispatch, Dispatch3, TypeOK
  <2> QED
    BY <2>2, Stutter
<1>2. CASE Lock(t)
  <2>1. UNCHANGED <<busy, bind>>
    BY <1>2 DEF Lock
  <2>2. CASE proto[t] = "v1"
    <3>1. h[t] = {} /\ bind[t] \in SUBSET Slots
      BY <1>0, <1>2, <2>2, NoneAssumption DEF Lock, BoundIsMapped, TypeOK
    <3>2. h' = [h EXCEPT ![t] = @ \cup bind[t]]
      BY <1>0, <1>2, <2>2, <3>1 DEF Lock, TypeOK
    <3> QED
      BY <1>0, <2>1, <3>1, <3>2, Grows
  <2>3. CASE proto[t] # "v1"
    BY <1>2, <2>1, <2>3, Stutter DEF Lock
  <2> QED
    BY <2>2, <2>3
<1>3. CASE Hit(t) \/ Compile(t) \/ Exhausted(t) \/ Fence(t)
  BY <1>3, Stutter DEF Hit, Compile, Exhausted, Fence
<1>4. CASE Submit(t)
  <2>1. CASE busy' = busy \cup {t}
    <3>1. bind[t] \subseteq h[t] /\ h[t] \subseteq Slots /\ t \notin busy
      BY <1>0, <1>4 DEF Submit, BoundIsMapped, TypeOK, Exclusive
    <3>2. {t} \X bind[t] \in SUBSET (Threads \X Slots) /\ {t} \X bind[t] \subseteq Mapped
      BY <3>1 DEF Mapped
    <3>3. Bound' = [Bound EXCEPT ![t] = {t} \X bind[t]] /\ Bound[t] = {}
      BY <1>4, <2>1, <3>1 DEF Submit, Bound
    <3>4. Mapped' = Mapped
      BY <1>4 DEF Submit, Mapped
    <3> QED
      BY <3>2, <3>3, <3>4 DEF Lease!Next, Lease!Pin
  <2>2. CASE busy' = busy
    BY <1>4, <2>2, Stutter DEF Submit
  <2> QED
    BY <1>4, <2>1, <2>2 DEF Submit
<1>5. CASE GpuDone(t)
  <2>1. Bound' = [u \in Threads |-> IF u \in {t} THEN {} ELSE Bound[u]]
    BY <1>5 DEF GpuDone, Bound
  <2>2. Mapped' = Mapped
    BY <1>5 DEF GpuDone, Mapped
  <2> QED
    BY <2>1, <2>2 DEF Lease!Next, Lease!Unpin
<1>6. CASE Unlock(t)
  <2>1. lock = t /\ pc[t] # "fence"
    BY <1>0, <1>6 DEF Unlock, Exclusive, Critical
  <2>2. busy = {}
    BY <1>0, <2>1 DEF Exclusive, Critical, TypeOK
  <2>3. CASE proto[t] = "v1"
    <3>1. h' = [h EXCEPT ![t] = @ \ h[t]] /\ h[t] \in SUBSET Slots
      BY <1>0, <1>6, <2>3 DEF Unlock, TypeOK
    <3> QED
      BY <1>0, <1>6, <2>2, <3>1, Shrinks DEF Unlock
  <2>4. CASE proto[t] # "v1"
    BY <1>6, <2>2, <2>4, Stutter DEF Unlock
  <2> QED
    BY <2>3, <2>4
<1> QED
  BY <1>1, <1>2, <1>3, <1>4, <1>5, <1>6 DEF Dispatching

\* gpud-zc starts with nothing mapped and nothing running.
LEMMA LeaseInit == Init => Lease!Init
<1> QED
  BY DEF Init, Lease!Init, Lease!NoPins, Mapped, Bound, NoSets

\* gpud-zc implements the lease on shared buffers: the GPU never works on a buffer
\* that a session, its end or EXIT has taken away.
THEOREM ImplementsLease == Spec => LeaseSpec
<1>1. IInv /\ [Next]_vars => [Lease!Next]_(Lease!vars)
  <2> SUFFICES ASSUME IInv, [Next]_vars PROVE [Lease!Next]_(Lease!vars)
    OBVIOUS
  <2>1. CASE Respawn \/ UNCHANGED vars
    BY <2>1, Stutter DEF Respawn, vars, session, dispatch
  <2> QED
    BY <2>1, SessionLease, DispatchLease DEF Next
<1> QED
  BY <1>1, LeaseInit, Invariant, PTL DEF Spec, LeaseSpec, Lease!Spec
===============================================================================
