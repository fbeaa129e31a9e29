--------------------------- MODULE DspSessionProofs ---------------------------
(***************************************************************************)
(* Proofs about gxpd3's sessions (DspSession), for every number of handles,*)
(* tokens, requests, clients and every backlog.  The inductive invariant   *)
(* IInv relates the daemon's tables to the firmware's requests: whoever    *)
(* unmaps a buffer has first given back every request that refers to it.   *)
(***************************************************************************)
EXTENDS DspSession, SequenceTheorems, TLAPS

\* Every request the firmware knows is the running one or has a token.
Held == \A j \in Jobs : fw[j] # "idle" => sync = j \/ \E t \in Tokens : inflight[t] = j

\* A request has at most one token.
OneToken == \A s, t \in Tokens : inflight[s] # NoJob /\ inflight[s] = inflight[t] => s = t

\* A token's mask is the set of handles of its request, all of them mapped.
MaskIsUse ==
  \A t \in Tokens :
    /\ inflight[t] # NoJob => /\ fw[inflight[t]] # "idle"
                              /\ uses[inflight[t]] = mask[t]
                              /\ mask[t] \subseteq used
    /\ inflight[t] = NoJob => mask[t] = {}

\* The synchronous request exists while RunSync runs, and has no token.
SyncRuns ==
  /\ sync # NoJob => pc = "run"
  /\ pc = "run" => /\ sync \in Jobs /\ fw[sync] # "idle"
                   /\ uses[sync] \subseteq used
                   /\ \A t \in Tokens : inflight[t] # sync

\* WAIT waits for a token that has a request.
WaitsForRequest == pc = "wait" => tok \in Tokens /\ inflight[tok] # NoJob

\* Requests nobody holds refer to nothing.
IdleUsesNothing == \A j \in Jobs : fw[j] = "idle" => uses[j] = {}

\* When a token may be collected without its result, nobody is owed it.
NothingOwed ==
  /\ gone \/ pc = "end" \/ kind = "inline" => \A t \in Tokens : owed[t] = NoJob
  /\ pc = "release" => \A t \in Tokens : mask[t] \cap arg # {} => owed[t] = NoJob
  /\ pc = "read" => kind = "zc"

IInv ==
  /\ TypeOK /\ Held /\ OneToken /\ MaskIsUse /\ SyncRuns /\ WaitsForRequest
  /\ IdleUsesNothing /\ NothingOwed /\ TokenStandsForItsJob /\ QuietBetweenClients

-------------------------------------------------------------------------------
\* The empty tables have the types of the tables.
LEMMA EmptyTables ==
  /\ NoRequests \in [Tokens -> Jobs \cup {NoJob}]
  /\ NoHandles \in [Tokens -> SUBSET Slots]
  /\ Idle \in [Jobs -> {"idle", "running", "done", "failed"}]
  /\ NoUses \in [Jobs -> SUBSET Slots]
BY DEF NoRequests, NoHandles, Idle, NoUses

\* Every variable keeps its type.
LEMMA TypeStep == TypeOK /\ [Next]_vars => TypeOK'
<1> SUFFICES ASSUME TypeOK, [Next]_vars PROVE TypeOK'
  OBVIOUS
<1> USE NullAssumption DEF TypeOK, table, device
<1>1. ASSUME NEW c \in Clients, Connect(c) PROVE TypeOK'
  BY <1>1 DEF Connect
<1>2. CASE Hangup
  BY <1>2, EmptyTables DEF Hangup
<1>3. CASE Refuse
  BY <1>3 DEF Refuse, Command, Say
<1>4. CASE List
  BY <1>4 DEF List, Command, Say
<1>5. CASE CommandFails
  BY <1>5 DEF CommandFails, Command, Say
<1>6. ASSUME NEW n \in 1 .. MaxBuf, Import(n) PROVE TypeOK'
  BY <1>6 DEF Import, Command, Say
<1>7. ASSUME NEW hs \in HandleSets, Run(hs) PROVE TypeOK'
  BY <1>7 DEF Run, Command, Launch, HandleSets
<1>8. ASSUME NEW hs \in HandleSets, Submit(hs) PROVE TypeOK'
  BY <1>8 DEF Submit, Command, Launch, HandleSets, Say
<1>9. ASSUME NEW hs \in HandleSets, Release(hs) PROVE TypeOK'
  BY <1>9 DEF Release, Command, HandleSets
<1>10. ASSUME NEW t \in Tokens, Wait(t) PROVE TypeOK'
  BY <1>10 DEF Wait, Command, Tokens
<1>11. CASE Accept
  BY <1>11, HeadTailProperties DEF Accept
<1>12. CASE Eof
  BY <1>12 DEF Eof
<1>13. CASE EndReleases
  BY <1>13 DEF EndReleases
<1>14. CASE WaitDone
  BY <1>14 DEF WaitDone, Collect, Retire, Say
<1>15. CASE ReleaseDone
  BY <1>15 DEF ReleaseDone, Say
<1>16. CASE InlineRun
  BY <1>16 DEF InlineRun, Launch
<1>17. CASE InlineFails
  BY <1>17 DEF InlineFails, Say
<1>18. CASE RunDone
  BY <1>18 DEF RunDone, Retire, Say
<1>19. CASE Reply
  BY <1>19 DEF Reply
<1>20. CASE Die
  <2>1. /\ pc' = "down" /\ sess' = NoClient /\ gone' = FALSE /\ backlog' = <<>>
        /\ used' = {} /\ inflight' = NoRequests /\ mask' = NoHandles
        /\ arg' = {} /\ owed' = NoRequests /\ fw' = Idle /\ uses' = NoUses
        /\ UNCHANGED <<kind, rsp, sync, tok, dev>>
    BY <1>20 DEF Die
  <2>2. backlog' \in Seq(Clients)
    BY <2>1, EmptySeq
  <2> QED
    BY <2>1, <2>2, EmptyTables
<1>21. ASSUME NEW t \in Tokens, EndAwaits(t) PROVE TypeOK'
  BY <1>21 DEF EndAwaits, Collect, Retire
<1>22. ASSUME NEW t \in Tokens, ReleaseAwaits(t) PROVE TypeOK'
  BY <1>22 DEF ReleaseAwaits, Collect, Retire
<1>23. ASSUME NEW a \in Slots, ReleaseOne(a) PROVE TypeOK'
  BY <1>23 DEF ReleaseOne
<1>24. CASE Restart
  BY <1>24 DEF Restart
<1>25. ASSUME NEW j \in Jobs, Finish(j) PROVE TypeOK'
  BY <1>25 DEF Finish
<1>26. CASE Watchdog
  BY <1>26 DEF Watchdog
<1>27. CASE UNCHANGED vars
  BY <1>27 DEF vars
<1> QED
  BY <1>1, <1>2, <1>3, <1>4, <1>5, <1>6, <1>7, <1>8, <1>9, <1>10, <1>11, <1>12, <1>13, <1>14, <1>15, <1>16, <1>17, <1>18, <1>19, <1>20, <1>21, <1>22, <1>23, <1>24, <1>25, <1>26, <1>27 DEF Next, Requests, Daemon

\* The inductive step.
LEMMA IInvStep == IInv /\ [Next]_vars => IInv'
<1> SUFFICES ASSUME IInv, [Next]_vars PROVE IInv'
  OBVIOUS
<1> USE NullAssumption DEF IInv, TypeOK, Held, OneToken, MaskIsUse, SyncRuns, WaitsForRequest,
      IdleUsesNothing, NothingOwed, TokenStandsForItsJob, QuietBetweenClients, table, device
<1>0. TypeOK'
  BY TypeStep
<1>1. ASSUME NEW c \in Clients, Connect(c) PROVE IInv'
  BY <1>0, <1>1 DEF Connect
<1>2. CASE Hangup
  BY <1>0, <1>2 DEF Hangup, NoRequests
<1>3. CASE Refuse
  BY <1>0, <1>3 DEF Refuse, Command, Say
<1>4. CASE List
  BY <1>0, <1>4 DEF List, Command, Say
<1>5. CASE CommandFails
  BY <1>0, <1>5 DEF CommandFails, Command, Say
<1>6. ASSUME NEW n \in 1 .. MaxBuf, Import(n) PROVE IInv'
  BY <1>0, <1>6 DEF Import, Command, Say
<1>7. ASSUME NEW hs \in HandleSets, Run(hs) PROVE IInv'
  BY <1>0, <1>7 DEF Run, Command, Launch, HandleSets
<1>8. ASSUME NEW hs \in HandleSets, Submit(hs) PROVE IInv'
  BY <1>0, <1>8 DEF Submit, Command, Launch, HandleSets, Say
<1>9. ASSUME NEW hs \in HandleSets, Release(hs) PROVE IInv'
  BY <1>0, <1>9 DEF Release, Command, HandleSets
<1>10. ASSUME NEW t \in Tokens, Wait(t) PROVE IInv'
  BY <1>0, <1>10 DEF Wait, Command
<1>11. CASE Accept
  BY <1>0, <1>11 DEF Accept
<1>12. CASE Eof
  BY <1>0, <1>12 DEF Eof
<1>13. CASE EndReleases
  BY <1>0, <1>13 DEF EndReleases, NoRequests
<1>14. CASE WaitDone
  BY <1>0, <1>14 DEF WaitDone, Collect, Retire, Say
<1>15. CASE ReleaseDone
  BY <1>0, <1>15 DEF ReleaseDone, Say
<1>16. CASE InlineRun
  BY <1>0, <1>16 DEF InlineRun, Launch
<1>17. CASE InlineFails
  BY <1>0, <1>17 DEF InlineFails, Say
<1>18. CASE RunDone
  BY <1>0, <1>18 DEF RunDone, Retire, Say
<1>19. CASE Reply
  BY <1>0, <1>19 DEF Reply
<1>20. CASE Die
  BY <1>0, <1>20 DEF Die, NoRequests, NoHandles, Idle, NoUses
<1>21. ASSUME NEW t \in Tokens, EndAwaits(t) PROVE IInv'
  BY <1>0, <1>21 DEF EndAwaits, Collect, Retire
<1>22. ASSUME NEW t \in Tokens, ReleaseAwaits(t) PROVE IInv'
  BY <1>0, <1>22 DEF ReleaseAwaits, Collect, Retire
<1>23. ASSUME NEW a \in Slots, ReleaseOne(a) PROVE IInv'
  BY <1>0, <1>23 DEF ReleaseOne
<1>24. CASE Restart
  BY <1>0, <1>24 DEF Restart
<1>25. ASSUME NEW j \in Jobs, Finish(j) PROVE IInv'
  BY <1>0, <1>25 DEF Finish
<1>26. CASE Watchdog
  BY <1>0, <1>26 DEF Watchdog
<1>27. CASE UNCHANGED vars
  BY <1>27 DEF vars
<1> QED
  BY <1>1, <1>2, <1>3, <1>4, <1>5, <1>6, <1>7, <1>8, <1>9, <1>10, <1>11, <1>12, <1>13, <1>14, <1>15, <1>16, <1>17, <1>18, <1>19, <1>20, <1>21, <1>22, <1>23, <1>24, <1>25, <1>26, <1>27 DEF Next, Requests, Daemon

\* An idle daemon with empty tables satisfies the invariant.
LEMMA IInvInit == Init => IInv
<1> SUFFICES ASSUME Init PROVE IInv
  OBVIOUS
<1>1. TypeOK
  BY EmptyTables, EmptySeq DEF Init, TypeOK
<1> QED
  BY <1>1, NullAssumption
  DEF Init, IInv, Held, OneToken, MaskIsUse, SyncRuns, WaitsForRequest, IdleUsesNothing,
      NothingOwed, TokenStandsForItsJob, QuietBetweenClients, NoRequests, NoHandles, Idle, NoUses

\* The inductive invariant holds of every state gxpd3 can be in.
THEOREM Invariance == Spec => []IInv
BY IInvInit, IInvStep, PTL DEF Spec

\* The variables of gxpd3 keep their types.
THEOREM TypeCorrect == Spec => []TypeOK
<1>1. IInv => TypeOK
  BY DEF IInv
<1> QED
  BY <1>1, Invariance, PTL

\* No job on the DSP ever refers to an unmapped buffer, whatever clients
\* submit, release and abandon and whenever the firmware answers or aborts.
THEOREM BuffersOutliveJobs == Spec => []NoUseAfterFree
<1>1. IInv => NoUseAfterFree
  BY NullAssumption
  DEF IInv, TypeOK, Held, MaskIsUse, SyncRuns, NoUseAfterFree
<1> QED
  BY <1>1, Invariance, PTL

\* A WAIT delivers the result of the job its token was returned for.
THEOREM TokensAreFaithful == Spec => []TokenStandsForItsJob
<1>1. IInv => TokenStandsForItsJob
  BY DEF IInv
<1> QED
  BY <1>1, Invariance, PTL

\* A client starts on a daemon and a firmware that hold nothing of the last one.
THEOREM SessionsAreSeparate == Spec => []QuietBetweenClients
<1>1. IInv => QuietBetweenClients
  BY DEF IInv
<1> QED
  BY <1>1, Invariance, PTL

-------------------------------------------------------------------------------
(* gxpd3 implements the lease *)

\* Steps that touch neither the handle table nor a running request.
LEMMA Stutter ==
  ASSUME used' = used, fw' = fw, uses' = uses PROVE UNCHANGED Lease!vars
BY DEF Lease!vars

\* gxpd3 starts with nothing mapped and nothing running, as the lease does.
LEMMA LeaseInit == Init => Lease!Init
BY DEF Init, Lease!Init, Lease!NoPins, Idle, NoUses

\* Every step of gxpd3 is one of the lease's, or leaves the lease alone.
LEMMA LeaseStep == IInv /\ [Next]_vars => [Lease!Next]_(Lease!vars)
<1> SUFFICES ASSUME IInv, [Next]_vars PROVE [Lease!Next]_(Lease!vars)
  OBVIOUS
<1> USE DEF IInv, table, device
<1>1. ASSUME NEW n \in 1 .. MaxBuf, Import(n) PROVE Lease!Next
  <2>1. PICK S \in SUBSET Slots : used' = used \cup S
    BY <1>1 DEF Import
  <2>2. Lease!Map(S)
    BY <1>1, <2>1 DEF Import, Lease!Map
  <2> QED
    BY <2>2 DEF Lease!Next
<1>2. ASSUME NEW j \in Jobs, NEW hs \in SUBSET used, Launch(j, hs), used' = used
      PROVE Lease!Next
  <2>1. hs \in SUBSET Slots
    BY DEF TypeOK
  <2>2. Lease!Pin(j, hs)
    BY <1>2 DEF Launch, TypeOK, Lease!Pin
  <2> QED
    BY <2>1, <2>2 DEF Lease!Next
<1>3. ASSUME NEW j \in Jobs, Retire(j), used' = used PROVE UNCHANGED Lease!vars
  BY <1>3 DEF Retire, TypeOK, Lease!vars
<1>4. CASE EndReleases
  <2>1. Lease!Unmap(used)
    BY <1>4, NullAssumption DEF EndReleases, Held, SyncRuns, NoRequests, TypeOK, Lease!Unmap
  <2> QED
    BY <2>1 DEF Lease!Next, TypeOK
<1>5. ASSUME NEW a \in Slots, ReleaseOne(a) PROVE Lease!Next
  <2>1. Lease!Unmap({a})
    BY <1>5, NullAssumption DEF ReleaseOne, Held, MaskIsUse, SyncRuns, TypeOK, Lease!Unmap
  <2> QED
    BY <2>1 DEF Lease!Next
<1>6. CASE Die
  BY <1>6 DEF Die, Idle, NoUses, Lease!Next, Lease!Reset, Lease!NoPins
<1>7. ASSUME NEW j \in Jobs, Finish(j) PROVE Lease!Next
  <2>1. Lease!Unpin({j})
    BY <1>7 DEF Finish, TypeOK, Lease!Unpin
  <2> QED
    BY <2>1 DEF Lease!Next
<1>8. CASE Watchdog
  <2>1. Lease!Unpin(Jobs)
    BY <1>8 DEF Watchdog, TypeOK, Lease!Unpin
  <2> QED
    BY <2>1 DEF Lease!Next
<1>9. CASE Requests
  <2>1. ASSUME NEW hs \in HandleSets, Run(hs) PROVE Lease!Next
    BY <2>1, <1>2 DEF Run
  <2>2. ASSUME NEW hs \in HandleSets, Submit(hs) PROVE Lease!Next
    BY <2>2, <1>2 DEF Submit
  <2>3. CASE \/ Refuse \/ List \/ CommandFails
             \/ \E hs \in HandleSets : Release(hs)
             \/ \E t \in Tokens : Wait(t)
    BY <2>3, Stutter DEF Refuse, List, CommandFails, Release, Wait
  <2> QED
    BY <1>1, <1>9, <2>1, <2>2, <2>3 DEF Requests
<1>10. CASE \E t \in Tokens : EndAwaits(t) \/ ReleaseAwaits(t)
  <2>1. PICK t \in Tokens : EndAwaits(t) \/ ReleaseAwaits(t)
    BY <1>10
  <2>2. inflight[t] \in Jobs /\ Retire(inflight[t]) /\ used' = used
    BY <2>1 DEF EndAwaits, ReleaseAwaits, Collect, TypeOK
  <2> QED
    BY <2>2, <1>3
<1>11. CASE WaitDone
  BY <1>11, <1>3 DEF WaitDone, Collect, WaitsForRequest, TypeOK
<1>12. CASE RunDone
  BY <1>12, <1>3 DEF RunDone, SyncRuns
<1>13. CASE InlineRun
  BY <1>13, <1>2 DEF InlineRun
<1>14. CASE \/ \E c \in Clients : Connect(c)
            \/ Hangup \/ Accept \/ Eof \/ ReleaseDone \/ InlineFails \/ Reply \/ Restart
            \/ UNCHANGED vars
  BY <1>14, Stutter
  DEF Connect, Hangup, Accept, Eof, ReleaseDone, InlineFails, Reply, Restart, vars
<1> QED
  BY <1>1, <1>4, <1>5, <1>6, <1>7, <1>8, <1>9, <1>10, <1>11, <1>12, <1>13, <1>14
  DEF Next, Daemon

\* gxpd3 implements the lease on shared buffers, for all of its limits: what the
\* run dsp_session checks on two handles.
THEOREM ImplementsLease == Spec => LeaseSpec
BY LeaseInit, LeaseStep, Invariance, PTL DEF Spec, LeaseSpec, Lease!Spec
===============================================================================
