------------------------------ MODULE DspSession ------------------------------
(***************************************************************************)
(* gxpd3: the DSP bridge.  One thread accepts one connection at a time and *)
(* serves it to its end: either a single inline job (GXPD) or a zero-copy  *)
(* session (GXPZ) in which a client imports dmabufs into a handle table,   *)
(* runs kernels synchronously, or submits them and collects the results    *)
(* by token.  The firmware executes jobs concurrently with the daemon; its *)
(* watchdog may abort the device, after which every operation fails until  *)
(* the supervisor has started a fresh daemon.                              *)
(*                                                                         *)
(* Payloads are abstracted away: a buffer is its handle, a kernel is a job *)
(* and a reply is its class: "ok", "refused" (rejected before the device   *)
(* was asked, never guarded) or "failed" (followed by guard_device).       *)
(***************************************************************************)
EXTENDS Integers, Sequences, FiniteSets

CONSTANTS Clients,    \* processes that connect to gxp.sock
          MaxH,       \* ZC_MAXH: entries of the handle table
          InFlight,   \* ZC_INFLIGHT: entries of the token table
          MaxBuf,     \* ZC_MAXBUF: buffers per command
          Jobs,       \* requests the firmware can hold
          Backlog,    \* connections listen() queues
          NoClient, NoJob

Slots  == 0 .. MaxH - 1
Tokens == 0 .. InFlight - 1

ASSUME SizeAssumption == /\ MaxH \in Nat
                         /\ InFlight \in Nat
                         /\ MaxBuf \in Nat
                         /\ Backlog \in Nat
ASSUME NullAssumption == NoClient \notin Clients /\ NoJob \notin Jobs

VARIABLES
  pc,        \* where the daemon's only thread is
  kind,      \* protocol of the current connection: "zc" or "inline"
  sess,      \* client being served
  gone,      \* that client has closed its end (close, exit or kill)
  backlog,   \* connections waiting in listen()'s queue
  rsp,       \* reply about to be written
  used,      \* handle table: slots holding a mapped buffer
  inflight,  \* token table: the request of each token
  mask,      \* inflight_h: handles each token's request refers to
  sync,      \* request of a running RunSync
  arg,       \* RELEASE: handles still to be released
  tok,       \* WAIT: token waited for
  fw,        \* state of each request on the firmware
  uses,      \* handles each request was built with
  dev,       \* device of this daemon process: "alive" or "dead"
  owed       \* client side: request whose result each token still stands for

table  == <<used, inflight, mask>>
device == <<fw, uses, dev>>
vars   == <<pc, kind, sess, gone, backlog, rsp, used, inflight, mask, sync,
            arg, tok, fw, uses, dev, owed>>

NoUses     == [j \in Jobs |-> {}]
Idle       == [j \in Jobs |-> "idle"]
NoRequests == [t \in Tokens |-> NoJob]
NoHandles  == [t \in Tokens |-> {}]

Init ==
  /\ pc = "accept" /\ kind = "zc" /\ sess = NoClient /\ gone = FALSE
  /\ backlog = <<>> /\ rsp = "ok"
  /\ used = {} /\ inflight = NoRequests /\ mask = NoHandles
  /\ sync = NoJob /\ arg = {} /\ tok = 0
  /\ fw = Idle /\ uses = NoUses /\ dev = "alive"
  /\ owed = NoRequests

-------------------------------------------------------------------------------
(* Clients *)

Connect(c) ==
  /\ pc # "down" /\ c # sess
  /\ Len(backlog) < Backlog /\ \A i \in DOMAIN backlog : backlog[i] # c
  /\ backlog' = Append(backlog, c)
  /\ UNCHANGED <<pc, kind, sess, gone, rsp, table, sync, arg, tok, device, owed>>

\* barra_dsp_close, exit or kill: possible at any moment of the connection.
Hangup ==
  /\ sess # NoClient /\ ~gone
  /\ gone' = TRUE /\ owed' = NoRequests
  /\ UNCHANGED <<pc, kind, sess, backlog, rsp, table, sync, arg, tok, device>>

(* Connections *)

Accept ==
  /\ pc = "accept" /\ backlog # <<>>
  /\ sess' = Head(backlog) /\ backlog' = Tail(backlog) /\ gone' = FALSE
  /\ \/ kind' = "zc" /\ pc' = "read"
     \/ kind' = "inline" /\ pc' = "inline"
  /\ UNCHANGED <<rsp, table, sync, arg, tok, device, owed>>

\* Mutant of Eof: the loop is left only when no request is open any more.
EofWaitsForClient ==
  /\ pc \in {"read", "inline"} /\ gone /\ inflight = NoRequests
  /\ pc' = "end"
  /\ UNCHANGED <<kind, sess, gone, backlog, rsp, table, sync, arg, tok, device, owed>>

\* The next header is not there, or not ours: leave the command loop.
Eof ==
  /\ pc \in {"read", "inline"} /\ gone
  /\ pc' = "end"
  /\ UNCHANGED <<kind, sess, gone, backlog, rsp, table, sync, arg, tok, device, owed>>

\* Mutant of Retire: a request the firmware has aborted is never given back.
RetireDoneOnly(j) ==
  /\ fw[j] = "done"
  /\ fw' = [fw EXCEPT ![j] = "idle"]
  /\ uses' = [uses EXCEPT ![j] = {}]
  /\ UNCHANGED dev

\* Request_Wait returns, then ReleaseRequest forgets the request.
Retire(j) ==
  /\ fw[j] # "running"
  /\ fw' = [fw EXCEPT ![j] = "idle"]
  /\ uses' = [uses EXCEPT ![j] = {}]
  /\ UNCHANGED dev

\* A request of the token table is retired and its entry given back.
Collect(t) ==
  /\ Retire(inflight[t])
  /\ inflight' = [inflight EXCEPT ![t] = NoJob]
  /\ mask' = [mask EXCEPT ![t] = {}]

\* Session end: every request is awaited first ...
EndAwaits(t) ==
  /\ pc = "end" /\ inflight[t] # NoJob
  /\ \A s \in Tokens : s < t => inflight[s] = NoJob
  /\ Collect(t)
  /\ UNCHANGED <<pc, kind, sess, gone, backlog, rsp, used, sync, arg, tok, owed>>

\* Mutant of EndReleases: the session ends without awaiting its requests.
EndReleasesAtOnce ==
  /\ pc = "end"
  /\ used' = {}
  /\ pc' = "accept" /\ sess' = NoClient /\ gone' = FALSE
  /\ UNCHANGED <<kind, backlog, rsp, inflight, mask, sync, arg, tok, device, owed>>

\* ... and only then are all handles released.
EndReleases ==
  /\ pc = "end" /\ inflight = NoRequests
  /\ used' = {}
  /\ pc' = "accept" /\ sess' = NoClient /\ gone' = FALSE
  /\ UNCHANGED <<kind, backlog, rsp, inflight, mask, sync, arg, tok, device, owed>>

-------------------------------------------------------------------------------
(* Commands of a GXPZ session *)

Command == pc = "read" /\ ~gone

Say(r) == rsp' = r /\ pc' = "reply"

\* A name or a count is out of range: answered before the device is touched.
Refuse ==
  /\ Command
  /\ Say("refused")
  /\ UNCHANGED <<kind, sess, gone, backlog, table, sync, arg, tok, device, owed>>

\* IMPORT of n buffers fills the lowest free slots one by one and stops at the
\* first failure; what was imported up to there stays in the table.
Import(n) ==
  /\ Command
  /\ \E new \in SUBSET (Slots \ used) :
       /\ \A s \in new, f \in (Slots \ used) \ new : s < f
       /\ Cardinality(new) <= n
       /\ dev = "dead" => new = {}
       /\ used' = used \cup new
       /\ Say(IF Cardinality(new) = n THEN "ok" ELSE "refused")
  /\ UNCHANGED <<kind, sess, gone, backlog, inflight, mask, sync, arg, tok, device, owed>>

\* LIST only reads the kernel table.
List ==
  /\ Command
  /\ Say("ok")
  /\ UNCHANGED <<kind, sess, gone, backlog, table, sync, arg, tok, device, owed>>

\* Create a request and hand it to the firmware.
Launch(j, hs) ==
  /\ dev = "alive" /\ fw[j] = "idle"
  /\ fw' = [fw EXCEPT ![j] = "running"]
  /\ uses' = [uses EXCEPT ![j] = hs]
  /\ UNCHANGED dev

\* RUN / SUBMIT that does not reach the firmware: unknown kernel, bad handle,
\* buffer too small, no free token, or the runtime refuses.
CommandFails ==
  /\ Command
  /\ Say("failed")
  /\ UNCHANGED <<kind, sess, gone, backlog, table, sync, arg, tok, device, owed>>

\* Mutant of Run: handles are not looked up before the request is built.
RunUnchecked(hs) ==
  /\ Command
  /\ \E j \in Jobs : Launch(j, hs) /\ sync' = j
  /\ pc' = "run"
  /\ UNCHANGED <<kind, sess, gone, backlog, rsp, table, arg, tok, owed>>

Run(hs) ==
  /\ Command /\ hs \subseteq used
  /\ \E j \in Jobs : Launch(j, hs) /\ sync' = j
  /\ pc' = "run"
  /\ UNCHANGED <<kind, sess, gone, backlog, rsp, table, arg, tok, owed>>

\* Mutant of Submit: the token is taken without looking for a free one.
SubmitOverwrites(hs) ==
  /\ Command /\ hs \subseteq used
  /\ \E j \in Jobs :
       /\ Launch(j, hs)
       /\ inflight' = [inflight EXCEPT ![0] = j]
       /\ mask' = [mask EXCEPT ![0] = hs]
       /\ owed' = [owed EXCEPT ![0] = IF @ = NoJob THEN j ELSE @]
  /\ Say("ok")
  /\ UNCHANGED <<kind, sess, gone, backlog, used, sync, arg, tok>>

Submit(hs) ==
  /\ Command /\ hs \subseteq used
  /\ \E t \in Tokens, j \in Jobs :
       /\ inflight[t] = NoJob
       /\ \A s \in Tokens : s < t => inflight[s] # NoJob
       /\ Launch(j, hs)
       /\ inflight' = [inflight EXCEPT ![t] = j]
       /\ mask' = [mask EXCEPT ![t] = hs]
       /\ owed' = [owed EXCEPT ![t] = j]
  /\ Say("ok")
  /\ UNCHANGED <<kind, sess, gone, backlog, used, sync, arg, tok>>

\* WAIT for a token that has a request; for any other it is a Refuse.
Wait(t) ==
  /\ Command /\ inflight[t] # NoJob
  /\ tok' = t /\ pc' = "wait"
  /\ UNCHANGED <<kind, sess, gone, backlog, rsp, table, sync, arg, device, owed>>

WaitDone ==
  /\ pc = "wait"
  /\ Collect(tok)
  /\ Say(IF fw[inflight[tok]] = "done" THEN "ok" ELSE "failed")
  /\ owed' = [owed EXCEPT ![tok] = NoJob]
  /\ UNCHANGED <<kind, sess, gone, backlog, used, sync, arg, tok>>

\* RELEASE: by releasing a buffer the client gives up the result of every
\* submitted job that refers to it.
Release(hs) ==
  /\ Command
  /\ arg' = hs /\ pc' = "release"
  /\ owed' = [t \in Tokens |-> IF mask[t] \cap hs = {} THEN owed[t] ELSE NoJob]
  /\ UNCHANGED <<kind, sess, gone, backlog, rsp, table, sync, tok, device>>

\* A request that still refers to handle a is awaited before a is unmapped.
ReleaseAwaits(t) ==
  /\ pc = "release" /\ inflight[t] # NoJob
  /\ mask[t] \cap arg # {}
  /\ Collect(t)
  /\ UNCHANGED <<pc, kind, sess, gone, backlog, rsp, used, sync, arg, tok, owed>>

\* Mutant of ReleaseOne: a buffer is unmapped under a request in flight.
ReleaseInUse(a) ==
  /\ pc = "release" /\ a \in arg
  /\ used' = used \ {a} /\ arg' = arg \ {a}
  /\ UNCHANGED <<pc, kind, sess, gone, backlog, rsp, inflight, mask, sync, tok, device, owed>>

ReleaseOne(a) ==
  /\ pc = "release" /\ a \in arg
  /\ \A t \in Tokens : a \notin mask[t]
  /\ used' = used \ {a} /\ arg' = arg \ {a}
  /\ UNCHANGED <<pc, kind, sess, gone, backlog, rsp, inflight, mask, sync, tok, device, owed>>

ReleaseDone ==
  /\ pc = "release" /\ arg = {}
  /\ Say("ok")
  /\ UNCHANGED <<kind, sess, gone, backlog, table, sync, arg, tok, device, owed>>

-------------------------------------------------------------------------------
(* Inline GXPD: one job on a private buffer, no session *)

InlineRun ==
  /\ pc = "inline"
  /\ \E j \in Jobs : Launch(j, {}) /\ sync' = j
  /\ pc' = "run"
  /\ UNCHANGED <<kind, sess, gone, backlog, rsp, table, arg, tok, owed>>

InlineFails ==
  /\ pc = "inline"
  /\ \E r \in {"refused", "failed"} : Say(r)
  /\ UNCHANGED <<kind, sess, gone, backlog, table, sync, arg, tok, device, owed>>

\* RunSync returns, in either protocol.
RunDone ==
  /\ pc = "run" /\ Retire(sync)
  /\ Say(IF fw[sync] = "done" THEN "ok" ELSE "failed")
  /\ sync' = NoJob
  /\ UNCHANGED <<kind, sess, gone, backlog, table, arg, tok, owed>>

-------------------------------------------------------------------------------
(* Replies and the end of the process *)

\* guard_device: a failure on a dead device ends the process.  Only the GXPZ
\* commands RUN, SUBMIT and WAIT call it.
Guarded == kind = "zc" /\ rsp = "failed" /\ dev = "dead"

Reply ==
  /\ pc = "reply" /\ ~gone /\ ~Guarded
  /\ pc' = IF kind = "zc" THEN "read" ELSE "end"
  /\ UNCHANGED <<kind, sess, gone, backlog, rsp, table, sync, arg, tok, device, owed>>

\* _exit(1) in guard_device, or SIGPIPE (which gxpd3 does not ignore) when the
\* client has hung up.  The kernel drops the connections and the device context.
Die ==
  /\ pc = "reply" /\ (gone \/ Guarded)
  /\ pc' = "down" /\ sess' = NoClient /\ gone' = FALSE /\ backlog' = <<>>
  /\ used' = {} /\ inflight' = NoRequests /\ mask' = NoHandles
  /\ arg' = {} /\ owed' = NoRequests
  /\ fw' = Idle /\ uses' = NoUses
  /\ UNCHANGED <<kind, rsp, sync, tok, dev>>

\* start_gxp of the supervisor: a fresh process with a fresh device.
Restart ==
  /\ pc = "down"
  /\ pc' = "accept" /\ dev' = "alive"
  /\ UNCHANGED <<kind, sess, gone, backlog, rsp, table, sync, arg, tok, fw, uses, owed>>

-------------------------------------------------------------------------------
(* Firmware *)

Finish(j) ==
  /\ fw[j] = "running"
  /\ \E r \in {"done", "failed"} : fw' = [fw EXCEPT ![j] = r]
  /\ UNCHANGED <<pc, kind, sess, gone, backlog, rsp, table, sync, arg, tok, uses, dev, owed>>

\* Firmware watchdog: a job took too long; the device is lost for all of them.
Watchdog ==
  /\ \E j \in Jobs : fw[j] = "running"
  /\ fw' = [j \in Jobs |-> IF fw[j] = "running" THEN "failed" ELSE fw[j]]
  /\ dev' = "dead"
  /\ UNCHANGED <<pc, kind, sess, gone, backlog, rsp, table, sync, arg, tok, uses, owed>>

-------------------------------------------------------------------------------
HandleSets == {hs \in SUBSET Slots : hs # {} /\ Cardinality(hs) <= MaxBuf}

Requests ==
  \/ Refuse \/ List \/ CommandFails
  \/ \E n \in 1 .. MaxBuf : Import(n)
  \/ \E hs \in HandleSets : Run(hs) \/ Submit(hs) \/ Release(hs)
  \/ \E t \in Tokens : Wait(t)

Daemon ==
  \/ Accept \/ Eof \/ EndReleases \/ WaitDone \/ ReleaseDone
  \/ InlineRun \/ InlineFails \/ RunDone \/ Reply \/ Die
  \/ \E t \in Tokens : EndAwaits(t) \/ ReleaseAwaits(t)
  \/ \E a \in Slots : ReleaseOne(a)

Next ==
  \/ \E c \in Clients : Connect(c)
  \/ Hangup \/ Requests \/ Daemon \/ Restart
  \/ \E j \in Jobs : Finish(j)
  \/ Watchdog

Spec == Init /\ [][Next]_vars

\* The daemon's thread runs whenever it can, the supervisor restarts it, and
\* the firmware finishes every job or its watchdog fires.
Fairness ==
  /\ WF_vars(Daemon) /\ WF_vars(Restart)
  /\ \A j \in Jobs : WF_vars(Finish(j) \/ Watchdog)

\* Every client ends its connection some time when no command is open
\* (barra_dsp_close or exit).
ClientsLeave == SF_vars(pc = "read" /\ Hangup)

FairSpec    == Spec /\ Fairness
ServingSpec == FairSpec /\ ClientsLeave

-------------------------------------------------------------------------------
\* The variables hold values of these sets.
TypeOK ==
  /\ pc \in {"down", "accept", "read", "inline", "run", "wait", "release", "reply", "end"}
  /\ kind \in {"zc", "inline"}
  /\ sess \in Clients \cup {NoClient}
  /\ gone \in BOOLEAN
  /\ backlog \in Seq(Clients)
  /\ rsp \in {"ok", "refused", "failed"}
  /\ used \subseteq Slots
  /\ inflight \in [Tokens -> Jobs \cup {NoJob}]
  /\ mask \in [Tokens -> SUBSET Slots]
  /\ sync \in Jobs \cup {NoJob}
  /\ arg \subseteq Slots
  /\ tok \in Nat
  /\ fw \in [Jobs -> {"idle", "running", "done", "failed"}]
  /\ uses \in [Jobs -> SUBSET Slots]
  /\ dev \in {"alive", "dead"}
  /\ owed \in [Tokens -> Jobs \cup {NoJob}]

\* No use after free: while the firmware executes a job, every handle the job
\* was built with is still mapped (the wait loops of RELEASE and of the
\* session's end exist for this).
NoUseAfterFree ==
  \A j \in Jobs : fw[j] = "running" => uses[j] \subseteq used

\* A token the client has not collected or given up stands for exactly the job
\* it was returned for: a WAIT never delivers another job's result.
TokenStandsForItsJob ==
  \A t \in Tokens : owed[t] # NoJob => inflight[t] = owed[t]

\* The daemon takes the next client only after the firmware has let go of
\* everything the previous one shared or started.
QuietBetweenClients ==
  pc \in {"accept", "down"} =>
    /\ used = {} /\ inflight = NoRequests
    /\ \A j \in Jobs : fw[j] = "idle"

\* Every command is answered, or the connection ends: no wait loop of the
\* daemon blocks for ever, whatever the firmware does to the jobs.
Answered ==
  pc \in {"inline", "run", "wait", "release", "reply", "end"}
    ~> pc \in {"read", "accept", "down"}

\* A connection in the queue is served or reset, provided the clients before it
\* end their connections: one client's abandoned jobs never block the next.
QueueMoves ==
  \A c \in Clients :
    (\E i \in DOMAIN backlog : backlog[i] = c) ~> (sess = c \/ pc = "down")

Lease == INSTANCE DmaLease WITH
           Handles <- Slots, mapped <- used,
           pins <- [j \in Jobs |-> IF fw[j] = "running" THEN uses[j] ELSE {}]

\* gxpd3 implements the lease on shared buffers.
LeaseSpec == Lease!Spec

===============================================================================
