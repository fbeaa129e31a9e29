------------------------------ MODULE ConfigAgent ------------------------------
(***************************************************************************)
(* baseos-cfgd.sh: the agent that serves the container's requests.         *)
(*  - The mailbox: a client (cfg_send of barra-config) writes a line to    *)
(*    the file req and polls for the file resp; the agent's loop takes     *)
(*    the line, carries it out and writes the answer.                      *)
(*  - The compile queue: barrac puts a job's .req file there and polls for *)
(*    its .done; the agent's worker, a process of its own, takes the jobs. *)
(* Shell commands are the steps: a redirection makes the file empty before *)
(* anything is written, and a file that was removed meanwhile stays with   *)
(* the processes that have it open.  Agents may be killed; their workers   *)
(* live on.  The supervisor starts an agent when no process has its name.  *)
(*                                                                         *)
(* What the requests do is left out (ChargeWindow has the charge command). *)
(* tpuc1 writes its package, if any, at its end.                           *)
(***************************************************************************)
EXTENDS Integers, FiniteSets

CONSTANTS Clients,   \* calls of cfg_send
          Jobs,      \* calls of barrac
          Agents,    \* processes baseos-cfgd
          ByHand,    \* are agents also started by hand?
          MaxKill,   \* bound: processes that are killed
          None

Empty == "empty"
Error == "error"   \* the answer to a line that is no command

ASSUME DistinctAssumption ==
  /\ None \notin Clients \cup Jobs \cup Agents \cup {Empty, Error, "ok"}
  /\ {Empty, Error} \cap Clients = {} /\ ByHand \in BOOLEAN /\ MaxKill \in Nat

VARIABLES
  client,    \* where each client is
  got,       \* the answer it has read
  alone,     \* no other request was under way while it waited
  req, resp, \* content of the two files of the mailbox, None: no such file
  reqfd,     \* clients that have the present req open
  respfd,    \* agents that have the present resp open
  handled,   \* how often each request was carried out
  agent,     \* where each agent is
  line,      \* its LINE
  agentPid,  \* cfgd.pid
  worker,    \* where its worker is
  left,      \* jobs that the worker's glob has found
  job,       \* the one in work
  jreq,      \* jobs whose .req file is there
  done,      \* content of the .done files
  package,   \* whose model a .package file was made from
  outp,      \* the same of /data/local/tmp/out.package
  barrac,    \* where each barrac is
  result,    \* what it has moved to its output
  kills

mailbox == <<client, got, alone, req, resp, reqfd, respfd, handled>>
agents  == <<agent, line, agentPid>>
queue   == <<worker, left, job, jreq, done, package, outp, barrac, result>>
agentVars    == <<mailbox, agents, queue, kills>>

AgentInit ==
  /\ client = [c \in Clients |-> "new"] /\ got = [c \in Clients |-> None]
  /\ alone = [c \in Clients |-> FALSE] /\ handled = [c \in Clients |-> 0]
  /\ req = None /\ resp = None /\ reqfd = {} /\ respfd = {}
  /\ agent = [a \in Agents |-> "off"] /\ line = [a \in Agents |-> None] /\ agentPid = None
  /\ worker = [a \in Agents |-> "off"] /\ left = [a \in Agents |-> {}]
  /\ job = [a \in Agents |-> None]
  /\ jreq = {} /\ done = [j \in Jobs |-> None] /\ package = [j \in Jobs |-> None] /\ outp = None
  /\ barrac = [j \in Jobs |-> "new"] /\ result = [j \in Jobs |-> None]
  /\ kills = 0

Client(c, l) == client' = [client EXCEPT ![c] = l]
Agent(a, l)  == agent' = [agent EXCEPT ![a] = l]
Worker(a, l) == worker' = [worker EXCEPT ![a] = l]

-------------------------------------------------------------------------------
(* cfg_send *)

Waiting(c)   == client[c] \in {"create", "write", "poll", "cat"}
Serving(a)   == agent[a] \in {"take", "exec", "open", "answer"}
SomethingElse(c) == req # None \/ (\E x \in Clients \ {c} : Waiting(x)) \/ \E a \in Agents : Serving(a)

\* Mutant: an old answer is left where it is.
KeepResp(c) ==
  /\ client[c] = "new"
  /\ alone' = [x \in Clients |-> IF x = c THEN ~SomethingElse(c) ELSE alone[x] /\ ~Waiting(x)]
  /\ Client(c, "create")
  /\ UNCHANGED <<got, req, resp, reqfd, respfd, handled, agents, queue, kills>>

\* rm -f resp
ClearResp(c) ==
  /\ client[c] = "new"
  /\ resp' = None /\ respfd' = {}
  /\ alone' = [x \in Clients |-> IF x = c THEN ~SomethingElse(c) ELSE alone[x] /\ ~Waiting(x)]
  /\ Client(c, "create")
  /\ UNCHANGED <<got, req, reqfd, handled, agents, queue, kills>>

\* echo ... > req
CreateReq(c) ==
  /\ client[c] = "create"
  /\ req' = Empty /\ reqfd' = reqfd \cup {c}
  /\ Client(c, "write")
  /\ UNCHANGED <<got, alone, resp, respfd, handled, agents, queue, kills>>

WriteReq(c) ==
  /\ client[c] = "write"
  /\ req' = IF c \in reqfd THEN c ELSE req
  /\ reqfd' = reqfd \ {c}
  /\ Client(c, "poll")
  /\ UNCHANGED <<got, alone, resp, respfd, handled, agents, queue, kills>>

\* cat resp, rm -f resp
ReadResp(c) ==
  /\ client[c] = "poll" /\ resp # None
  /\ got' = [got EXCEPT ![c] = resp]
  /\ Client(c, "cat")
  /\ UNCHANGED <<alone, req, resp, reqfd, respfd, handled, agents, queue, kills>>

RemoveResp(c) ==
  /\ client[c] = "cat"
  /\ resp' = None /\ respfd' = {}
  /\ Client(c, "answered")
  /\ UNCHANGED <<got, alone, req, reqfd, handled, agents, queue, kills>>

\* After 40 looks.
GiveUp(c) ==
  /\ client[c] = "poll"
  /\ Client(c, "failed")
  /\ UNCHANGED <<got, alone, req, resp, reqfd, respfd, handled, agents, queue, kills>>

-------------------------------------------------------------------------------
(* The agent *)

Alive(a)    == agent[a] # "off" \/ worker[a] # "off"
Answering(a) == agent[a] \notin {"off", "check", "write"}

\* By the supervisor, or by hand.  The new process has a new number.
StartAgent(a) ==
  /\ ~Alive(a)
  /\ ByHand \/ \A b \in Agents : ~Alive(b)
  /\ Agent(a, "check") /\ agentPid' = IF agentPid = a THEN None ELSE agentPid
  /\ UNCHANGED <<mailbox, line, queue, kills>>

\* Mutant: any pid file will do.
SingletonFile(a) ==
  /\ agent[a] = "check"
  /\ Agent(a, IF agentPid # None THEN "off" ELSE "write")
  /\ UNCHANGED <<mailbox, line, agentPid, queue, kills>>

\* The pid file names a live agent (not: its worker) or not.
Singleton(a) ==
  /\ agent[a] = "check"
  /\ Agent(a, IF \E b \in Agents : agentPid = b /\ agent[b] # "off" THEN "off" ELSE "write")
  /\ UNCHANGED <<mailbox, line, agentPid, queue, kills>>

WriteAgentPid(a) ==
  /\ agent[a] = "write"
  /\ agentPid' = a /\ Agent(a, "loop") /\ Worker(a, "round")
  /\ UNCHANGED <<mailbox, line, left, job, jreq, done, package, outp, barrac, result, kills>>

\* LINE=$(head -1 req)
Head1(a) ==
  /\ agent[a] = "loop" /\ req # None
  /\ line' = [line EXCEPT ![a] = req] /\ Agent(a, "take")
  /\ UNCHANGED <<mailbox, agentPid, queue, kills>>

\* Mutant: the request is left there until it is answered.
TakeLater(a) ==
  /\ agent[a] = "take"
  /\ Agent(a, "exec")
  /\ UNCHANGED <<mailbox, line, agentPid, queue, kills>>

\* rm -f req
Take(a) ==
  /\ agent[a] = "take"
  /\ req' = None /\ reqfd' = {}
  /\ Agent(a, "exec")
  /\ UNCHANGED <<client, got, alone, resp, respfd, handled, line, agentPid, queue, kills>>

Exec(a) ==
  /\ agent[a] = "exec"
  /\ handled' = [c \in Clients |-> IF c = line[a] THEN handled[c] + 1 ELSE handled[c]]
  /\ Agent(a, "open")
  /\ UNCHANGED <<client, got, alone, req, resp, reqfd, respfd, line, agentPid, queue, kills>>

\* echo "$R" > resp
OpenResp(a) ==
  /\ agent[a] = "open"
  /\ resp' = Empty /\ respfd' = respfd \cup {a}
  /\ Agent(a, "answer")
  /\ UNCHANGED <<client, got, alone, req, reqfd, handled, line, agentPid, queue, kills>>

Answer(a) ==
  /\ agent[a] = "answer"
  /\ resp' = IF a \notin respfd THEN resp ELSE IF line[a] = Empty THEN Error ELSE line[a]
  /\ respfd' = respfd \ {a} /\ line' = [line EXCEPT ![a] = None]
  /\ Agent(a, "loop")
  /\ UNCHANGED <<client, got, alone, req, reqfd, handled, agentPid, queue, kills>>

\* The agent alone is killed; the exit trap may or may not run.
KillAgent(a) ==
  /\ Answering(a) /\ kills < MaxKill
  /\ Agent(a, "off") /\ line' = [line EXCEPT ![a] = None] /\ respfd' = respfd \ {a}
  /\ agentPid' \in {agentPid, None} /\ kills' = kills + 1
  /\ UNCHANGED <<client, got, alone, req, resp, reqfd, handled, queue>>

-------------------------------------------------------------------------------
(* The compile worker *)

\* Is cfgd.pid still that of my agent?  Then a look at the .req files.
Round(a) ==
  /\ worker[a] = "round"
  /\ IF agentPid = a THEN Worker(a, "scan") /\ left' = [left EXCEPT ![a] = jreq]
                 ELSE Worker(a, "off") /\ UNCHANGED left
  /\ UNCHANGED <<mailbox, agents, job, jreq, done, package, outp, barrac, result, kills>>

EndRound(a) ==
  /\ worker[a] = "scan" /\ left[a] = {}
  /\ Worker(a, "round")
  /\ UNCHANGED <<mailbox, agents, left, job, jreq, done, package, outp, barrac, result, kills>>

\* [ -f "$r" ]
Look(a, j) ==
  /\ worker[a] = "scan" /\ j \in left[a]
  /\ left' = [left EXCEPT ![a] = @ \ {j}]
  /\ IF j \in jreq THEN Worker(a, "remove") /\ job' = [job EXCEPT ![a] = j] ELSE UNCHANGED <<worker, job>>
  /\ UNCHANGED <<mailbox, agents, jreq, done, package, outp, barrac, result, kills>>

\* rm -f "$r"; without a compiler that is it.
TakeJob(a) ==
  /\ worker[a] = "remove"
  /\ jreq' = jreq \ {job[a]}
  /\ \E l \in {"clean", "error"} : Worker(a, l)
  /\ UNCHANGED <<mailbox, agents, left, job, done, package, outp, barrac, result, kills>>

\* Mutant: the last package is not removed.
CleanNot(a) ==
  /\ worker[a] = "clean"
  /\ Worker(a, "compile")
  /\ UNCHANGED <<mailbox, agents, left, job, jreq, done, package, outp, barrac, result, kills>>

Clean(a) ==
  /\ worker[a] = "clean"
  /\ outp' = None /\ Worker(a, "compile")
  /\ UNCHANGED <<mailbox, agents, left, job, jreq, done, package, barrac, result, kills>>

\* tpuc1 succeeds, fails, or runs out of time.
Compile(a) ==
  /\ worker[a] = "compile"
  /\ outp' \in {outp, job[a]}
  /\ Worker(a, "test")
  /\ UNCHANGED <<mailbox, agents, left, job, jreq, done, package, barrac, result, kills>>

Test(a) ==
  /\ worker[a] = "test"
  /\ Worker(a, IF outp = None THEN "error" ELSE "move")
  /\ UNCHANGED <<mailbox, agents, left, job, jreq, done, package, outp, barrac, result, kills>>

Move(a) ==
  /\ worker[a] = "move"
  /\ package' = [package EXCEPT ![job[a]] = IF outp = None THEN @ ELSE outp]
  /\ outp' = None /\ Worker(a, "ok")
  /\ UNCHANGED <<mailbox, agents, left, job, jreq, done, barrac, result, kills>>

\* echo ... > .done: first it is empty ...
OpenDone(a) ==
  /\ worker[a] \in {"ok", "error"}
  /\ done' = [done EXCEPT ![job[a]] = Empty]
  /\ Worker(a, IF worker[a] = "ok" THEN "say ok" ELSE "say error")
  /\ UNCHANGED <<mailbox, agents, left, job, jreq, package, outp, barrac, result, kills>>

\* ... then written, unless it is gone.
WriteDone(a) ==
  /\ worker[a] \in {"say ok", "say error"}
  /\ done' = [done EXCEPT ![job[a]] = IF @ = None THEN @ ELSE IF worker[a] = "say ok" THEN "ok" ELSE Error]
  /\ Worker(a, "scan") /\ job' = [job EXCEPT ![a] = None]
  /\ UNCHANGED <<mailbox, agents, left, jreq, package, outp, barrac, result, kills>>

\* A compilation that runs is not killed with it (and keeps the name, see StartAgent).
KillWorker(a) ==
  /\ worker[a] \notin {"off", "orphan"} /\ kills < MaxKill
  /\ IF worker[a] = "compile" THEN Worker(a, "orphan") /\ UNCHANGED job
                              ELSE Worker(a, "off") /\ job' = [job EXCEPT ![a] = None]
  /\ left' = [left EXCEPT ![a] = {}] /\ kills' = kills + 1
  /\ UNCHANGED <<mailbox, agents, jreq, done, package, outp, barrac, result>>

EndOrphan(a) ==
  /\ worker[a] = "orphan"
  /\ outp' \in {outp, job[a]}
  /\ Worker(a, "off") /\ job' = [job EXCEPT ![a] = None]
  /\ UNCHANGED <<mailbox, agents, left, jreq, done, package, barrac, result, kills>>

-------------------------------------------------------------------------------
(* barrac *)

Barrac(j, l) == barrac' = [barrac EXCEPT ![j] = l]

Submit(j) ==
  /\ barrac[j] = "new"
  /\ jreq' = jreq \cup {j} /\ Barrac(j, "wait")
  /\ UNCHANGED <<mailbox, agents, worker, left, job, done, package, outp, result, kills>>

\* .done says OK: the package is moved to where the user wants it.
Fetch(j) ==
  /\ barrac[j] = "wait" /\ done[j] = "ok"
  /\ result' = [result EXCEPT ![j] = package[j]]
  /\ package' = [package EXCEPT ![j] = None] /\ done' = [done EXCEPT ![j] = None]
  /\ Barrac(j, "success")
  /\ UNCHANGED <<mailbox, agents, worker, left, job, jreq, outp, kills>>

\* Anything else, an empty file too, is a failure.
Refused(j) ==
  /\ barrac[j] = "wait" /\ done[j] \in {Empty, Error}
  /\ package' = [package EXCEPT ![j] = None] /\ done' = [done EXCEPT ![j] = None]
  /\ Barrac(j, "failure")
  /\ UNCHANGED <<mailbox, agents, worker, left, job, jreq, outp, result, kills>>

\* After 600 s; the job stays.
TimeOut(j) ==
  /\ barrac[j] = "wait"
  /\ Barrac(j, "failure")
  /\ UNCHANGED <<mailbox, agents, worker, left, job, jreq, done, package, outp, result, kills>>

-------------------------------------------------------------------------------

MailClient(c) == ClearResp(c) \/ CreateReq(c) \/ WriteReq(c) \/ ReadResp(c) \/ RemoveResp(c)
AgentStep(a)  == \/ Singleton(a) \/ WriteAgentPid(a)
                 \/ Head1(a) \/ Take(a) \/ Exec(a) \/ OpenResp(a) \/ Answer(a)
WorkerStep(a) == \/ Round(a) \/ EndRound(a) \/ TakeJob(a) \/ Clean(a) \/ Compile(a) \/ Test(a)
                 \/ Move(a) \/ OpenDone(a) \/ WriteDone(a) \/ EndOrphan(a)
                 \/ \E j \in Jobs : Look(a, j)

AgentNext ==
  \/ \E c \in Clients : MailClient(c) \/ GiveUp(c)
  \/ \E a \in Agents  : StartAgent(a) \/ AgentStep(a) \/ WorkerStep(a) \/ KillAgent(a) \/ KillWorker(a)
  \/ \E j \in Jobs    : Submit(j) \/ Fetch(j) \/ Refused(j) \/ TimeOut(j)

AgentSpec == AgentInit /\ [][AgentNext]_agentVars

\* The supervisor looks again and again; the processes run.
AgentFairSpec ==
  /\ AgentSpec /\ WF_agentVars(\E a \in Agents : StartAgent(a))
  /\ \A a \in Agents : WF_agentVars(AgentStep(a)) /\ WF_agentVars(WorkerStep(a))

-------------------------------------------------------------------------------
MailboxTypes ==
  /\ client \in [Clients -> {"new", "create", "write", "poll", "cat", "answered", "failed"}]
  /\ got \in [Clients -> Clients \cup {None, Empty, Error}] /\ alone \in [Clients -> BOOLEAN]
  /\ req \in Clients \cup {None, Empty} /\ resp \in Clients \cup {None, Empty, Error}
  /\ reqfd \subseteq Clients /\ respfd \subseteq Agents /\ handled \in [Clients -> Nat]

AgentTypes ==
  /\ agent \in [Agents -> {"off", "check", "write", "loop", "take", "exec", "open", "answer"}]
  /\ line \in [Agents -> Clients \cup {None, Empty}] /\ agentPid \in Agents \cup {None}

QueueTypes ==
  /\ worker \in [Agents -> {"off", "round", "scan", "remove", "clean", "compile", "test", "move",
                            "ok", "error", "say ok", "say error", "orphan"}]
  /\ left \in [Agents -> SUBSET Jobs] /\ job \in [Agents -> Jobs \cup {None}] /\ jreq \subseteq Jobs
  /\ done \in [Jobs -> {None, Empty, Error, "ok"}] /\ package \in [Jobs -> Jobs \cup {None}]
  /\ outp \in Jobs \cup {None}
  /\ barrac \in [Jobs -> {"new", "wait", "success", "failure"}] /\ result \in [Jobs -> Jobs \cup {None}]

\* The variables hold values of these sets.
AgentTypeOK == MailboxTypes /\ AgentTypes /\ QueueTypes /\ kills \in 0..MaxKill

(* A request is carried out at most once, however clients overwrite each  *)
(* other's files, give up and come back, and agents are killed: the line  *)
(* leaves the mailbox before it is carried out (power reboot, wlan setup). *)
AtMostOnce == \A c \in Clients : handled[c] <= 1

(* A client that was the only one while it waited never reads the answer  *)
(* to another request: it finds its own, or a file that is still empty.   *)
OwnAnswer == \A c \in Clients :
  client[c] = "answered" /\ alone[c] => got[c] \in {c, Empty, Error}

(* When barrac reports success, the package it has moved is made from its *)
(* own model, although every job goes through the same out.package and    *)
(* workers may be killed between two commands.                            *)
OkMeansMine == \A j \in Jobs : barrac[j] = "success" => result[j] = j

(* A job in the queue is taken, unless an agent lives whose worker has    *)
(* been killed: nothing starts that worker again.                         *)
Workerless == \E a \in Agents : agent[a] = "loop" /\ worker[a] = "off"
JobTaken == \A j \in Jobs : (j \in jreq) ~> (j \notin jreq \/ Workerless)
===============================================================================
