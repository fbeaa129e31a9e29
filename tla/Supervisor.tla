------------------------------ MODULE Supervisor ------------------------------
(***************************************************************************)
(* hw-bridges.sh: a shell loop that keeps the bridge daemons running.      *)
(* Every 15 s it asks for each daemon whether a process matches a pattern  *)
(* (pgrep) and starts the daemon when none does.  A pid file is meant to   *)
(* keep a second supervisor out.  The script is started by the boot hook,  *)
(* and by devdeploy.sh or by hand when it seems to be gone.                *)
(*                                                                         *)
(* A process is its name; "worker" is the compile worker baseos-cfgd forks *)
(* (the same command line as its parent).  Daemons and supervisors may be  *)
(* killed at any moment.                                                   *)
(***************************************************************************)
EXTENDS Integers, Sequences, FiniteSets

CONSTANTS Supervisors,  \* invocations of hw-bridges.sh (pids)
          Order,        \* daemons in the order the loop visits them
          Installed,    \* programs whose files exist
          Together,     \* may two supervisors start up at the same time?
          Mortal,       \* programs that may crash
          MaxInst,      \* bound: processes of one name
          NoPid

Daemons  == {Order[n] : n \in DOMAIN Order}
Programs == (Daemons \ {"gxp"}) \cup {"gxpd3", "gxpd", "worker"}

ASSUME OrderAssumption ==
  /\ Order \in Seq({"tpud", "gpud", "gpud-zc", "gxp", "cfgd", "audiod-alsa", "audiod-record", "btnd"})
  /\ Order # <<>> /\ Installed \subseteq Programs /\ Mortal \subseteq Programs
ASSUME PidAssumption == NoPid \notin Supervisors /\ Together \in BOOLEAN /\ MaxInst \in Nat

VARIABLES
  pc,     \* where each supervisor is; "off": no such process
  at,     \* position in Order of the daemon it is looking after
  pidf,   \* content of supervisor.pid
  procs   \* number of processes of each name

vars == <<pc, at, pidf, procs>>

\* Processes whose command line (-f) or name (-x) the daemon's pgrep matches.
\* "-f $H/gpud" is a prefix of gpud-zc's command line.
Pattern(d) == CASE d = "gpud" -> {"gpud", "gpud-zc"}
                [] d = "gxp"  -> {"gxpd3"}
                [] d = "cfgd" -> {"cfgd", "worker"}
                [] OTHER      -> {d}

Live(p) == p \in DOMAIN procs /\ procs[p] > 0
Seen(d) == \E p \in Pattern(d) : Live(p)

\* The program started for a daemon; gxpd is the fallback for gxpd3.
Program(d) == IF d # "gxp" THEN d ELSE IF "gxpd3" \in Installed THEN "gxpd3" ELSE "gxpd"
Up(d)      == Live(Program(d))

Running(s) == pc[s] \in {"probe", "start", "sleep"}

Init ==
  /\ pc = [s \in Supervisors |-> "off"] /\ at = [s \in Supervisors |-> 1]
  /\ pidf = NoPid /\ procs = [p \in Programs |-> 0]

Goto(s, l) == pc' = [pc EXCEPT ![s] = l]

-------------------------------------------------------------------------------
(* Start-up *)

Invoke(s) ==
  /\ pc[s] = "off"
  /\ Together \/ \A r \in Supervisors : pc[r] \notin {"check", "write"}
  /\ Goto(s, "check")
  /\ UNCHANGED <<at, pidf, procs>>

\* The pid file names a live hw-bridges process: leave.
CheckBusy(s) ==
  /\ pc[s] = "check"
  /\ \E r \in Supervisors : pidf = r /\ Running(r)
  /\ Goto(s, "off")
  /\ UNCHANGED <<at, pidf, procs>>

\* Mutant: a left-over pid file is not looked at.
CheckFreeAlways(s) ==
  /\ pc[s] = "check"
  /\ Goto(s, "write")
  /\ UNCHANGED <<at, pidf, procs>>

\* No pid file, or a stale one.
CheckFree(s) ==
  /\ pc[s] = "check"
  /\ \A r \in Supervisors : pidf = r => ~Running(r)
  /\ Goto(s, "write")
  /\ UNCHANGED <<at, pidf, procs>>

WritePid(s) ==
  /\ pc[s] = "write"
  /\ pidf' = s /\ at' = [at EXCEPT ![s] = 1]
  /\ Goto(s, "probe")
  /\ UNCHANGED procs

-------------------------------------------------------------------------------
(* The loop *)

\* On to the next daemon, or to sleep.
Advance(s) ==
  IF at[s] = Len(Order)
  THEN Goto(s, "sleep") /\ UNCHANGED at
  ELSE at' = [at EXCEPT ![s] = @ + 1] /\ Goto(s, "probe")

\* Mutant: the daemon is started whether or not it runs.
WantedAlways(s) == Program(Order[at[s]]) \in Installed

Wanted(s) == LET d == Order[at[s]] IN ~Seen(d) /\ Program(d) \in Installed

\* pgrep, and whether the files are there.
Probe(s) ==
  /\ pc[s] = "probe"
  /\ IF Wanted(s) THEN Goto(s, "start") /\ UNCHANGED at ELSE Advance(s)
  /\ UNCHANGED <<pidf, procs>>

Started(d) == {Program(d)} \cup (IF d = "cfgd" THEN {"worker"} ELSE {})

Start(s) ==
  /\ pc[s] = "start"
  /\ \A p \in Started(Order[at[s]]) : procs[p] < MaxInst
  /\ procs' = [p \in Programs |-> IF p \in Started(Order[at[s]]) THEN procs[p] + 1 ELSE procs[p]]
  /\ Advance(s)
  /\ UNCHANGED pidf

\* Mutant: the next round goes on where the last one ended.
WakeHere(s) ==
  /\ pc[s] = "sleep"
  /\ Goto(s, "probe")
  /\ UNCHANGED <<at, pidf, procs>>

Wake(s) ==
  /\ pc[s] = "sleep"
  /\ at' = [at EXCEPT ![s] = 1] /\ Goto(s, "probe")
  /\ UNCHANGED <<pidf, procs>>

-------------------------------------------------------------------------------
(* Failures *)

\* A supervisor ends; its exit trap removes the pid file unless it was SIGKILL.
Stop(s) ==
  /\ Running(s)
  /\ Goto(s, "off") /\ at' = [at EXCEPT ![s] = 1]
  /\ pidf' \in {pidf, NoPid}
  /\ UNCHANGED procs

Crash(p) ==
  /\ procs[p] > 0
  /\ procs' = [procs EXCEPT ![p] = @ - 1]
  /\ UNCHANGED <<pc, at, pidf>>

Step(s) == CheckBusy(s) \/ CheckFree(s) \/ WritePid(s) \/ Probe(s) \/ Start(s) \/ Wake(s)

Next == \/ \E s \in Supervisors : Invoke(s) \/ Step(s) \/ Stop(s)
        \/ \E p \in Mortal : Crash(p)

Spec == Init /\ [][Next]_vars

\* Nothing but the scheduling of the supervisors' own steps is assumed: a daemon
\* or a supervisor need never crash, and nobody has to start a supervisor.
FairSpec == Spec /\ \A s \in Supervisors : WF_vars(Step(s))

-------------------------------------------------------------------------------
\* The variables hold values of these sets.
TypeOK ==
  /\ pc \in [Supervisors -> {"off", "check", "write", "probe", "start", "sleep"}]
  /\ at \in [Supervisors -> DOMAIN Order]
  /\ pidf \in Supervisors \cup {NoPid}
  /\ procs \in [Programs -> 0 .. MaxInst]

\* At most one supervisor looks after the daemons.
OneSupervisor == \A r, s \in Supervisors : Running(r) /\ Running(s) => r = s

\* No daemon runs twice, whatever crashes and is restarted.
OneInstance == \A p \in Programs : procs[p] <= 1

Unsupervised == \A s \in Supervisors : ~Running(s)

\* What a round of the loop achieves: a daemon whose pattern matches nothing is
\* started, unless the supervisor goes away.
UnseenIsStarted ==
  \A d \in Daemons : ~Seen(d) /\ Program(d) \in Installed ~> Seen(d) \/ Unsupervised
===============================================================================
