------------------------------ MODULE BootProofs ------------------------------
(***************************************************************************)
(* Proofs about the shell scripts of the base system: hw-bridges.sh        *)
(* (Supervisor), for any number of invocations, any list of daemons and    *)
(* any crashes; the charging window (ChargeWindow), for every set of       *)
(* levels; baseos-cfgd.sh (ConfigAgent), for any number of clients, jobs   *)
(* and agents and any kills: the answers of its mailbox and, when only the *)
(* supervisor starts agents, that no request is carried out twice and that *)
(* barrac gets the package of its own model.                               *)
(***************************************************************************)
EXTENDS Supervisor, ChargeWindow, ConfigAgent, SequenceTheorems, TLAPS

Starting(s) == pc[s] \in {"check", "write"}

\* Invocations come one after the other, the pid file is that of the supervisor, and
\* whoever has found it free may rely on that until it has written its own.
PidIsOurs ==
  /\ \A r, s \in Supervisors : Starting(r) /\ Starting(s) => r = s
  /\ \A r \in Supervisors : Running(r) => pidf = r
  /\ \A r, s \in Supervisors : pc[s] = "write" => ~Running(r)

\* A daemon a supervisor is about to start has not come up meanwhile.
StillUnseen == \A s \in Supervisors : pc[s] = "start" => ~Seen(Order[at[s]])

IInv == TypeOK /\ PidIsOurs

-------------------------------------------------------------------------------
(* Types *)

\* The list of daemons.
LEMMA Places ==
  /\ Len(Order) \in Nat \ {0} /\ DOMAIN Order = 1 .. Len(Order)
  /\ \A n \in DOMAIN Order : Order[n] \in Daemons
<1>1. Len(Order) \in Nat /\ DOMAIN Order = 1 .. Len(Order)
  BY OrderAssumption, LenProperties
<1>2. Len(Order) # 0
  BY OrderAssumption, EmptySeq
<1> QED
  BY <1>1, <1>2 DEF Daemons

\* Going on to the next daemon stays in the list.
LEMMA Advancing ==
  ASSUME TypeOK, NEW s \in Supervisors, Advance(s)
  PROVE  /\ at' \in [Supervisors -> DOMAIN Order]
         /\ \E l \in {"sleep", "probe"} : pc' = [pc EXCEPT ![s] = l]
<1> USE DEF TypeOK, Goto
<1>1. CASE at[s] = Len(Order)
  BY <1>1 DEF Advance
<1>2. CASE at[s] # Len(Order)
  <2>1. at[s] + 1 \in DOMAIN Order
    BY <1>2, Places
  <2> QED
    BY <1>2, <2>1 DEF Advance
<1> QED
  BY <1>1, <1>2

\* Types are kept by every step.
LEMMA TypeStep == TypeOK /\ [Next]_vars => TypeOK'
<1> SUFFICES ASSUME TypeOK, [Next]_vars PROVE TypeOK'
  OBVIOUS
<1> USE DEF TypeOK, Goto
<1>0. 1 \in DOMAIN Order
  BY Places
<1>1. ASSUME NEW s \in Supervisors, Invoke(s) \/ CheckBusy(s) \/ CheckFree(s) \/ WritePid(s)
      PROVE  TypeOK'
  BY <1>0, <1>1 DEF Invoke, CheckBusy, CheckFree, WritePid
<1>2. ASSUME NEW s \in Supervisors, Wake(s) \/ Stop(s) PROVE TypeOK'
  BY <1>0, <1>2 DEF Wake, Stop
<1>3. ASSUME NEW s \in Supervisors, Probe(s) PROVE TypeOK'
  BY <1>3, Advancing DEF Probe
<1>4. ASSUME NEW s \in Supervisors, Start(s) PROVE TypeOK'
  <2>1. procs' \in [Programs -> 0 .. MaxInst]
    BY <1>4, PidAssumption DEF Start
  <2> QED
    BY <1>4, <2>1, Advancing DEF Start
<1>5. ASSUME NEW p \in Mortal, Crash(p) PROVE TypeOK'
  BY <1>5, OrderAssumption, PidAssumption DEF Crash
<1>6. CASE UNCHANGED vars
  BY <1>6 DEF vars
<1> QED
  BY <1>1, <1>2, <1>3, <1>4, <1>5, <1>6 DEF Next, Step

\* The supervisors have just not been started.
LEMMA TypeInit == Init => TypeOK
BY Places, PidAssumption DEF Init, TypeOK

\* The variables of the supervisors keep their types.
THEOREM TypeCorrect == Spec => []TypeOK
BY TypeInit, TypeStep, PTL DEF Spec

-------------------------------------------------------------------------------
(* One supervisor *)

\* A step of the loop leaves the supervisor running, and the pid file alone.
LEMMA LoopStep ==
  ASSUME TypeOK, NEW s \in Supervisors, Probe(s) \/ Start(s) \/ Wake(s)
  PROVE  /\ UNCHANGED pidf /\ Running(s)
         /\ \E l \in {"probe", "start", "sleep"} : pc' = [pc EXCEPT ![s] = l]
BY Advancing DEF Probe, Start, Wake, Running, Goto

\* The pid file is kept right by every step, when invocations do not overlap.
LEMMA PidStep == ASSUME ~Together PROVE IInv /\ [Next]_vars => PidIsOurs'
<1> SUFFICES ASSUME IInv, [Next]_vars PROVE PidIsOurs'
  OBVIOUS
<1>0. TypeOK /\ PidIsOurs
  BY DEF IInv
<1> USE <1>0 DEF TypeOK, PidIsOurs, Starting, Running, Goto
<1>1. ASSUME NEW s \in Supervisors, Invoke(s) PROVE PidIsOurs'
  BY <1>1 DEF Invoke
<1>2. ASSUME NEW s \in Supervisors, CheckBusy(s) PROVE PidIsOurs'
  BY <1>2 DEF CheckBusy
<1>3. ASSUME NEW s \in Supervisors, CheckFree(s) PROVE PidIsOurs'
  BY <1>3 DEF CheckFree
<1>4. ASSUME NEW s \in Supervisors, WritePid(s) PROVE PidIsOurs'
  BY <1>4 DEF WritePid
<1>5. ASSUME NEW s \in Supervisors, Probe(s) \/ Start(s) \/ Wake(s) PROVE PidIsOurs'
  <2>1. PICK l \in {"probe", "start", "sleep"} : pc' = [pc EXCEPT ![s] = l]
    BY <1>5, LoopStep
  <2>2. UNCHANGED pidf /\ Running(s)
    BY <1>5, LoopStep
  <2> QED
    BY <2>1, <2>2
<1>6. ASSUME NEW s \in Supervisors, Stop(s) PROVE PidIsOurs'
  BY <1>6 DEF Stop
<1>7. ASSUME NEW p \in Mortal, Crash(p) PROVE PidIsOurs'
  BY <1>7 DEF Crash
<1>8. CASE UNCHANGED vars
  BY <1>8 DEF vars
<1> QED
  BY <1>1, <1>2, <1>3, <1>4, <1>5, <1>6, <1>7, <1>8 DEF Next, Step

\* The inductive invariant of the pid file.
LEMMA Invariant == ASSUME ~Together PROVE Spec => []IInv
<1>1. Init => IInv
  BY TypeInit DEF IInv, Init, PidIsOurs, Starting, Running
<1>2. IInv /\ [Next]_vars => IInv'
  BY TypeStep, PidStep DEF IInv
<1> QED
  BY <1>1, <1>2, PTL DEF Spec

\* Unless two invocations are between looking at the pid file and writing it at the
\* same time, at most one supervisor runs, however many are started and killed.
THEOREM PidFileExcludes == ASSUME ~Together PROVE Spec => []OneSupervisor
<1>1. IInv => OneSupervisor
  BY DEF IInv, PidIsOurs, OneSupervisor
<1> QED
  BY <1>1, Invariant, PTL

-------------------------------------------------------------------------------
(* One process of each daemon *)

\* What is started for a daemon is what its pgrep looks for, when gxpd3 is installed.
LEMMA StartedIsSeen ==
  ASSUME "gxpd3" \in Installed, NEW d \in Daemons
  PROVE  Started(d) \subseteq Pattern(d)
BY DEF Started, Pattern, Program

\* A daemon nobody sees has no process.
LEMMA UnseenIsDown ==
  ASSUME TypeOK, NEW d \in Daemons, ~Seen(d), NEW p \in Pattern(d), p \in Programs
  PROVE  procs[p] = 0
BY PidAssumption DEF TypeOK, Seen, Live

\* What is about to be started, and what runs, after every step.
LEMMA InstanceStep ==
  ASSUME ~Together, "gxpd3" \in Installed
  PROVE  IInv /\ OneInstance /\ StillUnseen /\ [Next]_vars => OneInstance' /\ StillUnseen'
<1> SUFFICES ASSUME IInv, OneInstance, StillUnseen, [Next]_vars
             PROVE  OneInstance' /\ StillUnseen'
  OBVIOUS
<1>0. TypeOK /\ PidIsOurs
  BY DEF IInv
<1> USE DEF Goto
<1>1. ASSUME NEW s \in Supervisors,
             Invoke(s) \/ CheckBusy(s) \/ CheckFree(s) \/ WritePid(s) \/ Wake(s) \/ Stop(s)
      PROVE  OneInstance' /\ StillUnseen'
  <2>1. /\ UNCHANGED procs /\ pc'[s] # "start"
        /\ \A r \in Supervisors : r # s => pc'[r] = pc[r] /\ at'[r] = at[r]
    BY <1>0, <1>1 DEF Invoke, CheckBusy, CheckFree, WritePid, Wake, Stop, TypeOK
  <2> QED
    BY <2>1 DEF OneInstance, StillUnseen, Seen, Live
<1>2. ASSUME NEW s \in Supervisors, Probe(s) PROVE OneInstance' /\ StillUnseen'
  <2>1. UNCHANGED procs /\ \A r \in Supervisors : r # s => pc'[r] = pc[r] /\ at'[r] = at[r]
    BY <1>0, <1>2 DEF Probe, Advance, TypeOK
  <2>2. pc'[s] = "start" => Wanted(s) /\ at'[s] = at[s]
    BY <1>0, <1>2 DEF Probe, Advance, TypeOK
  <2> QED
    BY <2>1, <2>2 DEF OneInstance, StillUnseen, Seen, Live, Wanted
<1>3. ASSUME NEW s \in Supervisors, Start(s) PROVE OneInstance' /\ StillUnseen'
  <2> DEFINE d == Order[at[s]]
  <2>1. d \in Daemons /\ ~Seen(d)
    BY <1>0, <1>3, Places DEF Start, StillUnseen, TypeOK
  <2>2. \A p \in Started(d) : p \in Programs => procs[p] = 0
    BY <1>0, <2>1, StartedIsSeen, UnseenIsDown
  <2>3. procs' = [p \in Programs |-> IF p \in Started(d) THEN procs[p] + 1 ELSE procs[p]]
    BY <1>3 DEF Start
  <2>4. OneInstance'
    BY <2>2, <2>3 DEF OneInstance
  <2>5. Running(s) /\ \A r \in Supervisors : Running(r) => r = s
    BY <1>0, <1>3 DEF Start, Running, PidIsOurs
  <2>6. pc'[s] # "start" /\ \A r \in Supervisors : r # s => pc'[r] = pc[r]
    BY <1>0, <1>3 DEF Start, Advance, TypeOK
  <2> QED
    BY <2>4, <2>5, <2>6 DEF StillUnseen, Running
<1>4. ASSUME NEW p \in Mortal, Crash(p) PROVE OneInstance' /\ StillUnseen'
  <2>1. procs' = [procs EXCEPT ![p] = @ - 1] /\ UNCHANGED <<pc, at>> /\ p \in Programs
    BY <1>4, OrderAssumption DEF Crash
  <2>2. DOMAIN procs' = DOMAIN procs /\ \A q \in Programs : procs'[q] <= procs[q] /\ procs'[q] \in Int
    BY <1>0, <2>1, PidAssumption DEF TypeOK
  <2>3. OneInstance'
    BY <1>0, <2>2, PidAssumption DEF OneInstance, TypeOK
  <2>4. \A d \in Daemons : ~Seen(d) => ~Seen(d)'
    BY <1>0, <2>2, PidAssumption DEF Seen, Live, TypeOK
  <2>5. \A s \in Supervisors : Order[at[s]] \in Daemons
    BY <1>0, Places DEF TypeOK
  <2> QED
    BY <2>1, <2>3, <2>4, <2>5 DEF StillUnseen
<1>5. CASE UNCHANGED vars
  BY <1>5 DEF vars, OneInstance, StillUnseen, Seen, Live
<1> QED
  BY <1>1, <1>2, <1>3, <1>4, <1>5 DEF Next, Step

\* With gxpd3 installed (its fallback matches no pattern) and one supervisor at a time no
\* daemon is ever started beside itself, although looking and starting are two steps.
THEOREM NeverTwice ==
  ASSUME ~Together, "gxpd3" \in Installed
  PROVE  Spec => []OneInstance
<1>1. Init => OneInstance /\ StillUnseen
  BY DEF Init, OneInstance, StillUnseen
<1> QED
  BY <1>1, InstanceStep, Invariant, PTL DEF Spec

-------------------------------------------------------------------------------
(* The charging window *)

\* While the script runs no request is served, it works on what the store says,
\* and of the two ends it has written the one it chose to write first.
Booting ==
  boot # "done" =>
    /\ phase = "idle"
    /\ boot # "read" => goal = Effective(store)
    /\ boot = "start" => sys.stop = goal.stop
    /\ boot = "stop" => sys.start = goal.start

\* What a request in progress has done to the files so far.
Charging ==
  /\ was.start < was.stop
  /\ phase # "idle" => asked.start < asked.stop
  /\ phase \in {"store start", "store stop", "set start"} => sys = was
  /\ phase = "set stop" => sys = Written(was, "start", asked.start)

ChargeInv == ChargeTypeOK /\ Booting /\ Charging /\ StopApplied

-------------------------------------------------------------------------------
\* The window the script sets is one, whatever is in the store.
LEMMA EffectiveWindow ==
  ASSUME store \in [start : Levels \cup {Missing}, stop : Levels \cup {Missing}]
  PROVE  Effective(store) \in Windows /\ Effective(store).start < Effective(store).stop
<1> DEFINE a == OrDefault(store.start, 40, 90, 60)
           b == OrDefault(store.stop, 45, 100, 65)
<1>1. a \in Levels /\ b \in Levels
  BY LevelsAssumption DEF OrDefault
<1>2. Effective(store) = IF a < b THEN [start |-> a, stop |-> b] ELSE Default
  BY DEF Effective
<1> QED
  BY <1>1, <1>2, LevelsAssumption DEF Windows, Default

\* The driver never ends up with an empty window.
LEMMA WrittenWindow ==
  ASSUME NEW w \in Windows, w.start < w.stop, NEW v \in Levels, NEW f \in {"start", "stop"}
  PROVE  /\ Written(w, f, v) \in Windows
         /\ Written(w, f, v).start < Written(w, f, v).stop
<1> QED
  BY DEF Written, Windows

\* A window of the defaults and a full one are windows.
LEMMA KnownWindows == /\ Default \in Windows /\ Full \in Windows
                      /\ Full.start < Full.stop /\ Default.start < Default.stop
<1> QED
  BY LevelsAssumption DEF Default, Full, Windows

LEMMA ChargeInitInv == ChargeInit => ChargeInv
<1> QED
  BY KnownWindows DEF ChargeInit, ChargeInv, ChargeTypeOK, Booting, Charging, StopApplied, Default, Full

\* Every step keeps the types; requests and the script may overlap.
LEMMA ChargeTypeStep == ChargeTypeOK /\ [ChargeNext]_chargeVars => ChargeTypeOK'
<1> SUFFICES ASSUME ChargeTypeOK, [ChargeNext]_chargeVars PROVE ChargeTypeOK'
  OBVIOUS
<1> USE DEF ChargeTypeOK
<1>1. CASE BootRead
  BY <1>1, EffectiveWindow DEF BootRead
<1>2. CASE BootFirst
  <2>1. goal.start \in Levels /\ goal.stop \in Levels
    BY DEF Windows
  <2>2. /\ Written(sys, "stop", goal.stop) \in Windows
        /\ Written(sys, "stop", goal.stop).start < Written(sys, "stop", goal.stop).stop
    BY <2>1, WrittenWindow
  <2>3. /\ Written(sys, "start", goal.start) \in Windows
        /\ Written(sys, "start", goal.start).start < Written(sys, "start", goal.start).stop
    BY <2>1, WrittenWindow
  <2> QED
    BY <1>2, <2>2, <2>3 DEF BootFirst
<1>3. CASE BootSecond
  <2>1. goal[boot] \in Levels /\ boot \in {"start", "stop"}
    BY <1>3 DEF BootSecond, Windows
  <2> QED
    BY <1>3, <2>1, WrittenWindow DEF BootSecond
<1>4. CASE Rerun
  BY <1>4 DEF Rerun
<1>5. ASSUME NEW w \in Windows, Request(w) PROVE ChargeTypeOK'
  BY <1>5 DEF Request
<1>6. CASE Store
  BY <1>6 DEF Store, Windows
<1>7. CASE Set
  <2>1. asked.start \in Levels /\ asked.stop \in Levels
    BY DEF Windows
  <2>2. /\ Written(sys, "stop", asked.stop) \in Windows
        /\ Written(sys, "stop", asked.stop).start < Written(sys, "stop", asked.stop).stop
    BY <2>1, WrittenWindow
  <2>3. /\ Written(sys, "start", asked.start) \in Windows
        /\ Written(sys, "start", asked.start).start < Written(sys, "start", asked.start).stop
    BY <2>1, WrittenWindow
  <2> QED
    BY <1>7, <2>2, <2>3 DEF Set
<1>8. CASE Reply
  BY <1>8 DEF Reply
<1>9. CASE Reboot
  BY <1>9, KnownWindows DEF Reboot
<1>10. CASE UNCHANGED chargeVars
  BY <1>10 DEF chargeVars
<1> QED
  BY <1>1, <1>2, <1>3, <1>4, <1>5, <1>6, <1>7, <1>8, <1>9, <1>10 DEF ChargeNext

\* Variables of the charging window keep their types, the driver's window is
\* never empty.
THEOREM ChargeTypeCorrect == ChargeSpec => []ChargeTypeOK
<1>1. ChargeInit => ChargeTypeOK
  BY ChargeInitInv DEF ChargeInv
<1> QED
  BY <1>1, ChargeTypeStep, PTL DEF ChargeSpec

-------------------------------------------------------------------------------
\* Writing the ends in the order the script chooses, the driver takes both: the
\* second write leaves the window the script wants.
LEMMA BothTaken ==
  ASSUME ChargeInv, BootSecond
  PROVE  sys' = Effective(store)
<1>1. goal = Effective(store) /\ goal \in Windows /\ goal.start < goal.stop
  BY EffectiveWindow DEF ChargeInv, Booting, ChargeTypeOK, BootSecond
<1>2. sys \in Windows /\ sys.start < sys.stop
  BY DEF ChargeInv, ChargeTypeOK
<1>3. CASE boot = "start"
  <2>1. sys' = Written(sys, "start", goal.start) /\ sys.stop = goal.stop
    BY <1>3 DEF BootSecond, ChargeInv, Booting
  <2> QED
    BY <1>1, <1>2, <2>1 DEF Written, Windows
<1>4. CASE boot = "stop"
  <2>1. sys' = Written(sys, "stop", goal.stop) /\ sys.start = goal.start
    BY <1>4 DEF BootSecond, ChargeInv, Booting
  <2> QED
    BY <1>1, <1>2, <2>1 DEF Written, Windows
<1> QED
  BY <1>3, <1>4 DEF BootSecond

\* The end the script writes first is always taken.
LEMMA FirstTaken ==
  ASSUME ChargeInv, BootFirst
  PROVE  /\ boot' \in {"start", "stop"}
         /\ boot' = "start" => sys'.stop = goal.stop
         /\ boot' = "stop" => sys'.start = goal.start
<1>1. goal = Effective(store) /\ goal \in Windows /\ goal.start < goal.stop
  BY EffectiveWindow DEF ChargeInv, Booting, ChargeTypeOK, BootFirst
<1>2. sys \in Windows /\ sys.start < sys.stop
  BY DEF ChargeInv, ChargeTypeOK
<1>3. /\ goal.start \in Nat /\ goal.stop \in Nat
      /\ sys.start \in Nat /\ sys.stop \in Nat
  BY <1>1, <1>2, LevelsAssumption DEF Windows
<1>4. CASE StopFirst(goal)
  BY <1>1, <1>2, <1>3, <1>4 DEF BootFirst, StopFirst, Written, Windows
<1>5. CASE ~StopFirst(goal)
  BY <1>1, <1>2, <1>3, <1>5 DEF BootFirst, StopFirst, Written, Windows
<1> QED
  BY <1>4, <1>5

\* A window that starts at or above the end of another ends above its start.
LEMMA Beyond ==
  ASSUME NEW a \in Nat, NEW b \in Nat, NEW c \in Nat, NEW d \in Nat, a < b, c < d, ~(c < b)
  PROVE  a < d
<1> QED
  OBVIOUS

\* After the second write of a request the upper end is the requested one.
LEMMA RequestTaken ==
  ASSUME ChargeInv, phase = "set stop", Set
  PROVE  StopApplied'
<1>1. sys = Written(was, "start", asked.start) /\ sys' = Written(sys, "stop", asked.stop)
  BY DEF ChargeInv, Charging, Set
<1>2. /\ was \in Windows /\ was.start < was.stop
      /\ asked \in Windows /\ asked.start < asked.stop
      /\ asked' = asked /\ was' = was
  BY DEF ChargeInv, Charging, ChargeTypeOK, Set
<1>3. /\ was.start \in Nat /\ was.stop \in Nat
      /\ asked.start \in Nat /\ asked.stop \in Nat
  BY <1>2, LevelsAssumption DEF Windows
<1>4. CASE asked.start < was.stop
  <2>1. sys = [was EXCEPT !.start = asked.start]
    BY <1>1, <1>2, <1>4 DEF Written, Windows
  <2>2. sys' = [sys EXCEPT !.stop = asked.stop]
    BY <1>1, <1>2, <2>1 DEF Written, Windows
  <2> QED
    BY <1>2, <2>1, <2>2 DEF StopApplied, Windows
<1>5. CASE ~(asked.start < was.stop)
  <2>1. sys = was
    BY <1>1, <1>2, <1>5 DEF Written, Windows
  <2>2. sys' = [was EXCEPT !.stop = asked.stop]
    <3>1. was.start < asked.stop
      BY <1>2, <1>3, <1>5, Beyond
    <3>2. [was EXCEPT !.stop = asked.stop].start = was.start /\ [was EXCEPT !.stop = asked.stop].stop = asked.stop
      BY <1>2 DEF Windows
    <3>3. sys' = IF [was EXCEPT !.stop = asked.stop].start < [was EXCEPT !.stop = asked.stop].stop
                 THEN [was EXCEPT !.stop = asked.stop] ELSE was
      BY <1>1, <2>1 DEF Written
    <3> QED
      BY <3>1, <3>2, <3>3
  <2> QED
    BY <1>2, <1>5, <2>2 DEF StopApplied, Windows
<1> QED
  BY <1>4, <1>5

\* Without requests during the script the invariant is inductive.
LEMMA ChargeInvStep == ASSUME ~Overlap PROVE ChargeInv /\ [ChargeNext]_chargeVars => ChargeInv'
<1> SUFFICES ASSUME ChargeInv, [ChargeNext]_chargeVars PROVE ChargeInv'
  OBVIOUS
<1>1. ChargeTypeOK'
  BY ChargeTypeStep DEF ChargeInv
<1> USE DEF ChargeInv, Booting, Charging, StopApplied
<1>2. CASE BootRead
  BY <1>1, <1>2 DEF BootRead
<1>3. CASE BootFirst
  BY <1>1, <1>3, FirstTaken DEF BootFirst
<1>4. CASE BootSecond
  BY <1>1, <1>4 DEF BootSecond
<1>5. CASE Rerun
  BY <1>1, <1>5 DEF Rerun
<1>6. ASSUME NEW w \in Windows, Request(w) PROVE ChargeInv'
  BY <1>1, <1>6 DEF Request, Acceptable, ChargeTypeOK
<1>7. CASE Store
  BY <1>1, <1>7 DEF Store
<1>8. CASE Set
  <2>1. CASE phase = "set start"
    BY <1>1, <1>8, <2>1 DEF Set
  <2>2. CASE phase = "set stop"
    BY <1>1, <1>8, <2>2, RequestTaken DEF Set
  <2> QED
    BY <1>8, <2>1, <2>2 DEF Set
<1>9. CASE Reply
  BY <1>1, <1>9 DEF Reply
<1>10. CASE Reboot
  BY <1>1, <1>10 DEF Reboot
<1>11. CASE UNCHANGED chargeVars
  BY <1>1, <1>11 DEF chargeVars
<1> QED
  BY <1>2, <1>3, <1>4, <1>5, <1>6, <1>7, <1>8, <1>9, <1>10, <1>11 DEF ChargeNext

\* When no request is served while it runs, charge-limit.sh always leaves exactly
\* the window the store stands for, whatever was set before and wherever power failed.
THEOREM ScriptRestores == ASSUME ~Overlap PROVE ChargeSpec => BootRestores
<1>1. ChargeInv /\ [ChargeNext]_chargeVars => [boot # "done" /\ boot' = "done" => sys' = Effective(store)]_chargeVars
  <2> SUFFICES ASSUME ChargeInv, [ChargeNext]_chargeVars, boot # "done", boot' = "done"
               PROVE  sys' = Effective(store)
    OBVIOUS
  <2>1. CASE BootSecond
    BY <2>1, BothTaken
  <2>2. CASE ~BootSecond
    BY <2>2 DEF ChargeNext, BootRead, BootFirst, Rerun, Request, Store, Set, Reply, Reboot, chargeVars
  <2> QED
    BY <2>1, <2>2
<1> QED
  BY <1>1, ChargeInitInv, ChargeInvStep, PTL DEF ChargeSpec, BootRestores

\* A request that is answered has set the upper end, and the lower one unless the
\* window moved up past the old upper end.
THEOREM RequestsApply == ASSUME ~Overlap PROVE ChargeSpec => []StopApplied
<1>1. ChargeInv => StopApplied
  BY DEF ChargeInv
<1> QED
  BY <1>1, ChargeInitInv, ChargeInvStep, PTL DEF ChargeSpec

-------------------------------------------------------------------------------
(* ConfigAgent *)

\* Nobody but a client that is alone has anything in the mailbox.
MailOf(c) ==
  /\ \A x \in Clients \ {c} : ~Waiting(x)
  /\ req \in {None, Empty, c} /\ resp \in {None, Empty, Error, c}
  /\ \A a \in Agents : Serving(a) => line[a] \in {Empty, c}
  /\ client[c] = "cat" => got[c] \in {Empty, Error, c}

Mailbox == \A c \in Clients : Waiting(c) /\ alone[c] => MailOf(c)

\* One process has the agent's name, its worker included.
Single == \A a, b \in Agents : Alive(a) /\ Alive(b) => a = b

\* What is left to be done with a request: it is in the mailbox or in the hands of an
\* agent that has not carried it out, and not in both once it has been taken out.
Pending ==
  \A c \in Clients :
    /\ client[c] \in {"new", "create", "write"} =>
         handled[c] = 0 /\ req # c /\ \A a \in Agents : Serving(a) => line[a] # c
    /\ req = c => handled[c] = 0
    /\ \A a \in Agents : line[a] = c =>
         /\ agent[a] \in {"take", "exec"} => handled[c] = 0
         /\ agent[a] \in {"exec", "open", "answer"} => req # c
    /\ handled[c] <= 1

\* A job that is in the queue has not been answered; its package, if any, and the one
\* it is answered with are made from its own model.
JobOK(j) ==
  /\ package[j] \in {None, j}
  /\ done[j] = "ok" => package[j] = j
  /\ j \in jreq => done[j] = None /\ barrac[j] # "new"
  /\ barrac[j] = "new" => done[j] = None
  /\ barrac[j] = "success" => result[j] = j

\* The worker's job was asked for and is answered last; out.package is made from its model.
WorkOK(a) ==
  /\ \A j \in left[a] : barrac[j] # "new"
  /\ worker[a] \notin {"off", "round", "scan"} => job[a] \in Jobs /\ barrac[job[a]] # "new"
  /\ worker[a] \in {"remove", "clean", "compile", "test", "move", "ok"} => done[job[a]] = None
  /\ worker[a] \in {"clean", "compile", "test", "move", "ok", "error", "say ok", "say error"} =>
       job[a] \notin jreq
  /\ worker[a] \in {"compile", "test"} => outp \in {None, job[a]}
  /\ worker[a] = "move" => outp = job[a]
  /\ worker[a] = "ok" => package[job[a]] = job[a]
  /\ worker[a] = "say ok" =>
       /\ done[job[a]] \in {None, Empty}
       /\ done[job[a]] = Empty => package[job[a]] = job[a]

Jobwise == (\A j \in Jobs : JobOK(j)) /\ (\A a \in Agents : WorkOK(a))

-------------------------------------------------------------------------------
(* Types *)

\* What no step of somebody else changes keeps its types.
LEMMA Untouched ==
  /\ MailboxTypes /\ UNCHANGED mailbox => MailboxTypes'
  /\ AgentTypes /\ UNCHANGED agents => AgentTypes'
  /\ QueueTypes /\ UNCHANGED queue => QueueTypes'
<1>1. MailboxTypes /\ UNCHANGED mailbox => MailboxTypes'
  BY DEF MailboxTypes, mailbox
<1>2. AgentTypes /\ UNCHANGED agents => AgentTypes'
  BY DEF AgentTypes, agents
<1>3. QueueTypes /\ UNCHANGED queue => QueueTypes'
  BY DEF QueueTypes, queue
<1> QED
  BY <1>1, <1>2, <1>3

\* A client's steps.
LEMMA ClientTypes ==
  ASSUME AgentTypeOK, NEW c \in Clients, MailClient(c) \/ GiveUp(c)
  PROVE  AgentTypeOK'
<1>1. UNCHANGED <<agents, queue, kills>>
  BY DEF MailClient, ClearResp, CreateReq, WriteReq, ReadResp, RemoveResp, GiveUp
<1>2. MailboxTypes'
  <2> USE DEF MailboxTypes, AgentTypeOK, Client
  <2>1. CASE ClearResp(c)
    BY <2>1 DEF ClearResp, SomethingElse, Waiting
  <2>2. CASE CreateReq(c) \/ WriteReq(c)
    BY <2>2 DEF CreateReq, WriteReq
  <2>3. CASE ReadResp(c) \/ RemoveResp(c) \/ GiveUp(c)
    BY <2>3 DEF ReadResp, RemoveResp, GiveUp
  <2> QED
    BY <2>1, <2>2, <2>3 DEF MailClient
<1> QED
  BY <1>1, <1>2, Untouched DEF AgentTypeOK

\* What an agent does to the mailbox.
LEMMA AgentMail ==
  ASSUME AgentTypeOK, NEW a \in Agents, AgentStep(a) \/ KillAgent(a)
  PROVE  MailboxTypes'
<1> USE DEF AgentTypeOK, MailboxTypes, AgentTypes, mailbox
<1>1. CASE Singleton(a) \/ WriteAgentPid(a) \/ Head1(a)
  BY <1>1 DEF Singleton, WriteAgentPid, Head1
<1>2. CASE Take(a) \/ OpenResp(a) \/ KillAgent(a)
  BY <1>2 DEF Take, OpenResp, KillAgent
<1>3. CASE Exec(a)
  BY <1>3 DEF Exec
<1>4. CASE Answer(a)
  BY <1>4 DEF Answer
<1> QED
  BY <1>1, <1>2, <1>3, <1>4 DEF AgentStep

\* An agent's steps.
LEMMA AgentStepTypes ==
  ASSUME AgentTypeOK, NEW a \in Agents, StartAgent(a) \/ AgentStep(a) \/ KillAgent(a)
  PROVE  AgentTypeOK'
<1>1. MailboxTypes'
  BY AgentMail, Untouched DEF StartAgent, AgentTypeOK
<1>2. AgentTypes'
  <2> USE DEF AgentTypeOK, AgentTypes, Agent
  <2>1. CASE StartAgent(a) \/ Singleton(a) \/ WriteAgentPid(a)
    BY <2>1 DEF StartAgent, Singleton, WriteAgentPid
  <2>2. CASE Head1(a) \/ Take(a)
    BY <2>2 DEF Head1, Take, MailboxTypes
  <2>3. CASE Exec(a) \/ OpenResp(a)
    BY <2>3 DEF Exec, OpenResp
  <2>4. CASE Answer(a) \/ KillAgent(a)
    BY <2>4 DEF Answer, KillAgent
  <2> QED
    BY <2>1, <2>2, <2>3, <2>4 DEF AgentStep
<1>3. QueueTypes'
  <2>1. CASE WriteAgentPid(a)
    BY <2>1 DEF WriteAgentPid, Worker, QueueTypes, AgentTypeOK
  <2>2. CASE ~WriteAgentPid(a)
    <3>1. UNCHANGED queue
      BY <2>2 DEF StartAgent, AgentStep, KillAgent, Singleton, Head1, Take, Exec, OpenResp, Answer
    <3> QED
      BY <3>1, Untouched DEF AgentTypeOK
  <2> QED
    BY <2>1, <2>2
<1>4. kills' \in 0..MaxKill
  BY DistinctAssumption DEF AgentTypeOK, StartAgent, AgentStep, KillAgent, Singleton, WriteAgentPid, Head1, Take,
     Exec, OpenResp, Answer
<1> QED
  BY <1>1, <1>2, <1>3, <1>4 DEF AgentTypeOK

\* A worker's steps.
LEMMA WorkerTypes ==
  ASSUME AgentTypeOK, NEW a \in Agents, WorkerStep(a) \/ KillWorker(a)
  PROVE  AgentTypeOK'
<1>1. UNCHANGED <<mailbox, agents>>
  BY DEF WorkerStep, KillWorker, Round, EndRound, Look, TakeJob, Clean, Compile, Test, Move,
     OpenDone, WriteDone, EndOrphan
<1>2. QueueTypes'
  <2> USE DEF AgentTypeOK, QueueTypes, Worker
  <2>1. CASE Round(a) \/ EndRound(a) \/ TakeJob(a) \/ Clean(a)
    BY <2>1 DEF Round, EndRound, TakeJob, Clean
  <2>2. CASE Compile(a) \/ Test(a) \/ EndOrphan(a)
    BY <2>2 DEF Compile, Test, EndOrphan
  <2>3. CASE Move(a)
    BY <2>3 DEF Move
  <2>4. CASE OpenDone(a)
    BY <2>4 DEF OpenDone
  <2>5. CASE WriteDone(a)
    BY <2>5 DEF WriteDone
  <2>6. CASE KillWorker(a)
    BY <2>6 DEF KillWorker
  <2>7. ASSUME NEW j \in Jobs, Look(a, j) PROVE QueueTypes'
    BY <2>7 DEF Look
  <2> QED
    BY <2>1, <2>2, <2>3, <2>4, <2>5, <2>6, <2>7 DEF WorkerStep
<1>3. kills' \in 0..MaxKill
  <2>1. CASE WorkerStep(a)
    <3>1. UNCHANGED kills
      BY <2>1 DEF WorkerStep, Round, EndRound, Look, TakeJob, Clean, Compile, Test, Move, OpenDone,
         WriteDone, EndOrphan
    <3> QED
      BY <3>1 DEF AgentTypeOK
  <2>2. CASE KillWorker(a)
    BY <2>2, DistinctAssumption DEF AgentTypeOK, KillWorker
  <2> QED
    BY <2>1, <2>2
<1> QED
  BY <1>1, <1>2, <1>3, Untouched DEF AgentTypeOK

\* The steps of a barrac.
LEMMA BarracTypes ==
  ASSUME AgentTypeOK, NEW j \in Jobs, Submit(j) \/ Fetch(j) \/ Refused(j) \/ TimeOut(j)
  PROVE  AgentTypeOK'
<1>1. UNCHANGED <<mailbox, agents, kills>>
  BY DEF Submit, Fetch, Refused, TimeOut
<1>2. QueueTypes'
  <2> USE DEF AgentTypeOK, QueueTypes, Barrac
  <2>1. CASE Submit(j)
    BY <2>1 DEF Submit
  <2>2. CASE TimeOut(j)
    BY <2>2 DEF TimeOut
  <2>3. CASE Fetch(j)
    BY <2>3 DEF Fetch
  <2>4. CASE Refused(j)
    BY <2>4 DEF Refused
  <2> QED
    BY <2>1, <2>2, <2>3, <2>4
<1> QED
  BY <1>1, <1>2, Untouched DEF AgentTypeOK

\* Who takes a step.
LEMMA Steps ==
  ASSUME AgentNext
  PROVE  \/ \E c \in Clients : MailClient(c) \/ GiveUp(c)
         \/ \E a \in Agents : StartAgent(a) \/ AgentStep(a) \/ KillAgent(a)
         \/ \E a \in Agents : WorkerStep(a) \/ KillWorker(a)
         \/ \E j \in Jobs : Submit(j) \/ Fetch(j) \/ Refused(j) \/ TimeOut(j)
BY DEF AgentNext

\* Types are kept by every step.
LEMMA AgentTypeStep == AgentTypeOK /\ [AgentNext]_agentVars => AgentTypeOK'
<1>1. AgentTypeOK /\ UNCHANGED agentVars => AgentTypeOK'
  BY Untouched DEF AgentTypeOK, agentVars
<1> QED
  BY <1>1, Steps, ClientTypes, AgentStepTypes, WorkerTypes, BarracTypes

\* Nobody has done anything yet.
LEMMA AgentTypeInit == AgentInit => AgentTypeOK
BY DistinctAssumption DEF AgentInit, AgentTypeOK, MailboxTypes, AgentTypes, QueueTypes

\* The variables of the agent and its clients keep their types.
THEOREM AgentTypeCorrect == AgentSpec => []AgentTypeOK
BY AgentTypeInit, AgentTypeStep, PTL DEF AgentSpec

-------------------------------------------------------------------------------
(* The answers of the mailbox *)

MailInv == AgentTypeOK /\ Mailbox /\ OwnAnswer

\* The client that begins to wait alone finds the mailbox empty; it ends the solitude
\* of whoever waits.
LEMMA FirstLook ==
  ASSUME MailInv, NEW c \in Clients, ClearResp(c)
  PROVE  Mailbox' /\ OwnAnswer'
<1>0. AgentTypeOK /\ Mailbox /\ OwnAnswer
  BY DEF MailInv
<1>1. /\ client' = [client EXCEPT ![c] = "create"] /\ client[c] = "new"
      /\ \A x \in Clients : alone'[x] = IF x = c THEN ~SomethingElse(c) ELSE alone[x] /\ ~Waiting(x)
      /\ resp' = None /\ UNCHANGED <<got, req, agent, line>>
  BY DEF ClearResp, Client, agents
<1>2. \A x \in Clients : x # c => client'[x] = client[x]
  BY <1>0, <1>1 DEF AgentTypeOK, MailboxTypes
<1>3. client'[c] = "create"
  BY <1>0, <1>1 DEF AgentTypeOK, MailboxTypes
<1>4. ASSUME NEW x \in Clients, Waiting(x)', alone'[x] PROVE MailOf(x)'
  <2>1. x = c
    BY <1>1, <1>2, <1>4 DEF Waiting
  <2>2. ~SomethingElse(c)
    BY <1>1, <1>4, <2>1
  <2>3. \A y \in Clients \ {c} : ~Waiting(y)'
    BY <1>2, <2>2 DEF SomethingElse, Waiting
  <2> QED
    BY <1>1, <1>3, <2>1, <2>2, <2>3 DEF MailOf, SomethingElse, Serving
<1>5. OwnAnswer'
  BY <1>0, <1>1, <1>2, <1>3 DEF OwnAnswer
<1> QED
  BY <1>4, <1>5 DEF Mailbox

\* A client that waits goes on.
LEMMA WaitingSteps ==
  ASSUME MailInv, NEW c \in Clients, Waiting(c), NEW l, client' = [client EXCEPT ![c] = l],
         UNCHANGED <<alone, agent, line>>,
         \A x \in Clients : x # c => got'[x] = got[x],
         alone[c] => /\ req' \in {None, Empty, c} /\ resp' \in {None, Empty, Error, c}
                     /\ l \in {"cat", "answered"} => got'[c] \in {Empty, Error, c}
  PROVE  Mailbox' /\ OwnAnswer'
<1>0. AgentTypeOK /\ Mailbox /\ OwnAnswer
  BY DEF MailInv
<1>1. client'[c] = l /\ \A x \in Clients : x # c => client'[x] = client[x]
  BY <1>0 DEF AgentTypeOK, MailboxTypes
<1>2. ASSUME NEW x \in Clients, Waiting(x)', alone'[x] PROVE MailOf(x)'
  <2>1. Waiting(x) /\ alone[x]
    BY <1>1, <1>2 DEF Waiting
  <2>2. x = c
    BY <1>0, <2>1 DEF Mailbox, MailOf
  <2>3. MailOf(c)
    BY <1>0, <2>1, <2>2 DEF Mailbox
  <2>4. \A y \in Clients \ {c} : ~Waiting(y)'
    BY <1>1, <2>3 DEF MailOf, Waiting
  <2> QED
    BY <1>1, <2>1, <2>2, <2>3, <2>4 DEF MailOf, Serving
<1>3. OwnAnswer'
  BY <1>0, <1>1 DEF OwnAnswer
<1> QED
  BY <1>2, <1>3 DEF Mailbox

\* Every step of a client leaves the answers in order.
LEMMA ClientMail ==
  ASSUME MailInv, NEW c \in Clients, MailClient(c) \/ GiveUp(c)
  PROVE  Mailbox' /\ OwnAnswer'
<1>0. AgentTypeOK /\ Mailbox /\ (Waiting(c) /\ alone[c] => MailOf(c))
  BY DEF MailInv, Mailbox
<1> USE DEF MailOf, Waiting, Client, agents
<1>1. CASE CreateReq(c)
  BY <1>0, <1>1, WaitingSteps DEF CreateReq
<1>2. CASE WriteReq(c)
  BY <1>0, <1>2, WaitingSteps DEF WriteReq
<1>3. CASE ReadResp(c)
  <2>1. got'[c] = resp /\ resp # None /\ \A x \in Clients : x # c => got'[x] = got[x]
    BY <1>0, <1>3 DEF ReadResp, AgentTypeOK, MailboxTypes
  <2> QED
    BY <1>0, <1>3, <2>1, WaitingSteps DEF ReadResp
<1>4. CASE RemoveResp(c)
  BY <1>0, <1>4, WaitingSteps DEF RemoveResp
<1>5. CASE GiveUp(c)
  BY <1>0, <1>5, WaitingSteps DEF GiveUp
<1> QED
  BY <1>1, <1>2, <1>3, <1>4, <1>5, FirstLook DEF MailClient

\* An agent serves the line of the client that is alone, or an empty one.
LEMMA AgentMailStep ==
  ASSUME MailInv, NEW a \in Agents, StartAgent(a) \/ AgentStep(a) \/ KillAgent(a)
  PROVE  Mailbox' /\ OwnAnswer'
<1>0. AgentTypeOK /\ Mailbox /\ OwnAnswer
  BY DEF MailInv
<1>1. UNCHANGED <<client, got, alone>>
  BY DEF StartAgent, AgentStep, KillAgent, Singleton, WriteAgentPid, Head1, Take, Exec, OpenResp, Answer, mailbox
<1>2. ASSUME NEW c \in Clients, MailOf(c) PROVE MailOf(c)'
  <2> USE DEF MailOf, Waiting, Serving, Agent, mailbox, agents
  <2>1. \A x \in Agents : x # a => agent'[x] = agent[x] /\ line'[x] = line[x]
    BY <1>0 DEF AgentTypeOK, AgentTypes, StartAgent, AgentStep, KillAgent, Singleton, WriteAgentPid, Head1, Take, Exec, OpenResp, Answer
  <2>2. CASE StartAgent(a) \/ Singleton(a) \/ WriteAgentPid(a)
    BY <1>0, <1>1, <1>2, <2>1, <2>2 DEF StartAgent, Singleton, WriteAgentPid, AgentTypeOK, AgentTypes
  <2>3. CASE Head1(a)
    BY <1>0, <1>1, <1>2, <2>1, <2>3 DEF Head1, AgentTypeOK, AgentTypes
  <2>4. CASE Take(a) \/ Exec(a) \/ OpenResp(a)
    BY <1>0, <1>1, <1>2, <2>1, <2>4 DEF Take, Exec, OpenResp, AgentTypeOK, AgentTypes
  <2>5. CASE Answer(a)
    BY <1>0, <1>1, <1>2, <2>1, <2>5 DEF Answer, AgentTypeOK, AgentTypes
  <2>6. CASE KillAgent(a)
    BY <1>0, <1>1, <1>2, <2>1, <2>6 DEF KillAgent, AgentTypeOK, AgentTypes
  <2> QED
    BY <2>2, <2>3, <2>4, <2>5, <2>6 DEF AgentStep
<1>3. Mailbox'
  BY <1>0, <1>1, <1>2 DEF Mailbox, Waiting
<1>4. OwnAnswer'
  BY <1>0, <1>1 DEF OwnAnswer
<1> QED
  BY <1>3, <1>4

\* The compile queue and the mailbox have nothing to do with each other.
LEMMA QueueApart ==
  ASSUME \/ \E a \in Agents : WorkerStep(a) \/ KillWorker(a)
         \/ \E j \in Jobs : Submit(j) \/ Fetch(j) \/ Refused(j) \/ TimeOut(j)
  PROVE  UNCHANGED <<mailbox, agents>>
<1>1. ASSUME NEW a \in Agents, WorkerStep(a) \/ KillWorker(a) PROVE UNCHANGED <<mailbox, agents>>
  BY <1>1 DEF WorkerStep, KillWorker, Round, EndRound, Look, TakeJob, Clean, Compile, Test, Move,
     OpenDone, WriteDone, EndOrphan
<1>2. ASSUME NEW j \in Jobs, Submit(j) \/ Fetch(j) \/ Refused(j) \/ TimeOut(j)
      PROVE UNCHANGED <<mailbox, agents>>
  BY <1>2 DEF Submit, Fetch, Refused, TimeOut
<1> QED
  BY <1>1, <1>2

\* The invariant of the answers is kept.
LEMMA MailStep == MailInv /\ [AgentNext]_agentVars => MailInv'
<1> SUFFICES ASSUME MailInv, [AgentNext]_agentVars PROVE MailInv'
  OBVIOUS
<1>1. AgentTypeOK'
  BY AgentTypeStep DEF MailInv
<1>2. CASE UNCHANGED <<mailbox, agents>>
  BY <1>1, <1>2 DEF MailInv, Mailbox, OwnAnswer, MailOf, Waiting, Serving, mailbox, agents
<1>3. CASE UNCHANGED agentVars
  BY <1>2, <1>3 DEF agentVars
<1> QED
  BY <1>1, <1>2, <1>3, Steps, ClientMail, AgentMailStep, QueueApart DEF MailInv

\* A client that is the only one while it waits reads its own answer or none, although
\* it takes whatever the file holds, several agents may serve it, and any of them may
\* be killed between two commands.
THEOREM AloneIsAnswered == AgentSpec => []OwnAnswer
<1>1. AgentInit => MailInv
  BY AgentTypeInit DEF AgentInit, MailInv, Mailbox, OwnAnswer, Waiting
<1>2. MailInv => OwnAnswer
  BY DEF MailInv
<1> QED
  BY <1>1, <1>2, MailStep, PTL DEF AgentSpec

-------------------------------------------------------------------------------
(* One agent at a time *)

\* Only StartAgent brings a process to life.
LEMMA NobodyWakes ==
  ASSUME AgentTypeOK, [AgentNext]_agentVars, \A b \in Agents : ~StartAgent(b), NEW a \in Agents, Alive(a)'
  PROVE  Alive(a)
<1>1. ASSUME NEW b \in Agents, AgentStep(b) \/ KillAgent(b) PROVE Alive(a)
  <2> USE DEF Alive, Agent, Worker, AgentTypeOK, AgentTypes, QueueTypes, Answering
  <2>1. b = a => Alive(a)
    BY <1>1 DEF AgentStep, KillAgent, Singleton, WriteAgentPid, Head1, Take, Exec, OpenResp, Answer
  <2>2. b # a => agent'[a] = agent[a] /\ worker'[a] = worker[a]
    BY <1>1 DEF AgentStep, KillAgent, Singleton, WriteAgentPid, Head1, Take, Exec, OpenResp, Answer, queue
  <2> QED
    BY <2>1, <2>2
<1>2. ASSUME NEW b \in Agents, WorkerStep(b) \/ KillWorker(b) PROVE Alive(a)
  <2> USE DEF Alive, Worker, AgentTypeOK, AgentTypes, QueueTypes
  <2>1. b = a => Alive(a)
    BY <1>2 DEF WorkerStep, KillWorker, Round, EndRound, Look, TakeJob, Clean, Compile, Test, Move,
       OpenDone, WriteDone, EndOrphan
  <2>2. b # a => worker'[a] = worker[a]
    <3>1. CASE Round(b) \/ EndRound(b) \/ (\E j \in Jobs : Look(b, j)) \/ TakeJob(b) \/ Clean(b)
      BY <3>1 DEF Round, EndRound, Look, TakeJob, Clean
    <3>2. CASE Compile(b) \/ Test(b) \/ Move(b)
      BY <3>2 DEF Compile, Test, Move
    <3>3. CASE OpenDone(b) \/ WriteDone(b) \/ EndOrphan(b) \/ KillWorker(b)
      BY <3>3 DEF OpenDone, WriteDone, EndOrphan, KillWorker
    <3> QED
      BY <1>2, <3>1, <3>2, <3>3 DEF WorkerStep
  <2>3. agent' = agent
    BY <1>2, QueueApart DEF agents
  <2> QED
    BY <2>1, <2>2, <2>3
<1>3. CASE UNCHANGED <<agent, worker>>
  BY <1>3 DEF Alive
<1>4. ASSUME NEW c \in Clients, MailClient(c) \/ GiveUp(c) PROVE Alive(a)
  BY <1>3, <1>4 DEF MailClient, ClearResp, CreateReq, WriteReq, ReadResp, RemoveResp, GiveUp, agents, queue
<1>5. ASSUME NEW j \in Jobs, Submit(j) \/ Fetch(j) \/ Refused(j) \/ TimeOut(j) PROVE Alive(a)
  BY <1>3, <1>5 DEF Submit, Fetch, Refused, TimeOut, agents
<1> QED
  BY <1>1, <1>2, <1>3, <1>4, <1>5, Steps DEF agentVars, agents, queue

\* The supervisor starts an agent when there is none, its worker included.
LEMMA SingleStep == ASSUME ~ByHand PROVE AgentTypeOK /\ Single /\ [AgentNext]_agentVars => Single'
<1> SUFFICES ASSUME AgentTypeOK, Single, [AgentNext]_agentVars PROVE Single'
  OBVIOUS
<1>1. ASSUME NEW a \in Agents, StartAgent(a) PROVE Single'
  <2>1. \A b \in Agents \ {a} : ~Alive(b)'
    BY <1>1 DEF StartAgent, Alive, Agent, AgentTypeOK, AgentTypes, queue
  <2> QED
    BY <2>1 DEF Single
<1>2. CASE \A a \in Agents : ~StartAgent(a)
  BY <1>2, NobodyWakes DEF Single
<1> QED
  BY <1>1, <1>2

-------------------------------------------------------------------------------
(* Every request at most once *)

OnceInv == AgentTypeOK /\ Single /\ Pending

\* A client's own request is new until it has been written, and written once.
LEMMA ClientOnce ==
  ASSUME OnceInv, NEW x \in Clients, MailClient(x) \/ GiveUp(x)
  PROVE  Pending'
<1>0. AgentTypeOK /\ Pending
  BY DEF OnceInv
<1>1. UNCHANGED <<handled, agent, line>>
  BY DEF MailClient, ClearResp, CreateReq, WriteReq, ReadResp, RemoveResp, GiveUp, agents
<1>2. \A c \in Clients : client'[c] \in {"new", "create", "write"} => client[c] \in {"new", "create", "write"}
  BY <1>0 DEF MailClient, ClearResp, CreateReq, WriteReq, ReadResp, RemoveResp, GiveUp, Client, AgentTypeOK, MailboxTypes
<1>3. \A c \in Clients :
        req' = c => req = c \/ (client[c] = "write" /\ client'[c] = "poll")
  <2>1. CASE WriteReq(x)
    BY <1>0, <2>1 DEF WriteReq, Client, AgentTypeOK, MailboxTypes
  <2>2. CASE CreateReq(x)
    BY <2>2, DistinctAssumption DEF CreateReq
  <2>3. CASE ~WriteReq(x) /\ ~CreateReq(x)
    BY <2>3 DEF MailClient, ClearResp, ReadResp, RemoveResp, GiveUp
  <2> QED
    BY <2>1, <2>2, <2>3
<1> SUFFICES ASSUME NEW c \in Clients PROVE
    /\ client'[c] \in {"new", "create", "write"} =>
         handled[c] = 0 /\ req' # c /\ \A a \in Agents : Serving(a) => line[a] # c
    /\ req' = c => handled[c] = 0
    /\ \A a \in Agents : line[a] = c =>
         /\ agent[a] \in {"take", "exec"} => handled[c] = 0
         /\ agent[a] \in {"exec", "open", "answer"} => req' # c
    /\ handled[c] <= 1
  BY <1>1 DEF Pending, Serving
<1> QED
  BY <1>0, <1>2, <1>3 DEF Pending, Serving

\* The agent takes the request out of the mailbox before it carries it out.
LEMMA AgentOnce ==
  ASSUME OnceInv, NEW x \in Agents, AgentStep(x) \/ KillAgent(x)
  PROVE  Pending'
<1>0. AgentTypeOK /\ Single /\ Pending
  BY DEF OnceInv
<1>1. \A a \in Agents : agent[a] # "off" /\ a # x => agent[x] = "off"
  BY <1>0 DEF Single, Alive
<1>2. \A a \in Agents : a # x => agent[a] = "off" /\ agent'[a] = "off"
  BY <1>0, <1>1 DEF AgentStep, KillAgent, Singleton, WriteAgentPid, Head1, Take, Exec, OpenResp, Answer, Agent,
     Answering, AgentTypeOK, AgentTypes
<1>3. client' = client
  BY DEF AgentStep, KillAgent, Singleton, WriteAgentPid, Head1, Take, Exec, OpenResp, Answer, mailbox
<1> SUFFICES ASSUME NEW c \in Clients PROVE
    /\ client[c] \in {"new", "create", "write"} =>
         handled'[c] = 0 /\ req' # c /\ (Serving(x)' => line'[x] # c)
    /\ req' = c => handled'[c] = 0
    /\ line'[x] = c =>
         /\ agent'[x] \in {"take", "exec"} => handled'[c] = 0
         /\ agent'[x] \in {"exec", "open", "answer"} => req' # c
    /\ handled'[c] <= 1
  BY <1>2, <1>3 DEF Pending, Serving
<1>4. /\ client[c] \in {"new", "create", "write"} =>
           handled[c] = 0 /\ req # c /\ (Serving(x) => line[x] # c)
      /\ req = c => handled[c] = 0
      /\ line[x] = c =>
           /\ agent[x] \in {"take", "exec"} => handled[c] = 0
           /\ agent[x] \in {"exec", "open", "answer"} => req # c
      /\ handled[c] <= 1 /\ handled[c] \in Nat
  BY <1>0 DEF Pending, AgentTypeOK, MailboxTypes
<1>5. DOMAIN agent = Agents /\ DOMAIN line = Agents /\ c # None
  BY <1>0, DistinctAssumption DEF AgentTypeOK, AgentTypes
<1> USE DEF Serving, Agent, mailbox
<1>6. CASE Singleton(x) \/ WriteAgentPid(x)
  BY <1>4, <1>5, <1>6 DEF Singleton, WriteAgentPid
<1>7. CASE Head1(x)
  BY <1>4, <1>5, <1>7 DEF Head1
<1>8. CASE Take(x)
  BY <1>4, <1>5, <1>8 DEF Take
<1>9. CASE Exec(x)
  BY <1>4, <1>5, <1>9 DEF Exec
<1>10. CASE OpenResp(x)
  BY <1>4, <1>5, <1>10 DEF OpenResp
<1>11. CASE Answer(x)
  BY <1>4, <1>5, <1>11 DEF Answer
<1>12. CASE KillAgent(x)
  BY <1>4, <1>5, <1>12 DEF KillAgent
<1> QED
  BY <1>6, <1>7, <1>8, <1>9, <1>10, <1>11, <1>12 DEF AgentStep

\* A new agent has nothing in its hands.
LEMMA StartOnce ==
  ASSUME OnceInv, NEW x \in Agents, StartAgent(x)
  PROVE  Pending'
<1>1. AgentTypeOK /\ Pending /\ UNCHANGED <<client, handled, req, line>>
  BY DEF OnceInv, StartAgent, mailbox
<1>2. \A a \in Agents : agent'[a] = IF a = x THEN "check" ELSE agent[a]
  BY <1>1 DEF StartAgent, Agent, AgentTypeOK, AgentTypes
<1> QED
  BY <1>1, <1>2 DEF Pending, Serving

\* The invariant of the requests is kept.
LEMMA OnceStep == ASSUME ~ByHand PROVE OnceInv /\ [AgentNext]_agentVars => OnceInv'
<1> SUFFICES ASSUME OnceInv, [AgentNext]_agentVars PROVE OnceInv'
  OBVIOUS
<1>1. AgentTypeOK' /\ Single'
  BY AgentTypeStep, SingleStep DEF OnceInv
<1>2. CASE UNCHANGED <<mailbox, agents>>
  BY <1>1, <1>2 DEF OnceInv, Pending, Serving, mailbox, agents
<1>3. CASE UNCHANGED agentVars
  BY <1>2, <1>3 DEF agentVars
<1> QED
  BY <1>1, <1>2, <1>3, Steps, ClientOnce, AgentOnce, StartOnce, QueueApart DEF OnceInv

\* Nobody is alive, nothing is asked for.
LEMMA OnceInit == AgentInit => OnceInv
<1> SUFFICES ASSUME AgentInit PROVE OnceInv
  OBVIOUS
<1>1. AgentTypeOK
  BY AgentTypeInit
<1>2. Single
  BY DEF AgentInit, Single, Alive
<1>3. Pending
  BY DistinctAssumption DEF AgentInit, Pending, Serving
<1> QED
  BY <1>1, <1>2, <1>3 DEF OnceInv

\* When only the supervisor starts agents no request is carried out twice, whichever
\* clients overwrite each other's files, give up or come back, and wherever an agent
\* is killed and the next one started.
THEOREM NoRequestTwice == ASSUME ~ByHand PROVE AgentSpec => []AtMostOnce
<1>1. OnceInv => AtMostOnce
  BY DEF OnceInv, Pending, AtMostOnce
<1> QED
  BY <1>1, OnceInit, OnceStep, PTL DEF AgentSpec

-------------------------------------------------------------------------------
(* Every job its own package *)

JobInv == AgentTypeOK /\ Single /\ Jobwise

\* There is one worker, so nobody else is in the middle of a job.
LEMMA OthersOff ==
  ASSUME AgentTypeOK, Single, NEW x \in Agents, WorkerStep(x) \/ KillWorker(x)
  PROVE  /\ worker[x] # "off" /\ barrac' = barrac /\ result' = result
         /\ \A a \in Agents \ {x} : worker[a] = "off" /\ worker'[a] = "off" /\ left'[a] = left[a]
<1>1. worker[x] # "off"
  BY DEF WorkerStep, KillWorker, Round, EndRound, Look, TakeJob, Clean, Compile, Test, Move, OpenDone,
     WriteDone, EndOrphan
<1>2. \A a \in Agents \ {x} : worker[a] = "off"
  BY <1>1 DEF Single, Alive
<1>3. \A a \in Agents \ {x} : worker'[a] = worker[a] /\ left'[a] = left[a]
  BY DEF WorkerStep, KillWorker, Round, EndRound, Look, TakeJob, Clean, Compile, Test, Move, OpenDone,
     WriteDone, EndOrphan, Worker, AgentTypeOK, QueueTypes
<1>4. barrac' = barrac /\ result' = result
  BY DEF WorkerStep, KillWorker, Round, EndRound, Look, TakeJob, Clean, Compile, Test, Move, OpenDone,
     WriteDone, EndOrphan
<1> QED
  BY <1>1, <1>2, <1>3, <1>4

\* The steps of a worker before it has a job, and its end.
LEMMA WorkerIdle ==
  ASSUME JobInv, NEW x \in Agents,
         Round(x) \/ EndRound(x) \/ KillWorker(x) \/ EndOrphan(x) \/ \E j \in Jobs : Look(x, j)
  PROVE  WorkOK(x)' /\ \A j \in Jobs : JobOK(j)'
<1>0. /\ AgentTypeOK /\ WorkOK(x) /\ \A j \in Jobs : JobOK(j)
      /\ barrac' = barrac /\ result' = result
  BY OthersOff DEF JobInv, Jobwise, WorkerStep
<1>1. UNCHANGED <<jreq, done, package>>
  BY DEF Round, EndRound, KillWorker, EndOrphan, Look
<1>2. \A j \in Jobs : JobOK(j)'
  BY <1>0, <1>1 DEF JobOK
<1>3. x \in DOMAIN worker /\ x \in DOMAIN left /\ x \in DOMAIN job
  BY <1>0 DEF AgentTypeOK, QueueTypes
<1>4. \A j \in jreq : j \in Jobs /\ done[j] = None /\ barrac[j] # "new"
  BY <1>0 DEF JobOK, AgentTypeOK, QueueTypes
<1>5. \A j \in left[x] : barrac[j] # "new"
  BY <1>0 DEF WorkOK
<1>6. CASE Round(x)
  <2>1. (worker'[x] = "scan" /\ left'[x] = jreq) \/ (worker'[x] = "off" /\ left'[x] = left[x])
    BY <1>3, <1>6 DEF Round, Worker
  <2> QED
    BY <1>0, <1>2, <1>4, <1>5, <2>1 DEF WorkOK
<1>7. CASE EndRound(x)
  <2>1. worker'[x] = "round" /\ left'[x] = left[x]
    BY <1>3, <1>7 DEF EndRound, Worker
  <2> QED
    BY <1>0, <1>2, <1>5, <2>1 DEF WorkOK
<1>8. CASE KillWorker(x)
  <2>1. CASE worker[x] = "compile"
    <3>1. left'[x] = {} /\ worker'[x] = "orphan" /\ job' = job
      BY <1>3, <1>8, <2>1 DEF KillWorker, Worker
    <3>2. job[x] \in Jobs /\ barrac[job[x]] # "new"
      BY <1>0, <2>1 DEF WorkOK
    <3> QED
      BY <1>0, <1>2, <3>1, <3>2 DEF WorkOK
  <2>2. CASE worker[x] # "compile"
    <3>1. left'[x] = {} /\ worker'[x] = "off"
      BY <1>3, <1>8, <2>2 DEF KillWorker, Worker
    <3> QED
      BY <1>2, <3>1 DEF WorkOK
  <2> QED
    BY <2>1, <2>2
<1>9. CASE EndOrphan(x)
  <2>1. worker'[x] = "off" /\ left'[x] = left[x]
    BY <1>3, <1>9 DEF EndOrphan, Worker
  <2> QED
    BY <1>0, <1>2, <1>5, <2>1 DEF WorkOK
<1>10. ASSUME NEW j \in Jobs, Look(x, j) PROVE WorkOK(x)'
  <2>1. worker[x] = "scan" /\ left'[x] = left[x] \ {j} /\ outp' = outp
    BY <1>3, <1>10 DEF Look
  <2>2. CASE j \in jreq
    <3>1. worker'[x] = "remove" /\ job'[x] = j
      BY <1>3, <1>10, <2>2 DEF Look, Worker
    <3> QED
      BY <1>0, <1>1, <1>4, <1>5, <2>1, <2>2, <3>1 DEF WorkOK
  <2>3. CASE j \notin jreq
    <3>1. worker'[x] = "scan"
      BY <1>10, <2>1, <2>3 DEF Look
    <3> QED
      BY <1>0, <1>5, <2>1, <3>1 DEF WorkOK
  <2> QED
    BY <2>2, <2>3
<1> QED
  BY <1>2, <1>6, <1>7, <1>8, <1>9, <1>10

\* From the request to the package.
LEMMA WorkerCompiles ==
  ASSUME JobInv, NEW x \in Agents, TakeJob(x) \/ Clean(x) \/ Compile(x) \/ Test(x)
  PROVE  WorkOK(x)' /\ \A j \in Jobs : JobOK(j)'
<1>0. /\ AgentTypeOK /\ WorkOK(x) /\ \A j \in Jobs : JobOK(j)
      /\ barrac' = barrac /\ result' = result
  BY OthersOff DEF JobInv, Jobwise, WorkerStep
<1>1. UNCHANGED <<done, package, job, left>> /\ jreq' \subseteq jreq
  BY DEF TakeJob, Clean, Compile, Test
<1>2. \A j \in Jobs : JobOK(j)'
  BY <1>0, <1>1 DEF JobOK
<1>3. x \in DOMAIN worker
  BY <1>0 DEF AgentTypeOK, QueueTypes
<1>4. CASE TakeJob(x)
  <2>1. worker[x] = "remove" /\ worker'[x] \in {"clean", "error"} /\ jreq' = jreq \ {job[x]}
    BY <1>3, <1>4 DEF TakeJob, Worker
  <2> QED
    BY <1>0, <1>1, <1>2, <2>1 DEF WorkOK
<1>5. CASE Clean(x)
  <2>1. worker[x] = "clean" /\ worker'[x] = "compile" /\ outp' = None /\ jreq' = jreq
    BY <1>3, <1>5 DEF Clean, Worker
  <2> QED
    BY <1>0, <1>1, <1>2, <2>1 DEF WorkOK
<1>6. CASE Compile(x)
  <2>1. worker[x] = "compile" /\ worker'[x] = "test" /\ outp' \in {outp, job[x]} /\ jreq' = jreq
    BY <1>3, <1>6 DEF Compile, Worker
  <2> QED
    BY <1>0, <1>1, <1>2, <2>1 DEF WorkOK
<1>7. CASE Test(x)
  <2>1. /\ worker[x] = "test" /\ worker'[x] = IF outp = None THEN "error" ELSE "move"
        /\ outp' = outp /\ jreq' = jreq
    BY <1>3, <1>7 DEF Test, Worker
  <2> QED
    BY <1>0, <1>1, <1>2, <2>1 DEF WorkOK
<1> QED
  BY <1>2, <1>4, <1>5, <1>6, <1>7

\* From the package to the answer.
LEMMA WorkerAnswers ==
  ASSUME JobInv, NEW x \in Agents, Move(x) \/ OpenDone(x) \/ WriteDone(x)
  PROVE  WorkOK(x)' /\ \A j \in Jobs : JobOK(j)'
<1>0. /\ AgentTypeOK /\ WorkOK(x) /\ \A j \in Jobs : JobOK(j)
      /\ barrac' = barrac /\ result' = result
  BY OthersOff DEF JobInv, Jobwise, WorkerStep
<1>1. /\ UNCHANGED <<jreq, left>> /\ job[x] \in Jobs /\ barrac[job[x]] # "new"
      /\ None # Empty /\ None # "ok"
  BY <1>0, DistinctAssumption DEF Move, OpenDone, WriteDone, WorkOK, Empty
<1> USE DEF Worker, AgentTypeOK, QueueTypes
<1>3. CASE Move(x)
  <2>1. package' = [package EXCEPT ![job[x]] = job[x]] /\ done' = done /\ job' = job
    BY <1>0, <1>1, <1>3, DistinctAssumption DEF Move, WorkOK
  <2>2. worker'[x] = "ok"
    BY <1>0, <1>3 DEF Move
  <2>3. \A j \in Jobs : JobOK(j)'
    BY <1>0, <1>1, <2>1 DEF JobOK
  <2>4. WorkOK(x)'
    BY <1>0, <1>1, <1>3, <2>1, <2>2 DEF WorkOK, Move
  <2> QED
    BY <2>3, <2>4
<1>4. CASE OpenDone(x)
  <2>1. done' = [done EXCEPT ![job[x]] = Empty] /\ job' = job /\ package' = package /\ outp' = outp
    BY <1>4 DEF OpenDone
  <2>2. worker[x] \in {"ok", "error"} /\ worker'[x] = IF worker[x] = "ok" THEN "say ok" ELSE "say error"
    BY <1>0, <1>4 DEF OpenDone
  <2>3. job[x] \notin jreq
    BY <1>0, <2>2 DEF WorkOK
  <2>4. \A j \in Jobs : JobOK(j)'
    BY <1>0, <1>1, <2>1, <2>3 DEF JobOK, Empty
  <2>5. WorkOK(x)'
    BY <1>0, <1>1, <2>1, <2>2 DEF WorkOK
  <2> QED
    BY <2>4, <2>5
<1>5. CASE WriteDone(x)
  <2>1. /\ worker[x] \in {"say ok", "say error"} /\ package' = package /\ worker'[x] = "scan"
        /\ done' = [done EXCEPT ![job[x]] =
                      IF @ = None THEN @ ELSE IF worker[x] = "say ok" THEN "ok" ELSE Error]
    BY <1>0, <1>5 DEF WriteDone
  <2>2. job[x] \notin jreq
    BY <1>0, <2>1 DEF WorkOK
  <2>3. done'[job[x]] = "ok" => package[job[x]] = job[x]
    BY <1>0, <1>1, <2>1 DEF WorkOK, Error
  <2>4. \A j \in Jobs : JobOK(j)'
    BY <1>0, <1>1, <2>1, <2>2, <2>3 DEF JobOK
  <2>5. WorkOK(x)'
    BY <1>0, <1>1, <2>1 DEF WorkOK
  <2> QED
    BY <2>4, <2>5
<1> QED
  BY <1>3, <1>4, <1>5

\* Every step of a worker leaves the jobs in order.
LEMMA WorkerJobs ==
  ASSUME JobInv, NEW x \in Agents, WorkerStep(x) \/ KillWorker(x)
  PROVE  Jobwise'
<1>1. WorkOK(x)' /\ \A j \in Jobs : JobOK(j)'
  BY WorkerIdle, WorkerCompiles, WorkerAnswers DEF WorkerStep
<1>2. ASSUME NEW a \in Agents \ {x} PROVE WorkOK(a)'
  BY <1>2, OthersOff DEF JobInv, Jobwise, WorkOK
<1> QED
  BY <1>1, <1>2 DEF Jobwise

\* A worker is not disturbed by what others do with the jobs: a request they add is one
\* that was not yet made, and they only take answers away, the package with its answer.
LEMMA WorkKeeps ==
  ASSUME NEW a \in Agents, WorkOK(a), UNCHANGED <<worker, left, job, outp>>,
         left[a] \subseteq Jobs, None # Empty,
         \A j \in Jobs : barrac[j] # "new" => barrac'[j] # "new",
         \A j \in Jobs : j \in jreq' => j \in jreq \/ barrac[j] = "new",
         \A j \in Jobs : done'[j] = done[j] \/ done'[j] = None,
         \A j \in Jobs : package'[j] = package[j] \/ (done[j] # None /\ done'[j] = None)
  PROVE  WorkOK(a)'
<1>1. /\ worker'[a] = worker[a] /\ left'[a] = left[a] /\ job'[a] = job[a] /\ outp' = outp
  OBVIOUS
<1>2. \A j \in left'[a] : barrac'[j] # "new"
  BY <1>1 DEF WorkOK
<1>3. worker'[a] \notin {"off", "round", "scan"} => job'[a] \in Jobs /\ barrac'[job'[a]] # "new"
  BY <1>1 DEF WorkOK
<1>4. worker'[a] \in {"remove", "clean", "compile", "test", "move", "ok"} => done'[job'[a]] = None
  <2>1. SUFFICES ASSUME worker[a] \in {"remove", "clean", "compile", "test", "move", "ok"}
                 PROVE  done'[job[a]] = None
    BY <1>1
  <2>2. job[a] \in Jobs /\ done[job[a]] = None
    BY <2>1 DEF WorkOK
  <2> QED
    BY <2>2
<1>5. worker'[a] \in {"clean", "compile", "test", "move", "ok", "error", "say ok", "say error"} =>
        job'[a] \notin jreq'
  <2>1. SUFFICES ASSUME worker[a] \in {"clean", "compile", "test", "move", "ok", "error",
                                       "say ok", "say error"}
                 PROVE  job[a] \notin jreq'
    BY <1>1
  <2>2. job[a] \in Jobs /\ barrac[job[a]] # "new" /\ job[a] \notin jreq
    BY <2>1 DEF WorkOK
  <2> QED
    BY <2>2
<1>6. /\ worker'[a] \in {"compile", "test"} => outp' \in {None, job'[a]}
      /\ worker'[a] = "move" => outp' = job'[a]
  BY <1>1 DEF WorkOK
<1>7. worker'[a] = "ok" => package'[job'[a]] = job'[a]
  <2>1. SUFFICES ASSUME worker[a] = "ok" PROVE package'[job[a]] = job[a]
    BY <1>1
  <2>2. job[a] \in Jobs /\ done[job[a]] = None /\ package[job[a]] = job[a]
    BY <2>1 DEF WorkOK
  <2> QED
    BY <2>2
<1>8. worker'[a] = "say ok" =>
        /\ done'[job'[a]] \in {None, Empty}
        /\ done'[job'[a]] = Empty => package'[job'[a]] = job'[a]
  <2>1. SUFFICES ASSUME worker[a] = "say ok"
                 PROVE  /\ done'[job[a]] \in {None, Empty}
                        /\ done'[job[a]] = Empty => package'[job[a]] = job[a]
    BY <1>1
  <2>2. /\ job[a] \in Jobs /\ done[job[a]] \in {None, Empty}
        /\ done[job[a]] = Empty => package[job[a]] = job[a]
    BY <2>1 DEF WorkOK
  <2> QED
    BY <2>2
<1> QED
  BY <1>2, <1>3, <1>4, <1>5, <1>6, <1>7, <1>8, Zenon DEF WorkOK

\* A barrac takes the answer and the package away together.
LEMMA BarracJobs ==
  ASSUME JobInv, NEW i \in Jobs, Submit(i) \/ Fetch(i) \/ Refused(i) \/ TimeOut(i)
  PROVE  Jobwise'
<1>0. /\ AgentTypeOK /\ (\A a \in Agents : WorkOK(a)) /\ \A j \in Jobs : JobOK(j)
      /\ None # Empty /\ None # "ok" /\ Empty # "ok"
  BY DistinctAssumption DEF JobInv, Jobwise, Empty
<1>1. UNCHANGED <<worker, left, job, outp>>
  BY DEF Submit, Fetch, Refused, TimeOut
<1>2. /\ barrac \in [Jobs -> {"new", "wait", "success", "failure"}]
      /\ done \in [Jobs -> {None, Empty, Error, "ok"}] /\ package \in [Jobs -> Jobs \cup {None}]
      /\ result \in [Jobs -> Jobs \cup {None}] /\ \A a \in Agents : left[a] \subseteq Jobs
  BY <1>0 DEF AgentTypeOK, QueueTypes
<1>3. CASE Submit(i)
  <2>1. /\ barrac[i] = "new" /\ jreq' = jreq \cup {i} /\ UNCHANGED <<done, package, result>>
        /\ \A j \in Jobs : barrac'[j] = IF j = i THEN "wait" ELSE barrac[j]
    BY <1>2, <1>3 DEF Submit, Barrac
  <2>2. ASSUME NEW j \in Jobs PROVE JobOK(j)'
    <3>1. JobOK(j)
      BY <1>0
    <3> QED
      BY <2>1, <3>1 DEF JobOK
  <2>3. ASSUME NEW a \in Agents PROVE WorkOK(a)'
    BY <1>0, <1>1, <1>2, <2>1, WorkKeeps
  <2> QED
    BY <2>2, <2>3 DEF Jobwise
<1>4. CASE TimeOut(i)
  <2>1. /\ barrac[i] = "wait" /\ UNCHANGED <<jreq, done, package, result>>
        /\ \A j \in Jobs : barrac'[j] = IF j = i THEN "failure" ELSE barrac[j]
    BY <1>2, <1>4 DEF TimeOut, Barrac
  <2>2. ASSUME NEW j \in Jobs PROVE JobOK(j)'
    <3>1. JobOK(j)
      BY <1>0
    <3> QED
      BY <2>1, <3>1 DEF JobOK
  <2>3. ASSUME NEW a \in Agents PROVE WorkOK(a)'
    BY <1>0, <1>1, <1>2, <2>1, WorkKeeps
  <2> QED
    BY <2>2, <2>3 DEF Jobwise
<1>5. CASE Fetch(i) \/ Refused(i)
  <2>1. /\ barrac[i] = "wait" /\ done[i] # None /\ jreq' = jreq
        /\ done' = [done EXCEPT ![i] = None] /\ package' = [package EXCEPT ![i] = None]
    BY <1>0, <1>5, DistinctAssumption DEF Fetch, Refused, Empty, Error
  <2>2. /\ \A j \in Jobs : done'[j] = IF j = i THEN None ELSE done[j]
        /\ \A j \in Jobs : package'[j] = IF j = i THEN None ELSE package[j]
    BY <1>2, <2>1
  <2>3. /\ barrac'[i] \in {"success", "failure"}
        /\ barrac'[i] = "success" => Fetch(i)
        /\ \A j \in Jobs \ {i} : barrac'[j] = barrac[j] /\ result'[j] = result[j]
    BY <1>2, <1>5 DEF Fetch, Refused, Barrac
  <2>4. ASSUME Fetch(i) PROVE result'[i] = i
    <3>1. JobOK(i) /\ done[i] = "ok" /\ result'[i] = package[i]
      BY <1>0, <1>2, <2>4 DEF Fetch
    <3> QED
      BY <3>1 DEF JobOK
  <2>5. ASSUME NEW j \in Jobs PROVE JobOK(j)'
    <3>1. CASE j = i
      <4>1. i \notin jreq'
        BY <1>0, <2>1 DEF JobOK
      <4> QED
        BY <1>0, <2>2, <2>3, <2>4, <3>1, <4>1 DEF JobOK
    <3>2. CASE j # i
      <4>1. JobOK(j)
        BY <1>0
      <4> QED
        BY <2>1, <2>2, <2>3, <3>2, <4>1 DEF JobOK
    <3> QED
      BY <3>1, <3>2
  <2>6. /\ \A j \in Jobs : barrac[j] # "new" => barrac'[j] # "new"
        /\ \A j \in Jobs : done'[j] = done[j] \/ done'[j] = None
        /\ \A j \in Jobs : package'[j] = package[j] \/ (done[j] # None /\ done'[j] = None)
    BY <2>1, <2>2, <2>3
  <2>7. ASSUME NEW a \in Agents PROVE WorkOK(a)'
    BY <1>0, <1>1, <1>2, <2>1, <2>6, WorkKeeps
  <2> QED
    BY <2>5, <2>7 DEF Jobwise
<1> QED
  BY <1>3, <1>4, <1>5

\* An agent starts its worker; otherwise it has nothing to do with the jobs.
LEMMA AgentJobs ==
  ASSUME JobInv, NEW x \in Agents, StartAgent(x) \/ AgentStep(x) \/ KillAgent(x)
  PROVE  Jobwise'
<1>0. AgentTypeOK /\ Jobwise
  BY DEF JobInv
<1>1. CASE WriteAgentPid(x)
  <2>1. /\ UNCHANGED <<left, job, jreq, done, package, outp, barrac, result>>
        /\ \A a \in Agents : worker'[a] = IF a = x THEN "round" ELSE worker[a]
    BY <1>0, <1>1 DEF WriteAgentPid, Worker, AgentTypeOK, QueueTypes
  <2>2. \A j \in Jobs : JobOK(j)'
    BY <1>0, <2>1 DEF Jobwise, JobOK
  <2>3. ASSUME NEW a \in Agents PROVE WorkOK(a)'
    <3>1. WorkOK(a) /\ left'[a] = left[a] /\ job'[a] = job[a]
      BY <1>0, <2>1 DEF Jobwise
    <3>2. CASE a = x
      BY <2>1, <3>1, <3>2 DEF WorkOK
    <3>3. CASE a # x
      <4>1. worker'[a] = worker[a]
        BY <2>1, <3>3
      <4> QED
        BY <2>1, <3>1, <4>1 DEF WorkOK
    <3> QED
      BY <3>2, <3>3
  <2> QED
    BY <2>2, <2>3 DEF Jobwise
<1>2. CASE ~WriteAgentPid(x)
  <2>1. UNCHANGED queue
    BY <1>2 DEF StartAgent, AgentStep, KillAgent, Singleton, Head1, Take, Exec, OpenResp, Answer
  <2> QED
    BY <1>0, <2>1 DEF Jobwise, JobOK, WorkOK, queue
<1> QED
  BY <1>1, <1>2

\* The invariant of the jobs is kept.
LEMMA JobStep == ASSUME ~ByHand PROVE JobInv /\ [AgentNext]_agentVars => JobInv'
<1> SUFFICES ASSUME JobInv, [AgentNext]_agentVars PROVE JobInv'
  OBVIOUS
<1>1. AgentTypeOK' /\ Single'
  BY AgentTypeStep, SingleStep DEF JobInv
<1>2. CASE UNCHANGED queue
  BY <1>1, <1>2 DEF JobInv, Jobwise, JobOK, WorkOK, queue
<1>3. CASE UNCHANGED agentVars
  BY <1>2, <1>3 DEF agentVars
<1>4. ASSUME NEW c \in Clients, MailClient(c) \/ GiveUp(c) PROVE UNCHANGED queue
  BY <1>4 DEF MailClient, ClearResp, CreateReq, WriteReq, ReadResp, RemoveResp, GiveUp
<1> QED
  BY <1>1, <1>2, <1>3, <1>4, Steps, WorkerJobs, BarracJobs, AgentJobs DEF JobInv

\* When only the supervisor starts agents, a barrac that reports success has moved the
\* package of its own model, although all jobs go through one out.package and workers
\* are killed between any two commands.
THEOREM OwnPackage == ASSUME ~ByHand PROVE AgentSpec => []OkMeansMine
<1>1. AgentInit => JobInv
  <2> SUFFICES ASSUME AgentInit PROVE JobInv
    OBVIOUS
  <2>1. AgentTypeOK /\ Single
    BY OnceInit DEF OnceInv
  <2>2. Jobwise
    BY DistinctAssumption DEF AgentInit, Jobwise, JobOK, WorkOK
  <2> QED
    BY <2>1, <2>2 DEF JobInv
<1>2. JobInv => OkMeansMine
  BY DEF JobInv, Jobwise, JobOK, OkMeansMine
<1> QED
  BY <1>1, <1>2, JobStep, PTL DEF AgentSpec
===============================================================================
