----------------------------- MODULE ChargeWindow -----------------------------
(***************************************************************************)
(* The charging window of the battery.  baseos-cfgd stores a requested     *)
(* window and writes it to the charger's sysfs files at once; at boot      *)
(* charge-limit.sh reads the store and writes the files again.  The driver *)
(* silently ignores a write that would leave start >= stop, so the order   *)
(* of the two writes matters.  Power may fail at any moment.               *)
(***************************************************************************)
EXTENDS Integers

CONSTANTS Levels,   \* percentages somebody may ask for
          Overlap,  \* may requests arrive while the boot script runs?
          Missing   \* no value in the store

ASSUME LevelsAssumption ==
  Levels \subseteq Nat /\ {0, 60, 65, 100} \subseteq Levels /\ Missing \notin Levels
ASSUME OverlapAssumption == Overlap \in BOOLEAN

VARIABLES
  store,  \* CHARGE_START and CHARGE_STOP of the config store
  sys,    \* charge_start_level and charge_stop_level
  phase,  \* where baseos-cfgd is in a charge request
  asked,  \* that request
  was,    \* sysfs when it arrived
  boot,   \* where charge-limit.sh is
  goal    \* the window it is going to set

chargeVars == <<store, sys, phase, asked, was, boot, goal>>

Windows == [start : Levels, stop : Levels]
Default == [start |-> 60, stop |-> 65]
Full    == [start |-> 0, stop |-> 100]

ChargeInit ==
  /\ store = [start |-> Missing, stop |-> Missing] /\ sys = Full
  /\ phase = "idle" /\ asked = Default /\ was = Full
  /\ boot = "read" /\ goal = Default

\* A write to one of the files, as the driver takes it.
Written(w, field, v) ==
  LET n == [w EXCEPT ![field] = v] IN IF n.start < n.stop THEN n ELSE w

-------------------------------------------------------------------------------
(* charge-limit.sh *)

\* Values out of their range and windows upside down fall back to 60 and 65.
OrDefault(v, lo, hi, d) == IF v # Missing /\ v \in lo .. hi THEN v ELSE d

Effective(s) ==
  LET w == [start |-> OrDefault(s.start, 40, 90, 60), stop |-> OrDefault(s.stop, 45, 100, 65)]
  IN IF w.start < w.stop THEN w ELSE Default

BootRead ==
  /\ boot = "read"
  /\ goal' = Effective(store) /\ boot' = "first"
  /\ UNCHANGED <<store, sys, phase, asked, was>>

\* Mutant: the start level always goes first.
StopFirstNever(g) == FALSE

\* Raising the window starts with its upper end.
StopFirst(g) == g.stop > sys.stop

BootFirst ==
  /\ boot = "first"
  /\ IF StopFirst(goal)
     THEN sys' = Written(sys, "stop", goal.stop) /\ boot' = "start"
     ELSE sys' = Written(sys, "start", goal.start) /\ boot' = "stop"
  /\ UNCHANGED <<store, phase, asked, was, goal>>

BootSecond ==
  /\ boot \in {"start", "stop"}
  /\ sys' = Written(sys, boot, goal[boot]) /\ boot' = "done"
  /\ UNCHANGED <<store, phase, asked, was, goal>>

\* Somebody runs the script by hand: over the window a request has left.
Rerun ==
  /\ boot = "done" /\ (Overlap \/ phase = "idle")
  /\ boot' = "read"
  /\ UNCHANGED <<store, sys, phase, asked, was, goal>>

-------------------------------------------------------------------------------
(* baseos-cfgd *)

Acceptable(w) == w.start >= 5 /\ w.stop <= 100 /\ w.start < w.stop

Request(w) ==
  /\ phase = "idle" /\ (Overlap \/ boot = "done")
  /\ Acceptable(w)
  /\ asked' = w /\ was' = sys /\ phase' = "store start"
  /\ UNCHANGED <<store, sys, boot, goal>>

\* setkv, twice; each replaces the store atomically.
Store ==
  /\ \/ phase = "store start" /\ store' = [store EXCEPT !.start = asked.start] /\ phase' = "store stop"
     \/ phase = "store stop"  /\ store' = [store EXCEPT !.stop = asked.stop]   /\ phase' = "set start"
  /\ UNCHANGED <<sys, asked, was, boot, goal>>

\* Mutant: the upper end is not written.
SetStartOnly ==
  /\ \/ phase = "set start" /\ sys' = Written(sys, "start", asked.start) /\ phase' = "reply"
     \/ phase = "set stop"  /\ sys' = sys /\ phase' = "reply"
  /\ UNCHANGED <<store, asked, was, boot, goal>>

\* start first, whatever the direction.
Set ==
  /\ \/ phase = "set start" /\ sys' = Written(sys, "start", asked.start) /\ phase' = "set stop"
     \/ phase = "set stop"  /\ sys' = Written(sys, "stop", asked.stop)   /\ phase' = "reply"
  /\ UNCHANGED <<store, asked, was, boot, goal>>

Reply ==
  /\ phase = "reply" /\ phase' = "idle"
  /\ UNCHANGED <<store, sys, asked, was, boot, goal>>

-------------------------------------------------------------------------------
\* Power loss or reboot: the driver starts with its own window.
Reboot ==
  /\ sys' = Full /\ phase' = "idle" /\ boot' = "read"
  /\ UNCHANGED <<store, asked, was, goal>>

ChargeNext ==
  \/ BootRead \/ BootFirst \/ BootSecond \/ Rerun
  \/ \E w \in Windows : Request(w)
  \/ Store \/ Set \/ Reply
  \/ Reboot

ChargeSpec == ChargeInit /\ [][ChargeNext]_chargeVars

-------------------------------------------------------------------------------
\* The variables hold values of these sets; the driver's window is never empty.
ChargeTypeOK ==
  /\ store \in [start : Levels \cup {Missing}, stop : Levels \cup {Missing}]
  /\ sys \in Windows /\ sys.start < sys.stop
  /\ phase \in {"idle", "store start", "store stop", "set start", "set stop", "reply"}
  /\ asked \in Windows /\ was \in Windows
  /\ boot \in {"read", "first", "start", "stop", "done"}
  /\ goal \in Windows

\* When charge-limit.sh is through, the files hold exactly the window the store
\* stands for, whatever they held before and wherever power failed before.
BootRestores == [][boot # "done" /\ boot' = "done" => sys' = Effective(store)]_chargeVars

\* A request answered with OK has set the upper end of the window, the one that
\* protects the battery; and the lower end unless the window moved up past the
\* old one.
StopApplied ==
  phase = "reply" => sys.stop = asked.stop /\ (asked.start < was.stop => sys.start = asked.start)
===============================================================================
