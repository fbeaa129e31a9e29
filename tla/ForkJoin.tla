------------------------------- MODULE ForkJoin -------------------------------
(***************************************************************************)
(* What a pool of threads promises to the thread that calls it: the work   *)
(* of a call is cut into pieces, each is done exactly once and while the   *)
(* call lasts, and the call returns only when all are done.  It says       *)
(* nothing of threads, of who does which piece, or of how they wait.       *)
(***************************************************************************)
EXTENDS Naturals

CONSTANT Pieces

VARIABLES open,   \* is there a call?
          asked,  \* the pieces of the call, or of the last one
          times   \* how often each has been done in it

vars == <<open, asked, times>>

\* Nothing is known of the time before the first call.
Init == ~open /\ asked \in SUBSET Pieces /\ times \in [Pieces -> {0, 1}]

Call == /\ ~open /\ open' = TRUE
        /\ asked' \in SUBSET Pieces /\ times' = [p \in Pieces |-> 0]

Do(p) == /\ open /\ p \in asked /\ times[p] = 0
         /\ times' = [times EXCEPT ![p] = 1]
         /\ UNCHANGED <<open, asked>>

Return == /\ open /\ \A p \in asked : times[p] = 1
          /\ open' = FALSE
          /\ UNCHANGED <<asked, times>>

Next == Call \/ (\E p \in Pieces : Do(p)) \/ Return

Spec == Init /\ [][Next]_vars
===============================================================================
