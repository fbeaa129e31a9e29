------------------------------- MODULE DmaLease -------------------------------
(***************************************************************************)
(* What a zero-copy daemon promises about shared memory: a buffer that a   *)
(* job on the accelerator may still touch stays mapped until that job has  *)
(* left the accelerator, or until the whole device context goes away.      *)
(* It says nothing of commands, clients, tokens or replies.                *)
(***************************************************************************)
CONSTANTS Handles,   \* names of mapped buffers
          Jobs       \* names of accelerator requests

VARIABLES mapped,    \* handles whose buffer is mapped into the accelerator
          pins       \* pins[j]: handles job j may access at this moment

vars == <<mapped, pins>>

NoPins == [j \in Jobs |-> {}]

Init == mapped = {} /\ pins = NoPins

\* New buffers become visible to the accelerator.
Map(S) == /\ mapped' = mapped \cup S
          /\ UNCHANGED pins

\* A job starts; it may only name mapped buffers.
Pin(j, S) == /\ pins[j] = {}
             /\ S \subseteq mapped
             /\ pins' = [pins EXCEPT ![j] = S]
             /\ UNCHANGED mapped

\* Some jobs end, by completing or because the firmware aborts them.
Unpin(J) == /\ pins' = [j \in Jobs |-> IF j \in J THEN {} ELSE pins[j]]
            /\ UNCHANGED mapped

\* Buffers go away; none of them may be in use.
Unmap(S) == /\ \A j \in Jobs : pins[j] \cap S = {}
            /\ mapped' = mapped \ S
            /\ UNCHANGED pins

\* The owning process dies; the kernel tears down its device context.
Reset == mapped' = {} /\ pins' = NoPins

Next == \/ \E S \in SUBSET Handles : Map(S) \/ Unmap(S)
        \/ \E j \in Jobs, S \in SUBSET Handles : Pin(j, S)
        \/ \E J \in SUBSET Jobs : Unpin(J)
        \/ Reset

Spec == Init /\ [][Next]_vars
===============================================================================
