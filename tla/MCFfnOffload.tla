----------------------------- MODULE MCFfnOffload -----------------------------
(* Small instance of FfnOffload for TLC. *)
EXTENDS FfnOffload
===============================================================================
