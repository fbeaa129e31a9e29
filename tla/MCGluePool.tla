------------------------------ MODULE MCGluePool ------------------------------
(* Small instance of GluePool for TLC. *)
EXTENDS GluePool
===============================================================================
