----------------------------- MODULE MCTpuDaemon ------------------------------
(* Small instances of TpuDaemon for TLC. *)
EXTENDS TpuDaemon
===============================================================================
