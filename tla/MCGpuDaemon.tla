------------------------------ MODULE MCGpuDaemon -----------------------------
(* Small instances of GpuDaemon for TLC. *)
EXTENDS GpuDaemon, TLC

Perms == Permutations(Threads) \cup Permutations(Shaders)
===============================================================================
