----------------------------- MODULE MCDspSession -----------------------------
(* Small instance of DspSession for TLC.  Clients and jobs are               *)
(* interchangeable, but the run checks liveness too: no symmetry.            *)
EXTENDS DspSession
===============================================================================
