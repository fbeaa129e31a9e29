----------------------------- MODULE MCSupervisor -----------------------------
(* Small instances of Supervisor for TLC. *)
EXTENDS Supervisor

SomeDaemons == <<"gpud", "gpud-zc", "gxp", "cfgd">>
GpuDaemons  == <<"gpud", "gpud-zc">>
===============================================================================
