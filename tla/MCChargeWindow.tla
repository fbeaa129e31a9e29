---------------------------- MODULE MCChargeWindow ----------------------------
(* Small instances of ChargeWindow for TLC. *)
EXTENDS ChargeWindow
===============================================================================
