------------------------------ MODULE MCGpuBatch ------------------------------
(* A small instance of GpuBatch for TLC: two disjoint tensors and a view     *)
(* across both.                                                              *)
EXTENDS GpuBatch

MCArea == [t \in Tensors |-> CASE t = "a" -> {1} [] t = "b" -> {2} [] t = "v" -> {1, 2}]
===============================================================================
