--------------------------- MODULE MCWhisperEncoder ---------------------------
(* WhisperEncoder with the thread that encodes and one more. *)
EXTENDS WhisperEncoder
===============================================================================
