---- MODULE MCDspClient ----
(* DspClient with four buffers: three, one more than a command of gxpd3 may have, and one in flight. *)
EXTENDS DspClient
====
