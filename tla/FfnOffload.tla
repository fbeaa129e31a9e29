------------------------------ MODULE FfnOffload ------------------------------
(***************************************************************************)
(* One feed-forward block on the TPU (ggml-barra.cpp): barra_ffn_split     *)
(* with its packages gate, up and down, or barra_ffn_fused with one.  The  *)
(* rows go through the TPU in tiles.  A row whose result saturates is      *)
(* tried again with a smaller input; rows that stay saturated, and those   *)
(* of a failed inference, are left to the CPU.  The output may lie in the  *)
(* memory of the input h.                                                  *)
(*                                                                         *)
(* A row is what has become of it; which rows saturate is the data's       *)
(* choice.  Outlier channels are added on the CPU while the TPU computes.  *)
(* The calls of libbarra (barra.c) are part of it, and the TPU answers or  *)
(* not as it likes.  The CPU backend exists (without it the fallback does  *)
(* nothing), and BARRA_CHECK and BARRA_FORCE_FB are off.                   *)
(***************************************************************************)
EXTENDS Integers

CONSTANTS T,         \* rows
          B, Bd,     \* rows of a tile, of a tile of down
          MaxPass,   \* BARRA_MAX_PASS
          GuRetry,   \* DIV_GU > 1: gate and up have further passes
          DnRetry,   \* DIV > 1: so has down
          Outliers,  \* ctx->ol: outlier channels are taken out
          None

ASSUME SizeAssumption ==
  /\ T \in Nat \ {0} /\ B \in Nat \ {0} /\ Bd \in 1 .. B /\ MaxPass \in Nat \ {0}
  /\ GuRetry \in BOOLEAN /\ DnRetry \in BOOLEAN /\ Outliers \in BOOLEAN
ASSUME NoneAssumption == None \notin {"gate", "up", "down", "ffn"}

Rows     == 0 .. T - 1
Packages == {"gate", "up", "down", "ffn"}
In(p)    == CASE p = "down" -> "zi_ff" [] p = "ffn" -> "zi" [] OTHER -> "zi_d"
Out(p)   == CASE p = "gate" -> "zo_g" [] p = "up" -> "zo_u" [] p = "down" -> "zo_d" [] OTHER -> "zo"
Buffers  == {In(p) : p \in Packages} \cup {Out(p) : p \in Packages}

VARIABLES
  pc,
  split,    \* ctx->split: three packages or one
  tile, base, pass,
  rows,     \* rows of the current pass
  okrows,   \* rows of the tile that go on to down
  a,        \* row of a: "none", "clip", "good" or "bad"
  dst,      \* row of dst: "h" (still the input), "tpu", "clip", "cpu" or "bad"
  hb,       \* the copy of h
  corr,     \* outlier contributions that are computed
  fb,       \* rows left to the CPU
  given,    \* tiles given up in a further pass of gate and up
  sess,     \* the session with tpud is open
  flight,   \* the package the TPU is computing
  reply,
  out,      \* the pass whose results are in an output buffer
  access    \* buffers whose CPU access is open

place   == <<tile, base, pass, rows, okrows>>
results == <<a, dst, hb, corr, fb, given>>
tpu     == <<sess, flight, reply, out>>
vars    == <<pc, split, place, results, tpu, access>>

Tile == {r \in Rows : tile <= r /\ r < tile + B}
Now  == <<tile, base, pass>>

Init ==
  /\ pc = "call" /\ split \in BOOLEAN
  /\ tile = 0 /\ base = 0 /\ pass = 1 /\ rows = {} /\ okrows = {}
  /\ a = [r \in Rows |-> "none"] /\ dst = [r \in Rows |-> "h"] /\ hb = [r \in Rows |-> "none"]
  /\ corr = {} /\ fb = {} /\ given = {}
  /\ sess = TRUE /\ flight = None /\ reply = "none"
  /\ out = [p \in Packages |-> None] /\ access = Buffers

-------------------------------------------------------------------------------
(* libbarra and the TPU *)

\* Mutant: the CPU access to the output is left open.
CloseIn(p) == access' = access \ {In(p)}

\* barra_zc_cpu_end of both buffers.
Close(p) == access' = access \ {In(p), Out(p)}
Open(p)  == access' = access \cup {In(p), Out(p)}

\* What follows a failed inference of package p: the rows of the pass are left to
\* the CPU, and the tile is over.
Failed(p) ==
  /\ fb' = fb \cup IF p = "ffn" THEN Tile ELSE rows
  /\ IF p = "down"
     THEN pc' = "sub" /\ base' = base + Bd /\ UNCHANGED <<tile, given>>
     ELSE /\ pc' = "tile" /\ tile' = tile + B /\ UNCHANGED base
          /\ given' = IF pass > 1 THEN given \cup {tile} ELSE given

\* barra_tpu_submit, or the first half of barra_tpu_infer.
Submit(p) ==
  /\ pc = p /\ sess
  /\ Close(p)
  /\ flight' = p /\ reply' = "none" /\ pc' = "flight"
  /\ UNCHANGED <<split, place, results, sess, out>>

\* No session, buffers that cannot be imported, or a request that cannot be
\* sent; the last ends the session.
SubmitFails(p) ==
  /\ pc = p
  /\ sess' \in {FALSE, sess}
  /\ Failed(p)
  /\ IF sess /\ ~sess' THEN Open(p) ELSE UNCHANGED access
  /\ UNCHANGED <<split, pass, rows, okrows, a, dst, hb, corr, flight, reply, out>>

\* The TPU computes, or tpud reports an error, or is gone.
Tpu ==
  /\ flight # None /\ reply = "none"
  /\ reply' \in {"ok", "error", "gone"}
  /\ out' = IF reply' = "ok" THEN [out EXCEPT ![flight] = Now] ELSE out
  /\ UNCHANGED <<pc, split, place, results, sess, flight, access>>

\* While the TPU computes, the CPU multiplies the outlier channels (once).
Overlap ==
  /\ pc = "flight"
  /\ corr' = IF flight \in {"gate", "up"} THEN corr \cup {flight} ELSE corr
  /\ pc' = "wait"
  /\ UNCHANGED <<split, place, a, dst, hb, fb, given, tpu, access>>

\* barra_tpu_wait, or the second half of barra_tpu_infer.
Wait ==
  /\ pc = "wait" /\ reply = "ok"
  /\ Open(flight)
  /\ pc' = CASE flight = "gate" -> "up" [] flight = "up" -> "gu read"
             [] flight = "down" -> "dn read" [] OTHER -> "read"
  /\ flight' = None
  /\ UNCHANGED <<split, place, results, sess, reply, out>>

WaitFails ==
  /\ pc = "wait" /\ reply \in {"error", "gone"}
  /\ Open(flight) /\ Failed(flight)
  /\ sess' = (reply = "error") /\ flight' = None
  /\ UNCHANGED <<split, pass, rows, okrows, a, dst, hb, corr, reply, out>>

-------------------------------------------------------------------------------
(* Tiles *)

\* dst may be the memory of h: h is copied first.
Copy ==
  /\ pc = "call"
  /\ hb' = dst /\ pc' = "tile"
  /\ UNCHANGED <<split, place, a, dst, corr, fb, given, tpu, access>>

StartTile ==
  /\ pc = "tile" /\ tile < T
  /\ rows' = Tile /\ pass' = 1 /\ base' = 0
  /\ corr' = IF Outliers THEN {} ELSE {"gate", "up"}
  /\ pc' = IF split THEN "gu fill" ELSE "fill"
  /\ UNCHANGED <<split, tile, okrows, a, dst, hb, fb, given, tpu, access>>

\* The rows are scaled and quantised, inside the brackets of CPU access.
Fill ==
  /\ pc \in {"gu fill", "dn fill"}
  /\ pc' = IF pc = "gu fill" THEN "gate" ELSE "down"
  /\ access' = access \ {IF pc = "gu fill" THEN "zi_d" ELSE "zi_ff"}
  /\ UNCHANGED <<split, place, results, tpu>>

\* A pass is the last one when nothing saturated or there may be no further one.
Last(clipped, retry) == clipped = {} \/ ~retry \/ pass = MaxPass

\* silu(gate) * up of the rows, with the outliers; then another pass, or on to
\* down with the rows that did not saturate.
GuReadRows(retry) ==
  \E clipped \in SUBSET rows :
    /\ a' = [r \in Rows |->
               IF r \notin rows THEN a[r]
               ELSE IF out["gate"] # Now \/ out["up"] # Now \/ corr # {"gate", "up"} THEN "bad"
               ELSE IF r \in clipped THEN "clip" ELSE "good"]
    /\ IF Last(clipped, retry)
       THEN /\ pc' = "sub" /\ UNCHANGED <<rows, pass>>
            /\ fb' = fb \cup clipped /\ okrows' = Tile \ clipped
       ELSE /\ pc' = "gu fill" /\ rows' = clipped /\ pass' = pass + 1
            /\ UNCHANGED <<okrows, fb>>

GuRead ==
  /\ pc = "gu read"
  /\ GuReadRows(GuRetry)
  /\ access' = access \ {"zo_g", "zo_u"}
  /\ UNCHANGED <<split, tile, base, dst, hb, corr, given, tpu>>

\* down, in tiles of its own.
StartSub ==
  /\ pc = "sub" /\ base < B
  /\ rows' = {r \in okrows : tile + base <= r /\ r < tile + base + Bd}
  /\ pass' = 1
  /\ IF rows' = {} THEN base' = base + Bd /\ UNCHANGED pc ELSE pc' = "dn fill" /\ UNCHANGED base
  /\ UNCHANGED <<split, tile, okrows, results, tpu, access>>

EndTile ==
  /\ pc = "sub" /\ base >= B
  /\ tile' = tile + B /\ pc' = "tile"
  /\ UNCHANGED <<split, base, pass, rows, okrows, results, tpu, access>>

DnRead ==
  /\ pc = "dn read"
  /\ \E clipped \in SUBSET rows :
       /\ dst' = [r \in Rows |->
                    IF r \notin rows THEN dst[r]
                    ELSE IF out["down"] # Now \/ a[r] # "good" THEN "bad"
                    ELSE IF r \in clipped THEN "clip" ELSE "tpu"]
       /\ IF Last(clipped, DnRetry)
          THEN pc' = "sub" /\ fb' = fb \cup clipped /\ base' = base + Bd /\ UNCHANGED <<rows, pass>>
          ELSE pc' = "dn fill" /\ rows' = clipped /\ pass' = pass + 1 /\ UNCHANGED <<fb, base>>
  /\ access' = access \ {"zo_d"}
  /\ UNCHANGED <<split, tile, okrows, a, hb, corr, given, tpu>>

\* The fused package: rows whose input saturates are left to the CPU at once ...
FusedFill ==
  /\ pc = "fill"
  /\ \E saturated \in SUBSET Tile : rows' = Tile \ saturated /\ fb' = fb \cup saturated
  /\ access' = access \ {"zi"}
  /\ pc' = "ffn"
  /\ UNCHANGED <<split, tile, base, pass, okrows, a, dst, hb, corr, given, tpu>>

\* ... but all rows of the tile are written.
FusedRead ==
  /\ pc = "read"
  /\ \E clipped \in SUBSET Tile :
       /\ dst' = [r \in Rows |-> IF r \notin Tile THEN dst[r]
                                 ELSE IF r \notin rows \/ out["ffn"] # Now THEN "bad"
                                 ELSE IF r \in clipped THEN "clip" ELSE "tpu"]
       /\ fb' = fb \cup clipped
  /\ access' = access \ {"zo"}
  /\ tile' = tile + B /\ pc' = "tile"
  /\ UNCHANGED <<split, base, pass, rows, okrows, a, hb, corr, given, tpu>>

\* Mutant: the fallback reads h where dst is written.
FallbackInPlace ==
  /\ pc = "tile" /\ tile >= T
  /\ dst' = [r \in Rows |-> IF r \notin fb THEN dst[r] ELSE IF dst[r] = "h" THEN "cpu" ELSE "bad"]
  /\ pc' = "done"
  /\ UNCHANGED <<split, place, a, hb, corr, fb, given, tpu, access>>

\* barra_ffn_fallback, from the copy of h.
Fallback ==
  /\ pc = "tile" /\ tile >= T
  /\ dst' = [r \in Rows |-> IF r \notin fb THEN dst[r] ELSE IF hb[r] = "h" THEN "cpu" ELSE "bad"]
  /\ pc' = "done"
  /\ UNCHANGED <<split, place, a, hb, corr, fb, given, tpu, access>>

Next ==
  \/ Copy \/ StartTile \/ Fill \/ GuRead \/ StartSub \/ EndTile \/ DnRead
  \/ FusedFill \/ FusedRead \/ Fallback
  \/ Tpu \/ Overlap \/ Wait \/ WaitFails
  \/ \E p \in Packages : Submit(p) \/ SubmitFails(p)

Spec == Init /\ [][Next]_vars

-------------------------------------------------------------------------------
\* The variables hold values of these sets.
TypeOK ==
  /\ pc \in Packages \cup {"call", "tile", "gu fill", "flight", "wait", "gu read", "sub",
                            "dn fill", "dn read", "fill", "read", "done"}
  /\ split \in BOOLEAN /\ sess \in BOOLEAN
  /\ tile \in Nat /\ base \in Nat /\ pass \in 1 .. MaxPass
  /\ rows \subseteq Rows /\ okrows \subseteq Rows /\ fb \subseteq Rows /\ given \subseteq Nat
  /\ a \in [Rows -> {"none", "clip", "good", "bad"}]
  /\ dst \in [Rows -> {"h", "tpu", "clip", "cpu", "bad"}] /\ hb \in [Rows -> {"none", "h"}]
  /\ corr \subseteq {"gate", "up"} /\ access \subseteq Buffers
  /\ flight \in Packages \cup {None} /\ reply \in {"none", "ok", "error", "gone"}
  /\ out \in [Packages -> {None} \cup (Nat \X Nat \X (1 .. MaxPass))]

\* Every row of the result is computed, by the TPU without saturation and from
\* results of its own pass, or by the CPU from the intact input; whatever
\* saturates and fails, and although the result overwrites the input.  Except
\* that a failure in a further pass of gate and up forgets the other rows of its
\* tile (ggml-barra.cpp:396-400): they keep what the memory held.
RowsComputed ==
  pc = "done" =>
    \A r \in Rows : \/ dst[r] \in {"tpu", "cpu"}
                    \/ dst[r] = "h" /\ \E t \in given : t <= r /\ r < t + B

\* While the TPU works on a package its two buffers are closed to the CPU: the
\* brackets of libbarra hold on every path, failures and further passes included.
DeviceExclusive == flight # None /\ reply = "none" => access \cap {In(flight), Out(flight)} = {}
===============================================================================
