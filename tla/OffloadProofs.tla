----------------------------- MODULE OffloadProofs -----------------------------
(***************************************************************************)
(* Proofs about the offload of llama.cpp's layers (ggml-barra.cpp).        *)
(*                                                                         *)
(* The feed-forward block on the TPU (FfnOffload), for every number of     *)
(* rows, every tile size and any number of passes: no row is lost,         *)
(* whatever saturates and whatever fails, and no buffer of a running       *)
(* inference is open to the CPU.  The argument follows the place of the    *)
(* computation: rows before the tile are dealt with, rows after it         *)
(* untouched, and what is known of the rows of the tile depends on the     *)
(* package it is at.                                                       *)
(*                                                                         *)
(* The thread pool beside it (GluePool), for every number of workers and   *)
(* rows: when run returns every row was done once, and no thread can call  *)
(* the function of a job that is over.  The heart of the argument is that  *)
(* the number done is the number of workers that are through with the      *)
(* current generation, so that run cannot return while one is not.         *)
(***************************************************************************)
EXTENDS FfnOffload, GluePool, FiniteSetTheorems, TLAPS

\* At the package p: before it, computing it, or waiting for it.
At(p) == pc = p \/ (pc \in {"flight", "wait"} /\ flight = p)

InGateUp == pc \in {"gu fill", "gu read"} \/ At("gate") \/ At("up")
InDown   == pc \in {"dn fill", "dn read"} \/ At("down")
InFused  == pc = "read" \/ At("ffn")

Forgotten(r) == dst[r] = "h" /\ \E t \in given : t <= r /\ r < t + B

Places ==
  /\ flight # None <=> pc \in {"flight", "wait"}
  /\ pc = "call" => tile = 0
  /\ \A r \in Rows : hb[r] = IF pc = "call" THEN "none" ELSE "h"

\* Rows outside the tile.
Outside ==
  /\ pc # "done" => \A r \in Rows : r < tile => r \in fb \/ dst[r] = "tpu" \/ Forgotten(r)
  /\ \A r \in Rows : r >= tile + B => dst[r] = "h" \/ pc = "done"
  /\ pc \in {"call", "tile"} => \A r \in Rows : r >= tile => dst[r] = "h"

\* Rows of the tile, while gate and up are computed.
GateUpRows ==
  InGateUp =>
    /\ base = 0 /\ rows \subseteq Tile
    /\ pass = 1 => rows = Tile
    /\ \A r \in Tile : dst[r] = "h"
    /\ \A r \in Tile \ rows : a[r] = "good"

\* Rows of the tile, from the end of gate and up.
DownRows ==
  pc = "sub" \/ InDown =>
    /\ okrows \subseteq Tile
    /\ \A r \in Tile \ okrows : r \in fb
    /\ \A r \in okrows : a[r] = "good"
    /\ \A r \in okrows : r < tile + base => r \in fb \/ dst[r] = "tpu"

\* Rows of the tile of down.
SubRows ==
  InDown =>
    /\ rows \subseteq {r \in okrows : tile + base <= r /\ r < tile + base + Bd}
    /\ \A r \in okrows \ rows :
         tile + base <= r /\ r < tile + base + Bd => r \in fb \/ dst[r] = "tpu"

FusedRows == InFused => rows \subseteq Tile /\ Tile \ rows \subseteq fb

\* The results in the output buffers are those of the present pass.
Fresh ==
  /\ flight # None /\ reply = "ok" => out[flight] = Now
  /\ At("up") \/ pc = "gu read" => out["gate"] = Now /\ "gate" \in corr
  /\ pc = "wait" /\ flight \in {"gate", "up"} => flight \in corr
  /\ pc = "gu read" => out["up"] = Now /\ "up" \in corr
  /\ pc = "dn read" => out["down"] = Now
  /\ pc = "read" => out["ffn"] = Now

Closed == flight # None => access \cap {In(flight), Out(flight)} = {}

IInv == /\ TypeOK /\ Places /\ Outside /\ GateUpRows /\ DownRows /\ SubRows /\ FusedRows /\ Fresh
        /\ Closed /\ RowsComputed

-------------------------------------------------------------------------------
\* What the two reading actions do with the rows that saturated.
GuReadWith(clipped) ==
  /\ a' = [r \in Rows |->
             IF r \notin rows THEN a[r]
             ELSE IF out["gate"] # Now \/ out["up"] # Now \/ corr # {"gate", "up"} THEN "bad"
             ELSE IF r \in clipped THEN "clip" ELSE "good"]
  /\ \/ /\ Last(clipped, GuRetry) /\ pc' = "sub" /\ UNCHANGED <<rows, pass>>
        /\ fb' = fb \cup clipped /\ okrows' = Tile \ clipped
     \/ /\ ~Last(clipped, GuRetry) /\ pc' = "gu fill" /\ rows' = clipped /\ pass' = pass + 1
        /\ UNCHANGED <<okrows, fb>>

DnReadWith(clipped) ==
  /\ dst' = [r \in Rows |->
               IF r \notin rows THEN dst[r]
               ELSE IF out["down"] # Now \/ a[r] # "good" THEN "bad"
               ELSE IF r \in clipped THEN "clip" ELSE "tpu"]
  /\ \/ /\ Last(clipped, DnRetry) /\ pc' = "sub" /\ fb' = fb \cup clipped /\ base' = base + Bd
        /\ UNCHANGED <<rows, pass>>
     \/ /\ ~Last(clipped, DnRetry) /\ pc' = "dn fill" /\ rows' = clipped /\ pass' = pass + 1
        /\ UNCHANGED <<fb, base>>

FailedType(p) ==
  /\ fb' \subseteq Rows /\ given' \subseteq Nat /\ tile' \in Nat /\ base' \in Nat
  /\ pc' \in {"sub", "tile"}

\* What the type invariant says of the places and sets of rows.
Numbers ==
  /\ tile \in Nat /\ base \in Nat /\ pass \in Nat /\ 1 <= pass /\ pass <= MaxPass
  /\ rows \subseteq Rows /\ okrows \subseteq Rows /\ fb \subseteq Rows /\ given \subseteq Nat

LEMMA NumbersType == TypeOK => Numbers
<1>1. TypeOK => /\ tile \in Nat /\ base \in Nat /\ pass \in 1 .. MaxPass
                /\ rows \subseteq Rows /\ okrows \subseteq Rows /\ fb \subseteq Rows /\ given \subseteq Nat
  BY Zenon DEF TypeOK
<1>2. MaxPass \in Nat
  BY SizeAssumption
<1> QED
  BY <1>1, <1>2 DEF Numbers

LEMMA Sizes ==
  /\ T \in Nat /\ B \in Nat /\ Bd \in Nat /\ MaxPass \in Nat
  /\ 1 <= T /\ 1 <= B /\ 1 <= Bd /\ Bd <= B /\ 1 <= MaxPass
BY SizeAssumption

LEMMA OnePass == 1 \in 1 .. MaxPass
BY Sizes

LEMMA NextPass ==
  ASSUME Numbers, pass # MaxPass
  PROVE  pass \in 1 .. MaxPass /\ pass + 1 \in 1 .. MaxPass
BY Sizes DEF Numbers

LEMMA SamePass == Numbers => pass \in 1 .. MaxPass
BY Sizes DEF Numbers

LEMMA BaseType == Numbers => base \in Nat /\ base + Bd \in Nat
BY Sizes DEF Numbers

LEMMA TileType == Numbers => tile + B \in Nat
BY Sizes DEF Numbers

LEMMA FailedTypes ==
  ASSUME TypeOK, NEW p \in Packages, Failed(p)
  PROVE  FailedType(p)
<1> USE Sizes, NumbersType DEF Numbers
<1>1. fb' \subseteq Rows
  BY DEF Failed, Tile
<1>2. CASE p = "down"
  BY <1>1, <1>2 DEF Failed, FailedType
<1>3. CASE p # "down"
  <2>1. given' \subseteq Nat
    BY <1>3 DEF Failed
  <2> QED
    BY <1>1, <1>3, <2>1 DEF Failed, FailedType
<1> QED
  BY <1>2, <1>3

LEMMA InitInv == Init => IInv
<1> SUFFICES ASSUME Init PROVE IInv
  OBVIOUS
<1> QED
  BY SizeAssumption, NoneAssumption DEF Init, IInv, TypeOK, Places, Outside, GateUpRows, DownRows, SubRows,
     FusedRows, Fresh, Closed, RowsComputed, At, InGateUp, InDown, InFused, Forgotten, Rows, Packages, Buffers

LEMMA TypeStep == IInv /\ [Next]_vars => TypeOK'
<1> SUFFICES ASSUME IInv, [Next]_vars PROVE TypeOK'
  OBVIOUS
<1>0. Numbers
  BY NumbersType DEF IInv
<1> USE SizeAssumption, NoneAssumption DEF IInv, TypeOK, place, results, tpu, Rows, Packages, Buffers, In, Out
<1>1. CASE Copy
  <2>1. hb' = [r \in Rows |-> "h"]
    BY <1>1 DEF Copy, Places, Outside
  <2> QED
    BY <1>1, <2>1 DEF Copy
<1>2. CASE StartTile
  <2>1. rows' \subseteq Rows /\ pass' = 1 /\ base' \in Nat
    <3> HIDE SizeAssumption DEF TypeOK, Rows
    <3> QED
      BY <1>2 DEF StartTile, Tile
  <2>2. corr' \subseteq {"gate", "up"} /\ pc' \in {"gu fill", "fill"}
    BY <1>2 DEF StartTile
  <2> QED
    BY <1>2, <2>1, <2>2, OnePass DEF StartTile
<1>3. CASE Fill
  BY <1>3 DEF Fill
<1>4. CASE GuRead
  <2>1. PICK clipped \in SUBSET rows : GuReadWith(clipped)
    BY <1>4 DEF GuRead, GuReadRows, GuReadWith
  <2>2. a' \in [Rows -> {"none", "clip", "good", "bad"}]
    BY <2>1 DEF GuReadWith
  <2>3. /\ pc' \in {"sub", "gu fill"} /\ rows' \subseteq Rows
        /\ okrows' \subseteq Rows /\ fb' \subseteq Rows
    <3> HIDE SizeAssumption DEF TypeOK, Rows
    <3> QED
      BY <1>0, <2>1 DEF GuReadWith, Tile, Numbers
  <2>4. pass' \in 1 .. MaxPass
    <3> HIDE SizeAssumption DEF TypeOK, Rows
    <3>1. pass' = pass \/ (pass # MaxPass /\ pass' = pass + 1)
      BY <2>1 DEF GuReadWith, Last
    <3> QED
      BY <1>0, <3>1, SamePass, NextPass
  <2> QED
    BY <1>4, <2>2, <2>3, <2>4 DEF GuRead
<1>5. CASE StartSub
  <2>1. rows' \subseteq Rows /\ pass' = 1
    <3> HIDE SizeAssumption DEF TypeOK, Rows
    <3> QED
      BY <1>0, <1>5 DEF StartSub, Numbers
  <2>2. base' \in Nat /\ pc' \in {"sub", "dn fill"}
    <3> HIDE SizeAssumption DEF TypeOK, Rows
    <3>1. base' \in {base, base + Bd} /\ pc' \in {pc, "dn fill"} /\ pc = "sub"
      BY <1>5 DEF StartSub
    <3> QED
      BY <1>0, <3>1, BaseType
  <2>3. UNCHANGED <<split, tile, okrows, results, tpu, access>>
    BY <1>5 DEF StartSub
  <2> QED
    BY <2>1, <2>2, <2>3, OnePass
<1>6. CASE EndTile
  <2>1. tile' \in Nat
    BY <1>0, <1>6, TileType, Zenon DEF EndTile
  <2>2. pc' = "tile" /\ UNCHANGED <<split, base, pass, rows, okrows, results, tpu, access>>
    BY <1>6 DEF EndTile
  <2> QED
    BY <2>1, <2>2
<1>7. CASE DnRead
  <2>1. PICK clipped \in SUBSET rows : DnReadWith(clipped)
    BY <1>7 DEF DnRead, DnReadWith
  <2>2. dst' \in [Rows -> {"h", "tpu", "clip", "cpu", "bad"}]
    BY <2>1 DEF DnReadWith
  <2>3. /\ pc' \in {"sub", "dn fill"} /\ rows' \subseteq Rows
        /\ base' \in {base, base + Bd} /\ fb' \subseteq Rows
    <3> HIDE SizeAssumption DEF TypeOK, Rows
    <3> QED
      BY <1>0, <2>1 DEF DnReadWith, Numbers
  <2>4. pass' \in 1 .. MaxPass /\ base' \in Nat
    <3> HIDE SizeAssumption DEF TypeOK, Rows
    <3>1. pass' = pass \/ (pass # MaxPass /\ pass' = pass + 1)
      BY <2>1 DEF DnReadWith, Last
    <3>2. base' \in Nat
      BY <1>0, <2>3, BaseType
    <3> QED
      BY <1>0, <3>1, <3>2, SamePass, NextPass
  <2> QED
    BY <1>7, <2>2, <2>3, <2>4 DEF DnRead
<1>8. CASE FusedFill
  BY <1>8 DEF FusedFill, Tile
<1>9. CASE FusedRead
  BY <1>9 DEF FusedRead, Tile
<1>10. CASE Fallback
  BY <1>10 DEF Fallback
<1>11. CASE Tpu
  <2>1. Now \in Nat \X Nat \X (1 .. MaxPass)
    BY DEF Now
  <2>2. out' \in [Packages -> {None} \cup (Nat \X Nat \X (1 .. MaxPass))]
    <3> HIDE DEF Packages
    <3> QED
      BY <1>11, <2>1 DEF Tpu
  <2>3. reply' \in {"none", "ok", "error", "gone"}
    BY <1>11 DEF Tpu
  <2>4. UNCHANGED <<pc, split, place, results, sess, flight, access>>
    BY <1>11 DEF Tpu
  <2> QED
    BY <2>2, <2>3, <2>4
<1>12. CASE Overlap
  BY <1>12 DEF Overlap
<1>13. CASE Wait
  BY <1>13 DEF Wait, Open
<1>14. CASE WaitFails
  <2>1. flight \in Packages
    BY <1>14 DEF WaitFails, Places
  <2>2. FailedType(flight)
    BY <1>14, <2>1, FailedTypes DEF WaitFails
  <2> QED
    BY <1>14, <2>1, <2>2 DEF WaitFails, Open, FailedType
<1>15. ASSUME NEW p \in Packages, Submit(p) PROVE TypeOK'
  BY <1>15 DEF Submit, Close
<1>16. ASSUME NEW p \in Packages, SubmitFails(p) PROVE TypeOK'
  <2>1. FailedType(p)
    BY <1>16, FailedTypes DEF SubmitFails
  <2>2. access' \subseteq Buffers
    BY <1>16 DEF SubmitFails, Open
  <2>3. UNCHANGED <<split, pass, rows, okrows, a, dst, hb, corr, flight, reply, out>> /\ sess' \in BOOLEAN
    BY <1>16 DEF SubmitFails
  <2> QED
    BY <2>1, <2>2, <2>3 DEF FailedType
<1>17. CASE UNCHANGED vars
  <2> HIDE SizeAssumption, NoneAssumption DEF Rows, Packages, Buffers, In, Out, IInv
  <2>1. TypeOK
    BY DEF IInv
  <2> QED
    BY <1>17, <2>1 DEF vars
<1> QED
  BY <1>1, <1>2, <1>3, <1>4, <1>5, <1>6, <1>7, <1>8, <1>9, <1>10, <1>11, <1>12, <1>13, <1>14, <1>15, <1>16,
     <1>17 DEF Next

-------------------------------------------------------------------------------
(* What the actions that fail or read do to the rows *)

LEMMA FlightPackage ==
  TypeOK /\ Places => (pc \in {"flight", "wait"} => flight \in Packages)
<1>1. TypeOK => flight \in Packages \cup {None}
  BY Zenon DEF TypeOK
<1> QED
  BY <1>1 DEF Places

LEMMA Correction == TypeOK => corr \subseteq {"gate", "up"}
BY Zenon DEF TypeOK

LEMMA OutWritten ==
  ASSUME TypeOK, NEW p \in Packages, NEW q \in Packages, NEW v
  PROVE  [out EXCEPT ![p] = v][q] = IF q = p THEN v ELSE out[q]
<1>1. out \in [Packages -> {None} \cup (Nat \X Nat \X (1 .. MaxPass))]
  BY Zenon DEF TypeOK
<1> QED
  BY <1>1

LEMMA TpuFresh == IInv /\ Tpu => Fresh'
<1> SUFFICES ASSUME IInv, Tpu PROVE Fresh'
  OBVIOUS
<1>1. TypeOK /\ Places /\ flight \in Packages
  BY FlightPackage, Zenon DEF Tpu, IInv, Places
<1>2. ASSUME NEW q \in Packages
      PROVE  out'[q] = IF q = flight /\ reply' = "ok" THEN Now ELSE out[q]
  BY <1>1, <1>2, OutWritten DEF Tpu
<1> QED
  BY <1>1, <1>2 DEF IInv, Packages, Tpu, Fresh, Places, At, Now, place, results

\* A failed inference of a further pass of gate and up: the rows of the pass go to
\* the CPU, the others are forgotten.
LEMMA FailedOutside ==
  ASSUME IInv, NEW p \in Packages, At(p), Failed(p), dst' = dst
  PROVE  Outside'
<1>0. Outside /\ fb \subseteq fb' /\ pc \notin {"call", "tile", "done"} /\ pc' \notin {"done", "call"}
  BY DEF IInv, Failed, At, Packages
<1>1. CASE p = "down"
  <2>1. tile' = tile /\ given' = given /\ pc' = "sub"
    BY <1>1 DEF Failed
  <2> QED
    BY <1>0, <2>1 DEF Outside, Forgotten
<1>2. CASE p = "ffn"
  <2>1. tile' = tile + B /\ given \subseteq given' /\ fb' = fb \cup Tile
    BY <1>2 DEF Failed
  <2>2. Numbers
    BY NumbersType DEF IInv
  <2> QED
    BY <1>0, <2>1, <2>2, Sizes DEF Outside, Forgotten, Tile, Rows, Numbers
<1>3. CASE p \in {"gate", "up"}
  <2>1. /\ tile' = tile + B /\ fb' = fb \cup rows /\ pc' = "tile"
        /\ given' = IF pass > 1 THEN given \cup {tile} ELSE given
    BY <1>3 DEF Failed
  <2>2. GateUpRows /\ InGateUp
    BY <1>3 DEF IInv, InGateUp, At
  <2>3. pass > 1 \/ pass = 1
    BY NumbersType DEF IInv, Numbers
  <2>4. ASSUME NEW r \in Tile PROVE r \in fb' \/ Forgotten(r)'
    BY <2>1, <2>2, <2>3, <2>4 DEF GateUpRows, Forgotten, Tile
  <2>5. ASSUME NEW r \in Rows
        PROVE  (r < tile + B => r < tile \/ r \in Tile) /\ (r >= tile + B + B => r >= tile + B)
    BY <2>5, NumbersType, Sizes DEF IInv, Numbers, Tile, Rows
  <2>6. ASSUME NEW r \in Rows PROVE Forgotten(r) => Forgotten(r)'
    BY <2>1 DEF Forgotten
  <2> QED
    BY <1>0, <2>1, <2>4, <2>5, <2>6 DEF Outside
<1> QED
  BY <1>1, <1>2, <1>3 DEF Packages

\* A failed inference of down: the rows of its tile go to the CPU.
LEMMA FailedDownRows ==
  ASSUME IInv, NEW p \in Packages, At(p), Failed(p), dst' = dst, a' = a, okrows' = okrows
  PROVE  DownRows'
<1>1. CASE p = "down"
  <2>1. DownRows /\ SubRows /\ InDown
    BY <1>1 DEF At, IInv, InDown
  <2>2. tile' = tile /\ base' = base + Bd /\ fb' = fb \cup rows
    BY <1>1 DEF Failed
  <2>3. Numbers
    BY NumbersType DEF IInv
  <2>4. Tile' = Tile
    BY <2>2 DEF Tile
  <2>5. ASSUME NEW r \in okrows, r < tile + base + Bd PROVE r \in fb' \/ dst[r] = "tpu"
    <3>1. r < tile + base \/ tile + base <= r
      BY <2>3, Sizes DEF Numbers, Rows
    <3> QED
      BY <2>1, <2>2, <2>5, <3>1 DEF DownRows, SubRows
  <2>6. tile' + base' = tile + base + Bd
    BY <2>2, <2>3, Sizes DEF Numbers
  <2> QED
    BY <2>1, <2>2, <2>4, <2>5, <2>6 DEF DownRows
<1>2. CASE p # "down"
  BY <1>2 DEF Failed, DownRows, InDown, At, Packages
<1> QED
  BY <1>1, <1>2

LEMMA ReadOutside == IInv /\ DnRead => Outside'
<1> SUFFICES ASSUME IInv, DnRead PROVE Outside'
  OBVIOUS
<1>1. PICK clipped \in SUBSET rows : DnReadWith(clipped)
  BY DEF DnRead, DnReadWith
<1>2. /\ Outside /\ pc = "dn read" /\ rows \subseteq Tile /\ fb \subseteq fb'
      /\ pc' \in {"sub", "dn fill"} /\ tile' = tile /\ given' = given
  BY <1>1 DEF DnRead, DnReadWith, IInv, DownRows, SubRows, InDown, results
<1>3. \A r \in Rows : r \notin Tile => dst'[r] = dst[r]
  BY <1>1, <1>2 DEF DnReadWith
<1>4. \A r \in Rows : r < tile \/ r >= tile + B => r \notin Tile
  BY Sizes, NumbersType DEF IInv, Tile, Rows, Numbers
<1> QED
  BY <1>2, <1>3, <1>4 DEF Outside, Forgotten

\* Nothing bad is read: the results of gate and up are those of this pass.
LEMMA GuRowsRead ==
  ASSUME IInv, GuRead
  PROVE  \E clipped \in SUBSET rows :
    /\ GuReadWith(clipped)
    /\ \A r \in Rows : a'[r] = IF r \notin rows THEN a[r] ELSE IF r \in clipped THEN "clip" ELSE "good"
<1>1. PICK clipped \in SUBSET rows : GuReadWith(clipped)
  BY DEF GuRead, GuReadRows, GuReadWith
<1>2. out["gate"] = Now /\ out["up"] = Now /\ {"gate", "up"} \subseteq corr /\ corr \subseteq {"gate", "up"}
  BY Correction DEF GuRead, IInv, Fresh
<1>3. corr = {"gate", "up"}
  BY <1>2
<1> QED
  BY <1>1, <1>2, <1>3 DEF GuReadWith

LEMMA ReadGateUpRows == IInv /\ GuRead => GateUpRows'
<1> SUFFICES ASSUME IInv, GuRead, InGateUp' PROVE GateUpRows'
  BY DEF GateUpRows
<1>1. PICK clipped \in SUBSET rows :
        /\ GuReadWith(clipped)
        /\ \A r \in Rows : a'[r] = IF r \notin rows THEN a[r] ELSE IF r \in clipped THEN "clip" ELSE "good"
  BY GuRowsRead
<1>2. GateUpRows /\ InGateUp /\ Tile' = Tile /\ dst' = dst /\ base' = base
  BY DEF GuRead, IInv, InGateUp, Tile
<1>3. rows' = clipped /\ pass' = pass + 1
  BY <1>1 DEF GuReadWith, InGateUp, At
<1>4. pass' # 1
  BY <1>3, NumbersType DEF Numbers, IInv
<1>5. Tile \subseteq Rows
  BY DEF Tile
<1> QED
  BY <1>1, <1>2, <1>3, <1>4, <1>5 DEF GateUpRows

LEMMA ReadOkRows == IInv /\ GuRead => DownRows'
<1> SUFFICES ASSUME IInv, GuRead, pc' = "sub" \/ InDown' PROVE DownRows'
  BY DEF DownRows
<1>1. PICK clipped \in SUBSET rows :
        /\ GuReadWith(clipped)
        /\ \A r \in Rows : a'[r] = IF r \notin rows THEN a[r] ELSE IF r \in clipped THEN "clip" ELSE "good"
  BY GuRowsRead
<1>2. GateUpRows /\ InGateUp /\ Tile' = Tile /\ tile' = tile /\ base' = base
  BY DEF GuRead, IInv, InGateUp, Tile
<1>3. okrows' = Tile \ clipped /\ fb' = fb \cup clipped
  BY <1>1 DEF GuReadWith, InDown, At, GuRead
<1>4. \A r \in Tile : r \in Rows /\ ~(r < tile + 0)
  BY NumbersType DEF Numbers, IInv, Tile, Rows
<1> QED
  BY <1>1, <1>2, <1>3, <1>4 DEF GateUpRows, DownRows

LEMMA StartDownRows == IInv /\ StartSub => DownRows'
<1> SUFFICES ASSUME IInv, StartSub PROVE DownRows'
  OBVIOUS
<1>1. /\ DownRows /\ pc = "sub" /\ Tile' = Tile /\ tile' = tile
      /\ okrows' = okrows /\ a' = a /\ dst' = dst /\ fb' = fb
  BY DEF StartSub, IInv, results, Tile
<1>2. CASE rows' # {}
  BY <1>1, <1>2 DEF StartSub, DownRows
<1>3. CASE rows' = {}
  <2>1. base' = base + Bd /\ \A r \in okrows : ~(tile + base <= r /\ r < tile + base + Bd)
    BY <1>3 DEF StartSub
  <2>2. \A r \in okrows : r < tile + base' => r < tile + base
    BY <2>1, NumbersType, Sizes DEF Numbers, IInv, Rows
  <2> QED
    BY <1>1, <2>2 DEF DownRows
<1> QED
  BY <1>2, <1>3

LEMMA ReadDownRows == IInv /\ DnRead => DownRows'
<1> SUFFICES ASSUME IInv, DnRead PROVE DownRows'
  OBVIOUS
<1>1. PICK clipped \in SUBSET rows : DnReadWith(clipped)
  BY DEF DnRead, DnReadWith
<1>2. /\ DownRows /\ SubRows /\ InDown /\ pc = "dn read" /\ out["down"] = Now
      /\ Tile' = Tile /\ tile' = tile /\ okrows' = okrows /\ a' = a /\ fb \subseteq fb'
  BY <1>1 DEF DnRead, DnReadWith, IInv, InDown, Fresh, Tile
<1>3. \A r \in rows : a[r] = "good" /\ r \in Rows /\ tile + base <= r
  BY <1>2, NumbersType DEF SubRows, DownRows, IInv, Numbers
<1>4. \A r \in Rows : dst'[r] = IF r \notin rows THEN dst[r] ELSE IF r \in clipped THEN "clip" ELSE "tpu"
  BY <1>1, <1>2, <1>3 DEF DnReadWith
<1>5. \A r \in okrows : r \in Rows /\ (r < tile + base <=> ~(tile + base <= r))
  BY NumbersType DEF Numbers, IInv, Rows
<1>6. CASE base' = base
  BY <1>2, <1>3, <1>4, <1>5, <1>6 DEF DownRows
<1>7. CASE base' = base + Bd /\ fb' = fb \cup clipped
  <2>1. tile + base' = tile + base + Bd
    BY <1>7, NumbersType, Sizes DEF Numbers, IInv
  <2> QED
    BY <1>2, <1>3, <1>4, <1>5, <1>7, <2>1 DEF DownRows, SubRows
<1> QED
  BY <1>1, <1>6, <1>7 DEF DnReadWith

LEMMA EndTileOutside == IInv /\ EndTile => Outside'
BY NumbersType, Sizes DEF IInv, Numbers, EndTile, Outside, Forgotten, Places, DownRows, Tile, Rows, results, tpu

LEMMA FusedOutside == IInv /\ FusedRead => Outside'
BY NumbersType, Sizes DEF IInv, Packages, Numbers, FusedRead, Outside, Forgotten, FusedRows, InFused, Fresh,
   Tile, Rows, tpu

LEMMA FallbackComputes == IInv /\ Fallback => RowsComputed'
BY NumbersType, Sizes DEF IInv, Numbers, Fallback, Places, Outside, Forgotten, RowsComputed, Rows, tpu

-------------------------------------------------------------------------------
(* Every step *)

LEMMA PlacesStep == IInv /\ [Next]_vars => Places'
<1> SUFFICES ASSUME IInv, [Next]_vars PROVE Places'
  OBVIOUS
<1>0. Numbers
  BY NumbersType DEF IInv
<1> USE <1>0, NoneAssumption DEF IInv, Packages, place, results, tpu, Places
<1>1. CASE Copy
  BY <1>1 DEF Copy, Outside, Rows
<1>2. CASE StartTile
  BY <1>2 DEF StartTile, Tile
<1>3. CASE Fill
  BY <1>3 DEF Fill
<1>4. CASE GuRead
  BY <1>4 DEF GuRead, GuReadRows, Last
<1>5. CASE StartSub
  BY <1>5 DEF StartSub
<1>6. CASE EndTile
  BY <1>6 DEF EndTile
<1>7. CASE DnRead
  BY <1>7 DEF DnRead, Last
<1>8. CASE FusedFill
  BY <1>8 DEF FusedFill
<1>9. CASE FusedRead
  BY <1>9 DEF FusedRead
<1>10. CASE Fallback
  BY <1>10 DEF Fallback
<1>11. CASE Tpu
  BY <1>11 DEF Tpu, Now
<1>12. CASE Overlap
  BY <1>12 DEF Overlap
<1>13. CASE Wait
  BY <1>13 DEF Wait, Open
<1>14. CASE WaitFails
  BY <1>14 DEF WaitFails, Open, Failed
<1>15. ASSUME NEW p \in Packages, Submit(p) PROVE Places'
  BY <1>15 DEF Submit, Close
<1>16. ASSUME NEW p \in Packages, SubmitFails(p) PROVE Places'
  BY <1>16 DEF SubmitFails, Open, Failed
<1>17. CASE UNCHANGED vars
  BY <1>17 DEF vars
<1> QED
  BY <1>1, <1>2, <1>3, <1>4, <1>5, <1>6, <1>7, <1>8, <1>9, <1>10,
     <1>11, <1>12, <1>13, <1>14, <1>15, <1>16,
     <1>17 DEF Next

LEMMA ClosedStep == IInv /\ [Next]_vars => Closed'
<1> SUFFICES ASSUME IInv, [Next]_vars PROVE Closed'
  OBVIOUS
<1>0. Numbers
  BY NumbersType DEF IInv
<1> USE <1>0, NoneAssumption DEF IInv, Packages, place, results, tpu, Places, Closed, At, In, Out
<1>1. CASE Copy
  BY <1>1 DEF Copy
<1>2. CASE StartTile
  BY <1>2 DEF StartTile, Tile
<1>3. CASE Fill
  BY <1>3 DEF Fill
<1>4. CASE GuRead
  BY <1>4 DEF GuRead, GuReadRows, Last
<1>5. CASE StartSub
  BY <1>5 DEF StartSub
<1>6. CASE EndTile
  BY <1>6 DEF EndTile
<1>7. CASE DnRead
  BY <1>7 DEF DnRead, Last
<1>8. CASE FusedFill
  BY <1>8 DEF FusedFill
<1>9. CASE FusedRead
  BY <1>9 DEF FusedRead
<1>10. CASE Fallback
  BY <1>10 DEF Fallback
<1>11. CASE Tpu
  BY <1>11 DEF Tpu, Now
<1>12. CASE Overlap
  BY <1>12 DEF Overlap
<1>13. CASE Wait
  BY <1>13 DEF Wait, Open
<1>14. CASE WaitFails
  BY <1>14 DEF WaitFails, Open, Failed
<1>15. ASSUME NEW p \in Packages, Submit(p) PROVE Closed'
  BY <1>15 DEF Submit, Close
<1>16. ASSUME NEW p \in Packages, SubmitFails(p) PROVE Closed'
  BY <1>16 DEF SubmitFails, Open, Failed
<1>17. CASE UNCHANGED vars
  BY <1>17 DEF vars
<1> QED
  BY <1>1, <1>2, <1>3, <1>4, <1>5, <1>6, <1>7, <1>8, <1>9, <1>10,
     <1>11, <1>12, <1>13, <1>14, <1>15, <1>16,
     <1>17 DEF Next

LEMMA FreshStep == IInv /\ [Next]_vars => Fresh'
<1> SUFFICES ASSUME IInv, [Next]_vars PROVE Fresh'
  OBVIOUS
<1>0. Numbers
  BY NumbersType DEF IInv
<1> USE <1>0, NoneAssumption DEF IInv, Packages, place, results, tpu, Places, Fresh, At, Now
<1>1. CASE Copy
  BY <1>1 DEF Copy
<1>2. CASE StartTile
  BY <1>2 DEF StartTile, Tile
<1>3. CASE Fill
  BY <1>3 DEF Fill
<1>4. CASE GuRead
  BY <1>4 DEF GuRead, GuReadRows, Last
<1>5. CASE StartSub
  BY <1>5 DEF StartSub
<1>6. CASE EndTile
  BY <1>6 DEF EndTile
<1>7. CASE DnRead
  BY <1>7 DEF DnRead, Last
<1>8. CASE FusedFill
  BY <1>8 DEF FusedFill
<1>9. CASE FusedRead
  BY <1>9 DEF FusedRead
<1>10. CASE Fallback
  BY <1>10 DEF Fallback
<1>11. CASE Tpu
  BY <1>11, TpuFresh
<1>12. CASE Overlap
  BY <1>12 DEF Overlap
<1>13. CASE Wait
  BY <1>13, FlightPackage DEF Wait, Open
<1>14. CASE WaitFails
  BY <1>14 DEF WaitFails, Open, Failed
<1>15. ASSUME NEW p \in Packages, Submit(p) PROVE Fresh'
  BY <1>15 DEF Submit, Close
<1>16. ASSUME NEW p \in Packages, SubmitFails(p) PROVE Fresh'
  BY <1>16 DEF SubmitFails, Open, Failed
<1>17. CASE UNCHANGED vars
  BY <1>17 DEF vars
<1> QED
  BY <1>1, <1>2, <1>3, <1>4, <1>5, <1>6, <1>7, <1>8, <1>9, <1>10,
     <1>11, <1>12, <1>13, <1>14, <1>15, <1>16,
     <1>17 DEF Next

LEMMA FusedRowsStep == IInv /\ [Next]_vars => FusedRows'
<1> SUFFICES ASSUME IInv, [Next]_vars PROVE FusedRows'
  OBVIOUS
<1>0. Numbers
  BY NumbersType DEF IInv
<1> USE <1>0, NoneAssumption DEF IInv, Packages, place, results, tpu, Places, FusedRows, InFused, At, Tile
<1>1. CASE Copy
  BY <1>1 DEF Copy
<1>2. CASE StartTile
  BY <1>2 DEF StartTile, Tile
<1>3. CASE Fill
  BY <1>3 DEF Fill
<1>4. CASE GuRead
  BY <1>4 DEF GuRead, GuReadRows, Last
<1>5. CASE StartSub
  BY <1>5 DEF StartSub
<1>6. CASE EndTile
  BY <1>6 DEF EndTile
<1>7. CASE DnRead
  BY <1>7 DEF DnRead, Last
<1>8. CASE FusedFill
  BY <1>8 DEF FusedFill
<1>9. CASE FusedRead
  BY <1>9 DEF FusedRead
<1>10. CASE Fallback
  BY <1>10 DEF Fallback
<1>11. CASE Tpu
  BY <1>11 DEF Tpu, Now
<1>12. CASE Overlap
  BY <1>12 DEF Overlap
<1>13. CASE Wait
  BY <1>13, FlightPackage DEF Wait, Open
<1>14. CASE WaitFails
  BY <1>14 DEF WaitFails, Open, Failed
<1>15. ASSUME NEW p \in Packages, Submit(p) PROVE FusedRows'
  BY <1>15 DEF Submit, Close
<1>16. ASSUME NEW p \in Packages, SubmitFails(p) PROVE FusedRows'
  BY <1>16 DEF SubmitFails, Open, Failed
<1>17. CASE UNCHANGED vars
  BY <1>17 DEF vars
<1> QED
  BY <1>1, <1>2, <1>3, <1>4, <1>5, <1>6, <1>7, <1>8, <1>9, <1>10,
     <1>11, <1>12, <1>13, <1>14, <1>15, <1>16,
     <1>17 DEF Next

LEMMA OutsideStep == IInv /\ [Next]_vars => Outside'
<1> SUFFICES ASSUME IInv, [Next]_vars PROVE Outside'
  OBVIOUS
<1>0. Numbers
  BY NumbersType DEF IInv
<1> USE <1>0, NoneAssumption DEF IInv, Packages, place, results, tpu, Places, Outside, GateUpRows, Forgotten, Tile, Rows
<1>1. CASE Copy
  BY <1>1 DEF Copy
<1>2. CASE StartTile
  BY <1>2 DEF StartTile, Tile
<1>3. CASE Fill
  BY <1>3 DEF Fill
<1>4. CASE GuRead
  BY <1>4 DEF GuRead, GuReadRows, Last
<1>5. CASE StartSub
  BY <1>5 DEF StartSub
<1>6. CASE EndTile
  BY <1>6, EndTileOutside
<1>7. CASE DnRead
  BY <1>7, ReadOutside
<1>8. CASE FusedFill
  BY <1>8 DEF FusedFill
<1>9. CASE FusedRead
  BY <1>9, FusedOutside
<1>10. CASE Fallback
  BY <1>10 DEF Fallback
<1>11. CASE Tpu
  BY <1>11 DEF Tpu, Now
<1>12. CASE Overlap
  BY <1>12 DEF Overlap
<1>13. CASE Wait
  BY <1>13 DEF Wait, Open
<1>14. CASE WaitFails
  BY <1>14, FlightPackage, FailedOutside DEF At, WaitFails
<1>15. ASSUME NEW p \in Packages, Submit(p) PROVE Outside'
  BY <1>15 DEF Submit, Close
<1>16. ASSUME NEW p \in Packages, SubmitFails(p) PROVE Outside'
  BY <1>16, FailedOutside DEF At, SubmitFails
<1>17. CASE UNCHANGED vars
  BY <1>17 DEF vars
<1> QED
  BY <1>1, <1>2, <1>3, <1>4, <1>5, <1>6, <1>7, <1>8, <1>9, <1>10,
     <1>11, <1>12, <1>13, <1>14, <1>15, <1>16,
     <1>17 DEF Next

LEMMA GateUpRowsStep == IInv /\ [Next]_vars => GateUpRows'
<1> SUFFICES ASSUME IInv, [Next]_vars PROVE GateUpRows'
  OBVIOUS
<1>0. Numbers
  BY NumbersType DEF IInv
<1> USE <1>0, NoneAssumption DEF IInv, Packages, place, results, tpu, Places, Outside, GateUpRows, Fresh, InGateUp, At, Tile
<1>1. CASE Copy
  BY <1>1 DEF Copy
<1>2. CASE StartTile
  BY <1>2 DEF StartTile, Tile
<1>3. CASE Fill
  BY <1>3 DEF Fill
<1>4. CASE GuRead
  BY <1>4, ReadGateUpRows
<1>5. CASE StartSub
  BY <1>5 DEF StartSub
<1>6. CASE EndTile
  BY <1>6 DEF EndTile
<1>7. CASE DnRead
  BY <1>7 DEF DnRead, Last
<1>8. CASE FusedFill
  BY <1>8 DEF FusedFill
<1>9. CASE FusedRead
  BY <1>9 DEF FusedRead
<1>10. CASE Fallback
  BY <1>10 DEF Fallback
<1>11. CASE Tpu
  BY <1>11 DEF Tpu, Now
<1>12. CASE Overlap
  BY <1>12 DEF Overlap
<1>13. CASE Wait
  BY <1>13 DEF Wait, Open
<1>14. CASE WaitFails
  BY <1>14 DEF WaitFails, Open, Failed
<1>15. ASSUME NEW p \in Packages, Submit(p) PROVE GateUpRows'
  BY <1>15 DEF Submit, Close
<1>16. ASSUME NEW p \in Packages, SubmitFails(p) PROVE GateUpRows'
  BY <1>16 DEF SubmitFails, Open, Failed
<1>17. CASE UNCHANGED vars
  BY <1>17 DEF vars
<1> QED
  BY <1>1, <1>2, <1>3, <1>4, <1>5, <1>6, <1>7, <1>8, <1>9, <1>10,
     <1>11, <1>12, <1>13, <1>14, <1>15, <1>16,
     <1>17 DEF Next

LEMMA DownRowsStep == IInv /\ [Next]_vars => DownRows'
<1> SUFFICES ASSUME IInv, [Next]_vars PROVE DownRows'
  OBVIOUS
<1>0. Numbers
  BY NumbersType DEF IInv
<1> USE <1>0, NoneAssumption DEF IInv, Packages, place, results, tpu, Places, Outside, GateUpRows, DownRows, SubRows, Fresh, InGateUp, InDown, At, Tile
<1>1. CASE Copy
  BY <1>1 DEF Copy
<1>2. CASE StartTile
  BY <1>2 DEF StartTile, Tile
<1>3. CASE Fill
  BY <1>3 DEF Fill
<1>4. CASE GuRead
  BY <1>4, ReadOkRows
<1>5. CASE StartSub
  BY <1>5, StartDownRows
<1>6. CASE EndTile
  BY <1>6 DEF EndTile
<1>7. CASE DnRead
  BY <1>7, ReadDownRows
<1>8. CASE FusedFill
  BY <1>8 DEF FusedFill
<1>9. CASE FusedRead
  BY <1>9 DEF FusedRead
<1>10. CASE Fallback
  BY <1>10 DEF Fallback
<1>11. CASE Tpu
  BY <1>11 DEF Tpu, Now
<1>12. CASE Overlap
  BY <1>12 DEF Overlap
<1>13. CASE Wait
  BY <1>13 DEF Wait, Open
<1>14. CASE WaitFails
  BY <1>14, FlightPackage, FailedDownRows DEF At, WaitFails
<1>15. ASSUME NEW p \in Packages, Submit(p) PROVE DownRows'
  BY <1>15 DEF Submit, Close
<1>16. ASSUME NEW p \in Packages, SubmitFails(p) PROVE DownRows'
  BY <1>16, FailedDownRows DEF At, SubmitFails
<1>17. CASE UNCHANGED vars
  BY <1>17 DEF vars
<1> QED
  BY <1>1, <1>2, <1>3, <1>4, <1>5, <1>6, <1>7, <1>8, <1>9, <1>10,
     <1>11, <1>12, <1>13, <1>14, <1>15, <1>16,
     <1>17 DEF Next

LEMMA SubRowsStep == IInv /\ [Next]_vars => SubRows'
<1> SUFFICES ASSUME IInv, [Next]_vars PROVE SubRows'
  OBVIOUS
<1>0. Numbers
  BY NumbersType DEF IInv
<1> USE <1>0, NoneAssumption DEF IInv, Packages, place, results, tpu, Places, SubRows, DownRows, Fresh, InDown, At, Tile
<1>1. CASE Copy
  BY <1>1 DEF Copy
<1>2. CASE StartTile
  BY <1>2 DEF StartTile, Tile
<1>3. CASE Fill
  BY <1>3 DEF Fill
<1>4. CASE GuRead
  BY <1>4 DEF GuRead, GuReadRows, Last
<1>5. CASE StartSub
  BY <1>5 DEF StartSub
<1>6. CASE EndTile
  BY <1>6 DEF EndTile
<1>7. CASE DnRead
  <2>1. PICK clipped \in SUBSET rows :
          /\ pc = "dn read" /\ UNCHANGED <<okrows, tile, a>>
          /\ dst' = [r \in Rows |->
                       IF r \notin rows THEN dst[r]
                       ELSE IF out["down"] # Now \/ a[r] # "good" THEN "bad"
                       ELSE IF r \in clipped THEN "clip" ELSE "tpu"]
          /\ \/ pc' = "sub"
             \/ pc' = "dn fill" /\ rows' = clipped /\ UNCHANGED <<fb, base>>
    BY <1>7 DEF DnRead
  <2>2. CASE pc' = "sub"
    BY <2>2
  <2>3. CASE pc' = "dn fill"
    <3>1. rows' = clipped /\ UNCHANGED <<fb, base, okrows, tile>>
      BY <2>1, <2>3
    <3>2. ASSUME NEW r \in okrows \ clipped, tile + base <= r, r < tile + base + Bd
          PROVE  r \in fb \/ dst'[r] = "tpu"
      <4>1. r \in Rows /\ a[r] = "good" /\ out["down"] = Now
        BY <2>1
      <4> QED
        BY <2>1, <3>2, <4>1
    <3>3. rows \subseteq {r \in okrows : tile + base <= r /\ r < tile + base + Bd}
      BY <2>1
    <3> QED
      BY <2>1, <3>1, <3>2, <3>3
  <2> QED
    BY <2>1, <2>2, <2>3
<1>8. CASE FusedFill
  BY <1>8 DEF FusedFill
<1>9. CASE FusedRead
  BY <1>9 DEF FusedRead
<1>10. CASE Fallback
  BY <1>10 DEF Fallback
<1>11. CASE Tpu
  BY <1>11 DEF Tpu, Now
<1>12. CASE Overlap
  BY <1>12 DEF Overlap
<1>13. CASE Wait
  BY <1>13 DEF Wait, Open
<1>14. CASE WaitFails
  BY <1>14 DEF WaitFails, Open, Failed
<1>15. ASSUME NEW p \in Packages, Submit(p) PROVE SubRows'
  BY <1>15 DEF Submit, Close
<1>16. ASSUME NEW p \in Packages, SubmitFails(p) PROVE SubRows'
  BY <1>16 DEF SubmitFails, Open, Failed
<1>17. CASE UNCHANGED vars
  BY <1>17 DEF vars
<1> QED
  BY <1>1, <1>2, <1>3, <1>4, <1>5, <1>6, <1>7, <1>8, <1>9, <1>10,
     <1>11, <1>12, <1>13, <1>14, <1>15, <1>16,
     <1>17 DEF Next

LEMMA RowsComputedStep == IInv /\ [Next]_vars => RowsComputed'
<1> SUFFICES ASSUME IInv, [Next]_vars PROVE RowsComputed'
  OBVIOUS
<1>0. Numbers
  BY NumbersType DEF IInv
<1> USE <1>0, NoneAssumption DEF IInv, Packages, place, results, tpu, Places, Outside, RowsComputed, Forgotten
<1>1. CASE Copy
  BY <1>1 DEF Copy
<1>2. CASE StartTile
  BY <1>2 DEF StartTile, Tile
<1>3. CASE Fill
  BY <1>3 DEF Fill
<1>4. CASE GuRead
  BY <1>4 DEF GuRead, GuReadRows, Last
<1>5. CASE StartSub
  BY <1>5 DEF StartSub
<1>6. CASE EndTile
  BY <1>6 DEF EndTile
<1>7. CASE DnRead
  BY <1>7 DEF DnRead, Last
<1>8. CASE FusedFill
  BY <1>8 DEF FusedFill
<1>9. CASE FusedRead
  BY <1>9 DEF FusedRead
<1>10. CASE Fallback
  BY <1>10, FallbackComputes
<1>11. CASE Tpu
  BY <1>11 DEF Tpu, Now
<1>12. CASE Overlap
  BY <1>12 DEF Overlap
<1>13. CASE Wait
  BY <1>13 DEF Wait, Open
<1>14. CASE WaitFails
  BY <1>14 DEF WaitFails, Open, Failed
<1>15. ASSUME NEW p \in Packages, Submit(p) PROVE RowsComputed'
  BY <1>15 DEF Submit, Close
<1>16. ASSUME NEW p \in Packages, SubmitFails(p) PROVE RowsComputed'
  BY <1>16 DEF SubmitFails, Open, Failed
<1>17. CASE UNCHANGED vars
  BY <1>17 DEF vars
<1> QED
  BY <1>1, <1>2, <1>3, <1>4, <1>5, <1>6, <1>7, <1>8, <1>9, <1>10,
     <1>11, <1>12, <1>13, <1>14, <1>15, <1>16,
     <1>17 DEF Next

-------------------------------------------------------------------------------
\* The invariant holds in every state.
THEOREM Invariance == Spec => []IInv
<1>1. IInv /\ [Next]_vars => IInv'
  BY TypeStep, PlacesStep, ClosedStep, FreshStep, FusedRowsStep, OutsideStep, GateUpRowsStep,
     DownRowsStep, SubRowsStep, RowsComputedStep DEF IInv
<1> QED
  BY InitInv, <1>1, PTL DEF Spec

\* Type correctness: the feed-forward block keeps its variables in their sets.
THEOREM TypeCorrect == Spec => []TypeOK
<1>1. IInv => TypeOK
  BY DEF IInv
<1> QED
  BY Invariance, <1>1, PTL

\* Every row of the result is computed (ggml-barra.cpp, barra_ffn_split and
\* barra_ffn_fused), except the rows a failure in a further pass forgets.
THEOREM NoRowIsLost == Spec => []RowsComputed
<1>1. IInv => RowsComputed
  BY DEF IInv
<1> QED
  BY Invariance, <1>1, PTL

\* While the TPU works on a package its buffers are closed to the CPU (barra.c,
\* the brackets around barra_tpu_submit and barra_tpu_wait).
THEOREM BracketsHold == Spec => []DeviceExclusive
<1>1. IInv => DeviceExclusive
  BY DEF IInv, Closed, DeviceExclusive
<1> QED
  BY Invariance, <1>1, PTL

-------------------------------------------------------------------------------
(* The thread pool *)

Resting == {"spin", "lock", "check", "doze", "asleep"}
Working == {"work", "call", "count"}

\* Between the publication of a job and its end.
Active == spot[Main] \in {"notify", "work", "call", "join"} /\ ~stop

\* Workers that are through with the current generation.
Through == {w \in Workers : seen[w] = gen /\ spot[w] \in Resting}

Calling == {t \in Threads : spot[t] = "call"}

PoolPlaces ==
  /\ spot[Main] \in {"idle", "reset", "publish", "notify", "work", "call", "join", "quit", "ended"}
  /\ \A w \in Workers : spot[w] \in Resting \cup Working \cup {"ended"}
  /\ \A w \in asleep : spot[w] = "asleep"
  /\ stop <=> (spot[Main] \in {"quit", "ended"} \/ (spot[Main] = "notify" /\ ~job))
  /\ job <=> (Active \/ spot[Main] \in {"reset", "publish"})

Turns ==
  /\ ~Active => \A w \in Workers : seen[w] = gen /\ spot[w] \in Resting \cup {"ended"}
  /\ \A w \in Workers : spot[w] = "ended" => stop
  /\ Active => \A w \in Workers : seen[w] = gen \/ spot[w] \in Resting
  /\ spot[Main] \in {"reset", "publish"} => gen < MaxGen
  /\ spot[Main] = "publish" => done = 0
  /\ Active => done = Cardinality(Through)

Draws ==
  /\ \A t \in Calling : job /\ row[t] < n /\ row[t] < next /\ ran[row[t]] = 0
  /\ \A t, u \in Calling : row[t] = row[u] => t = u
  /\ spot[Main] = "publish" => next = 0
  /\ spot[Main] = "join" => next >= n
  /\ Active => \A w \in Workers : seen[w] = gen /\ spot[w] \in Resting \cup {"count"} => next >= n

Counts ==
  /\ spot[Main] = "reset" => \A r \in JobRows : ran[r] = 0
  /\ Active \/ spot[Main] = "publish" =>
       \A r \in JobRows : /\ r >= n \/ r >= next => ran[r] = 0
                          /\ r < n /\ r < next => ran[r] = 1 \/ \E t \in Calling : row[t] = r
  /\ EachRowOnce

PoolInv == PoolTypeOK /\ PoolPlaces /\ Turns /\ Draws /\ Counts

-------------------------------------------------------------------------------
LEMMA PoolInitInv == PoolInit => PoolInv
<1> SUFFICES ASSUME PoolInit PROVE PoolInv
  OBVIOUS
<1> USE DEF PoolInit
<1>1. PoolTypeOK
  <2>1. gen \in 0 .. MaxGen /\ next \in Nat /\ done \in Nat /\ n \in 0 .. MaxRows
    BY BoundAssumption
  <2>2. seen \in [Workers -> 0 .. MaxGen]
    BY BoundAssumption
  <2>3. row \in [Threads -> Nat] /\ ran \in [JobRows -> Nat]
    OBVIOUS
  <2> QED
    BY <2>1, <2>2, <2>3 DEF PoolTypeOK
<1>2. PoolPlaces
  BY WorkersAssumption DEF PoolPlaces, Threads, Active, Resting
<1>3. Turns
  BY WorkersAssumption DEF Turns, Threads, Active, Resting
<1>4. Draws
  BY WorkersAssumption DEF Draws, Threads, Active, Calling
<1>5. Counts
  BY WorkersAssumption, BoundAssumption DEF Counts, EachRowOnce, Threads, JobRows, Active
<1> QED
  BY <1>1, <1>2, <1>3, <1>4, <1>5 DEF PoolInv

\* Every step keeps the types.
LEMMA PoolTypeStep == PoolInv /\ [PoolNext]_poolVars => PoolTypeOK'
<1> SUFFICES ASSUME PoolInv, [PoolNext]_poolVars PROVE PoolTypeOK'
  OBVIOUS
<1> USE WorkersAssumption, BoundAssumption DEF PoolInv, PoolTypeOK, shared, Goto, Threads
<1>1. ASSUME NEW t \in Threads, Draw(t) PROVE PoolTypeOK'
  BY <1>1 DEF Draw
<1>2. ASSUME NEW t \in Threads, Call(t) PROVE PoolTypeOK'
  <2>1. row[t] \in JobRows
    BY <1>2 DEF Call, Draws, Calling, JobRows
  <2> QED
    BY <1>2, <2>1 DEF Call
<1>3. CASE Run
  BY <1>3 DEF Run
<1>4. CASE Reset
  BY <1>4 DEF Reset
<1>5. CASE Publish
  BY <1>5 DEF Publish, Turns
<1>6. CASE Notify
  BY <1>6 DEF Notify
<1>7. CASE Join
  BY <1>7 DEF Join, Return
<1>8. CASE Destroy
  BY <1>8 DEF Destroy
<1>9. CASE Destroyed
  BY <1>9 DEF Destroyed
<1>10. ASSUME NEW w \in Workers, Leave(w) PROVE PoolTypeOK'
  BY <1>10 DEF Leave
<1>11. ASSUME NEW w \in Workers, Tire(w) \/ Lock(w) PROVE PoolTypeOK'
  BY <1>11 DEF Tire, Lock
<1>12. ASSUME NEW w \in Workers, Check(w) \/ Doze(w) PROVE PoolTypeOK'
  BY <1>12 DEF Check, Doze
<1>13. ASSUME NEW w \in Workers, Spurious(w) \/ Count(w) PROVE PoolTypeOK'
  BY <1>13 DEF Spurious, Count
<1>14. CASE UNCHANGED poolVars
  BY <1>14 DEF poolVars
<1> QED
  BY <1>1, <1>2, <1>3, <1>4, <1>5, <1>6, <1>7, <1>8, <1>9, <1>10, <1>11, <1>12, <1>13, <1>14
     DEF PoolNext, MainStep, WorkerStep

\* Every thread is at a place of its own program.
LEMMA PoolPlacesStep == PoolInv /\ [PoolNext]_poolVars => PoolPlaces'
<1> SUFFICES ASSUME PoolInv, [PoolNext]_poolVars PROVE PoolPlaces'
  OBVIOUS
<1> USE WorkersAssumption DEF PoolInv, PoolTypeOK, PoolPlaces, shared, Goto, Threads, Active, Resting, Working
<1>1. ASSUME NEW t \in Threads, Draw(t) PROVE PoolPlaces'
  BY <1>1 DEF Draw
<1>2. ASSUME NEW t \in Threads, Call(t) PROVE PoolPlaces'
  BY <1>2 DEF Call
<1>3. CASE Run
  BY <1>3 DEF Run
<1>4. CASE Reset
  BY <1>4 DEF Reset
<1>5. CASE Publish
  BY <1>5 DEF Publish
<1>6. CASE Notify
  BY <1>6 DEF Notify
<1>7. CASE Join
  BY <1>7 DEF Join, Return
<1>8. CASE Destroy
  BY <1>8 DEF Destroy
<1>9. CASE Destroyed
  BY <1>9 DEF Destroyed
<1>10. ASSUME NEW w \in Workers, Leave(w) PROVE PoolPlaces'
  BY <1>10 DEF Leave, News
<1>11. ASSUME NEW w \in Workers, Tire(w) \/ Lock(w) PROVE PoolPlaces'
  BY <1>11 DEF Tire, Lock
<1>12. ASSUME NEW w \in Workers, Check(w) \/ Doze(w) PROVE PoolPlaces'
  BY <1>12 DEF Check, Doze
<1>13. ASSUME NEW w \in Workers, Spurious(w) PROVE PoolPlaces'
  BY <1>13 DEF Spurious
<1>14. ASSUME NEW w \in Workers, Count(w) PROVE PoolPlaces'
  BY <1>14 DEF Count
<1>15. CASE UNCHANGED poolVars
  BY <1>15 DEF poolVars
<1> QED
  BY <1>1, <1>2, <1>3, <1>4, <1>5, <1>6, <1>7, <1>8, <1>9, <1>10, <1>11, <1>12, <1>13, <1>14, <1>15 DEF PoolNext, MainStep, WorkerStep

\* When as many workers are done as there are, all of them are through.
LEMMA AllThrough == PoolInv /\ Active /\ done >= Cardinality(Workers) => Through = Workers
<1> SUFFICES ASSUME PoolInv, Active, done >= Cardinality(Workers) PROVE Through = Workers
  OBVIOUS
<1>1. Through \in SUBSET Workers
  BY DEF Through
<1>2. Cardinality(Through) <= Cardinality(Workers) /\ Cardinality(Workers) \in Nat /\ Cardinality(Through) \in Nat
  BY <1>1, WorkersAssumption, FS_Subset, FS_CardinalityType
<1>3. Cardinality(Through) = Cardinality(Workers)
  BY <1>2 DEF PoolInv, Turns
<1> QED
  BY <1>1, <1>3, WorkersAssumption, FS_Subset

\* No worker takes part twice in a generation, and each that does is counted.
LEMMA TurnsStep == PoolInv /\ [PoolNext]_poolVars => Turns'
<1> SUFFICES ASSUME PoolInv, [PoolNext]_poolVars PROVE Turns'
  OBVIOUS
<1> USE WorkersAssumption DEF PoolInv, PoolTypeOK, PoolPlaces, Turns, shared, Goto, Threads, Active, Resting, Working
<1>1. ASSUME NEW t \in Threads, Draw(t) PROVE Turns'
  <2>1. Through' = Through
    BY <1>1 DEF Draw, Through
  <2> QED
    BY <1>1, <2>1 DEF Draw
<1>2. ASSUME NEW t \in Threads, Call(t) PROVE Turns'
  <2>1. Through' = Through
    BY <1>2 DEF Call, Through
  <2> QED
    BY <1>2, <2>1 DEF Call
<1>3. CASE Run
  BY <1>3 DEF Run
<1>4. CASE Reset
  BY <1>4 DEF Reset
<1>5. CASE Publish
  <2>1. Through' = {}
    BY <1>5 DEF Publish, Through
  <2>2. Cardinality(Through') = 0
    BY <2>1, FS_EmptySet
  <2> QED
    BY <1>5, <2>2 DEF Publish
<1>6. CASE Notify
  <2>1. Through' = Through
    BY <1>6 DEF Notify, Through
  <2> QED
    BY <1>6, <2>1 DEF Notify
<1>7. CASE Join
  <2>1. Through = Workers
    BY <1>7, AllThrough DEF Join
  <2> QED
    BY <1>7, <2>1 DEF Join, Return, Through
<1>8. CASE Destroy
  BY <1>8 DEF Destroy
<1>9. CASE Destroyed
  BY <1>9 DEF Destroyed
<1>10. ASSUME NEW w \in Workers, Leave(w) PROVE Turns'
  <2>1. Active => Through' = Through
    BY <1>10 DEF Leave, News, Through
  <2> QED
    BY <1>10, <2>1 DEF Leave, News
<1>11. ASSUME NEW w \in Workers, Tire(w) \/ Lock(w) PROVE Turns'
  <2>1. Through' = Through
    BY <1>11 DEF Tire, Lock, Through
  <2> QED
    BY <1>11, <2>1 DEF Tire, Lock
<1>12. ASSUME NEW w \in Workers, Check(w) \/ Doze(w) PROVE Turns'
  <2>1. Through' = Through
    BY <1>12 DEF Check, Doze, Through
  <2> QED
    BY <1>12, <2>1 DEF Check, Doze
<1>13. ASSUME NEW w \in Workers, Spurious(w) PROVE Turns'
  <2>1. Through' = Through
    BY <1>13 DEF Spurious, Through
  <2> QED
    BY <1>13, <2>1 DEF Spurious
<1>14. ASSUME NEW w \in Workers, Count(w) PROVE Turns'
  <2>1. Through' = Through \cup {w} /\ w \notin Through
    BY <1>14 DEF Count, Through
  <2>2. IsFiniteSet(Through)
    BY FS_Subset DEF Through
  <2>3. Cardinality(Through') = Cardinality(Through) + 1 /\ Cardinality(Through) \in Nat
    BY <2>1, <2>2, FS_AddElement, FS_CardinalityType
  <2> QED
    BY <1>14, <2>3 DEF Count
<1>15. CASE UNCHANGED poolVars
  <2>1. Through' = Through
    BY <1>15 DEF poolVars, Through
  <2> QED
    BY <1>15, <2>1 DEF poolVars
<1> QED
  BY <1>1, <1>2, <1>3, <1>4, <1>5, <1>6, <1>7, <1>8, <1>9, <1>10, <1>11, <1>12, <1>13, <1>14, <1>15 DEF PoolNext, MainStep, WorkerStep

\* No two threads have the same row, and none a row that was done.
LEMMA DrawsStep == PoolInv /\ [PoolNext]_poolVars => Draws'
<1> SUFFICES ASSUME PoolInv, [PoolNext]_poolVars PROVE Draws'
  OBVIOUS
<1> USE WorkersAssumption, BoundAssumption DEF PoolInv, PoolTypeOK, PoolPlaces, Turns, Draws, shared, Goto, Threads, Active, Resting, Working, Calling
<1>1. ASSUME NEW t \in Threads, Draw(t) PROVE Draws'
  <2>1. Active /\ next \in Nat
    BY <1>1 DEF Draw
  <2>2. next < n => next \in JobRows /\ ran[next] = 0
    BY <2>1 DEF Counts, JobRows
  <2> QED
    BY <1>1, <2>1, <2>2 DEF Draw
<1>2. ASSUME NEW t \in Threads, Call(t) PROVE Draws'
  <2>1. t \in Calling /\ row[t] \in JobRows
    BY <1>2 DEF Call, JobRows
  <2>2. ASSUME NEW u \in Calling, u # t PROVE ran'[row[u]] = 0
    <3>1. row[u] # row[t] /\ ran[row[u]] = 0
      BY <2>1, <2>2
    <3>2. row[u] \in JobRows
      BY DEF JobRows
    <3> QED
      BY <1>2, <3>1, <3>2 DEF Call
  <2>3. Calling' = Calling \ {t}
    BY <1>2 DEF Call
  <2> QED
    BY <1>2, <2>1, <2>2, <2>3 DEF Call
<1>3. CASE Run
  BY <1>3 DEF Run
<1>4. CASE Reset
  BY <1>4 DEF Reset
<1>5. CASE Publish
  BY <1>5 DEF Publish
<1>6. CASE Notify
  BY <1>6 DEF Notify
<1>7. CASE Join
  <2>1. Through = Workers
    BY <1>7, AllThrough DEF Join
  <2>2. Calling' = {}
    BY <1>7, <2>1 DEF Join, Return, Through
  <2> QED
    BY <1>7, <2>2 DEF Join, Return
<1>8. CASE Destroy
  BY <1>8 DEF Destroy
<1>9. CASE Destroyed
  BY <1>9 DEF Destroyed
<1>10. ASSUME NEW w \in Workers, Leave(w) PROVE Draws'
  BY <1>10 DEF Leave, News
<1>11. ASSUME NEW w \in Workers, Tire(w) \/ Lock(w) PROVE Draws'
  BY <1>11 DEF Tire, Lock
<1>12. ASSUME NEW w \in Workers, Check(w) \/ Doze(w) PROVE Draws'
  BY <1>12 DEF Check, Doze
<1>13. ASSUME NEW w \in Workers, Spurious(w) PROVE Draws'
  BY <1>13 DEF Spurious
<1>14. ASSUME NEW w \in Workers, Count(w) PROVE Draws'
  BY <1>14 DEF Count
<1>15. CASE UNCHANGED poolVars
  BY <1>15 DEF poolVars
<1> QED
  BY <1>1, <1>2, <1>3, <1>4, <1>5, <1>6, <1>7, <1>8, <1>9, <1>10, <1>11, <1>12, <1>13, <1>14, <1>15 DEF PoolNext, MainStep, WorkerStep

\* The function has been called once on each row that was drawn, except those of
\* calls in progress.
LEMMA CountsStep == PoolInv /\ [PoolNext]_poolVars => Counts'
<1> SUFFICES ASSUME PoolInv, [PoolNext]_poolVars PROVE Counts'
  OBVIOUS
<1> USE WorkersAssumption, BoundAssumption DEF PoolInv, PoolTypeOK, PoolPlaces, Turns, Draws, Counts, EachRowOnce, shared, Goto, Threads, Active, Resting, Working, Calling
<1>1. ASSUME NEW t \in Threads, Draw(t) PROVE Counts'
  <2>1. Active /\ Active' /\ spot'[Main] # "idle" /\ spot'[Main] # "reset"
    BY <1>1 DEF Draw
  <2>2. \A u \in Calling : u # t /\ u \in Calling' /\ row'[u] = row[u]
    BY <1>1 DEF Draw
  <2>3. next < n => t \in Calling' /\ row'[t] = next
    BY <1>1 DEF Draw
  <2>4. next' = next + 1 /\ UNCHANGED <<n, ran>>
    BY <1>1 DEF Draw
  <2>5. ASSUME NEW r \in JobRows
        PROVE  /\ r >= n \/ r >= next' => ran[r] = 0
               /\ r < n /\ r < next' => ran[r] = 1 \/ \E u \in Calling' : row'[u] = r
    <3>1. r \in Nat /\ next \in Nat /\ n \in Nat
      BY DEF JobRows
    <3> HIDE DEF Calling
    <3>2. CASE r < next
      BY <2>1, <2>2, <2>4, <3>1, <3>2
    <3>3. CASE r >= next
      BY <2>1, <2>3, <2>4, <3>1, <3>3
    <3> QED
      BY <3>1, <3>2, <3>3
  <2> QED
    BY <2>1, <2>4, <2>5
<1>2. ASSUME NEW t \in Threads, Call(t) PROVE Counts'
  <2>1. t \in Calling /\ row[t] \in JobRows /\ ran[row[t]] = 0
    BY <1>2 DEF Call, JobRows
  <2>2. Calling' = Calling \ {t} /\ UNCHANGED row
    BY <1>2 DEF Call
  <2>3. \A r \in JobRows : ran'[r] = IF r = row[t] THEN 1 ELSE ran[r]
    BY <1>2, <2>1 DEF Call
  <2>4. Active /\ Active' /\ spot'[Main] # "idle" /\ spot'[Main] # "reset" /\ UNCHANGED <<n, next>>
    BY <1>2 DEF Call
  <2> HIDE DEF Calling
  <2>5. row[t] < n /\ row[t] < next
    BY <2>1
  <2> QED
    BY <2>1, <2>2, <2>3, <2>4, <2>5
<1>3. CASE Run
  BY <1>3 DEF Run
<1>4. CASE Reset
  BY <1>4 DEF Reset, JobRows
<1>5. CASE Publish
  BY <1>5 DEF Publish
<1>6. CASE Notify
  BY <1>6 DEF Notify
<1>7. CASE Join
  <2>1. Through = Workers
    BY <1>7, AllThrough DEF Join
  <2>2. Calling = {} /\ next >= n
    BY <1>7, <2>1 DEF Join, Through
  <2>3. \A r \in JobRows : ran[r] = IF r < n THEN 1 ELSE 0
    BY <1>7, <2>2 DEF Join, JobRows
  <2> QED
    BY <1>7, <2>3 DEF Join, Return
<1>8. CASE Destroy
  BY <1>8 DEF Destroy
<1>9. CASE Destroyed
  BY <1>9 DEF Destroyed
<1>10. ASSUME NEW w \in Workers, Leave(w) PROVE Counts'
  BY <1>10 DEF Leave, News
<1>11. ASSUME NEW w \in Workers, Tire(w) \/ Lock(w) PROVE Counts'
  BY <1>11 DEF Tire, Lock
<1>12. ASSUME NEW w \in Workers, Check(w) \/ Doze(w) PROVE Counts'
  BY <1>12 DEF Check, Doze
<1>13. ASSUME NEW w \in Workers, Spurious(w) PROVE Counts'
  BY <1>13 DEF Spurious
<1>14. ASSUME NEW w \in Workers, Count(w) PROVE Counts'
  BY <1>14 DEF Count
<1>15. CASE UNCHANGED poolVars
  BY <1>15 DEF poolVars
<1> QED
  BY <1>1, <1>2, <1>3, <1>4, <1>5, <1>6, <1>7, <1>8, <1>9, <1>10, <1>11, <1>12, <1>13, <1>14, <1>15 DEF PoolNext, MainStep, WorkerStep

-------------------------------------------------------------------------------
\* The invariant holds in every state of the pool (ggml-barra.cpp, barra_pool).
THEOREM PoolInvariance == PoolSpec => []PoolInv
<1>1. PoolInv /\ [PoolNext]_poolVars => PoolInv'
  BY PoolTypeStep, PoolPlacesStep, TurnsStep, DrawsStep, CountsStep DEF PoolInv
<1> QED
  BY PoolInitInv, <1>1, PTL DEF PoolSpec

\* The variables of the pool keep their types.
THEOREM PoolTypeCorrect == PoolSpec => []PoolTypeOK
<1>1. PoolInv => PoolTypeOK
  BY DEF PoolInv
<1> QED
  BY <1>1, PoolInvariance, PTL

\* When run returns, every row was done exactly once (barra_pool::run).
THEOREM RowsDoneOnce == PoolSpec => []EachRowOnce
<1>1. PoolInv => EachRowOnce
  BY DEF PoolInv, Counts
<1> QED
  BY <1>1, PoolInvariance, PTL

\* No worker calls the caller's function after run has returned.
THEOREM NoLateCall == PoolSpec => []NoCallAfterReturn
<1>1. PoolInv => NoCallAfterReturn
  BY DEF PoolInv, Draws, Calling, NoCallAfterReturn
<1> QED
  BY <1>1, PoolInvariance, PTL

-------------------------------------------------------------------------------
(* The pool keeps the promise of ForkJoin *)

\* All rows of a job are done when run returns.
LEMMA JoinDone ==
  ASSUME PoolInv, Join
  PROVE  \A r \in JobRows : r < n => ran[r] = 1
<1>0. [PoolNext]_poolVars
  BY DEF PoolNext, MainStep
<1>1. Counts' /\ UNCHANGED <<n, ran>>
  BY <1>0, CountsStep DEF Join
<1>2. spot'[Main] = "idle"
  BY DEF Join, Return, Goto, PoolInv, PoolTypeOK, Threads
<1>3. \A r \in JobRows : r < n' => ran'[r] = 1
  BY <1>1, <1>2 DEF Counts, EachRowOnce
<1> QED
  BY <1>1, <1>3

\* A call is for a row of the job that was not yet done, while run waits for it.
LEMMA CallDue ==
  ASSUME PoolInv, NEW t \in Threads, Call(t)
  PROVE  /\ job = TRUE /\ row[t] \in JobRows /\ row[t] < n /\ ran[row[t]] = 0
         /\ ran' = [ran EXCEPT ![row[t]] = 1] /\ UNCHANGED <<job, n>>
<1>1. t \in Calling
  BY DEF Call, Calling
<1>2. job = TRUE /\ row[t] < n /\ ran[row[t]] = 0
  BY <1>1 DEF PoolInv, Draws, PoolTypeOK
<1>3. row[t] \in Nat /\ n \in 0 .. MaxRows /\ MaxRows \in Nat
  BY BoundAssumption DEF PoolInv, PoolTypeOK
<1>4. row[t] \in JobRows
  BY <1>2, <1>3 DEF JobRows
<1> QED
  BY <1>2, <1>4 DEF Call, shared

\* The pool starts without a job.
LEMMA ForkInit == PoolInit => Fork!Init
<1> SUFFICES ASSUME PoolInit PROVE Fork!Init
  OBVIOUS
<1>1. ~job /\ ran \in [JobRows -> {0, 1}]
  BY DEF PoolInit
<1> QED
  BY <1>1 DEF Fork!Init

\* The pool (barra_pool) keeps the promise of ForkJoin: whatever it calls, and until when, is
\* the job of one call of run, each row of it once.
THEOREM PoolImplementsFork == PoolSpec => ForkSpec
<1>1. PoolInv /\ [PoolNext]_poolVars => [Fork!Next]_(Fork!vars)
  <2> SUFFICES ASSUME PoolInv, [PoolNext]_poolVars PROVE [Fork!Next]_(Fork!vars)
    OBVIOUS
  <2> USE DEF Fork!Next, Fork!vars
  <2>1. CASE Run
    <3>1. job = FALSE
      BY <2>1 DEF Run, PoolInv, PoolTypeOK, PoolPlaces, Active
    <3>2. Fork!Call
      BY <2>1, <3>1 DEF Run, Fork!Call
    <3> QED
      BY <3>2
  <2>2. ASSUME NEW t \in Threads, Call(t) PROVE [Fork!Next]_(Fork!vars)
    <3>1. row[t] \in JobRows /\ Fork!Do(row[t])
      BY <2>2, CallDue DEF Fork!Do
    <3> QED
      BY <3>1
  <2>3. CASE Join
    <3>1. job = TRUE
      BY <2>3 DEF Join, PoolInv, PoolTypeOK, PoolPlaces, Active
    <3>2. Fork!Return
      BY <2>3, <3>1, JoinDone DEF Join, Return, Fork!Return
    <3> QED
      BY <3>2
  <2>4. ASSUME NEW t \in Threads, Draw(t) PROVE UNCHANGED <<job, n, ran>>
    BY <2>4 DEF Draw
  <2>5. ASSUME Reset \/ Publish \/ Notify \/ Destroyed \/ Destroy \/ UNCHANGED poolVars
        PROVE  UNCHANGED <<job, n, ran>>
    BY <2>5 DEF Reset, Publish, Notify, Destroyed, Destroy, poolVars, shared
  <2>6. ASSUME NEW w \in Workers,
               Leave(w) \/ Tire(w) \/ Lock(w) \/ Check(w) \/ Doze(w) \/ Count(w) \/ Spurious(w)
        PROVE  UNCHANGED <<job, n, ran>>
    BY <2>6 DEF Leave, Tire, Lock, Check, Doze, Count, Spurious, shared
  <2>7. ASSUME UNCHANGED <<job, n, ran>> PROVE [Fork!Next]_(Fork!vars)
    BY <2>7
  <2> QED
    BY <2>1, <2>2, <2>3, <2>4, <2>5, <2>6, <2>7 DEF PoolNext, MainStep, WorkerStep, Threads
<1> QED
  BY <1>1, ForkInit, PoolInvariance, PTL DEF PoolSpec, ForkSpec, Fork!Spec

-------------------------------------------------------------------------------
(* No wake-up is lost *)

\* Between its look at the generation and its sleep a worker holds the mutex.
Nodding ==
  /\ \A w \in Workers : spot[w] \in {"check", "doze"} => mu = w
  /\ \A w \in Workers : spot[w] = "doze" => ~News(w)
  /\ \A w \in asleep : spot[w] = "asleep"

LEMMA NoddingStep == PoolTypeOK /\ Nodding /\ NoLostWakeUp /\ [PoolNext]_poolVars => Nodding' /\ NoLostWakeUp'
<1> SUFFICES ASSUME PoolTypeOK, Nodding, NoLostWakeUp, [PoolNext]_poolVars PROVE Nodding' /\ NoLostWakeUp'
  OBVIOUS
<1> USE DEF Nodding, NoLostWakeUp
<1>0. /\ asleep \subseteq Workers /\ Main \notin Workers /\ Nobody \notin Workers /\ Threads = Workers \cup {Main}
      /\ DOMAIN spot = Threads
  BY WorkersAssumption, NobodyAssumption DEF PoolTypeOK, Threads
<1>1. ASSUME NEW t \in Threads, Draw(t) \/ Call(t) PROVE Nodding' /\ NoLostWakeUp'
  <2>1. /\ spot[t] \in {"work", "call"} /\ spot'[t] \in {"work", "call", "join", "count"}
        /\ \A u \in Threads \ {t} : spot'[u] = spot[u]
        /\ UNCHANGED <<gen, stop, mu, asleep, seen>>
    BY <1>0, <1>1 DEF Draw, Call, Goto, shared
  <2> QED
    BY <1>0, <2>1 DEF News
<1>2. CASE Run \/ Reset \/ Join \/ Destroyed
  <2>1. /\ spot[Main] # "notify" /\ \A w \in Workers : spot'[w] = spot[w]
        /\ UNCHANGED <<gen, stop, mu, asleep, seen>>
    BY <1>0, <1>2 DEF Run, Reset, Join, Return, Destroyed, Goto, shared
  <2> QED
    BY <1>0, <2>1 DEF News
<1>3. CASE Publish \/ Destroy
  <2>1. /\ mu = Nobody /\ spot'[Main] = "notify" /\ \A w \in Workers : spot'[w] = spot[w]
        /\ UNCHANGED <<mu, asleep, seen>>
    BY <1>0, <1>3 DEF Publish, Destroy, Goto
  <2> QED
    BY <1>0, <2>1
<1>4. CASE Notify
  <2>1. /\ asleep' = {} /\ UNCHANGED <<gen, stop, mu, seen>>
        /\ \A w \in Workers : spot'[w] = IF w \in asleep THEN "lock" ELSE spot[w]
    BY <1>0, <1>4 DEF Notify, shared
  <2> QED
    BY <1>0, <2>1 DEF News
<1>5. ASSUME NEW w \in Workers, WorkerStep(w) \/ Spurious(w), ~Draw(w), ~Call(w)
      PROVE  Nodding' /\ NoLostWakeUp'
  <2>1. /\ UNCHANGED <<gen, stop>> /\ spot'[Main] = spot[Main]
        /\ \A u \in Workers \ {w} : spot'[u] = spot[u] /\ (u \in asleep' <=> u \in asleep)
        /\ \A u \in Workers \ {w} : seen'[u] = seen[u]
    <3>1. CASE Leave(w) \/ Tire(w) \/ Count(w)
      BY <1>0, <3>1 DEF Leave, Tire, Count, Goto, shared, PoolTypeOK
    <3>2. CASE Lock(w) \/ Check(w)
      BY <1>0, <3>2 DEF Lock, Check, Goto, shared
    <3>3. CASE Doze(w) \/ Spurious(w)
      BY <1>0, <3>3 DEF Doze, Spurious, Goto, shared
    <3> QED
      BY <1>5, <3>1, <3>2, <3>3 DEF WorkerStep
  <2>2. \A u \in Workers \ {w} : News(u)' <=> News(u)
    BY <2>1 DEF News
  <2>3. CASE Leave(w) \/ Tire(w) \/ Count(w)
    <3>1. spot[w] \in {"spin", "count"} /\ spot'[w] \in {"ended", "work", "lock", "spin"} /\ UNCHANGED <<mu, asleep>>
      BY <1>0, <2>3 DEF Leave, Tire, Count, Goto, shared
    <3> QED
      BY <1>0, <2>1, <2>2, <3>1
  <2>4. CASE Lock(w)
    <3>1. mu = Nobody /\ mu' = w /\ spot'[w] = "check" /\ spot[w] = "lock" /\ asleep' = asleep
      BY <1>0, <2>4 DEF Lock, Goto
    <3> QED
      BY <1>0, <2>1, <2>2, <3>1
  <2>5. CASE Check(w)
    <3>1. /\ mu = w /\ spot[w] = "check" /\ asleep' = asleep /\ seen' = seen
          /\ \/ spot'[w] = "spin"
             \/ spot'[w] = "doze" /\ mu' = mu /\ ~News(w)
      BY <1>0, <2>5 DEF Check, Goto, shared
    <3>2. \A u \in Workers \ {w} : spot[u] \notin {"check", "doze"}
      BY <3>1
    <3>3. News(w)' <=> News(w)
      BY <2>1, <3>1 DEF News
    <3> QED
      BY <1>0, <2>1, <2>2, <3>1, <3>2, <3>3
  <2>6. CASE Doze(w)
    <3>1. mu = w /\ spot[w] = "doze" /\ spot'[w] = "asleep" /\ asleep' = asleep \cup {w} /\ seen' = seen
      BY <1>0, <2>6 DEF Doze, Goto
    <3>2. \A u \in Workers \ {w} : spot[u] \notin {"check", "doze"}
      BY <3>1
    <3>3. ~News(w)'
      BY <2>1, <3>1 DEF News
    <3> QED
      BY <1>0, <2>1, <2>2, <3>1, <3>2, <3>3
  <2>7. CASE Spurious(w)
    <3>1. w \in asleep /\ asleep' = asleep \ {w} /\ spot'[w] = "lock" /\ mu' = mu
      BY <1>0, <2>7 DEF Spurious, Goto
    <3> QED
      BY <1>0, <2>1, <2>2, <3>1
  <2> QED
    BY <1>5, <2>3, <2>4, <2>5, <2>6, <2>7 DEF WorkerStep
<1>6. CASE UNCHANGED poolVars
  BY <1>6 DEF poolVars, shared, News
<1> QED
  BY <1>0, <1>1, <1>2, <1>3, <1>4, <1>5, <1>6 DEF PoolNext, MainStep, WorkerStep

\* No worker sleeps through a job or the end (barra_pool::worker, which looks at the generation
\* under the mutex before it sleeps, and run, which counts it up under the mutex): the safety
\* part of RunReturns.
THEOREM NobodySleepsOn == PoolSpec => []NoLostWakeUp
<1>1. PoolInit => Nodding /\ NoLostWakeUp
  BY WorkersAssumption DEF PoolInit, Nodding, NoLostWakeUp, Threads
<1> QED
  BY <1>1, NoddingStep, PoolTypeCorrect, PTL DEF PoolSpec

===============================================================================
