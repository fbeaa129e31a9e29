------------------------------- MODULE DspClient -------------------------------
(***************************************************************************)
(* The DSP session of libbarra (barra_dsp and barra_zc functions) with the *)
(* command loop of gxpd3 (serve_zc), over the socket between them.         *)
(*                                                                         *)
(* The socket is two queues: commands with their payloads upwards, 32-bit  *)
(* words downwards.  The library knows a buffer by the handle it was       *)
(* given, the daemon by the slot it fills; a command that is refused       *)
(* before its payload is read leaves the payload in the queue.             *)
(*                                                                         *)
(* One application thread, which keeps the rules of barra.h: it does not   *)
(* touch a buffer between submit and wait, waits with the buffers it has   *)
(* submitted, and takes fresh buffers for a new session.                   *)
(***************************************************************************)
EXTENDS Integers, Sequences, FiniteSets, SequencesExt

CONSTANTS Bufs,      \* the barra_zbufs of the application
          LibMax,    \* ZC_MAXBUF of barra.c
          MaxBuf,    \* ZC_MAXBUF of gxpd3.c: buffers of a command
          MaxH,      \* ZC_MAXH: entries of the handle table
          InFlight,  \* ZC_INFLIGHT: entries of the token table
          Old,       \* a dmabuf that the application has freed
          None

Slots  == 0 .. MaxH - 1
Tokens == 0 .. InFlight - 1
Sync   == InFlight          \* the request of a RUN
Reqs   == Tokens \cup {Sync}
NoTok  == -1                \* 0xffffffff

ASSUME SizeAssumption ==
  /\ LibMax \in Nat /\ MaxBuf \in Nat /\ MaxH \in Nat /\ InFlight \in Nat
  /\ IsFiniteSet(Bufs) /\ Old \notin Bufs /\ None \notin Bufs \cup {Old}

VARIABLES
  sock,    \* the library's end: "open" or "closed"
  dsp_h,   \* the handle in each zbuf, -1: none
  access,  \* "cpu": within begin/end of the CPU, "device", or "free"
  call,    \* the call under way
  pend,    \* calls of submit the application has not waited for
  up, down,
  conn,    \* the daemon's end: "none", "serve", "run", "wait", "end" or "down"
  cmd,     \* the command in work
  table,   \* handle table: the buffer of each slot
  req,     \* requests given to the firmware
  dev      \* "alive" or "dead"

client == <<sock, dsp_h, access, call, pend>>
daemon == <<conn, cmd, table, req, dev>>
vars   == <<client, up, down, daemon>>

NoReq     == [hs |-> {}, on |-> {}, for |-> {}, fw |-> "none"]
NoCall    == [op |-> "none", at |-> "none", bufs |-> {}, tok |-> NoTok]
NoHandles == [b \in Bufs |-> -1]

Init ==
  /\ sock = "closed" /\ dsp_h = NoHandles /\ access = [b \in Bufs |-> "free"]
  /\ call = NoCall /\ pend = {} /\ up = <<>> /\ down = <<>>
  /\ conn = "none" /\ cmd = None /\ table = [s \in Slots |-> None]
  /\ req = [r \in Reqs |-> NoReq] /\ dev = "alive"

-------------------------------------------------------------------------------
(* The application *)

Busy == UNION {p.bufs : p \in pend}

\* The buffers that can be passed: there, and with no submit under way.
Passable(bs) == bs # {} /\ Cardinality(bs) <= LibMax /\ bs \cap Busy = {}
                /\ \A b \in bs : access[b] = "cpu"

Alloc(b) ==
  /\ call = NoCall /\ access[b] = "free"
  /\ access' = [access EXCEPT ![b] = "cpu"] /\ dsp_h' = [dsp_h EXCEPT ![b] = -1]
  /\ UNCHANGED <<sock, call, pend, up, down, daemon>>

\* What the daemon still has of b is from now on an old buffer.
Forget(bs, b) == IF b \in bs THEN (bs \ {b}) \cup {Old} ELSE bs

DaemonForgets(b) ==
  /\ table' = [s \in Slots |-> IF table[s] = b THEN Old ELSE table[s]]
  /\ req' = [r \in Reqs |-> [req[r] EXCEPT !.on = Forget(@, b), !.for = Forget(@, b)]]
  /\ UNCHANGED <<conn, cmd, dev>>

\* barra_zc_free, while it is imported too.
Free(b) ==
  /\ call = NoCall /\ access[b] # "free" /\ b \notin Busy
  /\ access' = [access EXCEPT ![b] = "free"] /\ dsp_h' = [dsp_h EXCEPT ![b] = -1]
  /\ DaemonForgets(b)
  /\ UNCHANGED <<sock, call, pend, up, down>>

\* dial.  The daemon takes one connection at a time.
Open ==
  /\ call = NoCall /\ sock = "closed" /\ conn = "none"
  /\ \A b \in Bufs : access[b] = "free"
  /\ sock' = "open" /\ conn' = "serve" /\ up' = <<>> /\ down' = <<>>
  /\ UNCHANGED <<dsp_h, access, call, pend, cmd, table, req, dev>>

\* barra_dsp_close, and what the application does about its open submits.
Close ==
  /\ call = NoCall /\ sock = "open"
  /\ sock' = "closed" /\ pend' = {}
  /\ UNCHANGED <<dsp_h, access, call, up, down, daemon>>

-------------------------------------------------------------------------------
(* The calls of the library *)

Idle    == call = NoCall /\ sock = "open"
Returns == call' = NoCall
Give(bs, a) == access' = [b \in Bufs |-> IF b \in bs THEN a ELSE access[b]]
Send(items) == up' = IF conn = "serve" THEN up \o items ELSE up

\* What a call has to import: run and submit only what has no handle yet.
Need(op, bs) == IF op = "import" THEN bs ELSE {b \in bs : dsp_h[b] = -1}

\* A header, and what follows it.
Header(op, n, t)      == [op |-> op, n |-> n, tok |-> t]
Carries(fds, hs, for) == [op |-> "payload", fds |-> fds, hs |-> hs, for |-> for]

ImportItems(op, bs) ==
  LET need == Need(op, bs)
  IN  <<Header("import", Cardinality(need), NoTok), Carries(SetToSeq(need), {}, {})>>

\* With the handles h.
HandlesOf(bs, h) == {h[b] : b \in bs} \ {-1}

CommandItems(op, bs, t, h) ==
  LET c == Header(op, Cardinality(HandlesOf(bs, h)), t)
  IN  IF op = "wait" THEN <<c>> ELSE <<c, Carries(<<>>, HandlesOf(bs, h), bs)>>

SendImport(op, bs) ==
  /\ Send(ImportItems(op, bs))
  /\ call' = [op |-> op, at |-> "imported", bufs |-> bs, tok |-> NoTok]
  /\ UNCHANGED access

\* The CPU access is closed before run and submit.
SendCommand(op, bs, t, h) ==
  /\ IF op \in {"run", "submit"} THEN Give(bs, "device") ELSE UNCHANGED access
  /\ Send(CommandItems(op, bs, t, h))
  /\ call' = [op |-> op, at |-> "answer", bufs |-> bs, tok |-> t]

\* import_ex, also of what is imported already.
Import(bs) ==
  /\ Idle /\ Passable(bs)
  /\ SendImport("import", bs)
  /\ UNCHANGED <<sock, dsp_h, pend, down, daemon>>

RunOrSubmit(op, bs) ==
  /\ Idle /\ Passable(bs)
  /\ IF Need(op, bs) # {} THEN SendImport(op, bs) ELSE SendCommand(op, bs, NoTok, dsp_h)
  /\ UNCHANGED <<sock, dsp_h, pend, down, daemon>>

\* Also of buffers that a submitted job uses.
Release(bs) ==
  /\ Idle /\ Cardinality(bs) <= LibMax /\ \A b \in bs : access[b] # "free"
  /\ \E b \in bs : dsp_h[b] # -1
  /\ SendCommand("release", bs, NoTok, dsp_h)
  /\ UNCHANGED <<sock, dsp_h, pend, down, daemon>>

Wait(p) ==
  /\ Idle /\ p \in pend
  /\ SendCommand("wait", p.bufs, p.tok, dsp_h) /\ pend' = pend \ {p}
  /\ UNCHANGED <<sock, dsp_h, down, daemon>>

\* Without a session wait does nothing.
WaitDead(p) ==
  /\ call = NoCall /\ sock = "closed" /\ p \in pend
  /\ pend' = pend \ {p}
  /\ UNCHANGED <<sock, dsp_h, access, call, up, down, daemon>>

Read(n) == down' = SubSeq(down, n + 1, Len(down))

\* Words of an answer.  Import: status, and the handles if it is 0; release: status;
\* submit: status and token; run and wait: status, rv and exec_us.
Words == IF call.at = "imported"
         THEN IF down # <<>> /\ Head(down) # 0 THEN 1 ELSE 1 + Cardinality(Need(call.op, call.bufs))
         ELSE [release |-> 1, submit |-> 2, run |-> 3, wait |-> 3][call.op]

\* The daemon has not taken any or not all of the buffers; it says only that.
ImportRefused ==
  /\ call.at = "imported" /\ down # <<>> /\ down[1] # 0
  /\ Read(1) /\ Returns
  /\ UNCHANGED <<sock, dsp_h, access, pend, up, daemon>>

Imported ==
  /\ call.at = "imported" /\ Len(down) >= Words /\ down[1] = 0
  /\ LET need == Need(call.op, call.bufs)
         fds  == SetToSeq(need)
         h    == [b \in Bufs |-> IF b \in need THEN down[1 + CHOOSE i \in DOMAIN fds : fds[i] = b]
                                 ELSE dsp_h[b]]
     IN  /\ dsp_h' = h
         /\ IF call.op = "import" THEN Returns /\ UNCHANGED <<access, up>>
            ELSE SendCommand(call.op, call.bufs, NoTok, h)
  /\ Read(Words)
  /\ UNCHANGED <<sock, pend, daemon>>

Answer(op) == call.at = "answer" /\ call.op = op /\ Len(down) >= Words /\ Read(Words) /\ Returns

\* Mutant: released buffers keep their handles.
ReleasedKeepsHandles ==
  /\ Answer("release")
  /\ UNCHANGED <<sock, dsp_h, access, pend, up, daemon>>

Released ==
  /\ Answer("release")
  /\ dsp_h' = [b \in Bufs |-> IF b \in call.bufs /\ down[1] = 0 THEN -1 ELSE dsp_h[b]]
  /\ UNCHANGED <<sock, access, pend, up, daemon>>

\* Mutant: after a submit that failed the CPU access stays closed.
SubmittedUnbalanced ==
  /\ Answer("submit")
  /\ IF down[1] = 0 THEN pend' = pend \cup {[bufs |-> call.bufs, tok |-> down[2]]} ELSE UNCHANGED pend
  /\ UNCHANGED <<sock, dsp_h, access, up, daemon>>

\* The CPU access stays closed, unless it failed.
Submitted ==
  /\ Answer("submit")
  /\ IF down[1] = 0
     THEN pend' = pend \cup {[bufs |-> call.bufs, tok |-> down[2]]} /\ UNCHANGED access
     ELSE Give(call.bufs, "cpu") /\ UNCHANGED pend
  /\ UNCHANGED <<sock, dsp_h, up, daemon>>

\* The result, good or bad: the CPU access is opened.
RunOrWaitReturns ==
  /\ Answer("run") \/ Answer("wait")
  /\ Give(call.bufs, "cpu")
  /\ UNCHANGED <<sock, dsp_h, pend, up, daemon>>

\* dsp_dead: the daemon has closed its end before the answer was complete.
IoError ==
  /\ conn \in {"none", "down"}
  /\ call.at \in {"imported", "answer"} /\ Len(down) < Words
  /\ sock' = "closed" /\ Returns
  /\ IF call.at = "answer" /\ call.op # "release" THEN Give(call.bufs, "cpu") ELSE UNCHANGED access
  /\ UNCHANGED <<dsp_h, pend, up, down, daemon>>

-------------------------------------------------------------------------------
(* The daemon *)

Say(ws)  == down' = down \o ws
Drop(n)  == up' = SubSeq(up, n + 1, Len(up))
Serving  == conn = "serve" /\ up # <<>> /\ up[1].op # "payload"
Taken(op) == Serving /\ up[1].op = op /\ up[1].n <= MaxBuf
Payload  == up[2]

\* Status 1, 4 or 7: the library does not distinguish them.
Refusal(op) == [import |-> <<1>>, release |-> <<1>>, submit |-> <<1, NoTok>>,
                run |-> <<1, 0, 0>>, wait |-> <<1, 0, 0>>][op]

Used    == {s \in Slots : table[s] # None}

\* The k lowest free slots, in order.
Lowest(k) == {free \in [1..k -> Slots \ Used] :
                /\ \A i, j \in 1..k : i < j => free[i] < free[j]
                /\ \A i \in 1..k : (0 .. free[i]) \ Used \subseteq Range(free)}

\* More buffers than a command may have: the payload stays in the socket.
Refuse ==
  /\ Serving /\ up[1].n > MaxBuf /\ up[1].op # "wait"
  /\ Say(Refusal(up[1].op)) /\ Drop(1)
  /\ UNCHANGED <<client, daemon>>

\* With the first k buffers; their handles are sent if these are all.
FillSlots(k, free) ==
  /\ dev = "dead" => k = 0
  /\ table' = [s \in Slots |-> IF s \in Range(free)
                              THEN Payload.fds[CHOOSE i \in 1..k : free[i] = s] ELSE table[s]]
  /\ Say(IF k = up[1].n THEN <<0>> \o free ELSE <<1>>)

\* The lowest free slots are filled up to the first buffer that fails.
DoImport ==
  /\ Taken("import")
  /\ \E k \in 0 .. up[1].n : \E free \in Lowest(k) : FillSlots(k, free)
  /\ Drop(2)
  /\ UNCHANGED <<client, conn, cmd, req, dev>>

\* Jobs that use a buffer are awaited before it is given back.
DoRelease ==
  /\ Taken("release")
  /\ LET users == {t \in Tokens : req[t].hs \cap Payload.hs # {}}
     IN  /\ \A t \in users : req[t].fw # "running"
         /\ req' = [r \in Reqs |-> IF r \in users THEN NoReq ELSE req[r]]
  /\ table' = [s \in Slots |-> IF s \in Payload.hs THEN None ELSE table[s]]
  /\ Say(<<0>>) /\ Drop(2)
  /\ UNCHANGED <<client, conn, cmd, dev>>

\* guard_device: a failure on a device that is dead ends the process.
Dies == conn' = "down" /\ up' = <<>> /\ table' = [s \in Slots |-> None] /\ req' = [r \in Reqs |-> NoReq]

\* A bad handle, no such kernel, a buffer too small, no free token, or the runtime refuses.
Fails(op) ==
  /\ Taken(op)
  /\ Say(Refusal(op))
  /\ IF dev = "dead" THEN Dies ELSE Drop(2) /\ UNCHANGED <<conn, table, req>>
  /\ UNCHANGED <<client, cmd, dev>>

Start(r) ==
  /\ dev = "alive" /\ Payload.hs \subseteq Used
  /\ req' = [req EXCEPT ![r] = [hs |-> Payload.hs, on |-> {table[s] : s \in Payload.hs},
                                for |-> Payload.for, fw |-> "running"]]
  /\ Drop(2) /\ UNCHANGED <<client, table, dev>>

DoRun ==
  /\ Taken("run") /\ Start(Sync)
  /\ conn' = "run" /\ UNCHANGED <<down, cmd>>

DoSubmit ==
  /\ Taken("submit")
  /\ \E t \in Tokens : /\ \A s \in 0 .. t : req[s] = NoReq <=> s = t
                       /\ Start(t) /\ Say(<<0, t>>)
  /\ UNCHANGED <<conn, cmd>>

\* Mutant: only the status is sent.
WaitUnknownShort ==
  /\ Serving /\ up[1].op = "wait"
  /\ req[up[1].tok] = NoReq
  /\ Say(<<1>>) /\ Drop(1)
  /\ UNCHANGED <<client, daemon>>

\* A token whose job has gone with a buffer that was released.
WaitUnknown ==
  /\ Serving /\ up[1].op = "wait"
  /\ req[up[1].tok] = NoReq
  /\ Say(Refusal("wait")) /\ Drop(1)
  /\ UNCHANGED <<client, daemon>>

DoWait ==
  /\ Serving /\ up[1].op = "wait"
  /\ req[up[1].tok] # NoReq
  /\ conn' = "wait" /\ cmd' = up[1].tok /\ Drop(1)
  /\ UNCHANGED <<client, down, table, req, dev>>

\* RunSync or Request_Wait returns.
Done(r) ==
  /\ \/ conn = "run" /\ r = Sync
     \/ conn = "wait" /\ r = cmd
  /\ req[r].fw # "running"
  /\ Say(IF req[r].fw = "done" THEN <<0, 0, 0>> ELSE Refusal("wait"))
  /\ IF req[r].fw = "failed" /\ dev = "dead" THEN Dies
     ELSE conn' = "serve" /\ req' = [req EXCEPT ![r] = NoReq] /\ UNCHANGED <<up, table>>
  /\ cmd' = None
  /\ UNCHANGED <<client, dev>>

\* The next header is a left payload, or the socket is closed.
LeaveLoop ==
  /\ conn = "serve"
  /\ IF up = <<>> THEN sock = "closed" ELSE up[1].op = "payload"
  /\ conn' = "end"
  /\ UNCHANGED <<client, up, down, cmd, table, req, dev>>

\* Mutant: the jobs are not awaited.
EndAtOnce ==
  /\ conn = "end"
  /\ conn' = "none" /\ up' = <<>> /\ table' = [s \in Slots |-> None]
  /\ UNCHANGED <<client, down, cmd, req, dev>>

\* All jobs are awaited, then all buffers given back.
End ==
  /\ conn = "end" /\ \A r \in Reqs : req[r].fw # "running"
  /\ conn' = "none" /\ up' = <<>> /\ table' = [s \in Slots |-> None] /\ req' = [r \in Reqs |-> NoReq]
  /\ UNCHANGED <<client, down, cmd, dev>>

Restart ==
  /\ conn = "down"
  /\ conn' = "none" /\ dev' = "alive"
  /\ UNCHANGED <<client, up, down, cmd, table, req>>

(* The firmware *)

Finish(r) ==
  /\ req[r].fw = "running"
  /\ \E f \in {"done", "failed"} : req' = [req EXCEPT ![r].fw = f]
  /\ UNCHANGED <<client, up, down, conn, cmd, table, dev>>

Watchdog ==
  /\ \E r \in Reqs : req[r].fw = "running"
  /\ req' = [r \in Reqs |-> IF req[r].fw = "running" THEN [req[r] EXCEPT !.fw = "failed"] ELSE req[r]]
  /\ dev' = "dead"
  /\ UNCHANGED <<client, up, down, conn, cmd, table>>

-------------------------------------------------------------------------------

Application ==
  \/ Open \/ Close
  \/ \E b \in Bufs : Alloc(b) \/ Free(b)
  \/ \E bs \in SUBSET Bufs : Import(bs) \/ Release(bs) \/ RunOrSubmit("run", bs) \/ RunOrSubmit("submit", bs)
  \/ \E p \in pend : Wait(p) \/ WaitDead(p)

Library == ImportRefused \/ Imported
           \/ Released \/ Submitted \/ RunOrWaitReturns \/ IoError

Daemon ==
  \/ Refuse \/ DoImport \/ DoRelease \/ DoRun \/ DoSubmit \/ WaitUnknown \/ DoWait
  \/ Fails("run") \/ Fails("submit") \/ LeaveLoop \/ End \/ \E r \in Reqs : Done(r)

Next ==
  \/ Application \/ Library \/ Daemon \/ Restart \/ Watchdog
  \/ \E r \in Reqs : Finish(r)

Spec == Init /\ [][Next]_vars

\* Both threads run; the firmware finishes every job or its watchdog fires.
FairSpec ==
  /\ Spec /\ WF_vars(Library) /\ WF_vars(Daemon)
  /\ \A r \in Reqs : WF_vars(Finish(r) \/ Watchdog)

-------------------------------------------------------------------------------
ClientTypes ==
  /\ sock \in {"open", "closed"} /\ dsp_h \in [Bufs -> Slots \cup {-1}]
  /\ access \in [Bufs -> {"cpu", "device", "free"}]
  /\ call \in [op : {"none", "import", "release", "run", "submit", "wait"},
               at : {"none", "imported", "answer"},
               bufs : SUBSET Bufs, tok : Tokens \cup {NoTok}]
  /\ pend \subseteq [bufs : SUBSET Bufs, tok : Tokens]

Items ==
  [op : {"import", "release", "run", "submit", "wait"}, n : Nat, tok : Tokens \cup {NoTok}]
  \cup [op : {"payload"}, fds : Seq(Bufs), hs : SUBSET Slots, for : SUBSET Bufs]

SocketTypes == up \in Seq(Items) /\ down \in Seq(Int)

DaemonTypes ==
  /\ conn \in {"none", "serve", "run", "wait", "end", "down"} /\ cmd \in Tokens \cup {None}
  /\ table \in [Slots -> Bufs \cup {Old, None}] /\ dev \in {"alive", "dead"}
  /\ req \in [Reqs -> [hs : SUBSET Slots, on : SUBSET (Bufs \cup {Old}), for : SUBSET (Bufs \cup {Old}),
                       fw : {"none", "running", "done", "failed"}]]

\* The variables hold values of these sets.
TypeOK == ClientTypes /\ SocketTypes /\ DaemonTypes

(* A job works on exactly the buffers its caller has named, although the  *)
(* two sides know them by different names, imports stop in the middle,    *)
(* buffers are imported twice, freed while they are imported and given    *)
(* back in part, and refused commands leave their payload behind.         *)
RightBuffers == \A r \in Reqs : req[r].on = req[r].for

(* While the DSP works on a buffer of the application, the CPU access to  *)
(* it is closed, whatever has become of the session meanwhile.            *)
DeviceOwns == \A r \in Reqs : req[r].fw = "running" =>
                \A b \in req[r].on \cap Bufs : access[b] = "device"

(* Between two calls every buffer is the CPU's unless the application has *)
(* submitted it and not yet waited, for as long as the session lives.     *)
CpuAgain == call = NoCall /\ sock = "open" =>
              \A b \in Bufs \ Busy : access[b] # "device"

\* A call waits in the library only while the daemon has its command: an answer is never too
\* short for what the library reads, and never skipped.
NeverInVain == call.at # "none" /\ Len(down) < Words => down = <<>> /\ (conn = "serve" => up # <<>>)

(* No call blocks for ever: an answer is as long as the library expects,  *)
(* or the session ends.                                                   *)
CallReturns == call # NoCall ~> call = NoCall
===============================================================================
