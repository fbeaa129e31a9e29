# Verification of barra's accelerator bridges

TLA+ models of the parts of [barra](https://github.com/kekn011/barra) that decide *who may
touch which buffer when*, *which process serves whom*, *what becomes of a computation that
fails half way*, and *what survives a crash*; TLC configurations that check them on small
instances, and TLAPS proofs for any size.

Everything is translated from the C, C++ and shell sources under `src/`. A comment in the
sources is quoted where a property states what it says. `PROJECT.json` lists for every
definition the lines it stands for, every run, every mutant (a plausible bug in the code that
a property is shown to catch), every finding and every hazard.

## 1. Inventory

Paths are relative to the repository's `src/`.

| Component | State | Operations | Hard behaviours |
|---|---|---|---|
| **gxpd3**, DSP bridge (`hwbridge/gxpd3.c`) | one session: handle table, token table; the device | IMPORT, RUN, SUBMIT, WAIT, RELEASE, LIST, inline GXPD job, session end, self-termination | jobs run concurrently with the only thread; clients leave at any moment; watchdog aborts the device; the next client waits |
| **gpud-zc**, GPU bridge (`hwbridge/gpud-zc.c`) | per session handles and shaders; process-wide pipeline cache, one Vulkan queue | v1 request; IMPORT, DISPATCH, RELEASE (v2); LOAD, UNLOAD, ALLOC_NATIVE, COPY, FLAGS, EXIT (v3) | threads share queue and cache; eviction under a dispatch; one session's EXIT ends all |
| **tpud**, TPU bridge (`hwbridge/tpud.c`) | per session handles; mutex, kernel wakelock, requests on the TPU, its own buffers | IMPORT, INFER, INFER2, INFER_MULTI, RELEASE, inline; idle thread; signal handler | late completion after a timeout; idle thread and signals race with requests |
| **libbarra** (`barra/barra.c`) | sockets, per buffer the handle it has in each daemon and whether the CPU may use it | import, run, submit, wait, release, batches | handles outlive sessions; commands refused with payload unread; answers carry no name |
| **ggml-gpud** (`ggml-gpud/ggml-gpud.cpp`) | open batch with its access tracker, scratch, quantised input | encode node, flush, CPU fallback, scratch growth | elided barriers, a batch that fails half way, CPU and GPU on one buffer |
| **ggml-barra** (`ggml-barra/ggml-barra.cpp`) | rows of a feed-forward block, outlier sums, thread pool | tiles and passes over gate, up, down; CPU fallback; sharing rows between threads | output in the memory of the input; saturation and failure in any pass; threads that come late or sleep in |
| **whisper-barra** (`whisper-mali/tpu/whisper-barra.cpp`) | buffers of four blocks, thread pool, session with the core package's tpud | attention of the encoder, block by block, in pairs, in overlapping pairs | the next pair is built and sent while the TPU computes the first |
| **hw-bridges.sh**, supervisor | pid file; the processes themselves | check for another supervisor, every 15 s look for each daemon and start it | patterns match other processes; two supervisors at once |
| **baseos-cfgd**, config agent (`boot/baseos-cfgd.sh`), with `barra-config` and `barrac` | request and reply file, compile queue, config store, pid file | charge, button, display, wlan, lang, power, state; compile worker | one mailbox for all clients; files removed while open; the worker outlives its agent |
| **charge-limit.sh** | the store; the driver's two files | read, write in the right order | driver ignores writes; power loss; concurrent request |
| **barra-guard.sh** | free memory, running services | refuse a service that does not fit or conflicts | two services pass the check (92) before either has allocated or shows up in pgrep |
| **wifi-guard.sh** | state file, timers | ping, rejoin | races with joining by hand |
| **dashctl-loop.sh**, **dispctl.sh**, dash2, dashd | display lock, command file | on, off, toggle, timeout | lost commands |
| audio bridges, btnd, legacy gpud/gxpd, boot chain, other services, flashing tool | | I/O | |

They interact as follows. A client links libbarra and speaks to the three bridges over UNIX
sockets, passing dmabuf file descriptors: the memory is shared, the daemons hold mappings of
it. The bridges speak to vendor drivers whose jobs run concurrently with everything. The ggml
backends and the whisper encoder are such clients, with threads of their own. The supervisor
looks at the process table only. The config agent is reached through files, and shares the
store and the driver's files with the boot scripts, without locks.

What makes each part correct: a bridge must never unmap what its accelerator may still touch,
must answer, must come back after a crash and must not let one client's remains reach the
next; the library must hand the daemon the buffers its caller means and open and close the CPU
access in pairs; an offload must give the results the CPU alone would give, every row of them,
whatever fails; a pool must do every row once and wake everyone; the agent must carry out a
request at most once and give nobody another's answer or package; the supervisor must have
every daemon running once; the charging window must be the one that was asked for.

## 2. Modules

| Module | Models | Checked by | Proofs |
|---|---|---|---|
| `DmaLease` | the promise of every zero-copy daemon: a buffer in use stays mapped | as `LeaseSpec` of the three daemons | `ImplementsLease` of the three daemons |
| `ForkJoin` | the promise of a pool of threads: every piece of a call done once, and before it returns | as `ForkSpec` of the two pools | `PoolImplementsFork`, `ParImplementsFork` |
| `DspSession` | gxpd3 with its clients, firmware and restart | `dsp_session` | `DspSessionProofs` |
| `DspClient` | libbarra's DSP session with gxpd3's command loop, over the socket | `dsp_client` | `DspClientProofs` |
| `GpuDaemon` | gpud-zc: sessions, mutex, pipeline cache | `gpu_cache` | `GpuDaemonProofs` |
| `GpuBatch` | ggml-gpud's encoder, and the GPU executing its batches | `gpu_batch`, `gpu_lost_batch` | `GpuBatchProofs` |
| `TpuDaemon` | tpud: sessions, timeouts, wakelock | `tpu_sessions` | `TpuDaemonProofs` |
| `FfnOffload` | ggml-barra: one feed-forward block on the TPU | `ffn_offload` | `OffloadProofs` |
| `GluePool` | ggml-barra: the thread pool beside it | `glue_pool` | `OffloadProofs` |
| `WhisperEncoder` | whisper-barra: attention, pool, and the tpud it speaks to | `whisper_encoder` | `WhisperEncoderProofs` |
| `Supervisor` | hw-bridges.sh | `sup_watch` | `BootProofs` |
| `ConfigAgent` | the agent's mailbox and compile queue with their clients | `config_agent` | `BootProofs` |
| `ChargeWindow` | charge requests, the store, the boot script, the driver | `charge_boot` | `BootProofs` |

Each has an `MC` module, which only adds symmetry sets and the values a `.cfg` cannot write.
`DmaLease` is composed with the daemons, `ForkJoin` with the two pools, by refinement; `DspClient` and `WhisperEncoder` compose
a client with the part of its daemon that it can observe.

### DspSession

`pc` is where gxpd3's only thread is; `used` is `h[].used`, `inflight` and `mask` are the
arrays of the same meaning in `serve_zc`. `fw` and `uses` are the firmware's side: the
requests it knows and the handles they were built with. `owed` is what a client may still
expect of a token. A wait loop of the code is one action per turn (`ReleaseAwaits`,
`EndAwaits`), so the firmware and the watchdog run in between. A command that is refused,
one that fails on the device and one that succeeds differ in `rsp`, because only the second
is followed by `guard_device`.

### DspClient

The library and the daemon know a buffer by different names: `dsp_h` is the handle in each
zbuf, `table` the buffer of each slot. The socket is `up`, commands with their payloads, and
`down`, 32-bit words. A command refused before its payload is read leaves the payload in `up`,
where it is taken for the next header and ends the session. `access` says for each buffer
whether it is within the CPU's begin and end or the device's. A request remembers what the
caller meant (`for`) and what the firmware was given (`on`). The application keeps the rules of
`barra.h`: hands off between submit and wait, and fresh buffers for a new session.

### GpuBatch

`Push` is `gpud_encoder::push` with its read and write tracker; `Execute` lets the GPU run
any stage whose barrier-ordered predecessors are done, which is all Vulkan promises. `ref`
is what a node-by-node execution would have produced, so a missing barrier, a stale `qx` or a
lost batch shows as a difference between `mem` and `ref`.

### GpuDaemon

One `pc` per connection thread; `lock` is `g_vk`. `Hit`, `Compile` and `Exhausted` are the
three ways through `get_pipe`; `st` holds the entries the dispatch points into, `cache` what
they contain. Critical sections without a wait are one action; a dispatch is several.

### TpuDaemon

`queue` is the TPU's own: an entry that was given up stays in it, marked `late`. `held`,
`recent` and `kwl` are `g_wl_held`, the age of `g_wl_last` and the kernel's file. The check of
`g_wl_held` without the mutex, `wl_touch` and `wl_release` are split where a signal or another
thread can see the difference. `Submit` also has the outcomes that `submitFenced` hides: a request
that the TPU has not accepted, or has accepted without giving a fence. Two history variables, read
by properties only, remember what the code does not: `blind`, that an inference has such a request,
and `orphan`, that a process ended with the wakelock on and nobody has taken it since.

### FfnOffload

A row is what has become of it: `a` and `dst` say whether it was computed, saturated, left to
the CPU, or computed from the wrong thing (`bad`). Which rows saturate and which calls fail is
left open. `tile`, `base`, `pass`, `rows` and `okrows` are the loop variables of
`barra_ffn_split`; `out` remembers the pass whose results an output buffer holds, so results
of an earlier pass cannot be taken for those of this one. `dst` starts as `"h"`, the input: the
allocator puts both on the same memory.

### GluePool

`gen`, `next`, `done`, `n`, `stop` and `mu` are the members of `barra_pool`. An atomic operation
or a critical section is a step, and so are looking at the generation, taking the mutex,
looking again and going to sleep. `job` says whether the caller's function, a pointer into its
stack, is still there.

### WhisperEncoder

One round of the attention, for one group of heads, is a `Script` of steps (fill the k and v
strips, copy them, fill the q strip of a block, submit, wait, divide), one script for each of
the modes of `WSP_PAIR` and `WSP_OVL`. A step on data is done in slices by the threads of the
pool (`Publish`, `OwnSlice`, `Join`; `Take`, `WorkerSlice`, `Count`). The content of a buffer is
the round and block it comes from, for every thread's slice; input whose slices do not belong
together is `Bad`, and so is what is computed from it. Answers are words without a name, in
`down`; `owed` counts the requests not yet waited for. tpud has buffers of its own for input
and output (`TPU_ZC_BOUNCE=1`) or for output only (2), and serves a request while others are in
the socket. `Start` may leave a request without a fence, or not put it on the TPU at all; the
history variable `blind` names the blocks of the round concerned. Calls of the library for pairs (`submit2`, `wait2`) are used by the encoder but not
in `barra.c`; they are modelled by their use, after the calls for single blocks.

### Supervisor

`Pattern(d)` is what the `pgrep` of a daemon's `start_` function matches in the process table;
`Program(d)` what it starts. Looking and starting are two actions.

### ConfigAgent

Every shell command is a step, and a redirection is two: `>` makes the file empty, then it is
written. A file that is removed stays with those who have it open (`reqfd`, `respfd`). An
agent may be killed between any two commands, its worker too; a worker lives on when its agent
does not. The content of a package is the job whose model it was made from.

### ChargeWindow

`Written` is the driver's rule; the boot script reads, chooses the order and writes in three
steps, the agent stores twice and writes twice. `Reboot` may come between any two.

## 3. Runs, bounds, fairness

Every property has a mutant, run under the same configuration, which violates it. State counts
are of distinct states.

* `dsp_session` (142 000): `NoUseAfterFree`, `TokenStandsForItsJob`, `QuietBetweenClients`,
  `LeaseSpec`; `Answered`, `QueueMoves`. 2 handles, 2 tokens, 2 jobs, 2 clients. Two submitted
  jobs and a synchronous one can be in flight over overlapping handles; a token can be reused
  while the other is pending; a session follows another. Fairness: the daemon's thread and the
  supervisor are scheduled; the firmware finishes a job or its watchdog fires (that is what the
  watchdog is for); for `QueueMoves`, clients end their connections some time (strongly fair,
  since a connection is only left between commands). Without it a client that stays would be
  the answer, and is a hazard listed as such.
* `dsp_client` (859 000): `RightBuffers`, `DeviceOwns`, `CpuAgain`; `CallReturns`. 4 buffers, of
  which the library passes up to 3 and the daemon takes 2 in a command; 2 slots, 1 token. So the
  library's limit exceeds the daemon's (16 and 8 in the code), imports run out of slots half
  way, a second submit finds no token, slots are given to other buffers. Fairness: both
  threads run, the firmware finishes or the watchdog fires.
* `gpu_batch` (392 000): `NoMissingBarrier`, `SequentialResults`, `SuccessMeansComputed`. 3 nodes
  or host writes, a batch limit of 3 stages, tensors `a`, `b` and a view across both. Three
  accesses are what every conflict and every elision needs: two conflicting stages and one that
  resets the tracker between them. Batches and scratch growth may fail; the history variable
  `lost` says that one did, and the two properties about results hold as long as none has. What a
  failure does is `gpu_lost_batch`.
* `gpu_cache` (239 000): `PipelinesAlive`, `RefusedOnlyIfTooWide`, `QueueHasOneUser`,
  `LeaseSpec`. 2 connections, 3 shaders, 2 cache entries, 3 stages. So a
  dispatch can fit, evict, hit its own pinned entry and be too wide; and the cache wraps.
* `tpu_sessions` (1 102 000): `OkMeansComplete`, `AwaitedIsMapped`, `AwakeWhileInferring`,
  `LeaseSpec`; `IdleReleases`. 2 connections, 2 handles, 2 requests on the TPU. `MaxQueue` bounds
  late requests. `OkMeansComplete` excepts inferences with a request that got no fence (`blind`),
  `IdleReleases` a wakelock that a process left on when it ended (`orphan`); both are disagreements
  below. For `IdleReleases`, which speaks of the kernel's wakelock, time passes and the idle thread
  runs (weak fairness of `Elapse` and of its steps); the signal handler owes nothing to it.
* `ffn_offload` (124 000): `RowsComputed`, `DeviceExclusive`. 5 rows in tiles of 3 and sub-tiles of
  2, 3 passes: a full and a partial tile, each with a full and a partial sub-tile; rows that
  saturate in the first, the second and the last pass; a failure in each.
* `glue_pool` (20 000): `EachRowOnce`, `ForkSpec`; `RunReturns`. 2 workers, two jobs of up to 3 rows,
  spurious wake-ups, the destructor. Two jobs let a worker be late by a whole generation.
  Fairness: every thread runs, and the mutex is not withheld from one thread for ever (strong
  fairness of the two steps that take it); nobody has to call `run`.
* `whisper_encoder` (971 000): `AnswersMatch`, `GlueAndTpuApart`, `ForkSpec`; `EncodeReturns`.
  The caller and one pool thread, two rounds in one encoding or in two, the three modes, both kinds
  of bounce; once, a request is given up or gets no fence, and completes late. One pool thread can
  be late by every step; more of them are the theorems' matter, which hold for any number. Two rounds let every buffer be used again and every
  answer be taken for the next round's; the second encoding starts after a failed one.
  Fairness: encoder, pool, tpud and TPU run; nobody has to call the encoder.
* `config_agent` (148 000): `AtMostOnce`, `OwnAnswer`, `OkMeansMine`; `JobTaken`. 2 clients, 2 jobs, 2
  agent processes, 2 kills. So a client writes over another's request or reply, a killed agent
  is followed by a new one, and a killed worker leaves the compiler running into the new worker's
  job. The two halves share only the agent's life, so a behaviour of this run has clients of one of
  them only (`OneHalf`). Fairness: agents and workers run, the supervisor starts an agent when
  none is seen; clients owe nothing.
* `sup_watch` (1 300): `OneSupervisor`, `OneInstance`; `UnseenIsStarted`. 2 invocations, 4 daemons
  with the three kinds of patterns (one that matches too much, one for the fallback, one shared
  with the worker). Fairness: the supervisor's own steps. `MaxInst` bounds duplicates; the run
  never reaches it.
* `charge_boot` (34 000): `StopApplied`, `BootRestores`. Seven levels, on both sides of the defaults
  and of each range.

Where deadlock is not checked, the system may stop: nobody has to call.

One run expects a violation and shows a disagreement between a comment and the code:

| Run | What happens |
|---|---|
| `gpu_lost_batch` | a batch that fails while a node is being encoded is dropped and the node runs on the CPU over what was never computed |

Further disagreements met while modelling, without a run of their own. Those with a condition
can be seen by running the model that way.

DSP and library:

* `gxpd3.c:276`: after a watchdog abort only RUN, SUBMIT and WAIT probe the device; inline clients
  fail for ever.
* `barra.c:568`: `barra_dsp_wait` on a session that has died returns before `cpu_begin`, although
  `barra.h:57-61` gives the buffers back to the caller with wait. `CpuAgain` speaks of living
  sessions only.
* `barra.c:501`, `210`: a session that is closed or lost leaves `dsp_h` in the buffers, against
  `barra.h:63`; used in the next session they stand for other buffers. `RightBuffers` is violated
  when the application does not take fresh buffers.
* `barra.c:138` allows 16 buffers a command, `gxpd3.c` 8: a larger command ends the session.

GPU:

* `ggml-gpud.cpp:510`: `node_on_cpu` computes in place without `gpud_to_cpu` on buffers that
  `graph_compute` has handed to the device (543); 146 says state 1 means the device owns them.
* `gpud-zc.c:247`: a v1 request whose import fails after the buffer was created destroys it in
  `import_buf` (129, 131) and again here. `GpuDaemon` has handles, not Vulkan objects.

TPU, feed-forward block and whisper encoder:

* `tpud.c:151`, `224`: with fences, a request for which `submitFenced` gives no fence counts as
  done, and 0 is answered although it is still running or was never accepted; 130-132 calls the
  fence path's completion exact. The caller then takes what the output held before.
  `OkMeansComplete` and `AnswersMatch` except such requests (`blind`); without the exception both
  are violated.
* `tpud.c:100`: the kernel's wakelock outlives a tpud that is killed while it holds it. The new
  process starts with `g_wl_held` = 0 and gives it back only after an inference has taken it again;
  until then the TPU stays awake, against 96-99 ("nach TPU_WAKELOCK_IDLE_MS ohne Requests
  freigeben"). `IdleReleases` excepts it (`orphan`); without the exception it is violated.
* `tpud.c:178`, `202`: without fences, polling that runs out of time answers 0 like a success, the
  fence path -2 (160). `OkMeansComplete` is violated with `Fence = FALSE`.
* `tpud.c:104`, `107`: a signal between the write of the wakelock and `g_wl_held`, or a thread that
  takes the wakelock after the handler has cleared `g_wl_held` (105) and before it ends the process,
  leaves it on just so, although the handler is there to give it back (98-99).
* `ggml-barra.cpp:396-400`: when a further pass of gate and up fails, only the rows of that pass go
  to the CPU; the others of its tile are forgotten and keep what the memory held.
  `RowsComputed` names them as its exception.
* `ggml-barra.cpp:183` asks tpud for as many models as there are layers, the split path uses three
  per layer.
* `whisper-barra.cpp:442-447`: an encoding that returns because pair A failed leaves the answer
  for pair B in the socket; session and `g.ok` stay, and every later encoding takes answers one
  pair too early, from buffers that are still being computed. 339-340 names this offset
  ("Protokoll-Versatz") and avoids it for imports. `AnswersMatch` and `GlueAndTpuApart` except
  encodings after such a return (`left`); without the exception both are violated.
* The session with the core package's tpud is never opened again once it is lost: every later
  encoding fails.

Supervisor, agent, charging:

* `hw-bridges.sh:66`: `pgrep` for gpud also matches the command line of gpud-zc, which is started
  next. Once it runs a crashed gpud is not restarted, although the script promises just that
  (3-4).
* `hw-bridges.sh:60`: a baseos-cfgd killed by SIGKILL is taken for alive while the compile worker
  it forked runs: both have the same command line.
* `hw-bridges.sh:78-80`: without gxpd3 one more gxpd, the fallback, is started every round.
  `OneInstance` is violated with `Order <- <<"gxp">>` and only `gxpd` installed.
* `hw-bridges.sh:21-25`: two invocations at once both become supervisor, against the comment at 20.
  `OneSupervisor` is violated with `Together = TRUE`.
* A compile worker that is killed alone is never started again (`Workerless`, the exception in
  `JobTaken`); a worker that was killed after it had removed the request (166) loses the job, and
  barrac waits for its time-out.
* `echo ... > file` makes a file empty first: a reader may find a request, a reply or a `.done`
  empty. `OwnAnswer` counts an empty reply, which the client prints as one, as no one else's.
* The mailbox has no names: a client that gave up leaves its reply to the next one. `OwnAnswer`
  speaks of clients that were alone.
* An agent started by hand beside a living worker breaks `OkMeansMine` and `AtMostOnce`
  (`ByHand = TRUE`).
* `baseos-cfgd.sh:51`: moving the window up past its upper end (60/65 to 75/80) writes the lower end
  first, which the driver ignores: 60/80 applies until the next boot, although the answer says
  at once ("sofort wirksam").
* `baseos-cfgd.sh:49`: windows below 40/45 or above 90 are answered OK, and
  `charge-limit.sh:33-35` replaces them by 60/65 at the next boot; 50 calls them persistent.
* `charge-limit.sh:24-41`: a request served while the script waits for the driver is undone by its
  writes. `BootRestores` is violated with `Overlap = TRUE`.

## 4. Proofs

TLAPS checks these for every value of the constants that satisfies the named assumptions of
the modules (sizes are natural numbers, null values are not members of the sets). Each proof
module also proves its `TypeOK`.

* `DspSessionProofs`. The invariant that is wanted, `NoUseAfterFree`, is not inductive: that a
  RELEASE may unmap follows from the token table only because the table's masks agree with what
  the firmware's requests really use. `IInv` adds exactly that: every request is the synchronous one
  or has a token (`Held`), only one (`OneToken`), whose mask is its handle set (`MaskIsUse`);
  where the thread is tells what is in flight (`SyncRuns`, `WaitsForRequest`); and what the
  client is owed is what the tables hold (`NothingOwed`). From it follow
  `BuffersOutliveJobs`, `TokensAreFaithful`, `SessionsAreSeparate` and, step by step,
  `ImplementsLease`: the specification implements `DmaLease`.
* `GpuBatchProofs`. `NoMissingBarrier` speaks of the stages, the encoder only knows its two
  sets; `Tracked` connects them: the sets cover all accesses since the last barrier.
  `PushOrders` is then one case split, before or after the last barrier. For the results, the GPU
  may run the stages of a batch in any order the barriers allow, so `mem` alone says little.
  `Frontier` says that when a stage can run, every conflicting stage before it has run and none
  after it has. `Chain` and `Memory` describe a cell by the last stage that has written it, without recursion
  over the batch; `Source` and `Latest` do the same for the scratch. Then what a stage reads is
  what a node-by-node execution would have given it (`NodesInOrder`, `SuccessIsFaithful`), as
  long as no batch is lost.
* `GpuDaemonProofs`. The mutex tells where every thread is (`Exclusive`); only its owner has
  pins, and they are the entries it has collected (`Collecting`, `PinsAreHis`). From it follow
  `CollectedPipelinesLive` and `OnlyWideIsRefused`, for any cache size. `BoundIsMapped` (a
  dispatch keeps its session's thread from releasing what it named) gives `ImplementsLease`.
* `TpuDaemonProofs`. The TPU runs requests in order and only the owner of the mutex adds any, so
  what is awaited is last in the queue (`LastIsAwaited`): when no awaited request is left, none is
  left at all, late ones included. That is `FencedOk`. It assumes `Fence`, because polling answers 0
  when it gives up, too, and excepts inferences with a request that got no fence, for which the code
  answers 0 at once. `ArgIsMapped`, `Waiting` and `NothingKept` connect requests, handle tables
  and the mutex and give `AwaitedMapped` and `ImplementsLease`. Late requests have no place in the
  lease: the code lets them outlive their buffers, and the driver's own reference to the memory
  must keep them safe. `HeldIsAwake` adds to `AwakeWhileInferring` what the daemon believes; `OnIsKnown`
  is the other direction, the safety half of `IdleReleases` (`WakelockKnown`): a wakelock that is on
  is known to tpud, just being taken, or left by a process that has ended.
* `OffloadProofs`, the pool. `run` waits for a number of workers, not for rows. Its invariant says what the number
  means: `done` is how many workers are through with the present generation (`Counts`); a worker
  that has not taken part in it neither holds a row of it nor can draw one once the caller goes
  on (`Turns`, `Draws`), and every row drawn is done or in the hands of one thread. So all
  rows are done when all workers have counted (`RowsDoneOnce`), and nobody calls the function
  later (`NoLateCall`), for any number of workers, rows and jobs. Together these are
  `PoolImplementsFork`: the pool implements `ForkJoin`. `NobodySleepsOn` is the safety half of
  `RunReturns`: a worker sleeps through news only while somebody is about to notify.
* `OffloadProofs`, the block. The invariant follows the place of the computation: rows before the tile are
  dealt with or forgotten, rows after it untouched (`Outside`), and what is known of the rows of
  the tile depends on the package it is at (`GateUpRows`, `SubRows`, `DownRows`, `FusedRows`).
  `Fresh` says that the results in an output buffer are of this pass when they are read. From it
  follows `NoRowIsLost`; `BracketsHold` follows from `Closed`, which says for every place which
  buffers are open.
* `BootProofs`, the supervisor. `PidFileExcludes` needs that a running supervisor is the one in the pid file
  and that no one runs while another writes it (`PidIsOurs`); it assumes that two invocations do
  not overlap, and `NeverTwice` also that gxpd3 is installed, because otherwise both are false (see
  section 3).
* `BootProofs`, the window. `Booting` and `Charging` say what the first of two writes has done; the
  driver's rule then makes the second succeed. Both theorems assume that no request is served
  while the script runs, as the pass run does.
* `BootProofs`, the agent. `OwnAnswer` needs no assumption: a client that is alone has cleared the reply
  and written the request last, so every name in the mailbox, in an agent's `line` or in what the
  client has read is its own or none (`MailOf`). The other two assume `~ByHand`: then one process
  has the agent's name at a time (`Single`), because the supervisor looks for it and a living
  worker counts. `Pending` says where an uncarried request is, in the mailbox or in the hands of the
  one agent, never in both; `NoRequestTwice` is its last conjunct. `OwnPackage` follows the one
  `out.package` through the worker's commands: it is this job's from the compiler to the move
  (`WorkOK`), and a job still in the queue has no answer (`JobOK`), so a worker that comes after a
  killed one cannot find another's answer in place of its own.
* `DspClientProofs`. Answers carry no name, so the proof shows that one command is on the wire at a
  time: the daemon has not answered the call under way (`Awaited`), or its whole answer is there
  and nothing else (`Answered`), or a payload without its command is at the front and the session
  ends (`Stuck`). An answer of handles says which buffer each slot got (`GivesHandles`). So a handle
  the library holds stands for its buffer in the daemon's table, until the answer to its release is
  read (`Handles`), which is `RightBuffers`. A running job is owned by a submit not yet waited for or
  by the call that waits for it (`Owners`), whose buffers are the device's (`Pending`, `Calls`):
  `DeviceOwns`. `OpenBrackets` lists who may have closed a buffer and gives `CpuAgain`. The limits of
  the two sides are arbitrary: the proof does not need the library's to fit the daemon's.
  The same invariant gives the safety half of `CallReturns`, `NoWaitInVain`: every answer is as long
  as what the library reads (`LongEnough`), so a call waits only while the daemon has its command.
* `WhisperEncoderProofs`. Nothing names a round: not the answers, nor the parts a thread of the pool
  fills, nor what is on the TPU. The proof reads the three scripts as a timetable (`Timetable`,
  `Order`): when a block is filled, submitted, awaited and divided, and in which buffer. Two blocks
  of one buffer do not overlap (`Apart`), and the blocks between their submission and their answer
  are the requests under way (`Sent`, `UnderWay`). The invariant has four parts. `Pool`: outside a
  call every thread is through, inside a call `done` counts those that are, so a late thread is
  still at the current step. `Course`: the encoder owes what the timetable says, has its own
  handles, and leaves an answer behind only after a failure, in overlapping pairs. `Data`: what the
  timetable says is filled, answered or divided is of this round and block. `Wire`: for some number
  of requests the answers are there, the next one is served, with its remaining parts last on the
  TPU behind those given up (`Computing`), and the others wait in order; or an import is alone. With
  this, `EveryAnswerMatches` is a part of `Data`, for every block whose request had a fence. `NoGlueAtTpud` needs the timetable again:
  what is being filled or divided is not under way. `ParImplementsFork` needs `Pool`
  only: this pool implements `ForkJoin`, too. `NoWaitInVain` is the safety half of `EncodeReturns` and holds after an early return, too, where
  `Wire` says nothing: `Debt` counts two words, there or to come, for every request not
  yet awaited. The theorems hold for any number of threads, rounds, crashes and requests given up;
  the four parts were invariants of a run first.

Only model-checked is liveness: fairness and ENABLED are out of the prover's reach. The properties are
`Answered`, `QueueMoves`, `UnseenIsStarted`, `IdleReleases`, `RunReturns`, `JobTaken`,
`CallReturns` and `EncodeReturns`. Of the last two and of `RunReturns` the safety half is
proved: nobody sleeps or waits for something that is not coming (`NoWaitInVain`, `NobodySleepsOn`);
of `IdleReleases` it is `WakelockKnown`.

The other way round, `CacheDistinct` of `GpuDaemon`, `NoCallAfterReturn` and `NoLostWakeUp` of `GluePool` and
`NeverInVain` of the two clients are proved and in no run's configuration; each was checked with TLC before.

## 5. Assumptions and what is left out

* The vendor drivers: the firmware finishes or aborts jobs; the TPU runs requests in order and its
  fence means completion; Vulkan fences do. The charging driver behaves as measured in
  `charge-limit.sh:44-47`.
* tpud's wakelock file is there and can be written, as on the device (otherwise tpud clears
  `g_wl_enable` and never takes it).
* `AwaitedIsMapped` and tpud's lease speak of requests that are waited for, `GlueAndTpuApart` of
  those not yet answered. A request that was given up, or got no fence, is out of the code's sight:
  it may outlive its buffers.
* Waiting for a Vulkan fence (`gpud-zc.c:222`, `419`) ends when the GPU is through. That the wait
  itself fails, because the device was lost, is taken for the same end: `Fence` of `GpuDaemon` leaves
  out the status of the answer, of which no property speaks, and a lost device no longer works.
* `FfnOffload` takes tpud's 0 at its word: what a request without a fence does to an answer is in
  `TpuDaemon` and `WhisperEncoder`.
* A pair of nodes that ggml-gpud encodes as one (`ggml-gpud.cpp:616-631`, a norm and the multiplication
  after it) is one node of `GpuBatch`: it reads what the pair reads and writes what the pair leaves;
  nobody else reads the result in between, which the code requires.
* The boot script's two reads of the store (`charge-limit.sh:24-25`) and its wait for the driver are
  one step of `ChargeWindow`, and the driver's files come to be writable: otherwise the script ends (42)
  and nothing applies. Without requests at the same time (`Overlap = FALSE`) no other step could
  come between.
* `KillWorker` of `ConfigAgent` kills the worker's shell. The subshell it forks for a compilation
  (`baseos-cfgd.sh:174`) is not killed alone: that would leave the compiler running without the
  agent's name beside a worker that goes on as if it had failed.
* A command refused before any state is touched appears only where its refusal matters.
* Payload, sizes, names and kernels' arithmetic are abstracted. What a stream that loses its
  framing does is in `DspClient`; in `DspSession` it is the end of the session.
* `FfnOffload` has the CPU backend there is in every build (without it the fallback does nothing),
  and the two debugging switches off. `WhisperEncoder` starts after `wsp_init` has succeeded, and
  its other packages are single requests that may fail.
* Not modelled, and why: `barra-guard.sh`, `wifi-guard.sh` and the display's lock and command file
  (planned, see below); the attention patch of llama.cpp, which is the body of another program's
  function, and `split_path.inc`'s choice of nodes; tpud's fixed-wait mode (`TPU_WAIT_US`, 115-127, which answers 0
  after that time whatever the TPU has done) and single-threaded mode (both for measurements); the legacy bridges (copies for one request at a time); audio, buttons, boot chain,
  image preparation and flashing (I/O without state beyond the transfer); the services, which start
  third-party servers, with `ttsd.py` and `gpudecd.c`; kernels, shaders, their generators and
  vendored headers, which are most of the repository's lines and hold data, not control.

## 6. Plan

1. Done: the lease and its three daemons, library and daemon over the wire, the encoder of the GPU
   backend, feed-forward block and pool of ggml-barra, the whisper encoder, the supervisor, the
   agent, the charging window; proofs of all their safety properties.
2. Next modules: `Guard` (two services at once), `WifiGuard`, `DashCtl`, the TPU/GPU pipeline of the
   attention patch as far as it is this repository's, `gpudecd`.
3. Next proofs: that `GpuBatch` implements a node-by-node execution and `FfnOffload` the plain
   block, as refinements of specifications of their own; then the safety of the modules in 2.
