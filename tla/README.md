# A TLA+ model of the NRPlan runtime and its frame bridges

The repository is a laboratory that runs a 71-record FP8 image network on an AMD GPU
inside games: a HIP runtime that owns the network (`tools/native_nr_plan`), several
ways to carry a game's frame to it and back (`tools/native_reshade`,
`tools/native_frame_bridge`, `tools/ffx_observer`, `scripts/*worker*.py`), and many
tools that analyse, lower, replay and compare. Line numbers below are of the files
under `src/`.

This directory holds TLA+ modules for the parts with state and concurrency, the TLC
configurations that check them on small instances, and proofs checked by TLAPS.

1. [Inventory](#1-inventory)
2. [Modules and their correspondence to the code](#2-modules-and-their-correspondence-to-the-code)
3. [Runs](#3-runs)
4. [Proofs](#4-proofs)
5. [Disagreements between code and documents](#5-disagreements-between-code-and-documents)
6. [What is only model-checked, and what is not modelled](#6-what-is-only-model-checked-and-what-is-not-modelled)
7. [Plan](#7-plan)

## 1. Inventory

| Component | State | Operations | Interacts with |
|---|---|---|---|
| NRPlan, per-frame path (`nr_plan.cpp` 2293-2475) | flags `submitted`, `timing_pending`, frame counters; pinned and device binding tables; one stream, three events; static buffers | `nrPlanSubmit` (ABI v2), `nrPlanSubmitV3`, `nrPlanSubmitExternalV3`, `nrPlanGetPerformanceStats`, `nrPlanReset`, `nrPlanDestroy` | the HIP stream runs behind the host; external fences order it with the producer and the consumer of the images |
| NRPlan, configuration (`nr_plan.cpp` 357-1542, 2259-2291) | settings, weights, arena, seven parts of the built-in topology, plan-owned buffers, completeness label, graph | create, settings, `Configure*`, two debug transitions, `Finalize`, `AdoptGraph` | the recorder walks what was configured, under capture and, in fixed sequence with host boundaries, in every frame |
| NRPlan, recorder (1620-2257) | the resident chain (buffer and channels) that survives a walk | `record_approximate_stage_blocks` and the operations it calls | the caller's arena and the plan's buffers |
| Native preview (`addon.cpp`, `gpu_surface.h`, `worker_pipe.h`) | `failed`, `finished`, `frames`; a worker process, two pipes | the ReShade `effects` callback, `destroyed` | the game's Direct3D queue, the bridge, the worker |
| Cross-process bridge (`native_frame_bridge.cpp`) | `Bridge.state`, `seq`, `hostValue`; `Remote.state`, `sequence`; two shared heaps, three fences | input, submit, remote-done, receive, next, close; begin, finish, consumed, close | two processes and two GPU queues |
| Worker (`native_gpu_worker.py`, `native_gpu_protocol.py`) | `Commands.state`, `sequence` | prepare, frame, consumed, close | pipes, Remote, its HIP stream |
| In-process bridge (`native_frame_bridge.cpp` 120-216) | `Bridge.state`, poisoned by an error of any thread | upload, to_tensor, from_tensor, read | Direct3D and HIP in one process |
| Resident exchange (`resident_exchange.h`, `resident_frame_worker.py`, `resident_full_graph.py`) | a mapping with a header of sequence numbers, an input and an output plane; two auto-reset events; `poisoned_` and `sequence_` in the game, `previous` and `owner` in the worker; the graph's state | `Exchange`, `Run`; the worker's loop, `tile_frame`, `ResidentGraph.infer` and `close` | two processes, a deadline on each side, a GPU that goes on after either |
| Resident present (`resident_present.cpp`, `present_surface.h`) | `enabled`, `failed`, `frames`, `everStarted`, `bindings`, `selected`, under a recursive mutex most of the time | Present, Resize and SetColorSpace hooks, start and stop commands | a render thread per swap chain, a window thread, a controller, the exchange |
| Capture session (`capture_session.cpp`, `resident_surface.h`) | observation window, tracked lists and their generations, the chosen list, the resident surface, two mutexes | the hooks of list recording and of Execute, start and stop commands | the game's threads, a controlling process, the exchange |
| GPU safety gates (`gpu_safety.py`, `validate_rocm_lifecycle.py`, scripts that launch GPU work) | `GPU_PROFILE_HALT.json`; per launch an output directory with `phases.jsonl`, `child.json`, `manifest.json` | the gate, the parent that starts one child and judges it, the child's phases and result | an operator who edits the record, other launches, a child that outlives its parent |
| Pure algorithms (`resolution_plan.h`, `native_nr_arena.py`) | none | resolution and arena layout | the bring-up scripts |
| Replay executors, probes, tracers, observers, HIP kernels, analysis scripts | per program; none shared while it runs | one experiment or one translation each | files |

Behaviour that is hard to test, by component:

* **Per-frame path.** The host runs ahead of the GPU. Every HIP call of a submission
  may fail with the earlier ones already enqueued. One pinned block and one event pair
  serve all frames in flight, and a gate tests one event of the previous frame. What
  makes it correct: a queued copy never has its source rewritten; the kernels of a
  frame read that frame's bindings and finished input; an accepted frame comes out
  once, in order, as itself; a timing sample is the time of one frame, or mixes in a
  frame the caller saw fail.
* **Configuration and recorder.** Twenty calls in any legal order, any of them refused,
  repeated, or failing in an allocation; buffers shared by parts that are configured
  separately; a chain that outlives a walk. What makes it correct: what a
  completeness label is worth; one topology; no record twice; a frame that ends well has
  run the network, every operation on the image its predecessor wrote in this frame.
* **Preview, bridge, worker.** Two processes and two GPU queues; every wait has a
  timeout after which the other side goes on; the worker may die at any point; nothing
  is cancelled. What makes it correct: no frame is shown as another, no allocator or
  shared buffer has two users, nothing is freed in use, the game gets its thread back.
* **Exchange.** Neither side knows where the other is when its deadline expires; an
  answer may come after the client gave up, an event may be left signalled, a new game
  process finds the name file of a used worker, launches are outstanding when the graph
  is to be freed. What makes it correct: an image returned is the image of that call,
  every pixel of it; the plane the worker reads is written by nobody; the graph is
  freed idle or not at all; the game's thread comes back.
* **Present observer.** The mutex is released around the original Present and the
  commands do not take it: a stop, a resize or a second swap chain's Present falls
  between any two steps of a frame. What makes it correct: what is shown is the frame
  of that call; the frame limit; a session ends once; no surface is destroyed in use.
* **Capture session.** A frame is chosen in one hook, split in another and completed
  after the worker has answered with no guard held; barriers recorded in between move
  the texture. What makes it correct: the consumer of a frame finds that frame; the
  window's bound; the reader finds the state its barrier names; Execute returns.
* **Gates.** The record is read, then acted upon; the evidence of a child is written
  while it may be killed by its own failure or outlive its parent. What makes it
  correct: a pass stands for a clean child; evidence is of one launch; a halt holds.

`PROJECT.json` lists every hazard at its line with the properties that cover it.

## 2. Modules and their correspondence to the code

### NRPlanSubmit: the per-frame path

`FrameService` is the promise to the application: frames accepted are delivered once,
in order, after their own input, each showing itself, until the plan is destroyed.
`NRPlanSubmit` is the code.
`phase` is the next HIP call of the call under way, so that `UploadBindings`,
`RecordConsumed`, `CopyStaticInput`, `RecordStart`, `Run`, `Boundary`,
`CopyStaticOutput`, `RecordStop` and `SignalOutput` are the calls of one submission in
the order of 2308-2336 and 2391-2420, each with a failing alternative (`Enqueue`).
`stream` is what the plan's stream holds; the `Gpu...` actions execute its head, and
`GpuUpload` reads the pinned block at that moment. `GateOpen` is the test of
`binding_consumed` at entry. `Reset`, `ResetDrain`, `ResetClear`, `ResetSettle` and
`Destroy`, `Cleanup` are the two other calls that wait. `Cleanup` frees the stream
whatever its synchronization returned, so what a failed one left queued never runs;
`FrameService!Close` is this for the application. `HarvestTiming` is
`harvest_timing`, called by a submission and by the statistics. The input's producer
is an action of its own, because the application's fences are not the plan's.

Abstracted: images are frame numbers; a device binding table is the frame it holds; one
`"clear"` stands for the up to eight memsets of a reset, and one that fails leaves it
queued (those before it) or not; `succeeded` is a history variable, the frames whose
submission returned success, which only `SampleIsOneFrame` reads; the arguments'
validation and the choice of the HIP graph are outside.

`NRPlanSubmitInv` holds the inductive invariant of the binding path, which TLC checks
too, `NRPlanSubmitProofs` and `NRPlanServiceProofs` the theorems and the refinement.

### NRPlanRecorder and NRPlanConfig: configuration, finalization, the walk

`NRPlanRecorder` is pure: `Record(p, chain, recording, fault)` is the outcome of one
walk for a configuration `p`, starting from the chain an earlier walk left, in which the
operation `fault` fails to launch. An image is named by the operation that produces it,
a buffer holds the last image written to it, and `wrong` collects the operations that
read another image than the one the topology prescribes (`Feeds`). Records 1 to 69 are
walked in order (`Walked`, from `Start`; `At` is one record), each as upsample, block,
downsample, bottleneck, as in 2216-2255. Both routes are there: the caller's arena, and
the resident chain through the plan's own buffers. Byte sizes are levels (`Level`).

`NRPlanConfig` has one action per call of the C interface that changes the plan, guards
in the code's order where an early return leaves something behind (a refused list keeps
the E4M3 table). Lists are sets of record numbers. The code counts them where it asks
for the whole network, and so do `IsComplete` and `ConfigureScaleTransitions`: the 44
stage blocks may be any, as long as the first is record 1 and the last record 69. A
stage block outside the stage family declares 256 channels (`StageChannels`), the
largest a stage descriptor can; one inside declares its own. The single-transition debug
calls take any configured block as anchor (`DebugAnchors`). `Finalize` walks under
capture, may fail in the walk or later, and keeps the chain; `Submit` walks again in
fixed sequence with host boundaries and otherwise replays.

### NativePreview: callback, bridge, worker, two GPU queues

`PreviewService` is the promise to the player. In `NativePreview`, `phase` is the
point of the game's thread in the callback (`addon.cpp` 19-42 with
`gpu_surface.h` and `worker_pipe.h` inlined in the order of calls); `queue` is the
Direct3D queue, `stream` the worker's; the pipes are sequences of messages without
pixels. `Submit` enqueues any prefix of its lists and signals when a call fails half
way. A wait that ends before its fence is a timeout; the lists go on. The worker is
`WorkerStarts` ... `WorkerExits`; `WorkerFails` is an exception at any point and
`StreamLost` what a dead process had queued. `mayFail` is fixed in the initial state:
one run covers sessions without failures, with everything but timeouts, and with all.

`NativePreviewProofs` holds the invariant, the theorems and the refinement.

### ResidentExchange: game and worker over shared memory

`ExchangeService` is the promise to the hook that calls `Run`: a surface asked for is
answered by its own image, or the session is over and answers nothing again. In
`ResidentExchange` each access to the mapping and each event call is an action, so the
two processes interleave between them. `client.phase` walks through `Run`
(`resident_exchange.h` 37-58): the checks of `Run`, the copy of the input in two parts,
`WriteHeader`, `SignalRequest` (reset, then set), `WaitResponse`, `ReadHeader`,
`TakeOutput`; every exception is `Poison`. `worker.phase` walks through the loop of
`resident_frame_worker.py` in the same way: `ReadRequest`, `ReadData`, one `Infer` and
one `Collect` per tile, `FinishFrame`, `Recheck`, `WriteOutput`, `Publish`,
`SignalAnswer`, `Save`; a failure is `ReportFailure`, then `Close` as in the `finally`.
`Infer` and `Collect` are `ResidentGraph.infer` with its poll, `CloseGraph` its `close`.
`ClientDies` and `Open` are a game that ends at any point and the next one.

A pixel is the number of the surface it belongs to, so tearing, staleness and a
forgotten tile are visible in an image. Deadlines expire at any point of a wait once
`"slow"` may happen. Times, audit files, color conversion and the contents of the
network's result are left out. `"event"` is a scenario in which the calls on the two
events fail: the game's reset, set or wait, the worker's wait, its signal of an answer it
has already published, and the signal of its failure handler, which nobody tests.

`ResidentExchangeProofs` holds the invariant, the theorems and the refinement.

### ResidentPresent: the present observer

`render[s].phase` is the point of a render thread in the Present hook and in `Process`
with its `Surface` (`resident_present.cpp` 40-110): read the frame, wait for the queue,
ask and answer, write it back, wait again, save, the original call, `complete`. `serial`
is the recursive mutex; the nested Present of a runtime that calls itself is the phase
`"nested"`. `queue[s]` is the work of the swap chain's queue, `buffer` the back buffer,
`shown` what the last call put on the screen. The window thread's resizes, `Start`,
`Stop` and the deadline are actions of their own. The worker is not repeated: the
actions of the hook that talk to it are conjoined with `Exchange!Ask`, `Answer` and
`GiveUp` of `ExchangeService`, which `ResidentExchange` implements.

`ResidentPresentProofs` holds the invariant and the theorems.

### CaptureSession: choosing, splitting and completing a frame

`recorder` records the lists of a frame through the hooks of `capture_session.cpp`
(reset, dispatch, barrier, close), `submit` executes them, `other` submits to a second
queue, and a controller starts and stops the session. A hook with a part before and one
after the original call is two actions under `guard`; the second uses what the first
saw. `submit.phase` is the point in the split submission (prefix, reader, exchange,
writer, suffix) that holds `residentSubmitGuard` without `guard`. `track` is what the
hooks know of a list, `target` the real state of the texture, `used` what each frame's
consumer found in it. The worker is `ExchangeService` again.

`CaptureSessionProofs` holds the invariant and the theorems.

### SupervisedGate: halt record, parent, child

A launch is one run of a script of one of three kinds, which differ in where they read
the record (`PastGates`). `parent` and `child` are the two processes' positions,
`dir` the files of each output directory with the launch that wrote each of them,
`gpu` the work itself. `TimeOut` is the host timeout: the parent goes on to judge and
the child stays. The child's result is written in two steps, so that a parent may find
it cut short. `admitted` is a history variable: the launches that were past their last
gate when the record began to block.

## 3. Runs

| Run | What it asks | Bounds |
|---|---|---|
| `submit_failures` | `Inductive`, `FrameIsolation`, `SampleIsOneFrame`, `PinnedBlockImmutable`; implements `FrameService` with its fairness | graph path; 3 frames, every enqueue and synchronization may fail |
| `submit_static` | `IdleMeansQuiet`; the v2 path with static buffers implements `FrameService` | 3 frames, every enqueue and synchronization may fail |
| `submit_fixed` | `CallReturns` in fixed sequence with host boundaries | 3 frames, 2 boundaries each, everything may fail |
| `preview_session` | `BuffersExclusive`, `LeaseAgrees`, `ReleasedIsIdle`; implements `PreviewService`; `CallbackReturns`, `TakenIsReplaced` | 4 frames drawn, 2 replaced, three failure scenarios |
| `config_bringup` | `LabelMissesAtMostOne`, `OneTopology`, `NoRecordTwice`, `CompleteRuns`, `FramesRunNetwork` | settings first, then all calls in any order; whole, partial and overlapping lists, one of the right size only; allocations and a launch may fail |
| `resident_exchange` | `AnswersOwn`, `FreedIsIdle`, `InputPinned`; implements `ExchangeService`; `RunReturns`, `RequestAnswered` | a surface in one tile and one in three, two of them cut; 3 requests of 2 processes, 2 answers; nothing, everything, or the event calls go wrong |
| `resident_present` | `ShownIsOwn`, `WithinLimit`, `SurfaceRetained`, `EndsForGood`, `PresentReturns` | two swap chains, 2 and 1 frames, a session of 1 frame, every failure |
| `capture_session` | `ConsumerFindsOwn`, `SurfaceOutlivesWork`, `ReaderFindsReadable`, `WindowBounds`, `ExecuteReturns`, `ChosenCompletes` | 2 frames on one list or two, a window of 1 frame, four scenarios |
| `supervised_gate` | `PassIsClean`, `OwnEvidence`, `HaltHolds` | 2 launches of different kinds, 1 or 2 directories, 2 edits of the record, three scenarios |
| `submit_retry`, `config_head`, `gate_report` | statements of the repository that the code does not meet (section 5) | 2 frames; one configuration; 2 launches |

Why the bounds are enough.

* *Submissions.* Three frames are one more than the pinned block, the event pair and the
  binding tables can tell apart: the gate looks one frame back, so a conflict needs the
  frame before, the frame under way and one that inherits the outcome; two boundaries
  give a first, a last and a point between them. The theorems hold for every number.
* *Preview.* A limit of two gives a frame that starts the next lease and one that closes
  the session, and two frames beyond it are presented after the stop.
* *Configuration.* No counters: the bound is on which lists callers pass
  (`MCStageLists`, `MCSplitLists`: a list whose record 39 stands for record 2 is the only
  way, up to the record missing, to a label without the network) and which launch fails
  (`MCFaults`; record 34 is behind every kind of operation but the decoder's, so a failed walk leaves an encoder's
  or a ViT block's chain).
* *Exchange.* Two answers fill the worker's limit, so the third request meets a worker
  that has left; the second client meets every header the first one can leave behind.
  3x2 pixels in tiles of 2x2 has a whole tile and one cut at the edge of the row; 1x1 is
  smaller than a tile. The theorems hold for every size, tile and limit.
* *Present.* One processed frame is the limit reached; the second swap chain and the
  game's second frame come when the session is about to end or has ended. A session of
  one frame never processes two, so sequences of processed frames are those of the
  exchange alone.
* *Capture.* Two frames on one list reuse it under a new generation; on two lists one is
  recorded while the other is processed.
* *Gates.* Two launches are all that `OwnEvidence` and `HaltHolds` relate; two edits set
  the halt and lift it.

Fairness. `NRPlanSubmit!FairSpec` has weak fairness on the host's next HIP call (a
thread in a call goes on), on the GPU (a stream executes what it can) and on the
producer (every frame's input is finished in the end; an application that never
finishes it has no claim on the output). Nothing obliges the caller to call. In
`submit_fixed` the producer does not depend on the submitting thread
(`InputAfterReturn = FALSE`); if it did, the call would wait for ever, and the code
has no defence. `NativePreview!FairSpec` has weak fairness on the game's thread in the
callback and at Present, on the worker's loop and on both queues; drawing, failing and
destroying are never obliged. `CallbackReturns` is stated for sessions in which no
timeout fires: the thread must come back because the worker's death is noticed, not
because ninety seconds pass. `ResidentExchange!FairSpec`: both processes go on with
what they are doing, the GPU with its launches; a game need not ask again, and `TimeOut`
is certain only when nobody is left to answer. `ResidentPresent!FairSpec` has strong
fairness on each render thread inside the hook, because it competes for the mutex and a
thread that waits for it is let in between two holders; weak fairness on the queues and
on `Connect`. `CaptureSession!FairSpec` has weak fairness on the recorder, the
submitters and, unless it may hang, on the GPU. `SupervisedGate!FairSpec` obliges each
parent, its timeout included, to go on; children and the operator are obliged to
nothing.

Deadlock is not checked where the game or the launches simply end: `preview_session`,
`resident_exchange`, `resident_present`, `capture_session`, `supervised_gate`,
`gate_report`. That nobody is stuck in the middle is what the liveness properties of
these modules say.

Every property of a passing run has a mutation of the modelled code, listed in
`PROJECT.json`, that breaks it.

## 4. Proofs

Eight modules of theorems, checked by TLAPS to the last leaf. A theorem holds for every
value of its module's constants that the named assumptions allow: frames, lists, swap
chains, sizes and limits of any number, any set of failures, every interleaving. The runs
check the same formulas on small instances; the inductive invariants were checked there
before they were proved. Every invariant and action property of a passing run is proved,
and so are the refinements of the three abstract specifications without their fairness.

| Module | Theorems | Property of the runs |
|---|---|---|
| `NRPlanSubmitProofs` | `TypeCorrect`, `PlanInvariant`, `PinnedIsImmutable`, `FramesAreIsolated` | `Inductive`, `PinnedBlockImmutable`, `FrameIsolation` (graph path) |
| `NRPlanServiceProofs` | `SampleOfOneFrame`, `NothingOutstanding`, `ServiceInvariance`, `EveryFrameIsolated`, `ImplementsService` | `SampleIsOneFrame`, `IdleMeansQuiet`, `FrameIsolation`, `ServiceSpec` |
| `NRPlanConfigProofs` | `PlanTypeCorrect`, `LabelIsWorth`, `OneTopologyHolds`, `NoRecordTwiceHolds`, `RecordRight`, `TypeCorrect`, `FramesRunNetworkInFixedEdges`, `FramesRunNetworkHolds`, `CompleteRunsHolds`, `HeadConsumesBodyHolds` | `LabelMissesAtMostOne`, `OneTopology`, `NoRecordTwice`, `FramesRunNetwork`, `CompleteRuns` |
| `NativePreviewProofs` | `Invariance`, `TypeCorrect`, `Exclusive`, `Agrees`, `ReleasedQuiet`, `Implements` | `BuffersExclusive`, `LeaseAgrees`, `ReleasedIsIdle`, `PreviewSpec` |
| `ResidentExchangeProofs` | `ExchangeInvariant`, `TypeCorrect`, `AnswersAreOwn`, `ClosedIsIdle`, `InputIsPinned`, `ExchangeImplementsService` | `TypeOK`, `AnswersOwn`, `FreedIsIdle`, `InputPinned`, `ServiceSpec` |
| `ResidentPresentProofs` | `Invariance`, `TypeCorrect`, `OwnFrame`, `Limited`, `Retained`, `SessionEnds` | `ShownIsOwn`, `WithinLimit`, `SurfaceRetained`, `EndsForGood` |
| `CaptureSessionProofs` | `Invariance`, `TypeCorrect`, `OwnFrame`, `Outlives`, `FindsReadable`, `Bounded` | `ConsumerFindsOwn`, `SurfaceOutlivesWork`, `ReaderFindsReadable`, `WindowBounds` |
| `SupervisedGateProofs` | `GateInvariant`, `ReportsAreClean`, `EvidenceIsOwn`, `HaltIsObeyed` | `PassIsClean`, `OwnEvidence`, `HaltHolds` |

All have the same plan: an inductive invariant that says where the data of a frame is
between two steps; lemmas about sequences and records; lemmas that say once what each
kind of step does to what the invariant mentions; one step lemma per conjunct, split by
kind of step; and the theorems, which combine them.

### NRPlanSubmit

Assumptions: the constants' ranges, and that the frames reach the graph through the
table it was recorded against (or through static buffers). Theorems about frames assume
`~RetryAfterFailure`: `submit_retry` is the counterexample without it.

`NRPlanSubmitProofs`. That a queued copy keeps its source says nothing of the gate, and
the gate tests an event, not the copy. `Inductive` locates the copy: at most one is
queued, it is the latest frame's (`OneUpload`), and behind it in the stream stands a
`binding_consumed` record, or the call that will enqueue one is still under way, or the
caller has seen an error (`GateHolds`). An open gate then means that no copy is queued
(`GateMeansNone`). For isolation, every launch in the stream stands behind its own upload
and wait, or finds their effect in the table and in the finished inputs (`RunsBacked`),
and the submission under way will enqueue such a launch (`CallBacked`). `TypeCorrect`
needs no assumption about the caller.

`NRPlanServiceProofs` has three arguments.

* *Samples* (no assumption about the caller). `Ordered`: frames lie in the stream in
  their order. `Times`: for every succeeded frame both events are recorded, or will be,
  for that frame or a later one (`Timed`), and every stop record, in the stream or past
  it, is of a frame no later than the start record before it (`StopsBehindStarts`). A
  sample is taken when no stop record is in the stream. Two frames can only meet in it
  with the start record the later one, and then that frame did not succeed: it would have
  left a stop record of its own. This is all the code can promise; a submission that
  fails between its two records does spoil the sample of the frame before (section 5).
* *Nothing outstanding* (no assumption about the caller or the failures). A reset that
  reports success ended with a synchronization that succeeded, and what clears
  `submitted` or empties the stream is the same step. A destroy that reports success found
  the stream empty; `Signals` then says that no accepted frame is still to come out.
* *Refinement of `FrameService`.* `Accepting` and `Signals`: the signals in the stream
  are those of the accepted frames not yet delivered, in that order, so the one that runs
  is the next (`NextSignal`). `Pictures`: before a signal's turn comes the image of its
  frame is there, or what makes it stands in front of the signal; images stay. What makes
  it is the launch on the graph path (`RunsBacked`) and the copy out of the static buffer
  on the other, where `Static` takes over: one buffer serves every frame, and `Fresh` says
  that the last write in front of a read is that of the read's own frame, or that none is
  left in front and the buffer holds it. `Fresh` is an operator on any sequence with
  lemmas for pushing and popping (`FreshGrow`, `FreshNow`, `FreshPop`, `FreshHead`). `Paths`
  keeps the two paths apart. `Cleanup` maps to `Close`, with whatever a failed
  synchronization left in the stream.

### NRPlanConfig

Assumptions: the constants' ranges; lists are not empty, and the split lists name records
of their family. `FramesRunNetworkHolds`, `CompleteRunsHolds` and `HeadConsumesBodyHolds`
assume `SettingsFirst`, as every bring-up script does and `config_bringup` sets it;
`config_head` is the counterexample without it. `FramesRunNetworkInFixedEdges` says what
of it is needed: that the mode is still the one the edges were configured for.

*The configuration.* `ConfigInv` is `WellFormed(plan)` together with the exclusion of an
adopted graph. `WellFormed` is an operator of a configuration, so that the proof of a call
is a statement about the configuration it stores, without primes (`ConfigureKeeps`);
`FieldEdits` gives the type of one edited field and `SamePartsKeep` dismisses the calls
that edit no part. Three facts make it inductive where the properties alone are not: the
transitions of a plan with a recorder are empty because transitions need a stage list
(`OneRecorder`), a decoder transition appended by the debug call keeps the label but finds
it off, because two transitions are not eight (`DebugDecoderKeeps`), and the scratch of a
list is the level of one of its records (`ScratchRange`).

*The label.* `refresh_complete_native_topology` counts. The lists share no record, the
split list is full and the ViT list there, so the stage list is drawn from the 44 records
of its family and record 39: at most one block is missing, and neither the first nor the
last (`LabelOf`). The theorem `LabelIsWorth` says this and no more.

*The walk.* `RecordRight` is about one walk and proved by induction over its records. The
induction theorems of the library take an operator; `SetInduction` and `BoundedInduction`
say the same of a set, from the well-foundedness of the naturals, and suffice.
`WalkUnfolds` shows with the latter that the recursive function of `Walked` exists and
unfolds. The invariant of the walk, `Right`, is a map of the buffers. Before block r runs,
the image it is to read lies in `Source`, and a resident chain points there (`Fed`); after
it, its own image lies in `Sink` (`Made`); and the images the decoder adds back lie where
the encoder left them: four skips, the central one and Pre's (`Kept`). `Passed` joins
them: a record done has fed the next one, or made the image that one's upsample takes.
Blocks only write `Transient` buffers, so what is kept stays (`KeptWhenTransientWritten`);
one lemma per kind of operation (`SwinRight`, `VitRight`, `DownRight`, `UpRight`,
`EncoderBottleneckRight`, `DecoderBottleneckRight`) shows that it reads and writes where
the map says, and `AtRight` composes them for one record. `Walkable` names what it needs:
the trunk, the pools of the eight transitions, and a resident walk if there are edges.
That is the argument why the arena route and the resident route never mix within a walk.
`Sized` names the remaining buffers; with them and no failing launch the walk ends well.
`LabelledWalk` extends this to a labelled plan without one of its blocks: its walk is
refused nowhere either, which is all `CompleteRuns` promises of it. `FramesRunNetwork`
is about plans with the whole trunk.
`WalkTyped` gives the types for every plan, whole or not.

*The frames.* `Supplied` carries `Walkable` and `Sized` from the calls to the frames. Part
of it holds in any order of calls (`Provisioned`: whoever draws all eight transitions has
sized the target, which only grows, and the debug calls never draw eight); the rest needs
the settings first (`Buffered`: no part is there before the mode is final, so the parts of
a fixed plan brought the buffers of that mode). `FrameRight` is the invariant: the captured
graph is right unless every frame is recorded anew, the last frame is right if it ended
well, and no frame of a complete plan was refused. A graph captured with host boundaries
in fixed sequence may be wrong (Pre publishes a chain its body does not take), which is
why the exception is there: that graph is never launched.

### NativePreview

Assumptions: the bounds are positive, the scenarios name failures. `PreviewInv` follows
two things at once.

*Who may act.* One list of the bridge's allocator is on the queue at most, and while the
session goes on it is followed by the signal the callback waits for (`Allocator`): a wait
that ends means the list has run. In the phases that are the callback's turn the worker is
`Still`, and it is still while a list of the callback is queued (`Turns`, `Channels`), even
after a timeout: a failed session submits nothing and sends no message. Hence
`BuffersExclusive`. `Lease` ties the states of the three parties (bridge, remote, commands)
to the messages under way, and `Released` to the order of `close`: `ReleasedIsIdle` needs
both, since a freed bridge has no list only because the session ended well.

*Which frame it is.* `OwnList`: the queued list is the one for this phase and frame.
`OwnPicture`, `OwnResult`: what the callback, or the worker, waits to have copied is the
frame's, or will be when that list or operation has run. `Screen` and `Presents` order the
frames on the queue and on the screen. `Budget`: the frames shown as the network's, with
the one in the target and the one about to be encoded (`Replaced`), exceed the counter by
at most one, between the encoding and the worker's release of the frame. The refinement of
`PreviewService` is then one case: presenting the target, raw or replaced; every other step
leaves the player's state or ends the session for good (`ServiceStep`).

### ResidentExchange

Assumptions: sizes, tile and bounds are positive. `AnswersOwn` is about images already
returned and says nothing of how they come about. `ExchangeInv` follows the surface
through the mapping: while the header says 2 the input plane holds the surface asked for
and no client is on its way to write (`Requests`); the worker's copy of header, plane and
partial result agree with it, where a pixel that is not yet right lies in a tile still to
do (`Served`); what a client with a published header finds in the output plane is its own
surface (`Answered`). The header's status hands over the ownership, which is why a late
answer needs no lock: a client that gave up is poisoned and its successor is refused
because the header is no longer untouched. `TilesCover` is the arithmetic: every pixel of a
surface lies in a tile that starts inside it (`TileOrigin`, from the division with
remainder). `ClientMoves`, `RunOutcome`, `StepOutcome`, `EndOutcome` and `WorkerOutcome`
say once what a step of either side does to the shared state.

### ResidentPresent

Assumptions: every swap chain has frames, the limit is positive. `PresentInv`: `Held`, the
mutex is held by the one chain inside the critical section of `Process`, or by `Start`.
`Chains`, for each chain: what each phase has put on its queue, all of the frame under way
(`ListsOf`); the surface lives while a list may touch it and holds that frame's images
(`SurfaceOf`); so does the back buffer, or nothing after a resize (`BufferOf`). These give
`ShownIsOwn` and `SurfaceRetained` whether or not the wait for the queue ended well. `Counts`
gives the limit: `Due` counts the processed frames a chain shows, with the one it could still
show (`Ahead`: its present is not executed and its buffer holds a processed frame or may);
outside a frame under way (`InFlight`) it is no more than the counter, inside one at most
one more, below the limit. That no second chain shows any is part of it: at most one
chain is `Touched`, the selected one while the session is active. The counter is
incremented without the mutex; the proof shows that this is harmless because the chain
that increments it is the only one touched. `EndsForGood` follows from `Held`: only
`Start` enables, and it does not run in a session started before.

### CaptureSession

Assumptions: bounds positive, plans map frames to lists. `CaptureInv`: frames go through
recorder, ready list, submitter and queue in their order (`Order`), and a list holds one
frame that is alive (`OneFrame`). `Choice`: while the chosen list is `Current` (its
generation is the chosen one), the frame alive in it is the one the Surface was prepared
for, so the generation test of the Execute hook is enough although the guard was released
since. `Calls`: a second upscale in the same list is noticed. `Readable`: that list leaves
the texture readable, since every barrier after the choice drops it; an enhanced barrier
does not, and the property excludes it. `Lined`: work on the queue follows the production of
its own frame. `Surfaces`: the Surface belongs to the lists on the queue and carries their
images; it is `uncertain` until the queue is known to have run them, and an uncertain
Surface is never replaced.
`Counted`: a frame counted as done was written before its consumer runs. `Window`: the
counter, with the frame being split, stays within what the session may count.

### SupervisedGate

For every set of launches, directories, command lines and scenarios. `GateInv` has four
parts beside the types: a directory is created by one launch and only that one writes to
it (`Owners`, from the refusal of an existing directory); what a file says of the child
that wrote it (`Evidence`: a phase recorded is a phase passed, a result with its checks
belongs to a child beyond saving it); the meaning of a report (`PassIsClean` itself); and
which launches may still start GPU work while the record blocks (`Admission`).
`PassIsClean` alone is not inductive: the parent judges files, and only `Owners` and
`Evidence` lead from a file back to the child.

## 5. Disagreements between code and documents

* `submit_retry`: `submitted` is set only when every call succeeded, so the submission
  after a failed one rewrites the pinned block under a queued copy.
* `config_head`: fixed sequence, Pre and Head, then graph mode: the captured head reads
  Pre's pooled image instead of the body's, against `nr_plan.h:370`.
* `gate_report`: `supervise` parses `child.json` before it writes its report
  (`validate_rocm_lifecycle.py:89`); a file cut short by a NaN, or still being written
  by a child that outlived the timeout, raises out of it and the launch has no report.

Met while modelling and not a run:

* the gate lets a second frame in while the first waits to run; the comment at
  `nr_plan.cpp:2306` speaks of one frame in flight;
* an external submission in fixed sequence waits on the CPU, against `nr_plan.h:127`;
* `selftest.hip:74` asserts a ready plan, but nothing sets the temporal contract that
  readiness requires;
* the label `complete_native_topology` counts 44 stage blocks and looks at the first and
  the last (`nr_plan.cpp:1260-1268`), and the setter takes any records (897-958): the list
  1, 3-22, 39, 48-69 is labelled complete without record 2, against `nr_plan.h:503-505`
  ("until the complete 71-block topology is native"); `LabelMissesAtMostOne` says what the
  label is worth;
* a submission that fails after it recorded the start event again leaves `timing_pending`
  set: the statistics, or the next submission, then add the time between its start and the
  stop of the frame before (`SampleIsOneFrame` says that this is the only mixture);
* the output fence of a failed frame is never signalled; `cleanup` frees after a failed
  synchronization (`nr_plan.cpp:330`), so an accepted frame may never come out;
* an enhanced barrier recorded on a list already chosen moves its texture on and the list
  stays chosen (`capture_session.cpp:338-350`; `ReaderFindsReadable` excludes them);
* a stop that falls between the checks of a start and its store is lost
  (`resident_present.cpp:116`; `EndsForGood` starts once a session has);
* "every subsequent non-profiler probe must stop" (`gpu_safety.py:22`), but
  `validate_rocm_lifecycle.py` reads no gate, and one authorization lets any number of
  launches pass (`HaltHolds` names both).

## 6. What is only model-checked, and what is not modelled

Only model-checked: everything under fairness, which is beyond the prover (`CallReturns`,
`CallbackReturns`, `TakenIsReplaced`, `RunReturns`, `RequestAnswered`, `PresentReturns`,
`ExecuteReturns`, `ChosenCompletes`, and the fairness of `FrameService` in
`ServiceFairSpec`).

Not modelled: `PROJECT.json` gives the reason for each component. Inside the modelled
ones: byte-level validation of descriptors, packages and bindings; the stop after QKV
and the QKV kernel choice; the read-only and debug-copy calls; operation timing;
stage lists that name record 0 or 70 (never labelled, since 1 is to be first and 69 last)
or declare other channels than a record's own; the bridge calls
of the fixtures and calls from threads that do not own a bridge; the capture session's
one-shot modes, its static preview and texture collector; the profiler's flag of the
gates; floating-point values; the contents of messages beyond operation and sequence
number.

The repository's Python is some 50000 lines, nearly all of it programs that read files,
compare or lower something and exit: they hold no state across steps, meet no other
process and fail by raising. The protocols live in a few hundred lines of C++ and in the
two workers, the gates and the graph replay among the scripts. A module for an offline
comparison would restate it; so the share of lines modelled stays small, and is no
measure of what is left to check.

## 7. Plan

Done: `NRPlanSubmit`, `NRPlanRecorder`, `NRPlanConfig`, `NativePreview`,
`ResidentExchange`, `ResidentPresent`, `CaptureSession`, `SupervisedGate`, the abstract
specifications `FrameService`, `PreviewService`, `ExchangeService`, and the proofs of
section 4. Left, in this order:

1. Theorems: the halves of the liveness properties that are safety, which can be proved
   without fairness (a callback that has not returned always has a step of some party to
   wait for).
2. `ResolutionPlan`: the axis tiles of `resolution_plan.h` as a loop whose result is a
   partition of the frame with every part inside its tile, proved for every extent;
   `ArenaLayout`: the regions of `native_nr_arena.py` never overlap.
3. `NativeBridge`: the in-process calls with an owner and another thread; hazard: the
   poison of one thread overwritten by the other.
4. The one-shot modes of the capture session, which share the boundary and the split.
