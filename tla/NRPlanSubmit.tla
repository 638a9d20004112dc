---------------------------- MODULE NRPlanSubmit ----------------------------
(***************************************************************************)
(* The per-frame path of a finalized NRPlan (tools/native_nr_plan):         *)
(* nrPlanSubmit, nrPlanSubmitV3, nrPlanSubmitExternalV3, harvest_timing,    *)
(* nrPlanGetPerformanceStats, nrPlanReset and nrPlanDestroy, called by one  *)
(* host thread, against the plan's HIP stream, which executes what the host *)
(* enqueued later and in order, and against the producer of the inputs.     *)
(*                                                                         *)
(* A submission is a sequence of HIP calls, each of which may fail.  Every  *)
(* call is an action of its own, so the GPU runs between any two of them,   *)
(* and a failure leaves behind exactly what was enqueued before it.         *)
(***************************************************************************)
EXTENDS Naturals, Sequences

CONSTANTS
    MaxFrames,          \* bound: submissions that get past the gate
    Calls,              \* entry points in use: subset of {"v2", "v3", "ext"}
    GraphTable,         \* device binding table the graph was recorded against
    StaticIO,           \* nrPlanSetStaticIO was called (v2 only)
    FixedHost,          \* FIXED_SEQUENCE, built-in recorder, host boundaries
    Stages,             \* bound: host boundaries of one fixed sequence
    Failures,           \* which HIP calls may fail: subset of {"enqueue", "sync"}
    RetryAfterFailure,  \* the caller submits again after a failed call
    InputAfterReturn    \* the producer is the submitting thread itself

Table(kind) == IF kind = "v2" THEN 2 ELSE 3

ASSUME BoundsAssumption == /\ MaxFrames \in Nat \ {0}
                           /\ Stages \in Nat \ {0}
ASSUME CallsAssumption == /\ Calls \subseteq {"v2", "v3", "ext"}
                          /\ GraphTable \in {2, 3}
                          /\ StaticIO \in BOOLEAN
                          /\ FixedHost \in BOOLEAN
ASSUME CallerAssumption == /\ Failures \subseteq {"enqueue", "sync"}
                           /\ RetryAfterFailure \in BOOLEAN
                           /\ InputAfterReturn \in BOOLEAN
\* Frames reach the graph through the table it reads, or through static I/O.
\* The code does not check this: the two entry points accept any graph.
ASSUME MatchAssumption == IF StaticIO THEN Calls = {"v2"} /\ ~FixedHost
                          ELSE \A k \in Calls : Table(k) = GraphTable

Frame == 1 .. MaxFrames
Events == {"binding_consumed", "timing_start", "timing_stop"}
Ops == {"wait", "upload", "copyin", "run", "copyout", "signal", "clear"} \cup Events
Steps == {"wait", "upload", "binding_consumed", "copyin", "timing_start", "run",
          "boundary", "copyout", "timing_stop", "signal"}
Phases == {"idle", "drain", "clear", "settle", "destroy", "destroyed"} \cup Steps

VARIABLES
    phase,          \* the host call under way and its next HIP call
    call,           \* arguments of the submission under way
    frame,          \* frame of the latest submission that passed the gate
    stage,          \* fixed-sequence boundaries passed by this submission
    failed,         \* the latest submit, reset or destroy returned an error
    submitted,      \* NRPlan::submitted
    timing_pending, \* NRPlan::timing_pending
    performance,    \* NRPlan::performance, the two frame counters
    sample,         \* frames whose start/stop records the last sample measured
    pinned,         \* frame written in each pinned binding block
    accepted,       \* frames submitted with success and an output signal
    succeeded,      \* frames whose submission returned success
    stream,         \* work enqueued on plan->stream and not executed
    device,         \* frame in each device binding table
    marks,          \* frame of the latest executed record of each timing event
    staticIn,       \* frame held by static_input, 0 for no complete frame
    staticOut,      \* frame held by static_output
    images,         \* frames whose output buffer holds their own image
    delivered,      \* frames whose output has been signalled, in order
    inputReady      \* frames whose input the producer has signalled

hostVars == <<phase, call, frame, stage, failed, submitted, timing_pending,
              performance, sample, pinned, accepted, succeeded>>
gpuVars == <<device, marks, staticIn, staticOut, images, delivered>>
planVars == <<submitted, timing_pending, performance, sample, succeeded>>
vars == <<hostVars, stream, gpuVars, inputReady>>

TypeOK ==
    /\ phase \in Phases
    /\ call \in [kind : {"v2", "v3", "ext"}, input : BOOLEAN, output : BOOLEAN]
    /\ frame \in 0 .. MaxFrames
    /\ stage \in 0 .. Stages
    /\ failed \in BOOLEAN
    /\ submitted \in BOOLEAN
    /\ timing_pending \in BOOLEAN
    /\ performance \in [submitted_frames : Nat, completed_frames : Nat]
    /\ sample \in [timing_start : 0 .. MaxFrames, timing_stop : 0 .. MaxFrames]
    /\ pinned \in [{2, 3} -> 0 .. MaxFrames]
    /\ accepted \in Seq(Frame)
    /\ succeeded \subseteq Frame
    /\ stream \in Seq([op : Ops, frame : 0 .. MaxFrames, table : {2, 3}])
    /\ device \in [{2, 3} -> 0 .. MaxFrames]
    /\ marks \in [timing_start : 0 .. MaxFrames, timing_stop : 0 .. MaxFrames]
    /\ staticIn \in 0 .. MaxFrames
    /\ staticOut \in 0 .. MaxFrames
    /\ images \subseteq 0 .. MaxFrames
    /\ delivered \in Seq(0 .. MaxFrames)
    /\ inputReady \subseteq Frame

\* A plan just finalized: nothing submitted, an idle stream.
Init ==
    /\ phase = "idle"
    /\ call = [kind |-> "v3", input |-> FALSE, output |-> FALSE]
    /\ frame = 0 /\ stage = 0 /\ failed = FALSE
    /\ submitted = FALSE /\ timing_pending = FALSE
    /\ performance = [submitted_frames |-> 0, completed_frames |-> 0]
    /\ sample = [timing_start |-> 0, timing_stop |-> 0]
    /\ pinned = [t \in {2, 3} |-> 0]
    /\ accepted = <<>> /\ succeeded = {}
    /\ stream = <<>>
    /\ device = [t \in {2, 3} |-> 0]
    /\ marks = [timing_start |-> 0, timing_stop |-> 0]
    /\ staticIn = 0 /\ staticOut = 0 /\ images = {}
    /\ delivered = <<>>
    /\ inputReady = {}
-----------------------------------------------------------------------------
(* Submission *)

Enqueued(op) == \E i \in DOMAIN stream : stream[i].op = op

\* hipEventQuery answers for the latest record: not ready while one is queued.
Ready(event) == ~Enqueued(event)

\* hipEventElapsedTime also needs the start event; without it harvest_timing
\* returns hipErrorNotReady and the call that made it changes nothing.
CanHarvest == timing_pending /\ Ready("timing_stop") => Ready("timing_start")

\* Mutation: the stop event is not queried first.
HarvestTimingAtOnce ==
    IF timing_pending
    THEN /\ sample' = marks
         /\ performance' = [performance EXCEPT !.completed_frames = @ + 1]
         /\ timing_pending' = FALSE
    ELSE UNCHANGED <<sample, performance, timing_pending>>

HarvestTiming ==
    IF timing_pending /\ Ready("timing_stop")
    THEN /\ sample' = marks
         /\ performance' = [performance EXCEPT !.completed_frames = @ + 1]
         /\ timing_pending' = FALSE
    ELSE UNCHANGED <<sample, performance, timing_pending>>

\* Mutation: the event is never queried.
GateAlwaysOpen == TRUE

\* The gate: the pinned block may be rewritten.
GateOpen == submitted => Ready("binding_consumed")

\* Validation, harvest, gate and the write of the pinned block.  A call that
\* carries no event has its input ready beforehand; external sync has both.
Submit(kind, input, output) ==
    /\ phase = "idle"
    /\ failed => RetryAfterFailure
    /\ frame < MaxFrames
    /\ kind = "ext" => input /\ output
    /\ ~input => frame + 1 \in inputReady
    /\ CanHarvest /\ HarvestTiming
    /\ GateOpen
    /\ frame' = frame + 1
    /\ call' = [kind |-> kind, input |-> input, output |-> output]
    /\ pinned' = [pinned EXCEPT ![Table(kind)] = frame + 1]
    /\ stage' = 0
    /\ phase' = IF input THEN "wait" ELSE "upload"
    /\ UNCHANGED <<failed, submitted, accepted, succeeded, stream, gpuVars, inputReady>>

\* nrPlanGetPerformanceStats; also all that a submission refused by the gate
\* (hipErrorNotReady) does to the plan.
GetPerformanceStats ==
    /\ phase = "idle"
    /\ timing_pending /\ Ready("timing_stop") /\ CanHarvest
    /\ HarvestTiming
    /\ UNCHANGED <<phase, call, frame, stage, failed, submitted, pinned, accepted,
                   succeeded, stream, gpuVars, inputReady>>

Push(op) ==
    stream' = Append(stream, [op |-> op, frame |-> frame, table |-> Table(call.kind)])

\* Mutation: an error does not stop the submission.
EnqueueUnchecked(op, next) ==
    /\ phase = op
    /\ phase' = next
    /\ \/ Push(op)
       \/ "enqueue" \in Failures /\ UNCHANGED stream
    /\ UNCHANGED <<call, frame, stage, failed, planVars, pinned, accepted, gpuVars, inputReady>>

\* One HIP call of a submission: it enqueues its work and the next call
\* follows, or it fails and the submission returns its error.
Enqueue(op, next) ==
    /\ phase = op
    /\ \/ Push(op) /\ phase' = next /\ UNCHANGED failed
       \/ "enqueue" \in Failures /\ phase' = "idle" /\ failed' = TRUE /\ UNCHANGED stream
    /\ UNCHANGED <<call, frame, stage, planVars, pinned, accepted, gpuVars, inputReady>>

WaitInput == Enqueue("wait", "upload")
UploadBindings == Enqueue("upload", "binding_consumed")
\* Mutations: the event is recorded on another stream; the static input is not
\* copied.
RecordConsumedElsewhere ==
    /\ phase = "binding_consumed"
    /\ phase' = IF StaticIO THEN "copyin" ELSE "timing_start"
    /\ UNCHANGED <<call, frame, stage, failed, planVars, pinned, accepted, stream, gpuVars,
                   inputReady>>

RecordConsumed == Enqueue("binding_consumed", IF StaticIO THEN "copyin" ELSE "timing_start")
CopyStaticInput == Enqueue("copyin", "timing_start")
RecordStart == Enqueue("timing_start", "run")

\* Mutation: the static output is not copied out.
AfterRunNothing == "timing_stop"

\* hipGraphLaunch, or one host-bounded group of the fixed sequence.
AfterRun == IF StaticIO THEN "copyout" ELSE "timing_stop"
Run == Enqueue("run", IF FixedHost THEN "boundary" ELSE AfterRun)

\* Mutation: the sequence does not advance.
BoundaryStuck ==
    /\ phase = "boundary" /\ stream = <<>>
    /\ phase' = IF stage + 1 < Stages THEN "run" ELSE AfterRun
    /\ UNCHANGED <<call, frame, stage, failed, planVars, pinned, accepted, stream, gpuVars,
                   inputReady>>

\* fixed_boundary: hipStreamSynchronize inside the submission.
Boundary ==
    /\ phase = "boundary"
    /\ \/ /\ stream = <<>>
          /\ stage' = stage + 1
          /\ phase' = IF stage + 1 < Stages THEN "run" ELSE AfterRun
          /\ UNCHANGED failed
       \/ "sync" \in Failures /\ phase' = "idle" /\ failed' = TRUE /\ UNCHANGED stage
    /\ UNCHANGED <<call, frame, planVars, pinned, accepted, stream, gpuVars, inputReady>>

CopyStaticOutput == Enqueue("copyout", "timing_stop")
RecordStop == Enqueue("timing_stop", "signal")

\* Mutation: the error of the output signal is dropped.
SignalOutputUnchecked ==
    /\ phase = "signal"
    /\ phase' = "idle"
    /\ \/ Push("signal")
       \/ "enqueue" \in Failures /\ UNCHANGED stream
    /\ accepted' = IF call.output THEN Append(accepted, frame) ELSE accepted
    /\ succeeded' = succeeded \cup {frame}
    /\ submitted' = TRUE /\ timing_pending' = TRUE /\ failed' = FALSE
    /\ performance' = [performance EXCEPT !.submitted_frames = @ + 1]
    /\ UNCHANGED <<call, frame, stage, sample, pinned, gpuVars, inputReady>>

\* The output signal when the caller asked for one, then the bookkeeping of a
\* submission in which every call succeeded.
SignalOutput ==
    /\ phase = "signal"
    /\ phase' = "idle"
    /\ \/ /\ IF call.output
             THEN Push("signal") /\ accepted' = Append(accepted, frame)
             ELSE UNCHANGED <<stream, accepted>>
          /\ succeeded' = succeeded \cup {frame}
          /\ submitted' = TRUE
          /\ timing_pending' = TRUE
          /\ performance' = [performance EXCEPT !.submitted_frames = @ + 1]
          /\ failed' = FALSE
       \/ /\ call.output /\ "enqueue" \in Failures
          /\ failed' = TRUE
          /\ UNCHANGED <<stream, accepted, succeeded, submitted, timing_pending,
                         performance>>
    /\ UNCHANGED <<call, frame, stage, sample, pinned, gpuVars, inputReady>>
-----------------------------------------------------------------------------
(* Reset and destruction *)

Reset ==
    /\ phase = "idle"
    /\ phase' = "drain"
    /\ UNCHANGED <<call, frame, stage, failed, planVars, pinned, accepted,
                   stream, gpuVars, inputReady>>

\* The reset is over, with or without error: submitted is cleared either way.
ResetReturns(error) ==
    /\ phase' = "idle"
    /\ submitted' = FALSE
    /\ failed' = error

ResetDrain ==
    /\ phase = "drain"
    /\ \/ stream = <<>> /\ phase' = "clear" /\ UNCHANGED <<submitted, failed, stream>>
       \/ "sync" \in Failures /\ ResetReturns(TRUE) /\ UNCHANGED stream
    /\ UNCHANGED <<call, frame, stage, timing_pending, performance, sample, pinned,
                   accepted, succeeded, gpuVars, inputReady>>

\* hipMemsetAsync of the workspace and of the fixed-sequence allocations, as one
\* operation of the stream; when one of the calls fails, those before it remain.
ResetClear ==
    /\ phase = "clear"
    /\ \/ Push("clear") /\ phase' = "settle" /\ UNCHANGED <<submitted, failed>>
       \/ "enqueue" \in Failures /\ ResetReturns(TRUE) /\ (Push("clear") \/ UNCHANGED stream)
    /\ UNCHANGED <<call, frame, stage, timing_pending, performance, sample, pinned,
                   accepted, succeeded, gpuVars, inputReady>>

\* Mutation: the reset returns without waiting for the memsets.
ResetSettleAtOnce ==
    /\ phase = "settle"
    /\ ResetReturns(FALSE) /\ UNCHANGED stream
    /\ UNCHANGED <<call, frame, stage, timing_pending, performance, sample, pinned,
                   accepted, succeeded, gpuVars, inputReady>>

ResetSettle ==
    /\ phase = "settle"
    /\ \/ stream = <<>> /\ ResetReturns(FALSE)
       \/ "sync" \in Failures /\ ResetReturns(TRUE)
    /\ UNCHANGED stream
    /\ UNCHANGED <<call, frame, stage, timing_pending, performance, sample, pinned,
                   accepted, succeeded, gpuVars, inputReady>>

Destroy ==
    /\ phase = "idle"
    /\ phase' = "destroy"
    /\ UNCHANGED <<call, frame, stage, failed, planVars, pinned, accepted,
                   stream, gpuVars, inputReady>>

\* cleanup frees the tables, the events and the stream after the synchronization,
\* whatever it returned: what a failed one left queued is lost with them.
Cleanup ==
    /\ phase = "destroy"
    /\ \/ stream = <<>> /\ failed' = FALSE
       \/ "sync" \in Failures /\ failed' = TRUE
    /\ phase' = "destroyed"
    /\ stream' = <<>>
    /\ UNCHANGED <<call, frame, stage, planVars, pinned, accepted, gpuVars, inputReady>>
-----------------------------------------------------------------------------
(* The GPU executes the stream in order *)

Execute(op) ==
    /\ stream # <<>>
    /\ Head(stream).op = op
    /\ stream' = Tail(stream)
    /\ UNCHANGED <<hostVars, inputReady>>

GpuWait ==
    /\ Execute("wait")
    /\ Head(stream).frame \in inputReady
    /\ UNCHANGED gpuVars

\* The copy engine reads the pinned block now, not when the copy was enqueued.
GpuUpload ==
    /\ Execute("upload")
    /\ device' = [device EXCEPT ![Head(stream).table] = pinned[Head(stream).table]]
    /\ UNCHANGED <<marks, staticIn, staticOut, images, delivered>>

GpuRecordTiming(event) ==
    /\ Execute(event)
    /\ marks' = [marks EXCEPT ![event] = Head(stream).frame]
    /\ UNCHANGED <<device, staticIn, staticOut, images, delivered>>

\* Nothing to see but the end of the operation.
GpuPass ==
    /\ \/ Execute("binding_consumed")
       \/ Execute("clear")
    /\ UNCHANGED gpuVars

GpuCopyIn ==
    /\ Execute("copyin")
    /\ staticIn' = IF Head(stream).frame \in inputReady THEN Head(stream).frame ELSE 0
    /\ UNCHANGED <<device, marks, staticOut, images, delivered>>

\* The kernels take every pointer from the device table: they read that frame's
\* input as it is now and write that frame's output.
GpuRun ==
    /\ Execute("run")
    /\ IF StaticIO
       THEN staticOut' = staticIn /\ UNCHANGED images
       ELSE LET b == device[GraphTable] IN
            /\ images' = IF b \in inputReady THEN images \cup {b} ELSE images \ {b}
            /\ UNCHANGED staticOut
    /\ UNCHANGED <<device, marks, staticIn, delivered>>

GpuCopyOut ==
    /\ Execute("copyout")
    /\ LET f == Head(stream).frame IN
          images' = IF staticOut = f THEN images \cup {f} ELSE images \ {f}
    /\ UNCHANGED <<device, marks, staticIn, staticOut, delivered>>

GpuSignal ==
    /\ Execute("signal")
    /\ delivered' = Append(delivered, Head(stream).frame)
    /\ UNCHANGED <<device, marks, staticIn, staticOut, images>>
-----------------------------------------------------------------------------
(* The producer of the inputs *)

\* A producer with a thread or a queue of its own signals at any time, even
\* before the submission; one that runs on the host thread, between calls.
SignalInput(f) ==
    /\ f \notin inputReady
    /\ IF InputAfterReturn THEN phase = "idle" /\ f <= frame ELSE f <= frame + 1
    /\ inputReady' = inputReady \cup {f}
    /\ UNCHANGED <<hostVars, stream, gpuVars>>

Producer == \E f \in Frame : SignalInput(f)

\* The HIP calls of the call under way; the caller need not make another.
HostStep ==
    \/ WaitInput \/ UploadBindings \/ RecordConsumed \/ CopyStaticInput
    \/ RecordStart \/ Run \/ Boundary \/ CopyStaticOutput \/ RecordStop \/ SignalOutput
    \/ ResetDrain \/ ResetClear \/ ResetSettle \/ Cleanup

Gpu ==
    \/ GpuWait \/ GpuUpload \/ GpuPass \/ GpuCopyIn \/ GpuRun \/ GpuCopyOut \/ GpuSignal
    \/ \E e \in {"timing_start", "timing_stop"} : GpuRecordTiming(e)

\* A destroyed plan whose work is done.
Finished ==
    /\ phase = "destroyed"
    /\ UNCHANGED vars

Next ==
    \/ \E k \in Calls, i, o \in BOOLEAN : Submit(k, i, o)
    \/ GetPerformanceStats \/ Reset \/ Destroy
    \/ HostStep \/ Gpu \/ Producer \/ Finished

Spec == Init /\ [][Next]_vars

\* A call under way goes on, the GPU executes what it can, every frame's input
\* is produced in the end.  Nothing obliges the caller to call.
FairSpec == Spec /\ WF_vars(HostStep) /\ WF_vars(Gpu) /\ WF_vars(Producer)
-----------------------------------------------------------------------------
(* Properties *)

\* The pinned block of a binding table changes only when no copy out of it is
\* queued: "keeps the pinned parameter block immutable until its H2D copy has
\* been consumed" (nr_plan.cpp, nrPlanSubmit).
PinnedBlockImmutable ==
    [][\A t \in {2, 3} :
          pinned'[t] # pinned[t] =>
             ~ \E i \in DOMAIN stream : stream[i].op = "upload" /\ stream[i].table = t]_vars

\* When the GPU reaches the kernels launched for a frame, what they read is that
\* frame's: its bindings are in the table and its input is ready, whatever was
\* submitted, refused or lost in the meantime.
FrameIsolation ==
    (stream # <<>> /\ Head(stream).op = "run") =>
       LET f == Head(stream).frame IN
          IF StaticIO THEN staticIn = f
          ELSE device[GraphTable] = f /\ f \in inputReady

\* A GPU time added to the statistics runs from the start to the stop record of
\* one submission, though one pair of events serves every frame in flight, unless
\* a later submission recorded its start and failed before its stop: the frame of
\* the start record is then newer than that of the stop record and is one the
\* caller saw fail.  (harvest_timing cannot tell: a failed submission, like a
\* reset, leaves timing_pending set.)
SampleIsOneFrame ==
    sample.timing_start # sample.timing_stop =>
       /\ sample.timing_stop < sample.timing_start
       /\ sample.timing_start \notin succeeded

\* Where the plan's flags say that nothing is outstanding, after a reset that
\* reported success or before a first frame, the stream is empty, whatever failed
\* before (nrPlanReset); and a destroy that reports success has let every accepted
\* frame come out first (cleanup).
IdleMeansQuiet ==
    /\ phase = "idle" /\ ~submitted /\ ~failed => stream = <<>>
    /\ phase = "destroyed" /\ ~failed => Len(delivered) = Len(accepted)

\* Every call returns.
CallReturns == (phase \notin {"idle", "destroyed"}) ~> (phase \in {"idle", "destroyed"})

\* What an application sees of this module is a FrameService.
Service == INSTANCE FrameService WITH
    open <- phase # "destroyed",
    delivered <- [i \in DOMAIN delivered |->
                    IF delivered[i] \in images THEN delivered[i] ELSE 0]

ServiceSpec == Service!Spec
ServiceFairSpec == Service!FairSpec

=============================================================================
