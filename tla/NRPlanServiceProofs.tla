-------------------------- MODULE NRPlanServiceProofs -------------------------
(***************************************************************************)
(* NRPlanSubmit is a FrameService: theorems for every number of frames, set  *)
(* of failing calls and way the host, the GPU and the producer interleave.   *)
(* Also what the plan says of itself: its samples of the GPU's time, and     *)
(* that nothing is outstanding.  The inductive invariant adds to the one of  *)
(* NRPlanSubmitInv where the accepted frames are, in order, and what holds    *)
(* the image of each.                                                        *)
(***************************************************************************)
EXTENDS NRPlanSubmitProofs

Timings == {"timing_start", "timing_stop"}

(* The stream holds the work of the frames in their order.                      *)
Ordered ==
    /\ \A i \in DOMAIN stream : stream[i].frame <= frame
    /\ \A i, j \in DOMAIN stream : i < j => stream[i].frame <= stream[j].frame

(* The latest record of an event is, or will be when the stream has run, of the  *)
(* frame a or of a later one.                                                *)
Timed(event, a) ==
    \/ a <= marks[event]
    \/ \E i \in DOMAIN stream : Is(i, event) /\ a <= stream[i].frame

(* Every stop record stands behind the start record of its frame or a later one.   *)
StopsBehindStarts ==
    /\ marks.timing_stop <= marks.timing_start
    /\ \A i \in DOMAIN stream : Is(i, "timing_stop") =>
          \/ stream[i].frame <= marks.timing_start
          \/ \E j \in DOMAIN stream : j < i /\ Is(j, "timing_start") /\ stream[i].frame <= stream[j].frame

(* Both events of every frame submitted with success are recorded, and a sample    *)
(* was taken of earlier frames than the one being submitted.                   *)
Times ==
    /\ StopsBehindStarts
    /\ \A f \in succeeded : f <= frame /\ (phase \in Steps => f < frame)
    /\ \A e \in Timings :
          /\ marks[e] <= frame /\ \A i \in DOMAIN stream : marks[e] <= stream[i].frame
          /\ sample[e] <= frame /\ (phase \in Steps => sample[e] < frame)
          /\ phase # "destroyed" => \A f \in succeeded : Timed(e, f)
    /\ phase \in {"run", "boundary", "copyout", "timing_stop", "signal"} => Timed("timing_start", frame)
    /\ phase = "signal" => Timed("timing_stop", frame)

TimesInv == TypeOK /\ CallTyped /\ Ordered /\ Times /\ SampleIsOneFrame

(* The graph path has no static copies, the static path no boundaries.            *)
Paths ==
    /\ StaticIO => phase # "boundary"
    /\ ~StaticIO => /\ phase \notin {"copyin", "copyout"}
                    /\ \A i \in DOMAIN stream : ~Is(i, "copyin") /\ ~Is(i, "copyout")

(* Frames are accepted in order; the signals on the stream are those of the       *)
(* accepted frames not delivered yet, in that order, until the plan is destroyed. *)
Accepting ==
    /\ \A i, j \in DOMAIN accepted : i < j => accepted[i] < accepted[j]
    /\ \A k \in DOMAIN accepted : accepted[k] <= frame /\ (phase \in Steps => accepted[k] < frame)

Signals ==
    /\ Len(delivered) <= Len(accepted)
    /\ \A k \in DOMAIN delivered : delivered[k] = accepted[k]
    /\ \A i, j \in DOMAIN stream :
          i < j /\ Is(i, "signal") /\ Is(j, "signal") => stream[i].frame < stream[j].frame
    /\ \A i \in DOMAIN stream : Is(i, "signal") =>
          \E k \in Len(delivered) + 1 .. Len(accepted) : accepted[k] = stream[i].frame
    /\ phase # "destroyed" =>
          \A k \in Len(delivered) + 1 .. Len(accepted) :
             \E i \in DOMAIN stream : Is(i, "signal") /\ stream[i].frame = accepted[k]
    /\ phase = "destroyed" => stream = <<>>

(* Before position i of the stream s, the last op is frame f's; or none is left   *)
(* and what it wrote, held, is f's.                                            *)
Fresh(s, op, i, f, held) ==
    \/ \E j \in DOMAIN s :
          /\ j < i /\ s[j].op = op /\ s[j].frame = f
          /\ \A k \in DOMAIN s : j < k /\ k < i => s[k].op # op
    \/ held = f /\ \A j \in DOMAIN s : j < i => s[j].op # op

(* The shared input and output of the static path: every copy and launch finds    *)
(* its own frame in them.                                                      *)
Static ==
    /\ staticIn \in inputReady \cup {0} /\ staticOut \in inputReady \cup {0}
    /\ \A i \in DOMAIN stream :
          /\ stream[i].op = "copyin" => InputBehind(i)
          /\ stream[i].op = "run" => Fresh(stream, "copyin", i, stream[i].frame, staticIn)
          /\ stream[i].op = "copyout" => Fresh(stream, "run", i, stream[i].frame, staticOut)
    /\ phase \in {"timing_start", "run"} => Fresh(stream, "copyin", Len(stream) + 1, frame, staticIn)
    /\ phase = "copyout" => Fresh(stream, "run", Len(stream) + 1, frame, staticOut)

(* What writes the image of a frame, and the steps of a submission behind it.     *)
Maker == IF StaticIO THEN "copyout" ELSE "run"
Made == {"boundary", "timing_stop", "signal"}

(* The image of a frame is there before its signal, and stays.                    *)
Pictures ==
    /\ images \subseteq inputReady \cup {0}
    /\ \A k \in DOMAIN delivered : delivered[k] \in images
    /\ \A i \in DOMAIN stream : Is(i, "signal") =>
          \/ stream[i].frame \in images
          \/ \E j \in DOMAIN stream : j < i /\ Is(j, Maker) /\ stream[j].frame = stream[i].frame
    /\ phase \in Made =>
          \/ frame \in images
          \/ \E j \in DOMAIN stream : Is(j, Maker) /\ stream[j].frame = frame

ServiceInv ==
    /\ Inductive
    /\ Paths /\ Accepting /\ Signals /\ (StaticIO => Static) /\ Pictures

-----------------------------------------------------------------------------
(* The shapes of the steps.                                                  *)

(* A call of a submission enqueues its work, and the next one follows.           *)
Goes ==
    /\ phase \in Steps \ {"boundary", "signal"} /\ Push(phase)
    /\ phase = "wait" => phase' = "upload"
    /\ phase = "upload" => phase' = "binding_consumed"
    /\ phase = "binding_consumed" => phase' = IF StaticIO THEN "copyin" ELSE "timing_start"
    /\ phase = "copyin" => phase' = "timing_start"
    /\ phase = "timing_start" => phase' = "run"
    /\ phase = "run" => phase' = IF FixedHost THEN "boundary" ELSE AfterRun
    /\ phase = "copyout" => phase' = "timing_stop"
    /\ phase = "timing_stop" => phase' = "signal"
    /\ UNCHANGED accepted

(* A boundary is passed; a frame is accepted; a call fails, returns or does not    *)
(* submit.                                                                   *)
Passes == phase = "boundary" /\ phase' \in {"run", AfterRun} /\ UNCHANGED <<stream, accepted>>
Accepts ==
    /\ phase = "signal" /\ phase' = "idle" /\ Push("signal")
    /\ accepted' = Append(accepted, frame)
Returns ==
    /\ phase' \notin Steps \cup {"destroyed"}
    /\ UNCHANGED accepted /\ (UNCHANGED stream \/ Push("clear"))

(* The plan is destroyed, with what it has on the stream.                        *)
Ends == phase' = "destroyed" /\ phase' \notin Steps /\ stream' = <<>> /\ UNCHANGED accepted

Moves == HostStep \/ GetPerformanceStats \/ Reset \/ Destroy

LEMMA EnqueueGoes ==
    ASSUME NEW op \in Steps \ {"boundary", "signal"}, NEW next, Enqueue(op, next)
    PROVE  /\ UNCHANGED <<call, frame, gpuVars, inputReady, sample>>
           /\ phase # "destroyed" /\ phase' \in {"idle", next}
           /\ (phase = op /\ phase' = next /\ Push(phase) /\ UNCHANGED accepted) \/ Returns
BY DEF Enqueue, Returns, planVars, Steps

(* Every step of the host but the first of a submission.                         *)
LEMMA MoveKinds ==
    ASSUME Moves
    PROVE  /\ UNCHANGED <<call, frame, gpuVars, inputReady>>
           /\ ~GetPerformanceStats => UNCHANGED sample
           /\ phase # "destroyed" /\ (phase' = "destroyed" => Ends)
           /\ Goes \/ Passes \/ Accepts \/ Returns \/ Ends
<1>1. CASE WaitInput
  BY <1>1, EnqueueGoes DEF WaitInput, Goes, Steps
<1>2. CASE UploadBindings
  BY <1>2, EnqueueGoes DEF UploadBindings, Goes, Steps
<1>3. CASE RecordConsumed
  BY <1>3, EnqueueGoes DEF RecordConsumed, Goes, Steps
<1>4. CASE CopyStaticInput
  BY <1>4, EnqueueGoes DEF CopyStaticInput, Goes, Steps
<1>5. CASE RecordStart
  BY <1>5, EnqueueGoes DEF RecordStart, Goes, Steps
<1>6. CASE Run
  BY <1>6, EnqueueGoes DEF Run, AfterRun, Goes, Steps
<1>7. CASE CopyStaticOutput
  BY <1>7, EnqueueGoes DEF CopyStaticOutput, Goes, Steps
<1>8. CASE RecordStop
  BY <1>8, EnqueueGoes DEF RecordStop, Goes, Steps
<1>9. CASE Boundary
  BY <1>9 DEF Boundary, AfterRun, Passes, Returns, Steps, planVars
<1>10. CASE SignalOutput
  BY <1>10 DEF SignalOutput, Accepts, Returns, Steps
<1>11. CASE ResetDrain \/ ResetClear \/ ResetSettle \/ Reset \/ Destroy
  BY <1>11 DEF ResetDrain, ResetClear, ResetSettle, ResetReturns, Reset, Destroy, Returns,
     Steps, planVars
<1>12. CASE GetPerformanceStats
  BY <1>12 DEF GetPerformanceStats, Returns, Steps
<1>13. CASE Cleanup
  BY <1>13 DEF Cleanup, Ends, Steps, planVars
<1> QED BY <1>1, <1>2, <1>3, <1>4, <1>5, <1>6, <1>7, <1>8, <1>9, <1>10, <1>11, <1>12, <1>13
        DEF Moves, HostStep

(* Only a submission in its last step succeeds.                                 *)
LEMMA Succeeds ==
    ASSUME Moves
    PROVE  \/ UNCHANGED succeeded
           \/ phase = "signal" /\ phase' = "idle" /\ succeeded' = succeeded \cup {frame}
BY DEF Moves, HostStep, WaitInput, UploadBindings, RecordConsumed, CopyStaticInput, RecordStart,
   Run, Boundary, CopyStaticOutput, RecordStop, Enqueue, SignalOutput, ResetDrain, ResetClear,
   ResetSettle, Cleanup, GetPerformanceStats, Reset, Destroy, planVars

(* A submission passes the gate.                                              *)
Submits == \E k \in Calls, i, o \in BOOLEAN : Submit(k, i, o)

LEMMA SubmitFacts ==
    ASSUME Submits
    PROVE  /\ phase = "idle" /\ phase' \in {"wait", "upload"}
           /\ frame' = frame + 1 /\ frame < MaxFrames
           /\ UNCHANGED <<accepted, succeeded, stream, gpuVars, inputReady>>
BY DEF Submits, Submit

(* A sample is taken when neither event is on the stream.                        *)
LEMMA Harvests ==
    ASSUME Submits \/ GetPerformanceStats
    PROVE  \/ UNCHANGED sample
           \/ /\ sample' = marks
              /\ \A i \in DOMAIN stream : ~Is(i, "timing_start") /\ ~Is(i, "timing_stop")
<1>1. CanHarvest /\ HarvestTiming
  BY DEF Submits, Submit, GetPerformanceStats
<1> QED BY <1>1 DEF CanHarvest, HarvestTiming, Ready, Enqueued, Is

(* What the GPU changes when it executes the head of the stream.                 *)
LEMMA GpuKinds ==
    ASSUME Gpu
    PROVE  \E op \in Ops :
              /\ Execute(op)
              /\ UNCHANGED <<phase, frame, call, accepted, succeeded, sample, inputReady>>
              /\ op = "wait" => Head(stream).frame \in inputReady
              /\ op \in Timings => marks' = [marks EXCEPT ![op] = Head(stream).frame]
              /\ op \notin Timings => UNCHANGED marks
              /\ op = "copyin" =>
                    staticIn' = IF Head(stream).frame \in inputReady THEN Head(stream).frame ELSE 0
              /\ op # "copyin" => UNCHANGED staticIn
              /\ op = "run" /\ StaticIO => staticOut' = staticIn /\ UNCHANGED images
              /\ op = "run" /\ ~StaticIO =>
                    images' = IF device[GraphTable] \in inputReady
                              THEN images \cup {device[GraphTable]}
                              ELSE images \ {device[GraphTable]}
              /\ ~(op = "run" /\ StaticIO) => UNCHANGED staticOut
              /\ op = "copyout" =>
                    images' = IF staticOut = Head(stream).frame
                              THEN images \cup {Head(stream).frame}
                              ELSE images \ {Head(stream).frame}
              /\ op \notin {"run", "copyout"} => UNCHANGED images
              /\ op = "signal" => delivered' = Append(delivered, Head(stream).frame)
              /\ op # "signal" => UNCHANGED delivered
<1>1. CASE GpuWait
  BY <1>1 DEF GpuWait, gpuVars, Ops, Execute, hostVars, Timings
<1>2. CASE GpuUpload
  BY <1>2 DEF GpuUpload, Ops, Execute, hostVars, Timings
<1>3. CASE GpuPass
  BY <1>3 DEF GpuPass, gpuVars, Ops, Events, Execute, hostVars, Timings
<1>4. ASSUME NEW e \in Timings, GpuRecordTiming(e)
      PROVE  /\ e \in Ops \ {"wait", "copyin", "run", "copyout", "signal"} /\ Execute(e)
             /\ UNCHANGED <<phase, frame, call, accepted, succeeded, sample, inputReady>>
             /\ marks' = [marks EXCEPT ![e] = Head(stream).frame]
             /\ UNCHANGED <<device, staticIn, staticOut, images, delivered>>
  BY <1>4 DEF GpuRecordTiming, Ops, Events, Execute, hostVars, Timings
<1>5. CASE GpuCopyIn
  BY <1>5 DEF GpuCopyIn, Ops, Execute, hostVars, Timings
<1>6. CASE GpuRun
  BY <1>6 DEF GpuRun, Ops, Execute, hostVars, Timings
<1>7. CASE GpuCopyOut
  BY <1>7 DEF GpuCopyOut, Ops, Execute, hostVars, Timings
<1>8. CASE GpuSignal
  BY <1>8 DEF GpuSignal, Ops, Execute, hostVars, Timings
<1>9. ASSUME NEW e \in Timings, GpuRecordTiming(e)
      PROVE  \E op \in Ops \ {"wait", "copyin", "run", "copyout", "signal"} :
             /\ Execute(op) /\ op \in Timings
             /\ UNCHANGED <<phase, frame, call, accepted, succeeded, sample, inputReady>>
             /\ marks' = [marks EXCEPT ![op] = Head(stream).frame]
             /\ UNCHANGED <<device, staticIn, staticOut, images, delivered>>
  BY <1>4, <1>9
<1>10. CASE \E e \in Timings : GpuRecordTiming(e)
  BY <1>9, <1>10
<1> QED BY <1>1, <1>2, <1>3, <1>5, <1>6, <1>7, <1>8, <1>10 DEF Gpu, Timings

(* The five kinds of steps.                                                   *)
LEMMA Kinds ==
    ASSUME [Next]_vars
    PROVE  Submits \/ Moves \/ Gpu \/ Producer \/ UNCHANGED vars
BY DEF Next, Submits, Moves, Finished

LEMMA ProducerKeeps ==
    ASSUME Producer
    PROVE  /\ UNCHANGED <<phase, frame, call, accepted, succeeded, sample, stream, gpuVars>>
           /\ inputReady \subseteq inputReady'
BY DEF Producer, SignalInput, hostVars

-----------------------------------------------------------------------------
(* Positions and numbers.                                                    *)

LEMMA Numbers ==
    ASSUME TypeOK
    PROVE  /\ frame \in Nat
           /\ \A i \in DOMAIN stream : i \in Nat \ {0} /\ stream[i] \in Item /\ stream[i].frame \in Nat
           /\ DOMAIN stream = 1 .. Len(stream) /\ Len(stream) \in Nat
           /\ accepted \in Seq(Nat) /\ DOMAIN accepted = 1 .. Len(accepted) /\ Len(accepted) \in Nat
           /\ \A k \in DOMAIN accepted : accepted[k] \in Frame /\ accepted[k] \in Nat
           /\ succeeded \subseteq Nat
           /\ DOMAIN delivered = 1 .. Len(delivered) /\ Len(delivered) \in Nat
           /\ \A e \in Timings : marks[e] \in Nat /\ sample[e] \in Nat
<1>1. stream \in Seq(Item) /\ accepted \in Seq(Frame) /\ delivered \in Seq(0 .. MaxFrames)
  BY DEF TypeOK, Item
<1>2. \A i \in DOMAIN stream : stream[i] \in Item /\ i \in 1 .. Len(stream)
  BY <1>1
<1>3. \A i \in DOMAIN stream : stream[i].frame \in Nat
  BY <1>2 DEF Item
<1>4. \A k \in DOMAIN accepted : accepted[k] \in Frame
  BY <1>1
<1>5. frame \in Nat /\ (\A e \in Timings : marks[e] \in Nat /\ sample[e] \in Nat)
  BY BoundsAssumption DEF TypeOK, Timings
<1>6. accepted \in Seq(Nat) /\ succeeded \subseteq Nat
  BY <1>1, BoundsAssumption DEF TypeOK, Frame
<1> QED BY <1>1, <1>2, <1>3, <1>4, <1>5, <1>6 DEF Frame

(* What is pushed goes behind everything.                                       *)
LEMMA PushFacts ==
    ASSUME TypeOK, NEW op \in Ops, Push(op)
    PROVE  /\ Len(stream) \in Nat /\ Len(stream') = Len(stream) + 1
           /\ \A i \in DOMAIN stream :
                 i \in DOMAIN stream' /\ stream'[i] = stream[i] /\ i < Len(stream) + 1
           /\ Len(stream) + 1 \in DOMAIN stream'
           /\ stream'[Len(stream) + 1].op = op /\ stream'[Len(stream) + 1].frame = frame
           /\ \A i \in DOMAIN stream' : i \in DOMAIN stream \/ i = Len(stream) + 1
           /\ \A i \in DOMAIN stream' : i \in Nat \ {0} /\ i <= Len(stream) + 1
<1>1. stream \in Seq(Item)
  BY DEF TypeOK, Item
<1>2. [op |-> op, frame |-> frame, table |-> Table(call.kind)] \in Item
  BY DEF TypeOK, Item, Table
<1>3. Len(stream') = Len(stream) + 1 /\ Len(stream) \in Nat
  BY <1>1, <1>2 DEF Push
<1> QED BY <1>3, PushIndex

(* What is executed was the first; the others move up.                           *)
LEMMA PopFacts ==
    ASSUME TypeOK, NEW op \in Ops, Execute(op)
    PROVE  /\ 1 \in DOMAIN stream /\ Head(stream) = stream[1] /\ stream[1].op = op
           /\ Len(stream) \in Nat /\ Len(stream') \in Nat /\ Len(stream') + 1 = Len(stream)
           /\ \A j \in DOMAIN stream' :
                 j \in Nat \ {0} /\ j + 1 \in DOMAIN stream /\ stream'[j] = stream[j + 1]
           /\ \A j \in DOMAIN stream : j # 1 =>
                 j - 1 \in DOMAIN stream' /\ stream'[j - 1] = stream[j]
           /\ \A j \in DOMAIN stream : j \in Nat \ {0} /\ ~(j < 1)
<1>1. /\ Len(stream) \in Nat \ {0}
      /\ DOMAIN stream = 1 .. Len(stream)
      /\ DOMAIN stream' = 1 .. Len(stream) - 1
      /\ \A i \in 1 .. Len(stream) - 1 : stream'[i] = stream[i + 1]
      /\ Head(stream) = stream[1]
      /\ stream[1].op = op
  BY PopIndex
<1>2. stream' \in Seq(Item) /\ Len(stream') = Len(stream) - 1
  <2>1. stream \in Seq(Item) /\ stream' = Tail(stream) /\ stream # <<>>
    BY DEF TypeOK, Item, Execute
  <2> QED BY <2>1
<1>3. \A j \in DOMAIN stream' :
         j \in Nat \ {0} /\ j + 1 \in DOMAIN stream /\ stream'[j] = stream[j + 1]
  BY <1>1
<1>4. \A j \in DOMAIN stream : j # 1 => j - 1 \in DOMAIN stream' /\ stream'[j - 1] = stream[j]
  <2> SUFFICES ASSUME NEW j \in DOMAIN stream, j # 1
               PROVE  j - 1 \in DOMAIN stream' /\ stream'[j - 1] = stream[j]
    OBVIOUS
  <2>1. j - 1 \in 1 .. Len(stream) - 1 /\ (j - 1) + 1 = j
    BY <1>1
  <2>2. stream'[j - 1] = stream[(j - 1) + 1]
    BY <1>1, <2>1
  <2> QED BY <1>1, <2>1, <2>2
<1> QED BY <1>1, <1>2, <1>3, <1>4

-----------------------------------------------------------------------------
(* The samples of the GPU's time.                                             *)

LEMMA OrderedInit == Init => Ordered
BY DEF Init, Ordered

(* The stream takes the work of the latest frame only, and runs in order.         *)
LEMMA OrderedStep == TypeOK /\ Ordered /\ [Next]_vars => Ordered'
<1> SUFFICES ASSUME TypeOK, Ordered, [Next]_vars PROVE Ordered'
  OBVIOUS
<1>1. CASE Submits
  <2>1. UNCHANGED stream /\ frame' = frame + 1
    BY <1>1, SubmitFacts
  <2>2. \A i \in DOMAIN stream : stream[i].frame <= frame + 1
    BY Numbers DEF Ordered
  <2> QED BY <2>1, <2>2 DEF Ordered
<1>2. ASSUME UNCHANGED frame, NEW op \in Ops, Push(op)
      PROVE  Ordered'
  <2>1. \A i \in DOMAIN stream' : stream'[i].frame <= frame
    BY <1>2, PushFacts, Numbers DEF Ordered
  <2>2. ASSUME NEW i \in DOMAIN stream', NEW j \in DOMAIN stream', i < j
        PROVE  stream'[i].frame <= stream'[j].frame
    <3>1. CASE j \in DOMAIN stream
      <4>1. i \in DOMAIN stream
        BY <1>2, <2>2, <3>1, PushFacts
      <4> QED BY <1>2, <2>2, <3>1, <4>1, PushFacts DEF Ordered
    <3>2. CASE j = Len(stream) + 1
      BY <1>2, <2>1, <3>2, PushFacts
    <3> QED BY <1>2, <3>1, <3>2, PushFacts
  <2> QED BY <1>2, <2>1, <2>2 DEF Ordered
<1>3. CASE Moves
  <2>1. \/ UNCHANGED frame /\ (UNCHANGED stream \/ \E op \in Ops : Push(op))
        \/ DOMAIN stream' = {}
    BY <1>3, MoveKinds DEF Goes, Passes, Accepts, Returns, Ends, Steps, Ops, Events
  <2> QED BY <1>2, <2>1 DEF Ordered
<1>4. CASE Gpu
  <2>1. PICK op \in Ops : Execute(op) /\ UNCHANGED frame
    BY <1>4, GpuKinds
  <2>2. \A j \in DOMAIN stream' : j \in Nat /\ j + 1 \in DOMAIN stream /\ stream'[j] = stream[j + 1]
    BY <2>1, PopFacts
  <2>3. \A i, j \in DOMAIN stream' : i < j => i + 1 < j + 1
    BY <2>2
  <2> QED BY <2>1, <2>2, <2>3 DEF Ordered
<1>5. CASE Producer \/ UNCHANGED vars
  <2>1. UNCHANGED <<stream, frame>>
    BY <1>5, ProducerKeeps DEF vars, hostVars
  <2> QED BY <2>1 DEF Ordered
<1> QED BY <1>1, <1>3, <1>4, <1>5, Kinds

(* A record on the stream stays there, or replaces an earlier one.                *)
LEMMA TimedPush ==
    ASSUME TypeOK, NEW e, NEW a, Timed(e, a), UNCHANGED marks,
           UNCHANGED stream \/ \E op \in Ops : Push(op)
    PROVE  Timed(e, a)'
<1>1. \A i \in DOMAIN stream : i \in DOMAIN stream' /\ stream'[i] = stream[i]
  BY PushFacts
<1> QED BY <1>1 DEF Timed, Is

LEMMA TimedPop ==
    ASSUME TypeOK, NEW e \in Timings, NEW a \in Nat, Timed(e, a), NEW op \in Ops, Execute(op),
           \A i \in DOMAIN stream : marks[e] <= stream[i].frame,
           op = e => marks'[e] = Head(stream).frame,
           op # e => marks'[e] = marks[e]
    PROVE  Timed(e, a)'
<1>1. /\ 1 \in DOMAIN stream /\ Head(stream) = stream[1] /\ stream[1].op = op
      /\ \A j \in DOMAIN stream : j # 1 =>
            j - 1 \in DOMAIN stream' /\ stream'[j - 1] = stream[j]
  BY PopFacts
<1>2. marks[e] \in Nat /\ stream[1].frame \in Nat
  BY <1>1, Numbers
<1>3. CASE a <= marks[e]
  BY <1>1, <1>2, <1>3 DEF Timed
<1>4. CASE ~(a <= marks[e])
  <2>1. PICK i \in DOMAIN stream : Is(i, e) /\ a <= stream[i].frame
    BY <1>4 DEF Timed
  <2>2. CASE i = 1
    <3>1. op = e
      BY <1>1, <2>1, <2>2 DEF Is
    <3> QED BY <1>1, <2>1, <2>2, <3>1 DEF Timed
  <2>3. CASE i # 1
    <3>1. i - 1 \in DOMAIN stream' /\ stream'[i - 1] = stream[i]
      BY <1>1, <2>3
    <3> QED BY <2>1, <3>1 DEF Timed, Is
  <2> QED BY <2>2, <2>3
<1> QED BY <1>3, <1>4

(* The parts of Times.                                                        *)
MarksBehind ==
    \A e \in Timings : marks[e] <= frame /\ \A i \in DOMAIN stream : marks[e] <= stream[i].frame
SampleBehind == \A e \in Timings : sample[e] <= frame /\ (phase \in Steps => sample[e] < frame)
SucceededBehind == \A f \in succeeded : f <= frame /\ (phase \in Steps => f < frame)
SucceededTimed == phase # "destroyed" => \A e \in Timings : \A f \in succeeded : Timed(e, f)
CallTimed ==
    /\ phase \in {"run", "boundary", "copyout", "timing_stop", "signal"} => Timed("timing_start", frame)
    /\ phase = "signal" => Timed("timing_stop", frame)

LEMMA TimesParts ==
    Times <=> /\ StopsBehindStarts /\ MarksBehind /\ SampleBehind
              /\ SucceededBehind /\ SucceededTimed /\ CallTimed
BY DEF Times, MarksBehind, SampleBehind, SucceededBehind, SucceededTimed, CallTimed

(* The record just pushed.                                                     *)
LEMMA TimedNow ==
    ASSUME TypeOK, NEW e \in Timings, Push(e), UNCHANGED frame
    PROVE  Timed(e, frame)'
<1>1. e \in Ops
  BY DEF Timings, Ops, Events
<1>2. /\ Len(stream) + 1 \in DOMAIN stream'
      /\ stream'[Len(stream) + 1].op = e /\ stream'[Len(stream) + 1].frame = frame
  BY <1>1, PushFacts
<1> QED BY <1>2, Numbers DEF Timed, Is

LEMMA TimesInit == Init => Times /\ SampleIsOneFrame
<1> SUFFICES ASSUME Init PROVE Times /\ SampleIsOneFrame
  OBVIOUS
<1>1. /\ DOMAIN stream = {} /\ succeeded = {} /\ phase = "idle" /\ frame = 0
      /\ sample.timing_start = 0 /\ sample.timing_stop = 0
      /\ \A e \in Timings : marks[e] = 0 /\ sample[e] = 0
      /\ marks.timing_start = 0 /\ marks.timing_stop = 0
  BY DEF Init, Timings
<1> QED BY <1>1 DEF Times, StopsBehindStarts, SampleIsOneFrame, Steps

(* The host pushes a stop record behind the start record of its frame.            *)
LEMMA StopsPush ==
    ASSUME TypeOK, StopsBehindStarts, NEW op \in Ops, Push(op), UNCHANGED <<marks, frame>>,
           op = "timing_stop" => Timed("timing_start", frame)
    PROVE  StopsBehindStarts'
<1>1. PICK n \in DOMAIN stream' :
        /\ \A i \in DOMAIN stream : i \in DOMAIN stream' /\ stream'[i] = stream[i] /\ i < n
        /\ stream'[n].op = op /\ stream'[n].frame = frame
        /\ \A i \in DOMAIN stream' : i \in DOMAIN stream \/ i = n
  BY PushFacts
<1>2. ASSUME NEW i \in DOMAIN stream', Is(i, "timing_stop")'
      PROVE  \/ stream'[i].frame <= marks.timing_start
             \/ \E j \in DOMAIN stream' :
                   j < i /\ Is(j, "timing_start")' /\ stream'[i].frame <= stream'[j].frame
  <2>1. CASE i \in DOMAIN stream
    <3>1. Is(i, "timing_stop") /\ stream'[i] = stream[i]
      BY <1>1, <1>2, <2>1 DEF Is
    <3>2. \/ stream[i].frame <= marks.timing_start
          \/ \E j \in DOMAIN stream :
                j < i /\ Is(j, "timing_start") /\ stream[i].frame <= stream[j].frame
      BY <2>1, <3>1 DEF StopsBehindStarts
    <3> QED BY <1>1, <3>1, <3>2 DEF Is
  <2>2. CASE i = n
    <3>1. Timed("timing_start", frame) /\ stream'[i].frame = frame
      BY <1>1, <1>2, <2>2 DEF Is
    <3> QED BY <1>1, <2>2, <3>1 DEF Timed, Is
  <2> QED BY <1>1, <2>1, <2>2
<1> QED BY <1>2 DEF StopsBehindStarts

(* A submission is of a later frame than any recorded or sampled.                *)
LEMMA TimesSubmit ==
    ASSUME TypeOK, Ordered, Times, Submits
    PROVE  Times'
<1>1. /\ UNCHANGED <<stream, marks, succeeded>> /\ frame' = frame + 1
      /\ phase = "idle" /\ phase' \in {"wait", "upload"}
  BY SubmitFacts DEF gpuVars
<1>2. sample' = sample \/ sample' = marks
  BY Harvests
<1>3. StopsBehindStarts /\ MarksBehind /\ SampleBehind /\ SucceededBehind /\ SucceededTimed
  BY TimesParts
<1>4. /\ frame \in Nat /\ \A e \in Timings : marks[e] \in Nat /\ sample[e] \in Nat
      /\ succeeded \subseteq Nat
  BY Numbers
<1>5. MarksBehind'
  BY <1>1, <1>3, <1>4 DEF MarksBehind
<1>6. SampleBehind'
  <2> SUFFICES ASSUME NEW e \in Timings
               PROVE  sample'[e] <= frame' /\ sample'[e] < frame'
    BY DEF SampleBehind
  <2>1. sample'[e] <= frame /\ sample'[e] \in Nat
    BY <1>2, <1>3, <1>4 DEF SampleBehind, MarksBehind
  <2> QED BY <1>1, <1>4, <2>1
<1>7. SucceededBehind'
  BY <1>1, <1>3, <1>4 DEF SucceededBehind
<1>8. SucceededTimed'
  BY <1>1, <1>3 DEF SucceededTimed, Timed, Is
<1>9. CallTimed' /\ StopsBehindStarts'
  BY <1>1, <1>3 DEF CallTimed, StopsBehindStarts, Is
<1> QED BY <1>5, <1>6, <1>7, <1>8, <1>9
        DEF Times, MarksBehind, SampleBehind, SucceededBehind, SucceededTimed, CallTimed

LEMMA TimesMove ==
    ASSUME TypeOK, Ordered, Times, Moves
    PROVE  Times'
<1>1. /\ UNCHANGED <<frame, marks>> /\ (Goes \/ Passes \/ Accepts \/ Returns \/ Ends)
      /\ phase # "destroyed"
  BY MoveKinds DEF gpuVars
<1>2. \/ Ends
      \/ phase' # "destroyed" /\ (UNCHANGED stream \/ \E op \in Ops : Push(op))
  BY <1>1, MoveKinds DEF Goes, Passes, Accepts, Returns, Steps, Ops, Events
<1>3. /\ StopsBehindStarts /\ MarksBehind /\ SampleBehind /\ SucceededBehind
      /\ SucceededTimed /\ CallTimed
  BY TimesParts
<1>4. /\ frame \in Nat /\ \A e \in Timings : marks[e] \in Nat /\ sample[e] \in Nat
      /\ succeeded \subseteq Nat
  BY Numbers
<1>5. MarksBehind'
  <2>1. \A i \in DOMAIN stream' : (i \in DOMAIN stream /\ stream'[i] = stream[i]) \/ stream'[i].frame = frame
    BY <1>2, PushFacts DEF Ends
  <2> QED BY <1>1, <1>3, <2>1 DEF MarksBehind
<1>6. SampleBehind'
  <2>1. CASE GetPerformanceStats
    <3>1. phase' \notin Steps /\ (sample' = sample \/ sample' = marks)
      BY <2>1, Harvests DEF GetPerformanceStats, Steps
    <3> QED BY <1>1, <1>3, <3>1 DEF SampleBehind, MarksBehind
  <2>2. CASE ~GetPerformanceStats
    <3>1. UNCHANGED sample /\ (phase' \in Steps => phase \in Steps)
      BY <1>1, <2>2, MoveKinds DEF Goes, Passes, Accepts, Returns, Ends, Steps
    <3> QED BY <1>1, <1>3, <3>1 DEF SampleBehind
  <2> QED BY <2>1, <2>2
<1>7. SucceededBehind'
  <2>1. phase' \in Steps => phase \in Steps
    BY <1>1 DEF Goes, Passes, Accepts, Returns, Ends, Steps
  <2>2. \A f \in succeeded' : f \in succeeded \/ (f = frame /\ phase' \notin Steps)
    BY Succeeds DEF Steps
  <2>3. frame' = frame /\ frame <= frame
    BY <1>1, <1>4
  <2>4. \A f \in succeeded : f <= frame /\ (phase' \in Steps => f < frame)
    BY <1>3, <2>1 DEF SucceededBehind
  <2> QED BY <2>2, <2>3, <2>4 DEF SucceededBehind
<1>8. SucceededTimed'
  <2> SUFFICES ASSUME phase' # "destroyed", NEW e \in Timings, NEW f \in succeeded'
               PROVE  Timed(e, f)'
    BY DEF SucceededTimed
  <2>1. f \in succeeded \/ (f = frame /\ phase = "signal")
    BY Succeeds
  <2>2. Timed(e, f)
    BY <1>1, <1>3, <2>1 DEF SucceededTimed, CallTimed, Timings
  <2>3. UNCHANGED stream \/ \E op \in Ops : Push(op)
    BY <1>2 DEF Ends
  <2>4. \A i \in DOMAIN stream : i \in DOMAIN stream' /\ stream'[i] = stream[i]
    BY <2>3, PushFacts
  <2> QED BY <1>1, <2>2, <2>4 DEF Timed, Is
<1>9. CallTimed'
  <2>1. ASSUME NEW e \in Timings, Timed(e, frame), ~Ends
        PROVE  Timed(e, frame)'
    BY <1>1, <1>2, <2>1, PushFacts DEF Timed, Is
  <2>2. CASE Goes /\ ~Ends
    <3>1. phase = "timing_start" => Timed("timing_start", frame)'
      BY <1>1, <2>2, TimedNow DEF Goes, Timings
    <3>2. phase = "timing_stop" => Timed("timing_stop", frame)'
      BY <1>1, <2>2, TimedNow DEF Goes, Timings
    <3>3. phase \in {"run", "copyout", "timing_stop"} => Timed("timing_start", frame)'
      BY <1>3, <2>1, <2>2 DEF CallTimed, Timings
    <3>4. phase' \in {"run", "boundary", "copyout", "timing_stop", "signal"} =>
             phase \in {"timing_start", "run", "copyout", "timing_stop"}
      BY <2>2 DEF Goes, Steps
    <3>5. phase' = "signal" => phase = "timing_stop"
      BY <2>2 DEF Goes, Steps, AfterRun
    <3> QED BY <3>1, <3>2, <3>3, <3>4, <3>5 DEF CallTimed
  <2>3. CASE Passes /\ ~Ends
    <3>1. phase' # "signal" /\ Timed("timing_start", frame)
      BY <1>3, <2>3 DEF Passes, AfterRun, CallTimed
    <3> QED BY <2>1, <2>3, <3>1 DEF CallTimed, Timings
  <2>4. CASE Accepts \/ Returns \/ Ends
    BY <2>4 DEF Accepts, Returns, Ends, CallTimed, Steps
  <2> QED BY <1>1, <2>2, <2>3, <2>4
<1>10. StopsBehindStarts'
  <2>1. CASE Ends
    BY <1>1, <1>3, <2>1 DEF Ends, StopsBehindStarts
  <2>2. CASE UNCHANGED stream
    BY <1>1, <1>3, <2>2 DEF StopsBehindStarts, Is
  <2>3. CASE Goes
    <3>1. phase \in Ops /\ Push(phase)
      BY <2>3 DEF Goes, Steps, Ops, Events
    <3>2. phase = "timing_stop" => Timed("timing_start", frame)
      BY <1>3 DEF CallTimed
    <3> QED BY <1>1, <1>3, <3>1, <3>2, StopsPush
  <2>4. CASE Push("signal") \/ Push("clear")
    BY <1>1, <1>3, <2>4, StopsPush DEF Ops
  <2> QED BY <1>1, <2>1, <2>2, <2>3, <2>4 DEF Passes, Accepts, Returns
<1> QED BY <1>5, <1>6, <1>7, <1>8, <1>9, <1>10
        DEF Times, MarksBehind, SampleBehind, SucceededBehind, SucceededTimed, CallTimed

LEMMA TimesPop ==
    ASSUME TypeOK, Ordered, Times, Gpu
    PROVE  Times'
<1>1. PICK op \in Ops :
        /\ Execute(op)
        /\ UNCHANGED <<phase, frame, succeeded, sample>>
        /\ op \in Timings => marks' = [marks EXCEPT ![op] = Head(stream).frame]
        /\ op \notin Timings => UNCHANGED marks
  BY GpuKinds
<1>2. /\ StopsBehindStarts /\ MarksBehind /\ SampleBehind /\ SucceededBehind
      /\ SucceededTimed /\ CallTimed
  BY TimesParts
<1>3. /\ 1 \in DOMAIN stream /\ Head(stream) = stream[1] /\ stream[1].op = op
      /\ \A j \in DOMAIN stream' :
            j \in Nat \ {0} /\ j + 1 \in DOMAIN stream /\ stream'[j] = stream[j + 1] /\ 1 < j + 1
      /\ \A j \in DOMAIN stream : j # 1 => j - 1 \in DOMAIN stream' /\ stream'[j - 1] = stream[j]
      /\ \A j \in DOMAIN stream : j \in Nat /\ ~(j < 1)
  BY <1>1, PopFacts
<1>4. \A e \in Timings : /\ op = e => marks'[e] = Head(stream).frame
                         /\ op # e => marks'[e] = marks[e]
  BY <1>1 DEF TypeOK, Timings
<1>5. MarksBehind'
  <2> SUFFICES ASSUME NEW e \in Timings
               PROVE  marks'[e] <= frame /\ \A j \in DOMAIN stream' : marks'[e] <= stream'[j].frame
    BY <1>1 DEF MarksBehind
  <2>1. CASE op = e
    BY <1>3, <1>4, <2>1 DEF Ordered
  <2>2. CASE op # e
    BY <1>2, <1>3, <1>4, <2>2 DEF MarksBehind
  <2> QED BY <2>1, <2>2
<1>6. ASSUME NEW e \in Timings, NEW a \in Nat, Timed(e, a)
      PROVE  Timed(e, a)'
  BY <1>1, <1>2, <1>4, <1>6, TimedPop DEF MarksBehind
<1>7. SucceededTimed' /\ SucceededBehind'
  BY <1>1, <1>2, <1>6, Numbers DEF SucceededTimed, SucceededBehind, Timed, Is
<1>8. CallTimed'
  <2>1. \A e \in Timings : Timed(e, frame) => Timed(e, frame)'
    BY <1>1, <1>6, Numbers DEF Timed, Is
  <2> QED BY <1>1, <1>2, <2>1 DEF CallTimed, Timings
<1>9. SampleBehind'
  BY <1>1, <1>2 DEF SampleBehind
<1>10. StopsBehindStarts'
  <2>1. /\ marks.timing_start \in Nat /\ marks.timing_stop \in Nat
        /\ \A i \in DOMAIN stream : stream[i].frame \in Nat
    BY Numbers DEF Timings
  <2>2. marks.timing_start <= marks'.timing_start /\ marks'.timing_start \in Nat
    BY <1>2, <1>3, <1>4, <2>1 DEF MarksBehind, Timings
  <2>3. marks'.timing_stop <= marks'.timing_start
    <3>1. CASE op = "timing_stop"
      <4>1. Is(1, "timing_stop")
        BY <1>3, <3>1 DEF Is
      <4>2. stream[1].frame <= marks.timing_start
        BY <1>2, <1>3, <4>1 DEF StopsBehindStarts
      <4> QED BY <1>3, <1>4, <2>1, <2>2, <3>1, <4>2 DEF Timings
    <3>2. CASE op # "timing_stop"
      BY <1>2, <1>4, <2>1, <2>2, <3>2 DEF StopsBehindStarts, Timings
    <3> QED BY <3>1, <3>2
  <2>4. ASSUME NEW i \in DOMAIN stream', Is(i, "timing_stop")'
        PROVE  \/ stream'[i].frame <= marks'.timing_start
               \/ \E j \in DOMAIN stream' :
                     j < i /\ Is(j, "timing_start")' /\ stream'[i].frame <= stream'[j].frame
    <3>1. i + 1 \in DOMAIN stream /\ stream'[i] = stream[i + 1] /\ Is(i + 1, "timing_stop")
      BY <1>3, <2>4 DEF Is
    <3>2. CASE stream[i + 1].frame <= marks.timing_start
      BY <2>1, <2>2, <3>1, <3>2
    <3>3. CASE ~(stream[i + 1].frame <= marks.timing_start)
      <4>1. PICK j \in DOMAIN stream :
               j < i + 1 /\ Is(j, "timing_start") /\ stream[i + 1].frame <= stream[j].frame
        BY <1>2, <3>1, <3>3 DEF StopsBehindStarts
      <4>2. CASE j = 1
        BY <1>3, <1>4, <3>1, <4>1, <4>2 DEF Is, Timings
      <4>3. CASE j # 1
        <5>1. j - 1 \in DOMAIN stream' /\ stream'[j - 1] = stream[j] /\ j \in Nat /\ i \in Nat
          BY <1>3, <4>3
        <5>2. j - 1 < i
          BY <4>1, <5>1
        <5> QED BY <3>1, <4>1, <5>1, <5>2 DEF Is
      <4> QED BY <4>2, <4>3
    <3> QED BY <3>2, <3>3
  <2> QED BY <2>3, <2>4 DEF StopsBehindStarts
<1> QED BY <1>5, <1>7, <1>8, <1>9, <1>10
        DEF Times, MarksBehind, SampleBehind, SucceededBehind, SucceededTimed, CallTimed

LEMMA TimesStep == TypeOK /\ Ordered /\ Times /\ [Next]_vars => Times'
<1> SUFFICES ASSUME TypeOK, Ordered, Times, [Next]_vars PROVE Times'
  OBVIOUS
<1>1. CASE Producer \/ UNCHANGED vars
  <2>1. UNCHANGED <<phase, frame, succeeded, sample, stream, marks>>
    BY <1>1, ProducerKeeps DEF vars, hostVars, gpuVars, planVars
  <2> QED BY <2>1 DEF Times, StopsBehindStarts, Timed, Is
<1> QED BY <1>1, TimesSubmit, TimesMove, TimesPop, Kinds

(* When nothing is left of the events, both were last recorded for the latest     *)
(* frame that succeeded or for a later one, the start not before the stop.       *)
LEMMA SampleStep == TypeOK /\ Times /\ SampleIsOneFrame /\ [Next]_vars => SampleIsOneFrame'
<1> SUFFICES ASSUME TypeOK, Times, SampleIsOneFrame, [Next]_vars PROVE SampleIsOneFrame'
  OBVIOUS
<1>1. CASE Submits \/ GetPerformanceStats
  <2>1. UNCHANGED succeeded /\ phase = "idle"
    BY <1>1, SubmitFacts DEF GetPerformanceStats
  <2>2. CASE UNCHANGED sample
    BY <2>1, <2>2 DEF SampleIsOneFrame
  <2>3. CASE sample' = marks /\ \A i \in DOMAIN stream : ~Is(i, "timing_start") /\ ~Is(i, "timing_stop")
    <3>1. \A f \in succeeded : f <= marks.timing_stop
      BY <2>1, <2>3 DEF Times, Timed, Timings
    <3>2. marks.timing_start \in Nat /\ marks.timing_stop \in Nat
      BY Numbers DEF Timings
    <3>3. marks.timing_stop <= marks.timing_start
      BY DEF Times, StopsBehindStarts
    <3>4. marks.timing_start # marks.timing_stop =>
             /\ marks.timing_stop < marks.timing_start
             /\ marks.timing_start \notin succeeded
      BY <3>1, <3>2, <3>3
    <3> QED BY <2>1, <2>3, <3>4 DEF SampleIsOneFrame
  <2> QED BY <1>1, <2>2, <2>3, Harvests
<1>2. CASE Moves /\ ~GetPerformanceStats
  <2>1. UNCHANGED sample
    BY <1>2, MoveKinds
  <2>2. CASE UNCHANGED succeeded
    BY <2>1, <2>2 DEF SampleIsOneFrame
  <2>3. CASE phase = "signal" /\ succeeded' = succeeded \cup {frame}
    <3>1. sample.timing_start < frame /\ sample.timing_start \in Nat /\ frame \in Nat
      BY <2>3, Numbers DEF Times, Timings, Steps
    <3>2. sample.timing_start # frame
      BY <3>1
    <3> QED BY <2>1, <2>3, <3>2 DEF SampleIsOneFrame
  <2> QED BY <1>2, <2>2, <2>3, Succeeds
<1>3. CASE Gpu \/ Producer \/ UNCHANGED vars
  <2>1. UNCHANGED <<sample, succeeded>>
    BY <1>3, GpuKinds, ProducerKeeps DEF vars, hostVars, planVars
  <2> QED BY <2>1 DEF SampleIsOneFrame
<1> QED BY <1>1, <1>2, <1>3, Kinds

(* A GPU time added to the statistics runs between the two records of one          *)
(* submission, or from the start record of a later submission that failed: never    *)
(* from that of one that succeeded, whatever fails, whatever the caller does then   *)
(* and however calls, records and execution interleave.  harvest_timing asks for    *)
(* the stop event first, and every submission records its start before its stop.   *)
THEOREM SampleOfOneFrame == Spec => []SampleIsOneFrame
<1>1. Init => TimesInv
  BY TypeInit, CallInit, OrderedInit, TimesInit DEF TimesInv
<1>2. TimesInv /\ [Next]_vars => TimesInv'
  BY TypeStep, CallTypedStep, OrderedStep, TimesStep, SampleStep DEF TimesInv
<1>3. TimesInv => SampleIsOneFrame
  BY DEF TimesInv
<1> QED BY <1>1, <1>2, <1>3, PTL DEF Spec

-----------------------------------------------------------------------------
(* The paths through a submission, and the frames accepted.                     *)

LEMMA PathsInit == Init => Paths
<1> SUFFICES ASSUME Init PROVE Paths
  OBVIOUS
<1>1. DOMAIN stream = {} /\ phase = "idle"
  BY DEF Init
<1> QED BY <1>1 DEF Paths

LEMMA PathsStep == TypeOK /\ Paths /\ [Next]_vars => Paths'
<1> SUFFICES ASSUME TypeOK, Paths, [Next]_vars PROVE Paths'
  OBVIOUS
<1>1. CASE Submits
  BY <1>1, SubmitFacts DEF Paths, Is
<1>2. CASE Moves
  <2>1. StaticIO => phase' # "boundary"
    BY <1>2, MoveKinds, MatchAssumption DEF Paths, Goes, Passes, Accepts, Returns, Ends, AfterRun,
       Steps
  <2>2. CASE ~StaticIO
    <3>1. phase' \notin {"copyin", "copyout"}
      BY <1>2, <2>2, MoveKinds DEF Paths, Goes, Passes, Accepts, Returns, Ends, AfterRun, Steps
    <3>2. \/ UNCHANGED stream \/ DOMAIN stream' = {}
          \/ \E op \in Ops \ {"copyin", "copyout"} : Push(op)
      BY <1>2, <2>2, MoveKinds DEF Paths, Goes, Passes, Accepts, Returns, Ends, Steps, Ops, Events
    <3>3. \A i \in DOMAIN stream' : ~Is(i, "copyin")' /\ ~Is(i, "copyout")'
      BY <2>2, <3>2, PushFacts DEF Paths, Is
    <3> QED BY <2>1, <2>2, <3>1, <3>3 DEF Paths
  <2> QED BY <2>1, <2>2 DEF Paths
<1>3. CASE Gpu
  <2>1. PICK op \in Ops : Execute(op) /\ UNCHANGED phase
    BY <1>3, GpuKinds
  <2>2. \A j \in DOMAIN stream' : j + 1 \in DOMAIN stream /\ stream'[j] = stream[j + 1]
    BY <2>1, PopFacts
  <2> QED BY <2>1, <2>2 DEF Paths, Is
<1>4. CASE Producer \/ UNCHANGED vars
  <2>1. UNCHANGED <<phase, stream>>
    BY <1>4, ProducerKeeps DEF vars, hostVars
  <2> QED BY <2>1 DEF Paths, Is
<1> QED BY <1>1, <1>2, <1>3, <1>4, Kinds

LEMMA AcceptingInit == Init => Accepting /\ Signals
<1> SUFFICES ASSUME Init PROVE Accepting /\ Signals
  OBVIOUS
<1>1. /\ DOMAIN stream = {} /\ DOMAIN accepted = {} /\ DOMAIN delivered = {}
      /\ Len(accepted) = 0 /\ Len(delivered) = 0
  BY DEF Init
<1> QED BY <1>1 DEF Accepting, Signals

(* A frame joins the accepted ones behind them.                                 *)
LEMMA AcceptFacts ==
    ASSUME TypeOK, Accepts
    PROVE  /\ Len(accepted') = Len(accepted) + 1 /\ Len(accepted) \in Nat
           /\ \A k \in DOMAIN accepted : k \in DOMAIN accepted' /\ accepted'[k] = accepted[k]
                                         /\ k < Len(accepted) + 1 /\ k \in Nat \ {0}
           /\ \A k \in DOMAIN accepted' : k \in DOMAIN accepted \/ k = Len(accepted) + 1
           /\ Len(accepted) + 1 \in DOMAIN accepted'
           /\ accepted'[Len(accepted) + 1] = frame
<1>1. accepted \in Seq(Nat) /\ frame \in Nat /\ accepted' = Append(accepted, frame)
  BY Numbers DEF Accepts
<1>2. Len(accepted') = Len(accepted) + 1
  BY <1>1
<1> QED BY <1>1, <1>2, AppendFacts

LEMMA AcceptingStep == TypeOK /\ Accepting /\ [Next]_vars => Accepting'
<1> SUFFICES ASSUME TypeOK, Accepting, [Next]_vars PROVE Accepting'
  OBVIOUS
<1>0. frame \in Nat /\ \A k \in DOMAIN accepted : accepted[k] \in Nat
  BY Numbers
<1>1. CASE Submits
  BY <1>0, <1>1, SubmitFacts DEF Accepting
<1>2. CASE Moves
  <2>1. CASE Accepts
    <3>1. UNCHANGED frame /\ phase \in Steps /\ phase' \notin Steps
      BY <1>2, <2>1, MoveKinds DEF Accepts, Steps
    <3>2. ASSUME NEW i \in DOMAIN accepted', NEW j \in DOMAIN accepted', i < j
          PROVE  accepted'[i] < accepted'[j]
      <4>1. i \in DOMAIN accepted
        BY <2>1, <3>2, AcceptFacts
      <4>2. CASE j \in DOMAIN accepted
        BY <2>1, <3>2, <4>1, <4>2, AcceptFacts DEF Accepting
      <4>3. CASE j = Len(accepted) + 1
        BY <2>1, <3>1, <4>1, <4>3, AcceptFacts DEF Accepting
      <4> QED BY <2>1, <4>2, <4>3, AcceptFacts
    <3>3. \A k \in DOMAIN accepted' : accepted'[k] <= frame
      BY <1>0, <2>1, AcceptFacts DEF Accepting
    <3> QED BY <3>1, <3>2, <3>3 DEF Accepting
  <2>2. CASE ~Accepts
    <3>1. UNCHANGED <<accepted, frame>> /\ (phase' \in Steps => phase \in Steps)
      BY <1>2, <2>2, MoveKinds DEF Goes, Passes, Returns, Ends, Steps
    <3> QED BY <3>1 DEF Accepting
  <2> QED BY <2>1, <2>2
<1>3. CASE Gpu \/ Producer \/ UNCHANGED vars
  <2>1. UNCHANGED <<accepted, frame, phase>>
    BY <1>3, GpuKinds, ProducerKeeps DEF vars, hostVars
  <2> QED BY <2>1 DEF Accepting
<1> QED BY <1>1, <1>2, <1>3, Kinds

(* Steps that neither accept nor deliver.                                      *)
LEMMA SignalsKept ==
    ASSUME TypeOK, Signals, UNCHANGED <<accepted, delivered>>,
           UNCHANGED <<stream, phase>>
              \/ /\ phase # "destroyed" /\ phase' # "destroyed"
                 /\ UNCHANGED stream \/ \E op \in Ops \ {"signal"} : Push(op)
    PROVE  Signals'
<1>1. /\ \A i \in DOMAIN stream : i \in DOMAIN stream' /\ stream'[i] = stream[i]
      /\ \A i \in DOMAIN stream' : i \in DOMAIN stream \/ stream'[i].op # "signal"
  BY PushFacts
<1>2. \A i : Is(i, "signal")' <=> Is(i, "signal")
  BY <1>1 DEF Is
<1>3. \A i \in DOMAIN stream : Is(i, "signal") => stream'[i] = stream[i]
  BY <1>1
<1>4. \A i : Is(i, "signal") => i \in DOMAIN stream /\ i \in DOMAIN stream'
  BY <1>1 DEF Is
<1> QED BY <1>2, <1>3, <1>4 DEF Signals

LEMMA SignalsAccept ==
    ASSUME TypeOK, Accepting, Signals, Accepts, UNCHANGED <<frame, delivered>>
    PROVE  Signals'
<1> DEFINE n == Len(stream) + 1
           a == Len(accepted) + 1
<1>1. /\ \A i \in DOMAIN stream : i \in DOMAIN stream' /\ stream'[i] = stream[i] /\ i < n
      /\ n \in DOMAIN stream' /\ stream'[n].op = "signal" /\ stream'[n].frame = frame
      /\ \A i \in DOMAIN stream' : i \in DOMAIN stream \/ i = n
      /\ \A i \in DOMAIN stream' : i \in Nat \ {0} /\ i <= n
  BY PushFacts DEF Accepts, Ops
<1>2. /\ Len(accepted') = a /\ Len(accepted) \in Nat
      /\ \A k \in DOMAIN accepted : accepted'[k] = accepted[k]
      /\ accepted'[a] = frame
      /\ DOMAIN accepted = 1 .. Len(accepted) /\ Len(delivered) \in Nat
      /\ DOMAIN delivered = 1 .. Len(delivered)
  BY AcceptFacts, Numbers
<1>3. \A k \in DOMAIN accepted : accepted[k] < frame
  BY DEF Accepting, Accepts, Steps
<1>4. \A i \in DOMAIN stream : Is(i, "signal") => stream[i].frame < frame
  <2> SUFFICES ASSUME NEW i \in DOMAIN stream, Is(i, "signal") PROVE stream[i].frame < frame
    OBVIOUS
  <2>1. PICK k \in Len(delivered) + 1 .. Len(accepted) : accepted[k] = stream[i].frame
    BY DEF Signals
  <2> QED BY <1>2, <1>3, <2>1
<1> HIDE DEF n, a
<1>5. Len(delivered) <= Len(accepted') /\ \A k \in DOMAIN delivered : delivered[k] = accepted'[k]
  BY <1>2 DEF Signals, a
<1>9. phase # "destroyed" /\ phase' # "destroyed"
  BY DEF Accepts
<1>6. ASSUME NEW i \in DOMAIN stream', NEW j \in DOMAIN stream', i < j,
             Is(i, "signal")', Is(j, "signal")'
      PROVE  stream'[i].frame < stream'[j].frame
  <2>1. i \in DOMAIN stream /\ Is(i, "signal")
    <3>1. i # n
      BY <1>1, <1>6
    <3> QED BY <1>1, <1>6, <3>1 DEF Is
  <2>2. CASE j \in DOMAIN stream
    <3>1. Is(j, "signal")
      BY <1>1, <1>6, <2>2 DEF Is
    <3> QED BY <1>1, <1>6, <2>1, <2>2, <3>1 DEF Signals
  <2>3. CASE j = n
    BY <1>1, <1>4, <2>1, <2>3
  <2> QED BY <1>1, <2>2, <2>3
<1>7. ASSUME NEW i \in DOMAIN stream', Is(i, "signal")'
      PROVE  \E k \in Len(delivered) + 1 .. Len(accepted') : accepted'[k] = stream'[i].frame
  <2>1. CASE i \in DOMAIN stream
    <3>1. Is(i, "signal")
      BY <1>1, <1>7, <2>1 DEF Is
    <3>2. PICK k \in Len(delivered) + 1 .. Len(accepted) : accepted[k] = stream[i].frame
      BY <2>1, <3>1 DEF Signals
    <3>3. k \in Len(delivered) + 1 .. Len(accepted') /\ accepted'[k] = accepted[k]
      BY <1>2, <3>2 DEF a
    <3> QED BY <1>1, <2>1, <3>2, <3>3
  <2>2. CASE i = n
    <3>1. a \in Len(delivered) + 1 .. Len(accepted')
      BY <1>2 DEF a, Signals
    <3> QED BY <1>1, <1>2, <2>2, <3>1
  <2> QED BY <1>1, <2>1, <2>2
<1>8. ASSUME NEW k \in Len(delivered) + 1 .. Len(accepted')
      PROVE  \E i \in DOMAIN stream' : Is(i, "signal")' /\ stream'[i].frame = accepted'[k]
  <2>1. CASE k = a
    BY <1>1, <1>2, <2>1 DEF Is
  <2>2. CASE k # a
    <3>1. k \in Len(delivered) + 1 .. Len(accepted) /\ k \in DOMAIN accepted
      BY <1>2, <2>2 DEF a
    <3>2. PICK i \in DOMAIN stream : Is(i, "signal") /\ stream[i].frame = accepted[k]
      BY <1>9, <3>1 DEF Signals
    <3>3. Is(i, "signal")' /\ stream'[i].frame = accepted'[k] /\ i \in DOMAIN stream'
      BY <1>1, <1>2, <3>1, <3>2 DEF Is
    <3> QED BY <3>3
  <2> QED BY <2>1, <2>2
<1> QED BY <1>5, <1>6, <1>7, <1>8, <1>9 DEF Signals

(* The end.                                                                   *)
LEMMA SignalsEnd ==
    ASSUME Signals, Ends, UNCHANGED delivered
    PROVE  Signals'
<1>1. DOMAIN stream' = {} /\ stream' = <<>> /\ phase' = "destroyed" /\ UNCHANGED accepted
  BY DEF Ends
<1> QED BY <1>1 DEF Signals, Is

(* The next signal to run is the next accepted frame's.                          *)
LEMMA NextSignal ==
    ASSUME TypeOK, Accepting, Signals, 1 \in DOMAIN stream, stream[1].op = "signal"
    PROVE  /\ Len(delivered) < Len(accepted)
           /\ accepted[Len(delivered) + 1] = stream[1].frame
<1> DEFINE d == Len(delivered) + 1
<1>1. /\ Len(delivered) \in Nat /\ Len(accepted) \in Nat /\ DOMAIN accepted = 1 .. Len(accepted)
      /\ \A i \in DOMAIN stream : i \in Nat \ {0} /\ stream[i].frame \in Nat
      /\ \A k \in DOMAIN accepted : accepted[k] \in Nat
  BY Numbers
<1>2. Is(1, "signal") /\ phase # "destroyed"
  BY DEF Is, Signals
<1>3. PICK k \in d .. Len(accepted) : accepted[k] = stream[1].frame
  BY <1>2 DEF Signals
<1>4. d \in d .. Len(accepted) /\ d \in DOMAIN accepted /\ k \in DOMAIN accepted
  BY <1>1, <1>3
<1>5. PICK i \in DOMAIN stream : Is(i, "signal") /\ stream[i].frame = accepted[d]
  BY <1>2, <1>4 DEF Signals
<1>6. CASE k = d
  BY <1>1, <1>3, <1>6
<1>7. CASE k # d
  <2>1. accepted[d] < accepted[k]
    BY <1>1, <1>3, <1>4, <1>7 DEF Accepting
  <2>2. i # 1
    BY <1>1, <1>3, <1>4, <1>5, <2>1
  <2>3. 1 < i
    BY <1>1, <2>2
  <2>4. stream[1].frame < stream[i].frame
    BY <1>2, <1>5, <2>3 DEF Signals
  <2>5. stream[1].frame \in Nat /\ accepted[k] \in Nat /\ accepted[d] \in Nat
    BY <1>1, <1>4
  <2> QED BY <1>3, <1>5, <2>1, <2>4, <2>5
<1> QED BY <1>6, <1>7

LEMMA SignalsPop ==
    ASSUME TypeOK, Accepting, Signals, Gpu
    PROVE  Signals'
<1>1. PICK op \in Ops :
        /\ Execute(op) /\ UNCHANGED accepted
        /\ op = "signal" => delivered' = Append(delivered, Head(stream).frame)
        /\ op # "signal" => UNCHANGED delivered
  BY GpuKinds
<1>0. phase # "destroyed" /\ phase' # "destroyed"
  BY GpuKinds DEF Signals, Execute
<1>2. /\ 1 \in DOMAIN stream /\ Head(stream) = stream[1] /\ stream[1].op = op
      /\ \A j \in DOMAIN stream' :
            j \in Nat \ {0} /\ j + 1 \in DOMAIN stream /\ stream'[j] = stream[j + 1]
      /\ \A j \in DOMAIN stream : j # 1 =>
            j - 1 \in DOMAIN stream' /\ stream'[j - 1] = stream[j]
      /\ \A j \in DOMAIN stream : j \in Nat \ {0}
  BY <1>1, PopFacts
<1>3. /\ Len(delivered) \in Nat /\ Len(accepted) \in Nat /\ DOMAIN accepted = 1 .. Len(accepted)
      /\ DOMAIN delivered = 1 .. Len(delivered)
      /\ \A i \in DOMAIN stream : stream[i].frame \in Nat
      /\ \A k \in DOMAIN accepted : accepted[k] \in Nat
  BY Numbers
<1>4. \A j \in DOMAIN stream' : Is(j, "signal")' => Is(j + 1, "signal") /\ 1 < j + 1
  BY <1>2 DEF Is
<1>5. ASSUME NEW i \in DOMAIN stream', NEW j \in DOMAIN stream', i < j,
             Is(i, "signal")', Is(j, "signal")'
      PROVE  stream'[i].frame < stream'[j].frame
  <2>1. i + 1 < j + 1
    BY <1>2, <1>5
  <2>2. /\ i + 1 \in DOMAIN stream /\ stream'[i] = stream[i + 1]
        /\ j + 1 \in DOMAIN stream /\ stream'[j] = stream[j + 1]
    BY <1>2
  <2>3. Is(i + 1, "signal") /\ Is(j + 1, "signal")
    BY <1>4, <1>5
  <2>4. stream[i + 1].frame < stream[j + 1].frame
    BY <2>1, <2>2, <2>3 DEF Signals
  <2> QED BY <2>2, <2>4
<1>6. CASE op # "signal"
  <2>1. UNCHANGED <<accepted, delivered>>
    BY <1>1, <1>6
  <2>2. ASSUME NEW i \in DOMAIN stream', Is(i, "signal")'
        PROVE  \E k \in Len(delivered) + 1 .. Len(accepted) : accepted[k] = stream'[i].frame
    <3>1. i + 1 \in DOMAIN stream /\ stream'[i] = stream[i + 1] /\ Is(i + 1, "signal")
      BY <1>2, <1>4, <2>2
    <3>2. PICK k \in Len(delivered) + 1 .. Len(accepted) : accepted[k] = stream[i + 1].frame
      BY <3>1 DEF Signals
    <3> QED BY <3>1, <3>2
  <2>3. ASSUME NEW k \in Len(delivered) + 1 .. Len(accepted)
        PROVE  \E i \in DOMAIN stream' : Is(i, "signal")' /\ stream'[i].frame = accepted[k]
    <3>1. PICK i \in DOMAIN stream : Is(i, "signal") /\ stream[i].frame = accepted[k]
      BY <1>0 DEF Signals
    <3>2. i # 1
      BY <1>2, <1>6, <3>1 DEF Is
    <3> QED BY <1>2, <3>1, <3>2 DEF Is
  <2> QED BY <1>0, <1>5, <2>1, <2>2, <2>3 DEF Signals
<1>7. CASE op = "signal"
  <2> DEFINE d == Len(delivered) + 1
  <2>1. Len(delivered) < Len(accepted) /\ accepted[d] = stream[1].frame
    BY <1>2, <1>7, NextSignal
  <2>2. /\ Len(delivered') = d
        /\ DOMAIN delivered' = 1 .. d
        /\ \A k \in 1 .. Len(delivered) : delivered'[k] = delivered[k]
        /\ delivered'[d] = stream[1].frame
    <3>0. stream[1] \in Item
      BY <1>2, Numbers
    <3>1. delivered \in Seq(0 .. MaxFrames) /\ stream[1].frame \in 0 .. MaxFrames
      BY <3>0 DEF TypeOK, Item
    <3>2. delivered' = Append(delivered, stream[1].frame)
      BY <1>1, <1>2, <1>7
    <3>3. Len(delivered') = d
      BY <3>1, <3>2
    <3> QED BY <3>1, <3>2, <3>3, AppendFacts
  <2>3. Len(delivered') <= Len(accepted')
    BY <1>1, <1>3, <2>1, <2>2
  <2>4. \A k \in DOMAIN delivered' : delivered'[k] = accepted'[k]
    BY <1>1, <1>3, <2>1, <2>2 DEF Signals
  <2>5. Is(1, "signal")
    BY <1>2, <1>7 DEF Is
  <2>6. ASSUME NEW i \in DOMAIN stream', Is(i, "signal")'
        PROVE  \E k \in Len(delivered') + 1 .. Len(accepted) : accepted[k] = stream'[i].frame
    <3>1. PICK k \in Len(delivered) + 1 .. Len(accepted) : accepted[k] = stream[i + 1].frame
      BY <1>2, <1>4, <2>6 DEF Signals
    <3>2. stream[1].frame < stream[i + 1].frame
      BY <1>2, <1>4, <2>5, <2>6 DEF Signals
    <3>3. k # d
      BY <1>2, <1>3, <2>1, <3>1, <3>2
    <3>4. k \in Len(delivered') + 1 .. Len(accepted)
      BY <1>3, <2>2, <3>1, <3>3
    <3> QED BY <1>2, <2>6, <3>1, <3>4
  <2>7. ASSUME NEW k \in Len(delivered') + 1 .. Len(accepted)
        PROVE  \E i \in DOMAIN stream' : Is(i, "signal")' /\ stream'[i].frame = accepted[k]
    <3>1. /\ k \in Len(delivered) + 1 .. Len(accepted) /\ d < k
          /\ k \in DOMAIN accepted /\ d \in DOMAIN accepted
      BY <1>3, <2>1, <2>2
    <3>2. PICK i \in DOMAIN stream : Is(i, "signal") /\ stream[i].frame = accepted[k]
      BY <1>0, <3>1 DEF Signals
    <3>3. accepted[d] < accepted[k]
      BY <3>1 DEF Accepting
    <3>4. i # 1
      BY <1>3, <2>1, <3>1, <3>2, <3>3
    <3> QED BY <1>2, <3>2, <3>4 DEF Is
  <2> QED BY <1>0, <1>1, <1>5, <2>3, <2>4, <2>6, <2>7 DEF Signals
<1> QED BY <1>6, <1>7

LEMMA SignalsStep == TypeOK /\ Accepting /\ Signals /\ [Next]_vars => Signals'
<1> SUFFICES ASSUME TypeOK, Accepting, Signals, [Next]_vars PROVE Signals'
  OBVIOUS
<1>1. CASE Submits \/ Producer \/ UNCHANGED vars
  <2>1. /\ UNCHANGED <<stream, accepted, delivered>>
        /\ UNCHANGED phase \/ (phase # "destroyed" /\ phase' # "destroyed")
    BY <1>1, SubmitFacts, ProducerKeeps DEF vars, hostVars, gpuVars
  <2> QED BY <2>1, SignalsKept
<1>2. CASE Moves
  <2>1. /\ UNCHANGED <<frame, delivered>> /\ (Goes \/ Passes \/ Accepts \/ Returns \/ Ends)
        /\ phase # "destroyed" /\ (phase' = "destroyed" => Ends)
    BY <1>2, MoveKinds DEF gpuVars
  <2>2. CASE Accepts
    BY <2>1, <2>2, SignalsAccept
  <2>3. CASE ~Accepts /\ ~Ends
    <3>1. UNCHANGED accepted /\ (UNCHANGED stream \/ \E op \in Ops \ {"signal"} : Push(op))
      BY <2>1, <2>3 DEF Goes, Passes, Returns, Steps, Ops, Events
    <3> QED BY <2>1, <2>3, <3>1, SignalsKept
  <2>4. CASE Ends
    BY <2>1, <2>4, SignalsEnd
  <2> QED BY <2>2, <2>3, <2>4
<1> QED BY <1>1, <1>2, SignalsPop, Kinds

-----------------------------------------------------------------------------
(* Nothing is outstanding.                                                    *)

LEMMA QuietStep ==
    ASSUME TypeOK, Signals, IdleMeansQuiet, [Next]_vars
    PROVE  IdleMeansQuiet'
<1>1. CASE Submits
  <2>1. phase' \notin {"idle", "destroyed"}
    BY <1>1, SubmitFacts
  <2> QED BY <2>1 DEF IdleMeansQuiet
<1>2. CASE WaitInput \/ UploadBindings \/ RecordConsumed \/ CopyStaticInput \/ RecordStart
           \/ Run \/ CopyStaticOutput \/ RecordStop \/ Boundary
  <2>1. phase' \notin {"idle", "destroyed"} \/ (phase' = "idle" /\ failed')
    BY <1>2 DEF WaitInput, UploadBindings, RecordConsumed, CopyStaticInput, RecordStart, Run,
       AfterRun, CopyStaticOutput, RecordStop, Boundary, Enqueue
  <2> QED BY <2>1 DEF IdleMeansQuiet
<1>3. CASE SignalOutput
  <2>1. phase' = "idle" /\ (failed' \/ submitted')
    BY <1>3 DEF SignalOutput
  <2> QED BY <2>1 DEF IdleMeansQuiet
<1>4. CASE ResetDrain \/ ResetClear \/ ResetSettle \/ Reset \/ Destroy
  <2>1. phase' \notin {"idle", "destroyed"} \/ (phase' = "idle" /\ (failed' \/ stream' = <<>>))
    BY <1>4 DEF ResetDrain, ResetClear, ResetSettle, ResetReturns, Reset, Destroy
  <2> QED BY <2>1 DEF IdleMeansQuiet
<1>5. CASE GetPerformanceStats \/ Producer \/ UNCHANGED vars
  <2>1. UNCHANGED <<phase, submitted, failed, stream, delivered, accepted>>
    BY <1>5 DEF GetPerformanceStats, Producer, SignalInput, vars, hostVars, gpuVars, planVars
  <2> QED BY <2>1 DEF IdleMeansQuiet
<1>6. CASE Gpu
  <2>1. UNCHANGED <<phase, submitted, failed>> /\ stream # <<>>
    BY <1>6, GpuKinds DEF Execute, hostVars, planVars
  <2>2. phase # "destroyed"
    BY <2>1 DEF Signals
  <2> QED BY <2>1, <2>2 DEF IdleMeansQuiet
<1>7. CASE Cleanup
  <2>1. phase = "destroy" /\ phase' = "destroyed" /\ UNCHANGED <<delivered, accepted>>
    BY <1>7 DEF Cleanup, gpuVars
  <2>2. ASSUME ~failed'
        PROVE  Len(delivered) = Len(accepted)
    <3>1. stream = <<>> /\ DOMAIN stream = {}
      BY <1>7, <2>2 DEF Cleanup
    <3>2. Len(delivered) <= Len(accepted) /\ Len(delivered) \in Nat /\ Len(accepted) \in Nat
      BY Numbers DEF Signals
    <3>3. ~ \E k \in Len(delivered) + 1 .. Len(accepted) : TRUE
      BY <2>1, <3>1 DEF Signals
    <3>4. Len(delivered) < Len(accepted) => Len(accepted) \in Len(delivered) + 1 .. Len(accepted)
      BY <3>2
    <3> QED BY <3>2, <3>3, <3>4
  <2> QED BY <2>1, <2>2 DEF IdleMeansQuiet
<1> QED BY <1>1, <1>2, <1>3, <1>4, <1>5, <1>6, <1>7, Kinds DEF Moves, HostStep

(* After a reset that reported success, and before a first frame, no work is left   *)
(* on the stream; a destroy that reports success has let every accepted frame come   *)
(* out.  Whatever fails, hipStreamSynchronize included, and whatever the caller does.  *)
THEOREM NothingOutstanding == Spec => []IdleMeansQuiet
<1> DEFINE I == TypeOK /\ CallTyped /\ Accepting /\ Signals /\ IdleMeansQuiet
<1>1. Init => I
  <2>1. Init => IdleMeansQuiet
    BY DEF Init, IdleMeansQuiet
  <2> QED BY <2>1, TypeInit, CallInit, AcceptingInit
<1>2. I /\ [Next]_vars => I'
  BY TypeStep, CallTypedStep, AcceptingStep, SignalsStep, QuietStep
<1>3. I => IdleMeansQuiet
  OBVIOUS
<1> QED BY <1>1, <1>2, <1>3, PTL DEF Spec

-----------------------------------------------------------------------------
(* The shared input and output of the static path.                             *)

(* What is pushed changes nothing in front of it; read up to the end, it is      *)
(* one more.                                                                 *)
LEMMA FreshGrow ==
    ASSUME NEW s, NEW t, NEW n \in Nat, DOMAIN s = 1 .. n, DOMAIN t = 1 .. n + 1,
           \A j \in DOMAIN s : t[j] = s[j],
           NEW op, NEW f, NEW held, NEW i \in 1 .. n + 1, Fresh(s, op, i, f, held)
    PROVE  /\ Fresh(t, op, i, f, held)
           /\ i = n + 1 /\ t[n + 1].op # op => Fresh(t, op, n + 2, f, held)
<1>1. \A k \in DOMAIN t : k < i => k \in DOMAIN s /\ t[k] = s[k]
  OBVIOUS
<1>2. \A k \in DOMAIN s : k \in DOMAIN t /\ t[k] = s[k]
  OBVIOUS
<1>3. Fresh(t, op, i, f, held)
  BY <1>1, <1>2 DEF Fresh
<1>4. ASSUME i = n + 1, t[n + 1].op # op
      PROVE  Fresh(t, op, n + 2, f, held)
  <2>1. \A k \in DOMAIN t : k < n + 2 => k < i \/ t[k].op # op
    BY <1>4
  <2>2. CASE \E j \in DOMAIN t :
                /\ j < i /\ t[j].op = op /\ t[j].frame = f
                /\ \A k \in DOMAIN t : j < k /\ k < i => t[k].op # op
    <3>1. PICK j \in DOMAIN t :
             /\ j < i /\ t[j].op = op /\ t[j].frame = f
             /\ \A k \in DOMAIN t : j < k /\ k < i => t[k].op # op
      BY <2>2
    <3>2. j < n + 2
      BY <1>4, <3>1
    <3> QED BY <2>1, <3>1, <3>2 DEF Fresh
  <2>3. CASE held = f /\ \A j \in DOMAIN t : j < i => t[j].op # op
    BY <2>1, <2>3 DEF Fresh
  <2> QED BY <1>3, <2>2, <2>3 DEF Fresh
<1> QED BY <1>3, <1>4

(* Behind an op of a frame, the last one is that frame's.                        *)
LEMMA FreshNow ==
    ASSUME NEW t, NEW n \in Nat, DOMAIN t = 1 .. n + 1, NEW op, NEW f, NEW held,
           t[n + 1].op = op, t[n + 1].frame = f
    PROVE  Fresh(t, op, n + 2, f, held)
<1>1. n + 1 \in DOMAIN t /\ n + 1 < n + 2
  OBVIOUS
<1>2. \A k \in DOMAIN t : ~(n + 1 < k /\ k < n + 2)
  OBVIOUS
<1> QED BY <1>1, <1>2 DEF Fresh

(* When the head runs, what it writes is what was to be found.                   *)
LEMMA FreshPop ==
    ASSUME NEW s, NEW t, 1 \in DOMAIN s,
           \A j \in DOMAIN s : j \in Nat \ {0},
           \A j \in DOMAIN t : j \in Nat \ {0} /\ j + 1 \in DOMAIN s /\ t[j] = s[j + 1],
           \A j \in DOMAIN s : j # 1 => j - 1 \in DOMAIN t /\ t[j - 1] = s[j],
           NEW op, NEW f, NEW held, NEW h, NEW i \in Nat \ {0},
           s[1].op = op => h = s[1].frame,
           s[1].op # op => h = held,
           Fresh(s, op, i + 1, f, held)
    PROVE  Fresh(t, op, i, f, h)
<1>1. ASSUME NEW j \in DOMAIN s, j < i + 1, s[j].op = op, s[j].frame = f,
             \A k \in DOMAIN s : j < k /\ k < i + 1 => s[k].op # op
      PROVE  Fresh(t, op, i, f, h)
  <2>1. \A k \in DOMAIN t : j < k + 1 /\ k < i => t[k].op # op
    <3> TAKE k \in DOMAIN t
    <3>1. k < i => k + 1 < i + 1
      OBVIOUS
    <3> QED BY <1>1, <3>1
  <2>2. CASE j = 1
    <3>1. \A k \in DOMAIN t : 1 < k + 1
      OBVIOUS
    <3> QED BY <1>1, <2>1, <2>2, <3>1 DEF Fresh
  <2>3. CASE j # 1
    <3>1. j - 1 \in DOMAIN t /\ t[j - 1] = s[j] /\ j \in Nat
      BY <2>3
    <3>2. j - 1 < i
      BY <1>1, <3>1
    <3>3. \A k \in DOMAIN t : j - 1 < k /\ k < i => t[k].op # op
      <4> TAKE k \in DOMAIN t
      <4>1. j - 1 < k => j < k + 1
        BY <3>1
      <4> QED BY <2>1, <4>1
    <3> QED BY <1>1, <3>1, <3>2, <3>3 DEF Fresh
  <2> QED BY <2>2, <2>3
<1>2. ASSUME held = f, \A j \in DOMAIN s : j < i + 1 => s[j].op # op
      PROVE  Fresh(t, op, i, f, h)
  <2>1. 1 < i + 1
    OBVIOUS
  <2>2. h = f
    BY <1>2, <2>1
  <2>3. \A j \in DOMAIN t : j < i => t[j].op # op
    <3> TAKE j \in DOMAIN t
    <3>1. j < i => j + 1 < i + 1
      OBVIOUS
    <3> QED BY <1>2, <3>1
  <2> QED BY <2>2, <2>3 DEF Fresh
<1> QED BY <1>1, <1>2 DEF Fresh

(* What stands in front of the head is in the buffer.                           *)
LEMMA FreshHead ==
    ASSUME NEW s, \A j \in DOMAIN s : ~(j < 1), NEW op, NEW f, NEW held, Fresh(s, op, 1, f, held)
    PROVE  held = f
BY DEF Fresh

LEMMA StaticInit == Init => Static
<1> SUFFICES ASSUME Init PROVE Static
  OBVIOUS
<1>1. DOMAIN stream = {} /\ phase = "idle" /\ staticIn = 0 /\ staticOut = 0
  BY DEF Init
<1> QED BY <1>1 DEF Static

(* Nothing is pushed.                                                        *)
LEMMA StaticKept ==
    ASSUME Static, UNCHANGED <<stream, staticIn, staticOut>>, inputReady \subseteq inputReady',
           \/ phase' \notin {"timing_start", "run", "copyout"}
           \/ UNCHANGED <<phase, frame>>
    PROVE  Static'
BY DEF Static, Fresh, InputBehind, Is

LEMMA StaticPush ==
    ASSUME TypeOK, Static, NEW op \in Ops, Push(op),
           UNCHANGED <<frame, staticIn, staticOut, inputReady>>,
           op = "copyin" =>
              \/ frame \in inputReady
              \/ \E i \in DOMAIN stream : Is(i, "wait") /\ stream[i].frame = frame,
           op = "run" => Fresh(stream, "copyin", Len(stream) + 1, frame, staticIn),
           op = "copyout" => Fresh(stream, "run", Len(stream) + 1, frame, staticOut),
           phase' \in {"timing_start", "run"} =>
              op = "copyin" \/ Fresh(stream, "copyin", Len(stream) + 1, frame, staticIn),
           phase' = "copyout" => op = "run"
    PROVE  Static'
<1> DEFINE n == Len(stream)
<1>1. /\ n \in Nat /\ DOMAIN stream = 1 .. n /\ DOMAIN stream' = 1 .. n + 1
      /\ \A j \in DOMAIN stream : stream'[j] = stream[j]
      /\ stream'[n + 1].op = op /\ stream'[n + 1].frame = frame
      /\ Len(stream') = n + 1
  BY PushIndex, PushFacts
<1> HIDE DEF n
<1>2. \A i \in DOMAIN stream : i \in 1 .. n + 1
  BY <1>1
<1>3. ASSUME NEW i \in DOMAIN stream'
      PROVE  /\ stream'[i].op = "copyin" => InputBehind(i)'
             /\ stream'[i].op = "run" => Fresh(stream', "copyin", i, stream'[i].frame, staticIn)
             /\ stream'[i].op = "copyout" => Fresh(stream', "run", i, stream'[i].frame, staticOut)
  <2>1. CASE i \in DOMAIN stream
    <3>1. stream'[i] = stream[i] /\ i \in 1 .. n + 1
      BY <1>1, <1>2, <2>1
    <3>2. stream[i].op = "copyin" => InputBehind(i)'
      <4>1. \A j \in DOMAIN stream : j \in DOMAIN stream' /\ stream'[j] = stream[j]
        BY <1>1
      <4> QED BY <2>1, <3>1, <4>1 DEF Static, InputBehind, Is
    <3>3. stream[i].op = "run" => Fresh(stream', "copyin", i, stream[i].frame, staticIn)
      BY <1>1, <2>1, <3>1, FreshGrow DEF Static
    <3>4. stream[i].op = "copyout" => Fresh(stream', "run", i, stream[i].frame, staticOut)
      BY <1>1, <2>1, <3>1, FreshGrow DEF Static
    <3> QED BY <3>1, <3>2, <3>3, <3>4
  <2>2. CASE i = n + 1
    <3>1. op = "copyin" => InputBehind(i)'
      <4>1. \A j \in DOMAIN stream : j \in DOMAIN stream' /\ stream'[j] = stream[j] /\ j < i
        BY <1>1, <2>2
      <4> QED BY <1>1, <2>2, <4>1 DEF InputBehind, Is
    <3>2. i \in 1 .. n + 1
      BY <1>1, <2>2
    <3>3. op = "run" => Fresh(stream', "copyin", i, frame, staticIn)
      BY <1>1, <2>2, <3>2, FreshGrow DEF n
    <3>4. op = "copyout" => Fresh(stream', "run", i, frame, staticOut)
      BY <1>1, <2>2, <3>2, FreshGrow DEF n
    <3> QED BY <1>1, <2>2, <3>1, <3>3, <3>4
  <2> QED BY <1>1, <2>1, <2>2
<1>4. phase' \in {"timing_start", "run"} => Fresh(stream', "copyin", n + 2, frame, staticIn)
  <2>1. CASE op = "copyin"
    BY <1>1, <2>1, FreshNow
  <2>2. CASE op # "copyin"
    <3>1. n + 1 \in 1 .. n + 1
      BY <1>1
    <3> QED BY <1>1, <2>2, <3>1, FreshGrow DEF n
  <2> QED BY <2>1, <2>2
<1>5. phase' = "copyout" => Fresh(stream', "run", n + 2, frame, staticOut)
  BY <1>1, FreshNow
<1>6. Len(stream') + 1 = n + 2
  BY <1>1
<1>7. \A i \in DOMAIN stream' :
         /\ stream'[i].op = "copyin" => InputBehind(i)'
         /\ stream'[i].op = "run" => Fresh(stream, "copyin", i, stream[i].frame, staticIn)'
         /\ stream'[i].op = "copyout" => Fresh(stream, "run", i, stream[i].frame, staticOut)'
  BY <1>3 DEF Fresh
<1>8. phase' \in {"timing_start", "run"} =>
         Fresh(stream, "copyin", Len(stream) + 1, frame, staticIn)'
  BY <1>4, <1>6 DEF Fresh
<1>9. phase' = "copyout" => Fresh(stream, "run", Len(stream) + 1, frame, staticOut)'
  BY <1>5, <1>6 DEF Fresh
<1> QED BY <1>7, <1>8, <1>9 DEF Static

(* What is read in front of everything is there.                                *)
LEMMA HeadRead ==
    ASSUME TypeOK, StaticIO, Static, 1 \in DOMAIN stream
    PROVE  /\ stream[1].op = "copyin" => stream[1].frame \in inputReady
           /\ stream[1].op = "run" => staticIn = stream[1].frame
           /\ stream[1].op = "copyout" => staticOut = stream[1].frame
<1>1. \A j \in DOMAIN stream : ~(j < 1)
  BY Numbers
<1>2. stream[1].op = "copyin" => stream[1].frame \in inputReady
  BY <1>1 DEF Static, InputBehind
<1>3. stream[1].op = "run" => staticIn = stream[1].frame
  BY <1>1, FreshHead DEF Static
<1>4. stream[1].op = "copyout" => staticOut = stream[1].frame
  BY <1>1, FreshHead DEF Static
<1> QED BY <1>2, <1>3, <1>4

LEMMA StaticPop ==
    ASSUME TypeOK, StaticIO, Static, Gpu
    PROVE  Static'
<1>1. PICK op \in Ops :
        /\ Execute(op) /\ UNCHANGED <<phase, frame, inputReady>>
        /\ op = "wait" => Head(stream).frame \in inputReady
        /\ op = "copyin" =>
              staticIn' = IF Head(stream).frame \in inputReady THEN Head(stream).frame ELSE 0
        /\ op # "copyin" => UNCHANGED staticIn
        /\ op = "run" => staticOut' = staticIn
        /\ op # "run" => UNCHANGED staticOut
  BY GpuKinds
<1>2. /\ 1 \in DOMAIN stream /\ Head(stream) = stream[1] /\ stream[1].op = op
      /\ Len(stream) \in Nat /\ Len(stream') \in Nat /\ Len(stream') + 1 = Len(stream)
      /\ \A j \in DOMAIN stream' :
            j \in Nat \ {0} /\ j + 1 \in DOMAIN stream /\ stream'[j] = stream[j + 1]
      /\ \A j \in DOMAIN stream : j # 1 =>
            j - 1 \in DOMAIN stream' /\ stream'[j - 1] = stream[j]
      /\ \A j \in DOMAIN stream : j \in Nat \ {0}
  BY <1>1, PopFacts
<1>3. /\ op = "copyin" => staticIn' = stream[1].frame /\ stream[1].frame \in inputReady
      /\ op = "run" => staticOut' = stream[1].frame
  BY <1>1, <1>2, HeadRead
<1>4. staticIn' \in inputReady' \cup {0} /\ staticOut' \in inputReady' \cup {0}
  BY <1>1, <1>3 DEF Static
<1>5. ASSUME NEW i \in Nat \ {0}, NEW f, Fresh(stream, "copyin", i + 1, f, staticIn)
      PROVE  Fresh(stream', "copyin", i, f, staticIn')
  BY <1>1, <1>2, <1>3, <1>5, FreshPop
<1>6. ASSUME NEW i \in Nat \ {0}, NEW f, Fresh(stream, "run", i + 1, f, staticOut)
      PROVE  Fresh(stream', "run", i, f, staticOut')
  BY <1>1, <1>2, <1>3, <1>6, FreshPop
<1>7. ASSUME NEW i \in DOMAIN stream'
      PROVE  /\ stream'[i].op = "copyin" => InputBehind(i)'
             /\ stream'[i].op = "run" => Fresh(stream', "copyin", i, stream'[i].frame, staticIn')
             /\ stream'[i].op = "copyout" => Fresh(stream', "run", i, stream'[i].frame, staticOut')
  <2>1. i \in Nat \ {0} /\ i + 1 \in DOMAIN stream /\ stream'[i] = stream[i + 1]
    BY <1>2
  <2>2. stream'[i].op = "copyin" => InputBehind(i)'
    <3> SUFFICES ASSUME InputBehind(i + 1) PROVE InputBehind(i)'
      BY <2>1 DEF Static
    <3>1. CASE stream[i + 1].frame \in inputReady
      BY <1>1, <2>1, <3>1 DEF InputBehind
    <3>2. CASE stream[i + 1].frame \notin inputReady
      <4>1. PICK j \in DOMAIN stream :
               j < i + 1 /\ Is(j, "wait") /\ stream[j].frame = stream[i + 1].frame
        BY <3>2 DEF InputBehind
      <4>2. j # 1
        BY <1>1, <1>2, <3>2, <4>1 DEF Is
      <4>3. j - 1 \in DOMAIN stream' /\ stream'[j - 1] = stream[j] /\ j \in Nat
        BY <1>2, <4>2
      <4>4. j - 1 < i
        BY <2>1, <4>1, <4>3
      <4> QED BY <2>1, <4>1, <4>3, <4>4 DEF InputBehind, Is
    <3> QED BY <3>1, <3>2
  <2>3. stream'[i].op = "run" => Fresh(stream', "copyin", i, stream'[i].frame, staticIn')
    BY <1>5, <2>1 DEF Static
  <2>4. stream'[i].op = "copyout" => Fresh(stream', "run", i, stream'[i].frame, staticOut')
    BY <1>6, <2>1 DEF Static
  <2> QED BY <2>2, <2>3, <2>4
<1>8. Len(stream') + 1 \in Nat \ {0} /\ (Len(stream') + 1) + 1 = Len(stream) + 1
  BY <1>2
<1>9. phase' \in {"timing_start", "run"} =>
         Fresh(stream', "copyin", Len(stream') + 1, frame, staticIn')
  BY <1>1, <1>5, <1>8 DEF Static
<1>10. phase' = "copyout" => Fresh(stream', "run", Len(stream') + 1, frame, staticOut')
  BY <1>1, <1>6, <1>8 DEF Static
<1>11. \A i \in DOMAIN stream' :
         /\ stream'[i].op = "copyin" => InputBehind(i)'
         /\ stream'[i].op = "run" => Fresh(stream, "copyin", i, stream[i].frame, staticIn)'
         /\ stream'[i].op = "copyout" => Fresh(stream, "run", i, stream[i].frame, staticOut)'
  BY <1>7 DEF Fresh
<1>12. phase' \in {"timing_start", "run"} =>
         Fresh(stream, "copyin", Len(stream) + 1, frame, staticIn)'
  BY <1>1, <1>9 DEF Fresh
<1>13. phase' = "copyout" => Fresh(stream, "run", Len(stream) + 1, frame, staticOut)'
  BY <1>1, <1>10 DEF Fresh
<1> QED BY <1>4, <1>11, <1>12, <1>13 DEF Static

LEMMA StaticStep ==
    ASSUME StaticIO, TypeOK, CallBacked, Paths, Static, [Next]_vars
    PROVE  Static'
<1>1. CASE Submits
  <2>1. UNCHANGED <<stream, staticIn, staticOut, inputReady>> /\ phase' \in {"wait", "upload"}
    BY <1>1, SubmitFacts DEF gpuVars
  <2> QED BY <2>1, StaticKept
<1>2. CASE Moves
  <2>1. /\ UNCHANGED <<frame, staticIn, staticOut, inputReady>>
        /\ Goes \/ Passes \/ Accepts \/ Returns \/ Ends
    BY <1>2, MoveKinds DEF gpuVars
  <2>6. CASE Ends
    <3>1. DOMAIN stream' = {} /\ phase' \notin {"timing_start", "run", "copyout"}
      BY <2>6 DEF Ends
    <3> QED BY <2>1, <3>1 DEF Static
  <2>2. ~Passes
    BY DEF Passes, Paths
  <2>3. CASE Accepts
    <3>1. Push("signal") /\ "signal" \in Ops /\ phase' = "idle"
      BY <2>3 DEF Accepts, Ops
    <3> QED BY <2>1, <3>1, StaticPush
  <2>4. CASE Returns
    <3>1. phase' \notin {"timing_start", "run", "copyout"} /\ "clear" \in Ops
      BY <2>4 DEF Returns, Steps, Ops
    <3>2. CASE UNCHANGED stream
      BY <2>1, <3>1, <3>2, StaticKept
    <3>3. CASE Push("clear")
      BY <2>1, <3>1, <3>3, StaticPush
    <3> QED BY <2>4, <3>2, <3>3 DEF Returns
  <2>5. CASE Goes
    <3>1. /\ phase \in Ops /\ Push(phase) /\ phase \in Steps
          /\ phase' \in {"timing_start", "run"} => phase \in {"copyin", "timing_start"}
          /\ phase' = "copyout" => phase = "run"
      BY <2>5, MatchAssumption DEF Goes, AfterRun, Steps, Ops, Events
    <3>2. phase = "copyin" =>
             \/ frame \in inputReady
             \/ \E i \in DOMAIN stream : Is(i, "wait") /\ stream[i].frame = frame
      BY <3>1 DEF CallBacked
    <3>3. phase = "run" => Fresh(stream, "copyin", Len(stream) + 1, frame, staticIn)
      BY DEF Static
    <3>4. phase = "copyout" => Fresh(stream, "run", Len(stream) + 1, frame, staticOut)
      BY DEF Static
    <3>5. phase' \in {"timing_start", "run"} =>
             phase = "copyin" \/ Fresh(stream, "copyin", Len(stream) + 1, frame, staticIn)
      BY <3>1 DEF Static
    <3> QED BY <2>1, <3>1, <3>2, <3>3, <3>4, <3>5, StaticPush
  <2> QED BY <2>1, <2>2, <2>3, <2>4, <2>5, <2>6
<1>3. CASE Producer
  <2>1. UNCHANGED <<phase, frame, stream, staticIn, staticOut>> /\ inputReady \subseteq inputReady'
    BY <1>3, ProducerKeeps DEF gpuVars
  <2> QED BY <2>1, StaticKept
<1>4. CASE UNCHANGED vars
  <2>1. UNCHANGED <<phase, frame, stream, staticIn, staticOut, inputReady>>
    BY <1>4 DEF vars, hostVars, gpuVars
  <2> QED BY <2>1, StaticKept
<1> QED BY <1>1, <1>2, <1>3, <1>4, StaticPop, Kinds

-----------------------------------------------------------------------------
(* The images.                                                               *)

LEMMA PicturesInit == Init => Pictures
<1> SUFFICES ASSUME Init PROVE Pictures
  OBVIOUS
<1>1. /\ DOMAIN stream = {} /\ DOMAIN delivered = {}
      /\ phase = "idle" /\ images = {}
  BY DEF Init
<1> QED BY <1>1 DEF Pictures, Made

(* Every step of the GPU keeps the images, and the one that makes a frame's       *)
(* image makes it of that frame.                                              *)
LEMMA MakerFacts ==
    ASSUME Inductive, Paths, StaticIO => Static, images \subseteq inputReady \cup {0}, Gpu
    PROVE  \E op \in Ops :
              /\ Execute(op) /\ UNCHANGED <<phase, frame, inputReady>>
              /\ images \subseteq images' /\ images' \subseteq inputReady \cup {0}
              /\ op = Maker => Head(stream).frame \in images'
              /\ op = "signal" => delivered' = Append(delivered, Head(stream).frame)
              /\ op # "signal" => UNCHANGED delivered
<1>1. PICK op \in Ops :
        /\ Execute(op) /\ UNCHANGED <<phase, frame, inputReady>>
        /\ op = "run" /\ StaticIO => UNCHANGED images
        /\ op = "run" /\ ~StaticIO =>
              images' = IF device[GraphTable] \in inputReady
                        THEN images \cup {device[GraphTable]}
                        ELSE images \ {device[GraphTable]}
        /\ op = "copyout" =>
              images' = IF staticOut = Head(stream).frame
                        THEN images \cup {Head(stream).frame}
                        ELSE images \ {Head(stream).frame}
        /\ op \notin {"run", "copyout"} => UNCHANGED images
        /\ op = "signal" => delivered' = Append(delivered, Head(stream).frame)
        /\ op # "signal" => UNCHANGED delivered
  BY GpuKinds
<1>2. /\ 1 \in DOMAIN stream /\ Head(stream) = stream[1] /\ stream[1].op = op
      /\ \A j \in DOMAIN stream : ~(j < 1)
  BY <1>1, PopFacts DEF Inductive
<1>3. op = Maker => Head(stream).frame \in images'
  <2>1. CASE StaticIO /\ op = "copyout"
    <3>1. staticOut = Head(stream).frame
      BY <1>2, <2>1, HeadRead DEF Inductive
    <3> QED BY <1>1, <2>1, <3>1
  <2>2. CASE ~StaticIO /\ op = "run"
    <3>1. UploadBehind(1) /\ InputBehind(1)
      BY <1>2, <2>2 DEF Inductive, RunsBacked, Is
    <3>2. device[GraphTable] = Head(stream).frame /\ Head(stream).frame \in inputReady
      BY <1>2, <3>1 DEF UploadBehind, InputBehind
    <3> QED BY <1>1, <2>2, <3>2
  <2> QED BY <2>1, <2>2 DEF Maker
<1>4. images \subseteq images' /\ images' \subseteq inputReady \cup {0}
  <2>1. CASE (op = "run" /\ StaticIO) \/ op \notin {"run", "copyout"}
    BY <1>1, <2>1
  <2>2. CASE op = "run" /\ ~StaticIO
    <3>1. UploadBehind(1) /\ InputBehind(1)
      BY <1>2, <2>2 DEF Inductive, RunsBacked, Is
    <3>2. device[GraphTable] \in inputReady
      BY <1>2, <3>1 DEF UploadBehind, InputBehind
    <3> QED BY <1>1, <2>2, <3>2
  <2>3. CASE op = "copyout"
    <3>1. StaticIO
      BY <1>2, <2>3 DEF Paths, Is
    <3>2. staticOut = Head(stream).frame /\ staticOut \in inputReady \cup {0}
      BY <1>2, <2>3, <3>1, HeadRead DEF Inductive, Static
    <3> QED BY <1>1, <2>3, <3>2
  <2> QED BY <2>1, <2>2, <2>3
<1> QED BY <1>1, <1>3, <1>4

LEMMA PicturesPop ==
    ASSUME Inductive, Paths, StaticIO => Static, Pictures, Gpu
    PROVE  Pictures'
<1>1. PICK op \in Ops :
        /\ Execute(op) /\ UNCHANGED <<phase, frame, inputReady>>
        /\ images \subseteq images' /\ images' \subseteq inputReady \cup {0}
        /\ op = Maker => Head(stream).frame \in images'
        /\ op = "signal" => delivered' = Append(delivered, Head(stream).frame)
        /\ op # "signal" => UNCHANGED delivered
  BY MakerFacts DEF Pictures
<1>2. /\ 1 \in DOMAIN stream /\ Head(stream) = stream[1] /\ stream[1].op = op
      /\ \A j \in DOMAIN stream' :
            j \in Nat \ {0} /\ j + 1 \in DOMAIN stream /\ stream'[j] = stream[j + 1]
      /\ \A j \in DOMAIN stream : j # 1 =>
            j - 1 \in DOMAIN stream' /\ stream'[j - 1] = stream[j]
      /\ \A j \in DOMAIN stream : j \in Nat \ {0} /\ ~(j < 1)
  BY <1>1, PopFacts DEF Inductive
<1>3. \A k \in DOMAIN delivered' : delivered'[k] \in images'
  <2>1. CASE op # "signal"
    BY <1>1, <2>1 DEF Pictures
  <2>2. CASE op = "signal"
    <3>1. stream[1].frame \in images
      BY <1>2, <2>2 DEF Pictures, Is
    <3>2. delivered \in Seq(0 .. MaxFrames) /\ stream[1].frame \in 0 .. MaxFrames
      <4>1. stream[1] \in Item
        BY <1>2, Numbers DEF Inductive
      <4> QED BY <4>1 DEF Inductive, TypeOK, Item
    <3>3. delivered' = Append(delivered, stream[1].frame)
      BY <1>1, <1>2, <2>2
    <3>4. ASSUME NEW k \in DOMAIN delivered'
          PROVE  delivered'[k] \in images'
      <4>1. \/ k \in DOMAIN delivered /\ delivered'[k] = delivered[k]
            \/ delivered'[k] = stream[1].frame
        <5>1. /\ DOMAIN delivered = 1 .. Len(delivered) /\ Len(delivered) \in Nat
              /\ DOMAIN delivered' = 1 .. Len(delivered) + 1
              /\ \A i \in 1 .. Len(delivered) : delivered'[i] = delivered[i]
              /\ delivered'[Len(delivered) + 1] = stream[1].frame
          BY <3>2, <3>3, AppendFacts
        <5> QED BY <3>4, <5>1
      <4> QED BY <1>1, <3>1, <4>1 DEF Pictures
    <3> QED BY <3>4
  <2> QED BY <2>1, <2>2
<1>4. ASSUME NEW f, NEW i \in DOMAIN stream,
             f \in images \/ \E j \in DOMAIN stream : j < i /\ Is(j, Maker) /\ stream[j].frame = f
      PROVE  f \in images' \/ \E j \in DOMAIN stream' :
                j < i - 1 /\ Is(j, Maker)' /\ stream'[j].frame = f
  <2>1. CASE f \in images
    BY <1>1, <2>1
  <2>2. CASE \E j \in DOMAIN stream : j < i /\ Is(j, Maker) /\ stream[j].frame = f
    <3>1. PICK j \in DOMAIN stream : j < i /\ Is(j, Maker) /\ stream[j].frame = f
      BY <2>2
    <3>2. CASE j = 1
      BY <1>1, <1>2, <3>1, <3>2 DEF Is
    <3>3. CASE j # 1
      <4>1. j - 1 \in DOMAIN stream' /\ stream'[j - 1] = stream[j]
        BY <1>2, <3>3
      <4>2. j \in Nat /\ i \in Nat
        BY <1>2
      <4>3. j - 1 < i - 1
        BY <3>1, <4>2
      <4>4. Is(j - 1, Maker)'
        BY <3>1, <4>1 DEF Is, Maker
      <4> QED BY <3>1, <4>1, <4>3, <4>4
    <3> QED BY <3>2, <3>3
  <2> QED BY <1>4, <2>1, <2>2
<1>5. ASSUME NEW i \in DOMAIN stream', Is(i, "signal")'
      PROVE  \/ stream'[i].frame \in images'
             \/ \E j \in DOMAIN stream' : j < i /\ Is(j, Maker)' /\ stream'[j].frame = stream'[i].frame
  <2>1. i + 1 \in DOMAIN stream /\ stream'[i] = stream[i + 1] /\ i \in Nat /\ (i + 1) - 1 = i
    BY <1>2
  <2>2. Is(i + 1, "signal")
    BY <1>5, <2>1 DEF Is
  <2>3. \/ stream[i + 1].frame \in images
        \/ \E j \in DOMAIN stream : j < i + 1 /\ Is(j, Maker) /\ stream[j].frame = stream[i + 1].frame
    BY <2>1, <2>2 DEF Pictures
  <2>4. \/ stream[i + 1].frame \in images'
        \/ \E j \in DOMAIN stream' :
              j < (i + 1) - 1 /\ Is(j, Maker)' /\ stream'[j].frame = stream[i + 1].frame
    BY <1>4, <2>1, <2>3
  <2> QED BY <2>1, <2>4
<1>6. phase' \in Made =>
          \/ frame \in images'
          \/ \E j \in DOMAIN stream' : Is(j, Maker)' /\ stream'[j].frame = frame
  <2> SUFFICES ASSUME phase \in Made
               PROVE  \/ frame \in images'
                      \/ \E j \in DOMAIN stream' : Is(j, Maker)' /\ stream'[j].frame = frame
    BY <1>1
  <2>1. CASE frame \in images
    BY <1>1, <2>1
  <2>2. CASE \E j \in DOMAIN stream : Is(j, Maker) /\ stream[j].frame = frame
    <3>1. PICK j \in DOMAIN stream : Is(j, Maker) /\ stream[j].frame = frame
      BY <2>2
    <3>2. CASE j = 1
      BY <1>1, <1>2, <3>1, <3>2 DEF Is
    <3>3. CASE j # 1
      BY <1>2, <3>1, <3>3 DEF Is, Maker
    <3> QED BY <3>2, <3>3
  <2> QED BY <2>1, <2>2 DEF Pictures
<1> QED BY <1>1, <1>3, <1>5, <1>6 DEF Pictures, Maker

(* The host pushes what makes the image before it asks for the signal.            *)
LEMMA PicturesPush ==
    ASSUME TypeOK, Pictures, NEW op \in Ops, Push(op),
           UNCHANGED <<frame, images, delivered, inputReady>>,
           op = "signal" => phase \in Made,
           phase' \in Made => phase \in Made \/ op = Maker
    PROVE  Pictures'
<1>1. PICK n \in DOMAIN stream' :
        /\ \A i \in DOMAIN stream : i \in DOMAIN stream' /\ stream'[i] = stream[i] /\ i < n
        /\ stream'[n].op = op /\ stream'[n].frame = frame
        /\ \A i \in DOMAIN stream' : i \in DOMAIN stream \/ i = n
  BY PushFacts
<1>2. \A j \in DOMAIN stream : Is(j, Maker) => Is(j, Maker)'
  BY <1>1 DEF Is, Maker
<1>3. ASSUME NEW i \in DOMAIN stream', Is(i, "signal")'
      PROVE  \/ stream'[i].frame \in images'
             \/ \E j \in DOMAIN stream' : j < i /\ Is(j, Maker)' /\ stream'[j].frame = stream'[i].frame
  <2>1. CASE i \in DOMAIN stream
    <3>1. Is(i, "signal") /\ stream'[i] = stream[i]
      BY <1>1, <1>3, <2>1 DEF Is
    <3>2. \/ stream[i].frame \in images
          \/ \E j \in DOMAIN stream : j < i /\ Is(j, Maker) /\ stream[j].frame = stream[i].frame
      BY <2>1, <3>1 DEF Pictures
    <3> QED BY <1>1, <1>2, <3>1, <3>2
  <2>2. CASE i = n
    <3>1. phase \in Made /\ stream'[i].frame = frame
      BY <1>1, <1>3, <2>2 DEF Is
    <3>2. \/ frame \in images
          \/ \E j \in DOMAIN stream : Is(j, Maker) /\ stream[j].frame = frame
      BY <3>1 DEF Pictures
    <3> QED BY <1>1, <1>2, <2>2, <3>1, <3>2
  <2> QED BY <1>1, <2>1, <2>2
<1>4. phase' \in Made =>
          \/ frame \in images'
          \/ \E j \in DOMAIN stream' : Is(j, Maker)' /\ stream'[j].frame = frame
  <2>1. CASE op = Maker
    <3>1. Is(n, Maker)'
      BY <1>1, <2>1 DEF Is, Maker
    <3> QED BY <1>1, <3>1
  <2>2. CASE phase \in Made
    <3>1. \/ frame \in images
          \/ \E j \in DOMAIN stream : Is(j, Maker) /\ stream[j].frame = frame
      BY <2>2 DEF Pictures
    <3> QED BY <1>1, <1>2, <3>1
  <2> QED BY <2>1, <2>2
<1>5. images' \subseteq inputReady' \cup {0} /\ \A k \in DOMAIN delivered' : delivered'[k] \in images'
  BY DEF Pictures
<1> QED BY <1>3, <1>4, <1>5 DEF Pictures, Maker

(* Nothing is pushed.                                                        *)
LEMMA PicturesKept ==
    ASSUME Pictures, UNCHANGED <<stream, images, delivered>>, inputReady \subseteq inputReady',
           phase' \notin Made \/ (phase \in Made /\ UNCHANGED frame)
    PROVE  Pictures'
BY DEF Pictures, Is, Maker, Made

LEMMA PicturesStep ==
    ASSUME Inductive, Paths, StaticIO => Static, Pictures, [Next]_vars
    PROVE  Pictures'
<1>1. CASE Submits
  <2>1. UNCHANGED <<stream, images, delivered, inputReady>> /\ phase' \notin Made
    BY <1>1, SubmitFacts DEF gpuVars, Made
  <2> QED BY <2>1, PicturesKept
<1>2. CASE Moves
  <2>1. /\ UNCHANGED <<frame, images, delivered, inputReady>>
        /\ Goes \/ Passes \/ Accepts \/ Returns \/ Ends
    BY <1>2, MoveKinds DEF gpuVars
  <2>6. CASE Ends
    <3>1. DOMAIN stream' = {} /\ phase' \notin Made
      BY <2>6 DEF Ends, Made
    <3> QED BY <2>1, <3>1 DEF Pictures
  <2>2. CASE Passes
    <3>1. UNCHANGED stream /\ phase \in Made
      BY <2>2 DEF Passes, Made
    <3> QED BY <2>1, <3>1, PicturesKept
  <2>3. CASE Accepts
    <3>1. Push("signal") /\ "signal" \in Ops /\ phase \in Made /\ phase' \notin Made
      BY <2>3 DEF Accepts, Ops, Made
    <3> QED BY <2>1, <3>1, PicturesPush DEF Inductive
  <2>4. CASE Returns
    <3>1. phase' \notin Made /\ "clear" \in Ops
      BY <2>4 DEF Returns, Made, Steps, Ops
    <3>2. CASE UNCHANGED stream
      BY <2>1, <3>1, <3>2, PicturesKept
    <3>3. CASE Push("clear")
      BY <2>1, <3>1, <3>3, PicturesPush DEF Inductive
    <3> QED BY <2>4, <3>2, <3>3 DEF Returns
  <2>5. CASE Goes
    <3>1. phase \in Ops \ {"signal"} /\ Push(phase)
      BY <2>5 DEF Goes, Steps, Ops, Events
    <3>2. phase' \in Made => phase \in Made \/ phase = Maker
      BY <2>5, MatchAssumption DEF Goes, AfterRun, Steps, Made, Maker, Paths
    <3> QED BY <2>1, <3>1, <3>2, PicturesPush DEF Inductive
  <2> QED BY <2>1, <2>2, <2>3, <2>4, <2>5, <2>6
<1>3. CASE Producer
  <2>1. UNCHANGED <<phase, frame, stream, images, delivered>> /\ inputReady \subseteq inputReady'
    BY <1>3, ProducerKeeps DEF gpuVars
  <2> QED BY <2>1, PicturesKept
<1>4. CASE UNCHANGED vars
  <2>1. UNCHANGED <<phase, frame, stream, images, delivered, inputReady>>
    BY <1>4 DEF vars, hostVars, gpuVars
  <2> QED BY <2>1, PicturesKept
<1> QED BY <1>1, <1>2, <1>3, <1>4, PicturesPop, Kinds

-----------------------------------------------------------------------------
(* The theorems.                                                             *)

(* The whole invariant: a caller that stops after a failed call, or resets the    *)
(* plan first, keeps it whatever fails and however the GPU and the producer run.  *)
THEOREM ServiceInvariance ==
    ASSUME ~RetryAfterFailure
    PROVE  Spec => []ServiceInv
<1>1. Init => ServiceInv
  BY InductiveInit, PathsInit, AcceptingInit, StaticInit, PicturesInit DEF ServiceInv
<1>2. ServiceInv /\ [Next]_vars => ServiceInv'
  <2> SUFFICES ASSUME ServiceInv, [Next]_vars PROVE ServiceInv'
    OBVIOUS
  <2>1. /\ TypeOK /\ CallBacked /\ Inductive /\ Paths /\ Accepting /\ Signals
        /\ StaticIO => Static
        /\ Pictures
    BY DEF ServiceInv, Inductive
  <2>2. Inductive'
    BY <2>1, InductiveStep
  <2>3. Paths' /\ Accepting' /\ Signals'
    BY <2>1, PathsStep, AcceptingStep, SignalsStep
  <2>4. StaticIO => Static'
    BY <2>1, StaticStep
  <2>5. Pictures'
    BY <2>1, PicturesStep
  <2> QED BY <2>2, <2>3, <2>4, <2>5 DEF ServiceInv
<1> QED BY <1>1, <1>2, PTL DEF Spec

(* The kernels of a frame read that frame: through the binding table the graph    *)
(* was recorded with, or in the one static input every frame shares.             *)
THEOREM EveryFrameIsolated ==
    ASSUME ~RetryAfterFailure
    PROVE  Spec => []FrameIsolation
<1>1. ServiceInv => FrameIsolation
  <2> SUFFICES ASSUME ServiceInv, stream # <<>>, Head(stream).op = "run"
               PROVE  IF StaticIO THEN staticIn = Head(stream).frame
                      ELSE /\ device[GraphTable] = Head(stream).frame
                           /\ Head(stream).frame \in inputReady
    BY DEF FrameIsolation
  <2>1. TypeOK /\ (StaticIO => Static) /\ (~StaticIO => RunsBacked)
    BY DEF ServiceInv, Inductive
  <2>2. 1 \in DOMAIN stream /\ Head(stream) = stream[1] /\ \A j \in DOMAIN stream : ~(j < 1)
    <3>1. stream \in Seq(Item)
      BY <2>1 DEF TypeOK, Item
    <3> QED BY <3>1, TailFacts
  <2>3. CASE StaticIO
    BY <2>1, <2>2, <2>3, HeadRead
  <2>4. CASE ~StaticIO
    <3>1. UploadBehind(1) /\ InputBehind(1)
      BY <2>1, <2>2, <2>4 DEF RunsBacked, Is
    <3> QED BY <2>2, <2>4, <3>1 DEF UploadBehind, InputBehind
  <2> QED BY <2>3, <2>4
<1> QED BY <1>1, ServiceInvariance, PTL

(* What the application is shown.                                             *)
Shown == [i \in DOMAIN delivered |-> IF delivered[i] \in images THEN delivered[i] ELSE 0]

(* It is what was announced: every image is its frame's, and stays so.            *)
LEMMA ShownIsDelivered ==
    ASSUME TypeOK, Pictures
    PROVE  Shown = delivered
<1>1. delivered = [i \in DOMAIN delivered |-> delivered[i]]
  BY DEF TypeOK
<1>2. \A i \in DOMAIN delivered : delivered[i] \in images
  BY DEF Pictures
<1> QED BY <1>1, <1>2 DEF Shown

LEMMA ServiceInit == Init => Service!Init
<1> SUFFICES ASSUME Init PROVE Service!Init
  OBVIOUS
<1>1. accepted = <<>> /\ inputReady = {} /\ delivered = <<>> /\ phase = "idle"
  BY DEF Init
<1>2. Shown = <<>>
  BY <1>1 DEF Shown
<1> QED BY <1>1, <1>2 DEF Service!Init, Shown

LEMMA ServiceStep == ServiceInv /\ ServiceInv' /\ [Next]_vars => [Service!Next]_(Service!vars)
<1> SUFFICES ASSUME ServiceInv, ServiceInv', [Next]_vars
             PROVE  [Service!Next]_(Service!vars)
  OBVIOUS
<1>1. TypeOK /\ CallTyped /\ Accepting /\ Signals /\ Pictures
  BY DEF ServiceInv, Inductive
<1>2. Shown = delivered /\ Shown' = delivered'
  <2>1. TypeOK' /\ Pictures'
    BY DEF ServiceInv, Inductive
  <2>2. delivered' = [i \in DOMAIN delivered' |-> delivered'[i]]
    BY <2>1 DEF TypeOK
  <2>3. \A i \in DOMAIN delivered' : delivered'[i] \in images'
    BY <2>1 DEF Pictures
  <2>4. Shown' = delivered'
    BY <2>2, <2>3 DEF Shown
  <2> QED BY <1>1, <2>4, ShownIsDelivered
<1>3. CASE Submits \/ UNCHANGED vars
  <2>1. /\ UNCHANGED <<accepted, inputReady, delivered>>
        /\ (phase' # "destroyed") = (phase # "destroyed")
    BY <1>3, SubmitFacts DEF gpuVars, vars, hostVars
  <2> QED BY <1>2, <2>1 DEF Service!vars, Shown
<1>4. CASE Moves
  <2>1. /\ UNCHANGED <<frame, inputReady, delivered>>
        /\ phase # "destroyed" /\ (phase' = "destroyed" => Ends)
        /\ Goes \/ Passes \/ Accepts \/ Returns \/ Ends
    BY <1>4, MoveKinds DEF gpuVars
  <2>2. CASE Accepts
    <3>1. frame \in Frame /\ \A k \in DOMAIN accepted : accepted[k] < frame
      BY <1>1, <2>2 DEF Accepts, CallTyped, Accepting, Steps
    <3>2. (phase' # "destroyed") = (phase # "destroyed")
      BY <2>1, <2>2 DEF Accepts
    <3>3. Service!Accept(frame)
      BY <1>2, <2>1, <2>2, <3>1, <3>2 DEF Service!Accept, Shown, Accepts
    <3> QED BY <3>1, <3>3 DEF Service!Next, Service!Frame, Frame
  <2>3. CASE ~Accepts /\ ~Ends
    <3>1. UNCHANGED accepted /\ (phase' # "destroyed") = (phase # "destroyed")
      BY <2>1, <2>3 DEF Goes, Passes, Returns
    <3> QED BY <1>2, <2>1, <3>1 DEF Service!vars, Shown
  <2>4. CASE Ends
    <3>1. UNCHANGED accepted /\ (phase' # "destroyed") = FALSE
      BY <2>4 DEF Ends
    <3>2. Service!Close
      BY <1>2, <2>1, <3>1 DEF Service!Close, Shown
    <3> QED BY <3>2 DEF Service!Next
  <2> QED BY <2>2, <2>3, <2>4
<1>5. CASE Producer
  <2>1. PICK f \in Frame : SignalInput(f)
    BY <1>5 DEF Producer
  <2>2. (phase' # "destroyed") = (phase # "destroyed")
    BY <2>1 DEF SignalInput, hostVars
  <2>3. Service!Provide(f)
    BY <1>2, <2>1, <2>2 DEF SignalInput, Service!Provide, Shown, hostVars, gpuVars
  <2> QED BY <2>3 DEF Service!Next, Service!Frame, Frame
<1>6. CASE Gpu
  <2>1. PICK op \in Ops :
          /\ Execute(op) /\ UNCHANGED <<accepted, inputReady>>
          /\ op = "signal" => delivered' = Append(delivered, Head(stream).frame)
          /\ op # "signal" => UNCHANGED delivered
    BY <1>6, GpuKinds
  <2>4. phase # "destroyed" /\ (phase' # "destroyed") = (phase # "destroyed")
    BY <1>1, <1>6, GpuKinds DEF Signals, Execute
  <2>2. CASE op # "signal"
    BY <1>2, <2>1, <2>2, <2>4 DEF Service!vars, Shown
  <2>3. CASE op = "signal"
    <3> DEFINE d == Len(delivered) + 1
    <3>1. /\ 1 \in DOMAIN stream /\ Head(stream) = stream[1] /\ stream[1].op = "signal"
          /\ \A j \in DOMAIN stream : ~(j < 1)
      BY <1>1, <2>1, <2>3, PopFacts
    <3>2. Len(delivered) < Len(accepted) /\ accepted[d] = stream[1].frame
      BY <1>1, <3>1, NextSignal
    <3>3. d \in DOMAIN accepted /\ accepted[d] \in Frame
      BY <1>1, <3>2, Numbers
    <3>4. stream[1].frame \in images
      BY <1>1, <3>1 DEF Pictures, Is
    <3>5. accepted[d] \in inputReady
      BY <1>1, <3>2, <3>3, <3>4 DEF Pictures, Frame
    <3>6. delivered' = Append(delivered, accepted[d])
      BY <2>1, <2>3, <3>1, <3>2
    <3>7. Service!Deliver
      BY <1>2, <2>1, <2>4, <3>2, <3>5, <3>6 DEF Service!Deliver, Shown
    <3> QED BY <3>7 DEF Service!Next
  <2> QED BY <2>2, <2>3
<1> QED BY <1>3, <1>4, <1>5, <1>6, Kinds

(* Whatever fails and however host, GPU and producer interleave, the accepted     *)
(* frames come out once each and in order, after their input, each with its own   *)
(* image, which no later frame overwrites.                                     *)
THEOREM ImplementsService ==
    ASSUME ~RetryAfterFailure
    PROVE  Spec => ServiceSpec
<1>1. Init => Service!Init
  BY ServiceInit
<1>2. ServiceInv /\ ServiceInv' /\ [Next]_vars => [Service!Next]_(Service!vars)
  BY ServiceStep
<1> QED BY <1>1, <1>2, ServiceInvariance, PTL DEF Spec, ServiceSpec, Service!Spec
=============================================================================
