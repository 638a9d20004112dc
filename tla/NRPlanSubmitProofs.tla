------------------------- MODULE NRPlanSubmitProofs -------------------------
(***************************************************************************)
(* Proofs about NRPlanSubmit for every number of frames and boundaries and  *)
(* every choice of entry points, failing calls and producers.               *)
(***************************************************************************)
EXTENDS NRPlanSubmitInv, TLAPS

Item == [op : Ops, frame : 0 .. MaxFrames, table : {2, 3}]

-----------------------------------------------------------------------------
(* Queues *)

\* Appending keeps every position and adds one.
LEMMA AppendFacts ==
    ASSUME NEW S, NEW s \in Seq(S), NEW e \in S
    PROVE  /\ Append(s, e) \in Seq(S)
           /\ Len(s) \in Nat
           /\ DOMAIN s = 1 .. Len(s)
           /\ DOMAIN Append(s, e) = 1 .. Len(s) + 1
           /\ \A i \in 1 .. Len(s) : Append(s, e)[i] = s[i]
           /\ Append(s, e)[Len(s) + 1] = e
OBVIOUS

\* Taking the head away moves every position by one.
LEMMA TailFacts ==
    ASSUME NEW S, NEW s \in Seq(S), s # <<>>
    PROVE  /\ Tail(s) \in Seq(S)
           /\ Len(s) \in Nat \ {0}
           /\ DOMAIN s = 1 .. Len(s)
           /\ DOMAIN Tail(s) = 1 .. Len(s) - 1
           /\ \A i \in 1 .. Len(s) - 1 : Tail(s)[i] = s[i + 1]
           /\ Head(s) = s[1]
           /\ Head(s) \in S
OBVIOUS

-----------------------------------------------------------------------------
(* Types *)

LEMMA TypeInit == Init => TypeOK
  <1> SUFFICES ASSUME Init PROVE TypeOK
    OBVIOUS
  <1>1. phase \in Phases
    BY DEF Init, Phases
  <1>2. call \in [kind : {"v2", "v3", "ext"}, input : BOOLEAN, output : BOOLEAN]
    BY DEF Init
  <1>3. /\ failed \in BOOLEAN
        /\ submitted \in BOOLEAN
        /\ timing_pending \in BOOLEAN
    BY DEF Init
  <1>4. /\ frame \in 0 .. MaxFrames
        /\ stage \in 0 .. Stages
        /\ staticIn \in 0 .. MaxFrames
        /\ staticOut \in 0 .. MaxFrames
    BY BoundsAssumption DEF Init
  <1>5. performance \in [submitted_frames : Nat, completed_frames : Nat]
    BY DEF Init
  <1>6. /\ sample \in [timing_start : 0 .. MaxFrames, timing_stop : 0 .. MaxFrames]
        /\ marks \in [timing_start : 0 .. MaxFrames, timing_stop : 0 .. MaxFrames]
    BY BoundsAssumption DEF Init
  <1>7. /\ pinned \in [{2, 3} -> 0 .. MaxFrames]
        /\ device \in [{2, 3} -> 0 .. MaxFrames]
    BY BoundsAssumption DEF Init
  <1>8. /\ accepted \in Seq(Frame) /\ succeeded \subseteq Frame
        /\ stream \in Seq([op : Ops, frame : 0 .. MaxFrames, table : {2, 3}])
        /\ delivered \in Seq(0 .. MaxFrames)
    BY DEF Init
  <1>9. /\ images \subseteq 0 .. MaxFrames
        /\ inputReady \subseteq Frame
    BY DEF Init
  <1> QED
    BY <1>1, <1>2, <1>3, <1>4, <1>5, <1>6, <1>7, <1>8, <1>9 DEF TypeOK

LEMMA PushType ==
    ASSUME TypeOK, NEW op \in Ops, Push(op)
    PROVE  stream' \in Seq([op : Ops, frame : 0 .. MaxFrames, table : {2, 3}])
  <1> DEFINE e == [op |-> op, frame |-> frame, table |-> Table(call.kind)]
  <1>1. Table(call.kind) \in {2, 3}
    BY DEF Table
  <1>2. frame \in 0 .. MaxFrames /\ stream \in Seq(Item)
    BY DEF TypeOK, Item
  <1>3. e \in Item
    BY <1>1, <1>2 DEF Item
  <1>4. Append(stream, e) \in Seq(Item)
    BY <1>2, <1>3, AppendFacts
  <1> QED
    BY <1>4 DEF Push, Item

\* One HIP call of a submission.
LEMMA EnqueueType ==
    ASSUME TypeOK, NEW op \in Ops, NEW next \in Phases, Enqueue(op, next)
    PROVE  TypeOK'
  <1>1. /\ phase' \in Phases
        /\ failed' \in BOOLEAN
        /\ stream' \in Seq([op : Ops, frame : 0 .. MaxFrames, table : {2, 3}])
    <2>1. CASE Push(op) /\ phase' = next /\ UNCHANGED failed
      BY <2>1, PushType DEF TypeOK
    <2>2. CASE phase' = "idle" /\ failed' = TRUE /\ UNCHANGED stream
      BY <2>2 DEF TypeOK, Phases
    <2> QED
      BY <2>1, <2>2 DEF Enqueue
  <1> QED
    BY <1>1 DEF Enqueue, TypeOK, planVars, gpuVars

\* The frame counters only ever count up by one.
LEMMA CountType ==
    ASSUME NEW p \in [submitted_frames : Nat, completed_frames : Nat]
    PROVE  /\ [p EXCEPT !.submitted_frames = @ + 1]
                 \in [submitted_frames : Nat, completed_frames : Nat]
           /\ [p EXCEPT !.completed_frames = @ + 1]
                 \in [submitted_frames : Nat, completed_frames : Nat]
OBVIOUS

LEMMA HarvestType ==
    ASSUME TypeOK, HarvestTiming
    PROVE  /\ timing_pending' \in BOOLEAN
           /\ performance' \in [submitted_frames : Nat, completed_frames : Nat]
           /\ sample' \in [timing_start : 0 .. MaxFrames, timing_stop : 0 .. MaxFrames]
  <1>1. CASE timing_pending /\ Ready("timing_stop")
    <2>1. performance' \in [submitted_frames : Nat, completed_frames : Nat]
      BY <1>1, CountType DEF HarvestTiming, TypeOK
    <2>2. sample' = marks /\ timing_pending' = FALSE
      BY <1>1 DEF HarvestTiming
    <2> QED
      BY <2>1, <2>2 DEF TypeOK
  <1>2. CASE ~(timing_pending /\ Ready("timing_stop"))
    BY <1>2 DEF HarvestTiming, TypeOK
  <1> QED
    BY <1>1, <1>2

\* What the GPU does to the stream.
LEMMA ExecuteType ==
    ASSUME TypeOK, NEW op \in Ops, Execute(op)
    PROVE  /\ stream # <<>>
           /\ Head(stream) \in Item
           /\ stream' \in Seq([op : Ops, frame : 0 .. MaxFrames, table : {2, 3}])
  <1>1. stream \in Seq(Item)
    BY DEF TypeOK, Item
  <1>2. stream # <<>> /\ stream' = Tail(stream)
    BY DEF Execute
  <1>3. Head(stream) \in Item /\ Tail(stream) \in Seq(Item)
    BY <1>1, <1>2, TailFacts
  <1> QED
    BY <1>2, <1>3 DEF Item

LEMMA TypeStep == TypeOK /\ CallTyped /\ [Next]_vars => TypeOK'
  <1> SUFFICES ASSUME TypeOK, CallTyped, [Next]_vars PROVE TypeOK'
    OBVIOUS
  <1>1. ASSUME NEW k \in Calls, NEW i \in BOOLEAN, NEW o \in BOOLEAN, Submit(k, i, o)
        PROVE  TypeOK'
    <2>1. Table(k) \in {2, 3} /\ k \in {"v2", "v3", "ext"}
      BY CallsAssumption DEF Table
    <2>2. frame' \in 0 .. MaxFrames /\ stage' \in 0 .. Stages
      BY <1>1, BoundsAssumption DEF Submit, TypeOK
    <2>3. /\ phase' \in Phases
          /\ call' \in [kind : {"v2", "v3", "ext"}, input : BOOLEAN, output : BOOLEAN]
      BY <1>1, <2>1 DEF Submit, Phases, Steps
    <2>4. pinned' \in [{2, 3} -> 0 .. MaxFrames]
      BY <1>1, <2>1, <2>2 DEF Submit, TypeOK
    <2>5. /\ timing_pending' \in BOOLEAN
          /\ performance' \in [submitted_frames : Nat, completed_frames : Nat]
          /\ sample' \in [timing_start : 0 .. MaxFrames, timing_stop : 0 .. MaxFrames]
      BY <1>1, HarvestType DEF Submit
    <2> QED
      BY <1>1, <2>2, <2>3, <2>4, <2>5 DEF Submit, TypeOK, gpuVars
  <1>2. CASE GetPerformanceStats
    BY <1>2, HarvestType DEF GetPerformanceStats, TypeOK, gpuVars
  <1>3. CASE WaitInput
    BY <1>3, EnqueueType DEF WaitInput, Ops, Phases, Steps
  <1>4. CASE UploadBindings
    BY <1>4, EnqueueType DEF UploadBindings, Ops, Phases, Steps
  <1>5. CASE RecordConsumed
    BY <1>5, EnqueueType DEF RecordConsumed, Ops, Events, Phases, Steps
  <1>6. CASE CopyStaticInput
    BY <1>6, EnqueueType DEF CopyStaticInput, Ops, Phases, Steps
  <1>7. CASE RecordStart
    BY <1>7, EnqueueType DEF RecordStart, Ops, Events, Phases, Steps
  <1>8. CASE Run
    BY <1>8, EnqueueType DEF Run, AfterRun, Ops, Phases, Steps
  <1>9. CASE Boundary
    <2>1. stage < Stages
      BY <1>9 DEF Boundary, CallTyped, Launching, Steps
    <2>2. stage' \in 0 .. Stages
      <3>1. stage' = stage \/ stage' = stage + 1
        BY <1>9 DEF Boundary
      <3>2. stage \in 0 .. Stages
        BY DEF TypeOK
      <3> QED
        BY <2>1, <3>1, <3>2, BoundsAssumption
    <2>3. phase' \in Phases
      BY <1>9 DEF Boundary, AfterRun, Phases, Steps
    <2>4. failed' \in BOOLEAN
      BY <1>9 DEF Boundary, TypeOK
    <2> QED
      BY <1>9, <2>2, <2>3, <2>4 DEF Boundary, TypeOK, planVars, gpuVars
  <1>10. CASE CopyStaticOutput
    BY <1>10, EnqueueType DEF CopyStaticOutput, Ops, Phases, Steps
  <1>11. CASE RecordStop
    BY <1>11, EnqueueType DEF RecordStop, Ops, Events, Phases, Steps
  <1>12. CASE SignalOutput
    <2>1. frame \in Frame /\ "signal" \in Ops
      BY <1>12 DEF SignalOutput, CallTyped, Steps, Ops
    <2>2. Append(accepted, frame) \in Seq(Frame)
      BY <2>1, AppendFacts DEF TypeOK
    <2>3. /\ accepted' \in Seq(Frame) /\ succeeded' \subseteq Frame
          /\ stream' \in Seq([op : Ops, frame : 0 .. MaxFrames, table : {2, 3}])
      BY <1>12, <2>1, <2>2, PushType DEF SignalOutput, TypeOK
    <2>4. /\ phase' \in Phases
          /\ failed' \in BOOLEAN
          /\ submitted' \in BOOLEAN
          /\ timing_pending' \in BOOLEAN
      BY <1>12 DEF SignalOutput, TypeOK, Phases
    <2>5. performance' \in [submitted_frames : Nat, completed_frames : Nat]
      BY <1>12, CountType DEF SignalOutput, TypeOK
    <2> QED
      BY <1>12, <2>3, <2>4, <2>5 DEF SignalOutput, TypeOK, gpuVars
  <1>13. CASE Reset \/ Destroy
    BY <1>13 DEF Reset, Destroy, TypeOK, Phases, planVars, gpuVars
  <1>27. CASE Cleanup
    <2>1. failed' \in BOOLEAN /\ phase' \in Phases
      BY <1>27 DEF Cleanup, Phases
    <2>2. stream' \in Seq([op : Ops, frame : 0 .. MaxFrames, table : {2, 3}])
      BY <1>27 DEF Cleanup
    <2> QED
      BY <1>27, <2>1, <2>2 DEF Cleanup, TypeOK, planVars, gpuVars
  <1>14. CASE ResetDrain
    BY <1>14 DEF ResetDrain, ResetReturns, TypeOK, Phases, gpuVars
  <1>15. CASE ResetClear
    <2>1. /\ phase' \in Phases
          /\ failed' \in BOOLEAN
          /\ submitted' \in BOOLEAN
          /\ stream' \in Seq([op : Ops, frame : 0 .. MaxFrames, table : {2, 3}])
      <3>1. "clear" \in Ops
        BY DEF Ops
      <3> QED
        BY <1>15, <3>1, PushType DEF ResetClear, ResetReturns, TypeOK, Phases
    <2> QED
      BY <1>15, <2>1 DEF ResetClear, TypeOK, gpuVars
  <1>16. CASE ResetSettle
    BY <1>16 DEF ResetSettle, ResetReturns, TypeOK, Phases, gpuVars
  <1>17. CASE GpuWait
    <2>1. "wait" \in Ops
      BY DEF Ops
    <2> QED
      BY <1>17, <2>1, ExecuteType DEF GpuWait, Execute, TypeOK, hostVars, gpuVars
  <1>18. CASE GpuUpload
    <2>1. "upload" \in Ops
      BY DEF Ops
    <2>2. Head(stream).table \in {2, 3}
      BY <1>18, <2>1, ExecuteType DEF GpuUpload, Item
    <2>3. device' \in [{2, 3} -> 0 .. MaxFrames]
      BY <1>18, <2>2 DEF GpuUpload, TypeOK
    <2> QED
      BY <1>18, <2>1, <2>3, ExecuteType DEF GpuUpload, Execute, TypeOK, hostVars
  <1>19. ASSUME NEW e \in {"timing_start", "timing_stop"}, GpuRecordTiming(e)
         PROVE  TypeOK'
    <2>1. e \in Ops
      BY DEF Ops, Events
    <2>2. Head(stream).frame \in 0 .. MaxFrames
      BY <1>19, <2>1, ExecuteType DEF GpuRecordTiming, Item
    <2>3. marks' \in [timing_start : 0 .. MaxFrames, timing_stop : 0 .. MaxFrames]
      BY <1>19, <2>2 DEF GpuRecordTiming, TypeOK
    <2> QED
      BY <1>19, <2>1, <2>3, ExecuteType DEF GpuRecordTiming, Execute, TypeOK, hostVars
  <1>20. CASE GpuPass
    <2>1. "binding_consumed" \in Ops /\ "clear" \in Ops
      BY DEF Ops, Events
    <2> QED
      BY <1>20, <2>1, ExecuteType DEF GpuPass, Execute, TypeOK, hostVars, gpuVars
  <1>21. CASE GpuCopyIn
    <2>1. "copyin" \in Ops
      BY DEF Ops
    <2>2. Head(stream).frame \in 0 .. MaxFrames
      BY <1>21, <2>1, ExecuteType DEF GpuCopyIn, Item
    <2>3. staticIn' \in 0 .. MaxFrames
      BY <1>21, <2>2, BoundsAssumption DEF GpuCopyIn
    <2> QED
      BY <1>21, <2>1, <2>3, ExecuteType DEF GpuCopyIn, Execute, TypeOK, hostVars
  <1>22. CASE GpuRun
    <2>1. "run" \in Ops
      BY DEF Ops
    <2>2. staticOut' \in 0 .. MaxFrames
      BY <1>22 DEF GpuRun, TypeOK
    <2>3. device[GraphTable] \in 0 .. MaxFrames
      BY CallsAssumption DEF TypeOK
    <2>4. images' \subseteq 0 .. MaxFrames
      BY <1>22, <2>3 DEF GpuRun, TypeOK
    <2> QED
      BY <1>22, <2>1, <2>2, <2>4, ExecuteType DEF GpuRun, Execute, TypeOK, hostVars
  <1>23. CASE GpuCopyOut
    <2>1. "copyout" \in Ops
      BY DEF Ops
    <2>2. Head(stream).frame \in 0 .. MaxFrames
      BY <1>23, <2>1, ExecuteType DEF GpuCopyOut, Item
    <2>3. images' \subseteq 0 .. MaxFrames
      BY <1>23, <2>2 DEF GpuCopyOut, TypeOK
    <2> QED
      BY <1>23, <2>1, <2>3, ExecuteType DEF GpuCopyOut, Execute, TypeOK, hostVars
  <1>24. CASE GpuSignal
    <2>1. "signal" \in Ops
      BY DEF Ops
    <2>2. Head(stream).frame \in 0 .. MaxFrames
      BY <1>24, <2>1, ExecuteType DEF GpuSignal, Item
    <2>3. delivered' \in Seq(0 .. MaxFrames)
      BY <1>24, <2>2, AppendFacts DEF GpuSignal, TypeOK
    <2> QED
      BY <1>24, <2>1, <2>3, ExecuteType DEF GpuSignal, Execute, TypeOK, hostVars
  <1>25. CASE Producer
    BY <1>25 DEF Producer, SignalInput, TypeOK, hostVars, gpuVars
  <1>26. CASE UNCHANGED vars
    BY <1>26 DEF TypeOK, vars, hostVars, gpuVars
  <1> QED
    BY <1>1, <1>2, <1>3, <1>4, <1>5, <1>6, <1>7, <1>8, <1>9, <1>10, <1>11, <1>12,
       <1>13, <1>14, <1>15, <1>16, <1>17, <1>18, <1>19, <1>20, <1>21, <1>22, <1>23,
       <1>24, <1>25, <1>26, <1>27
       DEF Next, HostStep, Gpu, Finished

-----------------------------------------------------------------------------
(* The call under way *)

LEMMA CallInit == Init => CallTyped /\ CallOK
  BY DEF Init, CallTyped, CallOK, Steps, Launching

LEMMA EnqueueCall ==
    ASSUME NEW op \in Steps, NEW next \in Steps, Enqueue(op, next),
           next \in Launching => op \in Launching
    PROVE  /\ CallTyped => CallTyped'
           /\ CallOK => CallOK'
  BY DEF CallTyped, CallOK, Enqueue, Steps, Launching

\* Every step of a host call but the first and the boundaries.
LEMMA CallKept ==
    ASSUME HostStep, ~Boundary
    PROVE  /\ CallTyped => CallTyped'
           /\ CallOK => CallOK'
  <1>1. CASE WaitInput
    BY <1>1, EnqueueCall DEF WaitInput, Steps, Launching
  <1>2. CASE UploadBindings
    BY <1>2, EnqueueCall DEF UploadBindings, Steps, Launching
  <1>3. CASE RecordConsumed
    BY <1>3, EnqueueCall DEF RecordConsumed, Steps, Launching
  <1>4. CASE CopyStaticInput
    BY <1>4, EnqueueCall DEF CopyStaticInput, Steps, Launching
  <1>5. CASE RecordStart
    BY <1>5, EnqueueCall DEF RecordStart, Steps, Launching
  <1>6. CASE Run
    BY <1>6, EnqueueCall DEF Run, AfterRun, Steps, Launching
  <1>7. CASE CopyStaticOutput
    BY <1>7, EnqueueCall DEF CopyStaticOutput, Steps, Launching
  <1>8. CASE RecordStop
    BY <1>8, EnqueueCall DEF RecordStop, Steps, Launching
  <1>9. CASE SignalOutput \/ Cleanup
    BY <1>9 DEF SignalOutput, Cleanup, CallTyped, CallOK, Steps, Launching
  <1>10. CASE ResetDrain \/ ResetClear \/ ResetSettle
    BY <1>10 DEF ResetDrain, ResetClear, ResetSettle, ResetReturns, CallTyped, CallOK,
       Steps, Launching
  <1> QED
    BY <1>1, <1>2, <1>3, <1>4, <1>5, <1>6, <1>7, <1>8, <1>9, <1>10 DEF HostStep

\* Steps that leave the call under way alone, or start none.
LEMMA CallSame ==
    ASSUME GetPerformanceStats \/ Reset \/ Destroy \/ Gpu \/ Producer \/ UNCHANGED vars
    PROVE  /\ CallTyped => CallTyped'
           /\ CallOK => CallOK'
  <1>1. CASE GetPerformanceStats \/ Reset \/ Destroy
    BY <1>1 DEF GetPerformanceStats, Reset, Destroy, CallTyped, CallOK, Steps, Launching
  <1>2. CASE Gpu \/ Producer \/ UNCHANGED vars
    <2>1. UNCHANGED <<phase, frame, stage, failed, call, pinned>>
      BY <1>2 DEF Gpu, GpuWait, GpuUpload, GpuRecordTiming, GpuPass, GpuCopyIn, GpuRun,
         GpuCopyOut, GpuSignal, Execute, Producer, SignalInput, vars, hostVars
    <2> QED
      BY <2>1 DEF CallTyped, CallOK
  <1> QED
    BY <1>1, <1>2

LEMMA CallTypedStep == TypeOK /\ CallTyped /\ [Next]_vars => CallTyped'
  <1> SUFFICES ASSUME TypeOK, CallTyped, [Next]_vars PROVE CallTyped'
    OBVIOUS
  <1>1. ASSUME NEW k \in Calls, NEW i \in BOOLEAN, NEW o \in BOOLEAN, Submit(k, i, o)
        PROVE  CallTyped'
    <2>1. frame' \in Frame /\ stage' < Stages
      BY <1>1, BoundsAssumption DEF Submit, TypeOK, Frame
    <2> QED
      BY <2>1 DEF CallTyped
  <1>2. CASE Boundary
    <2>1. phase' = "run" => stage' < Stages
      BY <1>2, BoundsAssumption DEF Boundary, AfterRun, TypeOK
    <2>2. phase' \in {"run", "copyout", "timing_stop", "idle"}
      BY <1>2 DEF Boundary, AfterRun
    <2>3. frame' = frame /\ phase \in Steps
      BY <1>2 DEF Boundary, Steps
    <2> QED
      BY <2>1, <2>2, <2>3 DEF CallTyped, Steps, Launching
  <1> QED
    BY <1>1, <1>2, CallKept, CallSame DEF Next, Finished

LEMMA CallStep == TypeOK /\ CallOK /\ ~RetryAfterFailure /\ [Next]_vars => CallOK'
  <1> SUFFICES ASSUME TypeOK, CallOK, ~RetryAfterFailure, [Next]_vars PROVE CallOK'
    OBVIOUS
  <1>1. ASSUME NEW k \in Calls, NEW i \in BOOLEAN, NEW o \in BOOLEAN, Submit(k, i, o)
        PROVE  CallOK'
    <2>1. ~failed' /\ call'.kind = k /\ k \in Calls
      BY <1>1 DEF Submit
    <2>2. pinned'[Table(k)] = frame'
      BY <1>1 DEF Submit, TypeOK, Table
    <2> QED
      BY <2>1, <2>2 DEF CallOK
  <1>2. CASE Boundary
    <2>1. phase' # "idle" => ~failed' /\ phase \in Steps
      BY <1>2 DEF Boundary, AfterRun, CallOK, Steps
    <2>2. UNCHANGED <<call, frame, pinned>> /\ "idle" \notin Steps
      BY <1>2 DEF Boundary, Steps
    <2> QED
      BY <2>1, <2>2 DEF CallOK
  <1> QED
    BY <1>1, <1>2, CallKept, CallSame DEF Next, Finished

-----------------------------------------------------------------------------
(* Positions in the stream *)

LEMMA PushIndex ==
    ASSUME TypeOK, NEW op \in Ops, Push(op)
    PROVE  /\ Len(stream) \in Nat
           /\ DOMAIN stream = 1 .. Len(stream)
           /\ DOMAIN stream' = 1 .. Len(stream) + 1
           /\ \A i \in 1 .. Len(stream) : stream'[i] = stream[i]
           /\ stream'[Len(stream) + 1].op = op
           /\ stream'[Len(stream) + 1].frame = frame
           /\ stream'[Len(stream) + 1].table = Table(call.kind)
  <1> DEFINE e == [op |-> op, frame |-> frame, table |-> Table(call.kind)]
  <1>1. stream \in Seq(Item) /\ e \in Item
    BY DEF TypeOK, Item, Table
  <1>2. stream' = Append(stream, e)
    BY DEF Push
  <1>3. stream'[Len(stream) + 1] = e
    BY <1>1, <1>2, AppendFacts
  <1> QED
    BY <1>1, <1>2, <1>3, AppendFacts

LEMMA PopIndex ==
    ASSUME TypeOK, NEW op \in Ops, Execute(op)
    PROVE  /\ Len(stream) \in Nat \ {0}
           /\ DOMAIN stream = 1 .. Len(stream)
           /\ DOMAIN stream' = 1 .. Len(stream) - 1
           /\ \A i \in 1 .. Len(stream) - 1 : stream'[i] = stream[i + 1]
           /\ Head(stream) = stream[1]
           /\ stream[1].op = op
  <1>1. stream \in Seq(Item)
    BY DEF TypeOK, Item
  <1>2. stream # <<>> /\ stream' = Tail(stream) /\ Head(stream).op = op
    BY DEF Execute
  <1> QED
    BY <1>1, <1>2, TailFacts

-----------------------------------------------------------------------------
(* One outstanding upload *)

NoUpload == \A i \in DOMAIN stream : ~Is(i, "upload")

\* A submission that passes the gate finds no copy of the pinned blocks queued.
LEMMA GateMeansNone ==
    ASSUME CallOK, GateHolds, ~RetryAfterFailure,
           NEW k \in Calls, NEW i \in BOOLEAN, NEW o \in BOOLEAN, Submit(k, i, o)
    PROVE  NoUpload
  <1>1. /\ phase = "idle" /\ ~failed
        /\ submitted => \A j \in DOMAIN stream : ~Is(j, "binding_consumed")
    BY DEF Submit, GateOpen, Ready, Enqueued, Is
  <1> QED
    BY <1>1 DEF NoUpload, GateHolds, Steps

\* Host steps other than the upload itself.
LEMMA OneUploadKept ==
    ASSUME TypeOK, OneUpload, UNCHANGED <<call, frame, pinned>>,
           phase' \in {"wait", "upload"} => phase \in {"wait", "upload"},
           \/ UNCHANGED stream
           \/ \E op \in Ops \ {"upload"} : Push(op)
    PROVE  OneUpload'
  <1>1. CASE UNCHANGED stream
    BY <1>1 DEF OneUpload, Is
  <1>2. ASSUME NEW op \in Ops \ {"upload"}, Push(op) PROVE OneUpload'
    <2>1. \A i \in DOMAIN stream' : Is(i, "upload")' =>
             i \in DOMAIN stream /\ Is(i, "upload") /\ stream'[i] = stream[i]
      BY <1>2, PushIndex DEF Is
    <2> QED
      BY <2>1 DEF OneUpload
  <1> QED
    BY <1>1, <1>2

LEMMA OneUploadPop ==
    ASSUME TypeOK, OneUpload, NEW op \in Ops, Execute(op)
    PROVE  OneUpload'
  <1>1. \A i \in DOMAIN stream' : Is(i, "upload")' =>
           i + 1 \in DOMAIN stream /\ Is(i + 1, "upload") /\ stream'[i] = stream[i + 1]
    BY PopIndex DEF Is
  <1>2. UNCHANGED <<phase, call, frame, pinned>>
    BY DEF Execute, hostVars
  <1>3. \A i, j \in DOMAIN stream' : Is(i, "upload")' /\ Is(j, "upload")' => i = j
    <2> TAKE i, j \in DOMAIN stream'
    <2> HAVE Is(i, "upload")' /\ Is(j, "upload")'
    <2>1. i + 1 = j + 1
      BY <1>1 DEF OneUpload
    <2>2. i \in Nat /\ j \in Nat
      BY PopIndex
    <2> QED
      BY <2>1, <2>2
  <1> QED
    BY <1>1, <1>2, <1>3 DEF OneUpload

\* A destroyed plan has nothing queued.
LEMMA CleanupEmpties ==
    ASSUME Cleanup
    PROVE  /\ UNCHANGED <<call, frame, stage, pinned, gpuVars, inputReady>>
           /\ stream' = <<>> /\ DOMAIN stream' = {}
           /\ phase' = "destroyed" /\ phase' \notin Steps
BY DEF Cleanup, Steps

\* Every step of the host but three has this shape.
LEMMA Shape ==
    ASSUME HostStep \/ GetPerformanceStats \/ Reset \/ Destroy, ~UploadBindings, ~Cleanup
    PROVE  /\ UNCHANGED <<call, frame, pinned, gpuVars, inputReady>>
           /\ phase' \in {"wait", "upload"} => phase \in {"wait", "upload"}
           /\ \/ UNCHANGED stream
              \/ \E op \in Ops \ {"upload"} : Push(op)
  <1>1. ASSUME NEW op \in Ops \ {"upload"}, NEW next, Enqueue(op, next),
               next \in {"wait", "upload"} => op = "wait"
        PROVE  /\ UNCHANGED <<call, frame, pinned, gpuVars, inputReady>>
               /\ phase' \in {"wait", "upload"} => phase \in {"wait", "upload"}
               /\ \/ UNCHANGED stream
                  \/ \E x \in Ops \ {"upload"} : Push(x)
    BY <1>1 DEF Enqueue
  <1>2. CASE WaitInput
    BY <1>1, <1>2 DEF WaitInput, Ops
  <1>3. CASE RecordConsumed
    BY <1>1, <1>3 DEF RecordConsumed, Ops, Events
  <1>4. CASE CopyStaticInput
    BY <1>1, <1>4 DEF CopyStaticInput, Ops
  <1>5. CASE RecordStart
    BY <1>1, <1>5 DEF RecordStart, Ops, Events
  <1>6. CASE Run
    BY <1>1, <1>6 DEF Run, AfterRun, Ops
  <1>7. CASE CopyStaticOutput
    BY <1>1, <1>7 DEF CopyStaticOutput, Ops
  <1>8. CASE RecordStop
    BY <1>1, <1>8 DEF RecordStop, Ops, Events
  <1>9. CASE Boundary
    BY <1>9 DEF Boundary, AfterRun
  <1>10. CASE SignalOutput
    BY <1>10 DEF SignalOutput, Ops
  <1>11. CASE ResetDrain \/ ResetSettle
    BY <1>11 DEF ResetDrain, ResetSettle, ResetReturns
  <1>12. CASE ResetClear
    BY <1>12 DEF ResetClear, ResetReturns, Ops
  <1>13. CASE GetPerformanceStats \/ Reset \/ Destroy
    BY <1>13 DEF GetPerformanceStats, Reset, Destroy
  <1> QED
    BY <1>2, <1>3, <1>4, <1>5, <1>6, <1>7, <1>8, <1>9, <1>10, <1>11, <1>12, <1>13
       DEF HostStep

\* The GPU's steps take the head of the stream and leave the host alone.
LEMMA GpuShape ==
    ASSUME Gpu
    PROVE  \E op \in Ops :
              /\ Execute(op)
              /\ op # "upload" => UNCHANGED device
              /\ op = "upload" => device' = [device EXCEPT
                    ![Head(stream).table] = pinned[Head(stream).table]]
              /\ op = "wait" => Head(stream).frame \in inputReady
  <1>1. CASE GpuWait
    BY <1>1 DEF GpuWait, gpuVars, Ops
  <1>2. CASE GpuUpload
    BY <1>2 DEF GpuUpload, Ops
  <1>3. CASE GpuPass
    BY <1>3 DEF GpuPass, gpuVars, Ops, Events
  <1>4. ASSUME NEW e \in {"timing_start", "timing_stop"}, GpuRecordTiming(e)
        PROVE  e \in Ops \ {"upload", "wait"} /\ Execute(e) /\ UNCHANGED device
    BY <1>4 DEF GpuRecordTiming, Ops, Events
  <1>5. CASE GpuCopyIn
    BY <1>5 DEF GpuCopyIn, Ops
  <1>6. CASE GpuRun
    BY <1>6 DEF GpuRun, Ops
  <1>7. CASE GpuCopyOut
    BY <1>7 DEF GpuCopyOut, Ops
  <1>8. CASE GpuSignal
    BY <1>8 DEF GpuSignal, Ops
  <1> QED
    BY <1>1, <1>2, <1>3, <1>4, <1>5, <1>6, <1>7, <1>8 DEF Gpu

LEMMA OneUploadStep ==
    TypeOK /\ CallOK /\ OneUpload /\ GateHolds /\ ~RetryAfterFailure /\ [Next]_vars
       => OneUpload'
  <1> SUFFICES ASSUME TypeOK, CallOK, OneUpload, GateHolds, ~RetryAfterFailure, [Next]_vars
               PROVE  OneUpload'
    OBVIOUS
  <1>1. ASSUME NEW k \in Calls, NEW i \in BOOLEAN, NEW o \in BOOLEAN, Submit(k, i, o)
        PROVE  OneUpload'
    <2>1. NoUpload /\ UNCHANGED stream
      BY <1>1, GateMeansNone DEF Submit
    <2> QED
      BY <2>1 DEF NoUpload, OneUpload, Is
  <1>2. CASE UploadBindings /\ Push("upload")
    <2>1. phase = "upload" /\ phase' = "binding_consumed" /\ UNCHANGED <<call, frame, pinned>>
      BY <1>2 DEF UploadBindings, Enqueue, Push, TypeOK
    <2>2. NoUpload
      BY <2>1 DEF NoUpload, OneUpload, Is
    <2>3. /\ call.kind \in Calls /\ pinned[Table(call.kind)] = frame
      BY <2>1 DEF CallOK, Steps
    <2>4. \A i \in DOMAIN stream' : Is(i, "upload")' => i = Len(stream) + 1
      BY <1>2, <2>2, PushIndex DEF NoUpload, Is, Ops
    <2>5. \A i \in DOMAIN stream' : Is(i, "upload")' =>
             stream'[i].frame = frame /\ stream'[i].table = Table(call.kind)
      BY <1>2, <2>4, PushIndex DEF Ops
    <2> QED
      BY <2>1, <2>3, <2>4, <2>5 DEF OneUpload
  <1>3. CASE UploadBindings /\ ~Push("upload")
    BY <1>3, OneUploadKept DEF UploadBindings, Enqueue
  <1>4. CASE (HostStep \/ GetPerformanceStats \/ Reset \/ Destroy) /\ ~UploadBindings /\ ~Cleanup
    BY <1>4, Shape, OneUploadKept
  <1>5. CASE Gpu
    BY <1>5, GpuShape, OneUploadPop
  <1>6. CASE Producer \/ UNCHANGED vars
    BY <1>6, OneUploadKept DEF Producer, SignalInput, vars, hostVars
  <1>7. CASE Cleanup
    BY <1>7, CleanupEmpties DEF OneUpload
  <1> QED
    BY <1>1, <1>2, <1>3, <1>4, <1>5, <1>6, <1>7 DEF Next, HostStep, Finished

-----------------------------------------------------------------------------
(* The gate *)

\* Pushing anything but an upload and keeping what closes the gate.
LEMMA GateKept ==
    ASSUME TypeOK, GateHolds, phase # "binding_consumed",
           failed => failed',
           submitted \/ phase \in Steps => failed' \/ submitted' \/ phase' \in Steps,
           \/ UNCHANGED stream
           \/ \E op \in Ops \ {"upload"} : Push(op)
    PROVE  GateHolds'
  <1>1. CASE UNCHANGED stream
    BY <1>1 DEF GateHolds, Is
  <1>2. ASSUME NEW op \in Ops \ {"upload"}, Push(op) PROVE GateHolds'
    <2>1. /\ \A i \in DOMAIN stream' : Is(i, "upload")' => i \in DOMAIN stream /\ Is(i, "upload")
          /\ \A j \in DOMAIN stream :
                j \in DOMAIN stream' /\ (Is(j, "binding_consumed") => Is(j, "binding_consumed")')
      BY <1>2, PushIndex DEF Is
    <2> QED
      BY <2>1 DEF GateHolds
  <1> QED
    BY <1>1, <1>2

LEMMA GatePop ==
    ASSUME TypeOK, GateHolds, NEW op \in Ops, Execute(op)
    PROVE  GateHolds'
  <1>1. UNCHANGED <<phase, failed, submitted>>
    BY DEF Execute, hostVars
  <1> SUFFICES ASSUME NEW i \in DOMAIN stream', Is(i, "upload")',
                      ~failed, phase # "binding_consumed"
               PROVE  /\ \E j \in DOMAIN stream' : i < j /\ Is(j, "binding_consumed")'
                      /\ submitted \/ phase \in Steps
    BY <1>1 DEF GateHolds
  <1>2. i + 1 \in DOMAIN stream /\ Is(i + 1, "upload")
    BY PopIndex DEF Is
  <1>3. PICK j \in DOMAIN stream : i + 1 < j /\ Is(j, "binding_consumed")
    BY <1>2 DEF GateHolds
  <1>4. j - 1 \in DOMAIN stream' /\ i < j - 1 /\ Is(j - 1, "binding_consumed")'
    BY <1>3, PopIndex DEF Is
  <1> QED
    BY <1>2, <1>4 DEF GateHolds

LEMMA GateStep ==
    TypeOK /\ CallOK /\ OneUpload /\ GateHolds /\ ~RetryAfterFailure /\ [Next]_vars
       => GateHolds'
  <1> SUFFICES ASSUME TypeOK, CallOK, OneUpload, GateHolds, ~RetryAfterFailure, [Next]_vars
               PROVE  GateHolds'
    OBVIOUS
  <1>1. ASSUME NEW k \in Calls, NEW i \in BOOLEAN, NEW o \in BOOLEAN, Submit(k, i, o)
        PROVE  GateHolds'
    <2>1. NoUpload /\ UNCHANGED stream
      BY <1>1, GateMeansNone DEF Submit
    <2> QED
      BY <2>1 DEF NoUpload, GateHolds, Is
  <1>2. CASE UploadBindings
    BY <1>2 DEF UploadBindings, Enqueue, GateHolds, Is
  <1>3. CASE RecordConsumed
    <2>1. phase = "binding_consumed" /\ (failed' \/ phase' \in Steps)
      BY <1>3 DEF RecordConsumed, Enqueue, Steps
    <2>2. CASE failed'
      BY <2>2 DEF GateHolds
    <2>3. CASE ~failed'
      <3>1. Push("binding_consumed") /\ "binding_consumed" \in Ops
        BY <1>3, <2>3 DEF RecordConsumed, Enqueue, Ops, Events
      <3>2. PICK n \in DOMAIN stream' : n = Len(stream) + 1
        BY <3>1, PushIndex
      <3>3. Is(n, "binding_consumed")'
        BY <3>1, <3>2, PushIndex DEF Is
      <3>4. \A i \in DOMAIN stream' : Is(i, "upload")' => i < n
        BY <3>1, <3>2, PushIndex DEF Is
      <3> QED
        BY <2>1, <2>3, <3>3, <3>4 DEF GateHolds
    <2> QED
      BY <2>2, <2>3
  <1>4. CASE WaitInput \/ CopyStaticInput \/ RecordStart \/ Run \/ CopyStaticOutput \/ RecordStop
    <2>1. /\ phase # "binding_consumed"
          /\ failed => failed'
          /\ failed' \/ phase' \in Steps
      BY <1>4 DEF WaitInput, CopyStaticInput, RecordStart, Run, AfterRun, CopyStaticOutput,
         RecordStop, Enqueue, Steps
    <2>2. /\ HostStep
          /\ ~UploadBindings /\ ~Cleanup
      BY <1>4 DEF HostStep, WaitInput, CopyStaticInput, RecordStart, Run, CopyStaticOutput,
         RecordStop, UploadBindings, Cleanup, Enqueue
    <2> QED
      BY <2>1, <2>2, Shape, GateKept
  <1>5. CASE Boundary \/ SignalOutput
    <2>1. /\ phase # "binding_consumed"
          /\ ~failed
          /\ failed' \/ submitted' \/ phase' \in Steps
      BY <1>5 DEF Boundary, AfterRun, SignalOutput, CallOK, Steps
    <2>2. HostStep /\ ~UploadBindings /\ ~Cleanup
      BY <1>5 DEF HostStep, Boundary, SignalOutput, UploadBindings, Cleanup, Enqueue
    <2> QED
      BY <2>1, <2>2, Shape, GateKept
  <1>6. CASE GetPerformanceStats \/ Reset \/ Destroy
    <2>1. /\ phase \notin Steps
          /\ UNCHANGED <<failed, submitted, stream>>
      BY <1>6 DEF GetPerformanceStats, Reset, Destroy, planVars, Steps
    <2> QED
      BY <2>1, GateKept DEF Steps
  <1>7. CASE ResetDrain \/ ResetClear
    <2>1. /\ phase \notin Steps
          /\ failed => failed'
          /\ failed' \/ UNCHANGED submitted
          /\ \/ UNCHANGED stream
             \/ \E op \in Ops \ {"upload"} : Push(op)
      BY <1>7 DEF ResetDrain, ResetClear, ResetReturns, Steps, Ops, TypeOK
    <2> QED
      BY <2>1, GateKept DEF Steps
  <1>8. CASE ResetSettle
    <2>1. failed' \/ stream' = <<>>
      BY <1>8 DEF ResetSettle, ResetReturns
    <2> QED
      BY <2>1 DEF GateHolds
  <1>9. CASE Gpu
    BY <1>9, GpuShape, GatePop
  <1>10. CASE Producer \/ UNCHANGED vars
    BY <1>10 DEF Producer, SignalInput, vars, hostVars, GateHolds, Is
  <1>11. CASE Cleanup
    BY <1>11, CleanupEmpties DEF GateHolds
  <1> QED
    BY <1>1, <1>2, <1>3, <1>4, <1>5, <1>6, <1>7, <1>8, <1>9, <1>10, <1>11
       DEF Next, HostStep, Finished

-----------------------------------------------------------------------------
(* What the kernels will read *)

\* A host step that keeps the binding tables, the frame and the inputs.
LEMMA CallBackedKept ==
    ASSUME TypeOK, CallBacked, UNCHANGED <<call, frame, device, inputReady>>,
           phase' \in Uploaded => phase \in Uploaded,
           phase' \in Steps \ {"wait"} => phase \in Steps \ {"wait"},
           \/ UNCHANGED stream
           \/ \E op \in Ops : Push(op)
    PROVE  CallBacked'
  <1>1. CASE UNCHANGED stream
    BY <1>1 DEF CallBacked, Is
  <1>2. ASSUME NEW op \in Ops, Push(op) PROVE CallBacked'
    <2>1. \A i \in DOMAIN stream :
             /\ i \in DOMAIN stream' /\ stream'[i] = stream[i]
             /\ \A x \in Ops : Is(i, x) => Is(i, x)'
      BY <1>2, PushIndex DEF Is
    <2> QED
      BY <2>1 DEF CallBacked, Ops
  <1> QED
    BY <1>1, <1>2

LEMMA CallBackedPop ==
    ASSUME TypeOK, OneUpload, CallBacked, Gpu
    PROVE  CallBacked'
  <1>1. PICK op \in Ops :
              /\ Execute(op)
              /\ op # "upload" => UNCHANGED device
              /\ op = "upload" => device' = [device EXCEPT
                    ![Head(stream).table] = pinned[Head(stream).table]]
              /\ op = "wait" => Head(stream).frame \in inputReady
    BY GpuShape
  <1>2. UNCHANGED <<phase, call, frame, pinned, inputReady>>
    BY <1>1 DEF Execute, hostVars
  <1>3. \A i \in DOMAIN stream : i # 1 =>
           i - 1 \in DOMAIN stream' /\ stream'[i - 1] = stream[i]
    BY <1>1, PopIndex
  <1>4. ASSUME phase \in Uploaded
        PROVE  \/ \E i \in DOMAIN stream' : Is(i, "upload")'
               \/ device'[Table(call.kind)] = frame
    <2>1. CASE op = "upload"
      <3>1. /\ Head(stream).table = Table(call.kind)
            /\ pinned[Table(call.kind)] = frame
        BY <1>1, <2>1, PopIndex DEF OneUpload, Is
      <3> QED
        BY <1>1, <2>1, <3>1 DEF TypeOK, Table
    <2>2. CASE op # "upload"
      <3>1. UNCHANGED device
        BY <1>1, <2>2
      <3>2. ASSUME NEW i \in DOMAIN stream, Is(i, "upload")
            PROVE  i - 1 \in DOMAIN stream' /\ Is(i - 1, "upload")'
        BY <1>1, <1>3, <2>2, <3>2, PopIndex DEF Is
      <3> QED
        BY <1>4, <3>1, <3>2 DEF CallBacked
    <2> QED
      BY <2>1, <2>2
  <1>5. ASSUME phase \in Steps \ {"wait"}, frame \notin inputReady
        PROVE  \E i \in DOMAIN stream' : Is(i, "wait")' /\ stream'[i].frame = frame
    <2>1. PICK i \in DOMAIN stream : Is(i, "wait") /\ stream[i].frame = frame
      BY <1>5 DEF CallBacked
    <2>2. i # 1
      BY <1>1, <1>5, <2>1, PopIndex DEF Is
    <2>3. i - 1 \in DOMAIN stream' /\ stream'[i - 1] = stream[i]
      BY <1>3, <2>2
    <2> QED
      BY <2>1, <2>3 DEF Is
  <1> QED
    BY <1>2, <1>4, <1>5 DEF CallBacked

LEMMA CallBackedStep ==
    TypeOK /\ CallOK /\ OneUpload /\ CallBacked /\ [Next]_vars => CallBacked'
  <1> SUFFICES ASSUME TypeOK, CallOK, OneUpload, CallBacked, [Next]_vars
               PROVE  CallBacked'
    OBVIOUS
  <1>1. ASSUME NEW k \in Calls, NEW i \in BOOLEAN, NEW o \in BOOLEAN, Submit(k, i, o)
        PROVE  CallBacked'
    <2>1. phase' \in {"wait", "upload"} /\ (phase' = "upload" => frame' \in inputReady')
      BY <1>1 DEF Submit
    <2> QED
      BY <2>1 DEF CallBacked, Uploaded
  <1>2. CASE WaitInput
    <2>1. CASE phase' = "idle"
      BY <2>1 DEF CallBacked, Uploaded, Steps
    <2>2. CASE phase' # "idle"
      <3>1. Push("wait") /\ phase' = "upload" /\ UNCHANGED <<call, frame>>
        BY <1>2, <2>2 DEF WaitInput, Enqueue
      <3>2. PICK n \in DOMAIN stream' : n = Len(stream) + 1
        BY <3>1, PushIndex DEF Ops
      <3>3. Is(n, "wait")' /\ stream'[n].frame = frame
        BY <3>1, <3>2, PushIndex DEF Is, Ops
      <3> QED
        BY <3>1, <3>3 DEF CallBacked, Uploaded
    <2> QED
      BY <2>1, <2>2
  <1>3. CASE UploadBindings
    <2>1. CASE phase' = "idle"
      BY <2>1 DEF CallBacked, Uploaded, Steps
    <2>2. CASE phase' # "idle"
      <3>1. /\ Push("upload") /\ phase = "upload"
            /\ UNCHANGED <<call, frame, device, inputReady>>
        BY <1>3, <2>2 DEF UploadBindings, Enqueue, gpuVars
      <3>2. PICK n \in DOMAIN stream' : n = Len(stream) + 1
        BY <3>1, PushIndex DEF Ops
      <3>3. Is(n, "upload")'
        BY <3>1, <3>2, PushIndex DEF Is, Ops
      <3>4. \/ frame \in inputReady
            \/ \E i \in DOMAIN stream : Is(i, "wait") /\ stream[i].frame = frame
        BY <3>1 DEF CallBacked, Steps
      <3>5. \A i \in DOMAIN stream : Is(i, "wait") =>
               i \in DOMAIN stream' /\ Is(i, "wait")' /\ stream'[i] = stream[i]
        BY <3>1, PushIndex DEF Is, Ops
      <3> QED
        BY <3>1, <3>3, <3>4, <3>5 DEF CallBacked
    <2> QED
      BY <2>1, <2>2
  <1>4. CASE (HostStep \/ GetPerformanceStats \/ Reset \/ Destroy)
                /\ ~UploadBindings /\ ~WaitInput /\ ~Cleanup
    <2>1. /\ phase' \in Uploaded => phase \in Uploaded
          /\ phase' \in Steps \ {"wait"} => phase \in Steps \ {"wait"}
      BY <1>4 DEF HostStep, GetPerformanceStats, Reset, Destroy, RecordConsumed,
         CopyStaticInput, RecordStart, Run, AfterRun, Boundary, CopyStaticOutput, RecordStop,
         SignalOutput, ResetDrain, ResetClear, ResetSettle, ResetReturns, Enqueue,
         Uploaded, Steps
    <2>2. UNCHANGED <<call, frame, device, inputReady>>
      BY <1>4, Shape DEF gpuVars
    <2> QED
      BY <1>4, <2>1, <2>2, Shape, CallBackedKept
  <1>5. CASE Gpu
    BY <1>5, CallBackedPop
  <1>6. CASE Producer
    <2>1. /\ inputReady \subseteq inputReady'
          /\ UNCHANGED <<phase, call, frame, device, stream>>
      BY <1>6 DEF Producer, SignalInput, hostVars, gpuVars
    <2> QED
      BY <2>1 DEF CallBacked, Is
  <1>7. CASE UNCHANGED vars
    BY <1>7 DEF vars, hostVars, gpuVars, CallBacked, Is
  <1>8. CASE Cleanup
    BY <1>8, CleanupEmpties DEF CallBacked, Uploaded, Steps
  <1> QED
    BY <1>1, <1>2, <1>3, <1>4, <1>5, <1>6, <1>7, <1>8 DEF Next, HostStep, Finished

-----------------------------------------------------------------------------
(* What every launch stands behind *)

\* Everything but the launch itself, seen from the host.
LEMMA RunsKept ==
    ASSUME TypeOK, RunsBacked, UNCHANGED <<device, inputReady>>,
           \/ UNCHANGED stream
           \/ \E op \in Ops \ {"run"} : Push(op)
    PROVE  RunsBacked'
  <1>1. CASE UNCHANGED stream
    BY <1>1 DEF RunsBacked, UploadBehind, InputBehind, Is
  <1>2. ASSUME NEW op \in Ops \ {"run"}, Push(op),
               NEW i \in DOMAIN stream', Is(i, "run")'
        PROVE  UploadBehind(i)' /\ InputBehind(i)'
    <2>1. i \in DOMAIN stream /\ Is(i, "run") /\ stream'[i] = stream[i]
      BY <1>2, PushIndex DEF Is
    <2>2. \A j \in DOMAIN stream' : j < i =>
             j \in DOMAIN stream /\ stream'[j] = stream[j]
      BY <1>2, <2>1, PushIndex
    <2>3. \A j \in DOMAIN stream : j \in DOMAIN stream' /\ stream'[j] = stream[j]
      BY <1>2, PushIndex
    <2>4. UploadBehind(i) /\ InputBehind(i)
      BY <2>1 DEF RunsBacked
    <2>5. UploadBehind(i)'
      BY <2>1, <2>2, <2>3, <2>4 DEF UploadBehind, Is
    <2>6. InputBehind(i)'
      BY <2>1, <2>3, <2>4 DEF InputBehind, Is
    <2> QED
      BY <2>5, <2>6
  <1> QED
    BY <1>1, <1>2 DEF RunsBacked

\* The launch: its upload and its input are what the call stands behind.
LEMMA RunsPush ==
    ASSUME TypeOK, CallOK, OneUpload, CallBacked, RunsBacked, ~StaticIO,
           phase = "run", Push("run"), UNCHANGED <<device, inputReady>>
    PROVE  RunsBacked'
  <1>1. SUFFICES ASSUME NEW i \in DOMAIN stream', Is(i, "run")'
                 PROVE  UploadBehind(i)' /\ InputBehind(i)'
    BY DEF RunsBacked
  <1>2. \A j \in DOMAIN stream : j \in DOMAIN stream' /\ stream'[j] = stream[j] /\ j \in Nat
    BY PushIndex DEF Ops
  <1>3. \A j \in DOMAIN stream' : j < i => j \in DOMAIN stream /\ stream'[j] = stream[j]
    BY PushIndex DEF Ops
  <1>4. CASE i \in DOMAIN stream
    <2>1. Is(i, "run") /\ stream'[i] = stream[i]
      BY <1>1, <1>2, <1>4 DEF Is
    <2>2. UploadBehind(i) /\ InputBehind(i)
      BY <1>4, <2>1 DEF RunsBacked
    <2>3. UploadBehind(i)'
      BY <1>2, <1>3, <2>1, <2>2 DEF UploadBehind, Is
    <2>4. InputBehind(i)'
      BY <1>2, <2>1, <2>2 DEF InputBehind, Is
    <2> QED
      BY <2>3, <2>4
  <1>5. CASE i \notin DOMAIN stream
    <2>1. /\ stream'[i].frame = frame
          /\ \A j \in DOMAIN stream : j < i
      BY <1>1, <1>5, PushIndex DEF Ops
    <2>2. device[Table(call.kind)] = device[GraphTable]
      BY MatchAssumption DEF CallOK, Steps
    <2>3. UploadBehind(i)'
      <3>1. CASE \E j \in DOMAIN stream : Is(j, "upload")
        <4>1. PICK j \in DOMAIN stream : Is(j, "upload")
          BY <3>1
        <4>2. stream[j].frame = frame
          BY <4>1 DEF OneUpload
        <4>3. j \in DOMAIN stream' /\ j < i /\ Is(j, "upload")' /\ stream'[j].frame = frame
          BY <1>2, <2>1, <4>1, <4>2 DEF Is
        <4> QED
          BY <2>1, <4>3 DEF UploadBehind
      <3>2. CASE ~ \E j \in DOMAIN stream : Is(j, "upload")
        <4>1. device'[GraphTable] = frame
          BY <2>2, <3>2 DEF CallBacked, Uploaded
        <4>2. \A j \in DOMAIN stream' : j < i => ~Is(j, "upload")'
          BY <1>3, <3>2 DEF Is
        <4> QED
          BY <2>1, <4>1, <4>2 DEF UploadBehind
      <3> QED
        BY <3>1, <3>2
    <2>4. InputBehind(i)'
      <3>1. \/ frame \in inputReady
            \/ \E j \in DOMAIN stream : Is(j, "wait") /\ stream[j].frame = frame
        BY DEF CallBacked, Steps
      <3> QED
        BY <1>2, <2>1, <3>1 DEF InputBehind, Is
    <2> QED
      BY <2>3, <2>4
  <1> QED
    BY <1>4, <1>5

\* The GPU takes the head: an upload goes to the table, a wait is over.
LEMMA RunsPop ==
    ASSUME TypeOK, OneUpload, RunsBacked, ~StaticIO, Gpu
    PROVE  RunsBacked'
  <1>1. PICK op \in Ops :
              /\ Execute(op)
              /\ op # "upload" => UNCHANGED device
              /\ op = "upload" => device' = [device EXCEPT
                    ![Head(stream).table] = pinned[Head(stream).table]]
              /\ op = "wait" => Head(stream).frame \in inputReady
    BY GpuShape
  <1>2. UNCHANGED <<frame, inputReady>>
    BY <1>1 DEF Execute, hostVars
  <1>3. SUFFICES ASSUME NEW i \in DOMAIN stream', Is(i, "run")'
                 PROVE  UploadBehind(i)' /\ InputBehind(i)'
    BY DEF RunsBacked
  <1>succ. \A j \in DOMAIN stream' : j \in Nat /\ j + 1 \in DOMAIN stream /\ stream'[j] = stream[j + 1]
    BY <1>1, PopIndex
  <1>pred. \A j \in DOMAIN stream : j # 1 =>
           j \in Nat /\ j - 1 \in DOMAIN stream' /\ stream'[j - 1] = stream[j]
    BY <1>1, PopIndex
  <1>4. /\ 1 \in DOMAIN stream
        /\ Head(stream) = stream[1] /\ stream[1].op = op
    BY <1>1, PopIndex
  <1>5. /\ Is(i + 1, "run") /\ stream'[i] = stream[i + 1]
        /\ UploadBehind(i + 1) /\ InputBehind(i + 1)
    BY <1>3, <1>succ DEF RunsBacked, Is
  <1>6. InputBehind(i)'
    <2>1. CASE stream[i + 1].frame \in inputReady
      BY <1>2, <1>5, <2>1 DEF InputBehind
    <2>2. CASE stream[i + 1].frame \notin inputReady
      <3>1. PICK j \in DOMAIN stream :
               j < i + 1 /\ Is(j, "wait") /\ stream[j].frame = stream[i + 1].frame
        BY <1>5, <2>2 DEF InputBehind
      <3>2. j # 1
        BY <1>1, <1>4, <2>2, <3>1 DEF Is
      <3>3. j - 1 \in DOMAIN stream' /\ stream'[j - 1] = stream[j] /\ j - 1 < i
        BY <1>succ, <1>pred, <3>1, <3>2
      <3> QED
        BY <1>5, <3>1, <3>3 DEF InputBehind, Is
    <2> QED
      BY <2>1, <2>2
  <1>7. UploadBehind(i)'
    <2>1. CASE op = "upload"
      <3>1. Is(1, "upload")
        BY <1>4, <2>1 DEF Is
      <3>2. \A j \in DOMAIN stream' : ~Is(j, "upload")'
        <4> TAKE j \in DOMAIN stream'
        <4>1. j \in Nat /\ j + 1 \in DOMAIN stream /\ stream'[j] = stream[j + 1]
          BY <1>succ
        <4>2. j + 1 # 1 \/ ~(j \in Nat \ {0})
          BY <4>1
        <4>3. j # 0
          BY <1>1, PopIndex
        <4> QED
          BY <1>4, <3>1, <4>1, <4>2, <4>3 DEF OneUpload, Is
      <3>3. stream[1].frame = stream[i + 1].frame
        <4>1. 1 < i + 1
          BY <1>1, PopIndex
        <4>2. PICK j \in DOMAIN stream : Is(j, "upload") /\ stream[j].frame = stream[i + 1].frame
          BY <1>4, <1>5, <3>1, <4>1 DEF UploadBehind
        <4>3. j = 1
          BY <1>4, <3>1, <4>2 DEF OneUpload
        <4> QED
          BY <4>2, <4>3
      <3>4. stream[1].table = GraphTable /\ pinned[GraphTable] = stream[1].frame
        BY <1>4, <3>1, MatchAssumption DEF OneUpload
      <3>5. device'[GraphTable] = stream[1].frame
        <4>1. device' = [device EXCEPT ![GraphTable] = pinned[GraphTable]]
          BY <1>1, <1>4, <2>1, <3>4
        <4>2. GraphTable \in DOMAIN device
          BY CallsAssumption DEF TypeOK
        <4> QED
          BY <3>4, <4>1, <4>2
      <3> QED
        BY <1>5, <3>2, <3>3, <3>5 DEF UploadBehind
    <2>2. CASE op # "upload"
      <3>1. UNCHANGED device /\ ~Is(1, "upload")
        BY <1>1, <1>4, <2>2 DEF Is
      <3>2. CASE \E j \in DOMAIN stream :
                    j < i + 1 /\ Is(j, "upload") /\ stream[j].frame = stream[i + 1].frame
        <4>1. PICK j \in DOMAIN stream :
                 j < i + 1 /\ Is(j, "upload") /\ stream[j].frame = stream[i + 1].frame
          BY <3>2
        <4>2. j - 1 \in DOMAIN stream' /\ stream'[j - 1] = stream[j] /\ j - 1 < i
          BY <1>succ, <1>pred, <3>1, <4>1
        <4> QED
          BY <1>5, <4>1, <4>2 DEF UploadBehind, Is
      <3>3. CASE /\ \A j \in DOMAIN stream : j < i + 1 => ~Is(j, "upload")
                 /\ device[GraphTable] = stream[i + 1].frame
        <4>1. \A j \in DOMAIN stream' : j < i => ~Is(j, "upload")'
          BY <1>succ, <3>3 DEF Is
        <4> QED
          BY <1>5, <3>1, <3>3, <4>1 DEF UploadBehind
      <3> QED
        BY <1>5, <3>2, <3>3 DEF UploadBehind
    <2> QED
      BY <2>1, <2>2
  <1> QED
    BY <1>6, <1>7

LEMMA RunsStep ==
    TypeOK /\ CallOK /\ OneUpload /\ CallBacked /\ RunsBacked /\ ~StaticIO /\ [Next]_vars
       => RunsBacked'
  <1> SUFFICES ASSUME TypeOK, CallOK, OneUpload, CallBacked, RunsBacked, ~StaticIO,
                      [Next]_vars
               PROVE  RunsBacked'
    OBVIOUS
  <1>1. ASSUME NEW k \in Calls, NEW i \in BOOLEAN, NEW o \in BOOLEAN, Submit(k, i, o)
        PROVE  RunsBacked'
    BY <1>1, RunsKept DEF Submit, gpuVars
  <1>2. CASE Run
    <2>1. CASE phase' = "idle"
      BY <1>2, <2>1, RunsKept DEF Run, AfterRun, Enqueue, gpuVars
    <2>2. CASE phase' # "idle"
      BY <1>2, <2>2, RunsPush DEF Run, Enqueue, gpuVars
    <2> QED
      BY <2>1, <2>2
  <1>3. CASE UploadBindings
    BY <1>3, RunsKept DEF UploadBindings, Enqueue, gpuVars, Ops
  <1>4. CASE (HostStep \/ GetPerformanceStats \/ Reset \/ Destroy)
                /\ ~UploadBindings /\ ~Run /\ ~Cleanup
    <2>1. UNCHANGED <<device, inputReady>>
      BY <1>4, Shape DEF gpuVars
    <2>2. \/ UNCHANGED stream
          \/ \E op \in Ops \ {"run"} : Push(op)
      BY <1>4 DEF HostStep, GetPerformanceStats, Reset, Destroy, WaitInput, RecordConsumed,
         CopyStaticInput, RecordStart, Boundary, CopyStaticOutput, RecordStop, SignalOutput,
         ResetDrain, ResetClear, ResetSettle, ResetReturns, Enqueue, Ops, Events
    <2> QED
      BY <2>1, <2>2, RunsKept
  <1>5. CASE Gpu
    BY <1>5, RunsPop
  <1>6. CASE Producer
    <2>1. inputReady \subseteq inputReady' /\ UNCHANGED <<device, stream>>
      BY <1>6 DEF Producer, SignalInput, gpuVars
    <2> QED
      BY <2>1 DEF RunsBacked, UploadBehind, InputBehind, Is
  <1>7. CASE UNCHANGED vars
    BY <1>7, RunsKept DEF vars, gpuVars
  <1>8. CASE Cleanup
    BY <1>8, CleanupEmpties DEF RunsBacked
  <1> QED
    BY <1>1, <1>2, <1>3, <1>4, <1>5, <1>6, <1>7, <1>8 DEF Next, HostStep, Finished

-----------------------------------------------------------------------------
(* The theorems *)

LEMMA InductiveInit == Init => Inductive
  <1> SUFFICES ASSUME Init PROVE Inductive
    OBVIOUS
  <1>1. stream = <<>> /\ phase = "idle"
    BY DEF Init
  <1>2. OneUpload /\ GateHolds /\ RunsBacked
    BY <1>1 DEF OneUpload, GateHolds, RunsBacked, Is
  <1>3. CallBacked
    BY <1>1 DEF CallBacked, Uploaded, Steps
  <1> QED
    BY <1>2, <1>3, TypeInit, CallInit DEF Inductive

LEMMA InductiveStep ==
    ~RetryAfterFailure /\ Inductive /\ [Next]_vars => Inductive'
  BY TypeStep, CallTypedStep, CallStep, OneUploadStep, GateStep, CallBackedStep, RunsStep DEF Inductive

\* The plan's state is well typed whatever the caller does after a failure: the
\* frame counter and the boundary counter keep their bounds.
THEOREM TypeCorrect == Spec => []TypeOK
  <1>1. Init => TypeOK /\ CallTyped
    BY TypeInit, CallInit
  <1>2. TypeOK /\ CallTyped /\ [Next]_vars => (TypeOK /\ CallTyped)'
    BY TypeStep, CallTypedStep
  <1> QED
    BY <1>1, <1>2, PTL DEF Spec

\* A caller that stops after a failed call, or resets the plan first, keeps the
\* whole invariant, whatever fails and however the GPU and the producer run.
THEOREM PlanInvariant ==
    ASSUME ~RetryAfterFailure
    PROVE  Spec => []Inductive
  <1>1. Inductive /\ [Next]_vars => Inductive'
    BY InductiveStep
  <1> QED
    BY <1>1, InductiveInit, PTL DEF Spec

\* nrPlanSubmit and submit_v3 rewrite the pinned block only when no copy out of
\* it is queued.
THEOREM PinnedIsImmutable ==
    ASSUME ~RetryAfterFailure
    PROVE  Spec => PinnedBlockImmutable
  <1> DEFINE Kept == \A t \in {2, 3} : pinned'[t] # pinned[t] =>
                ~ \E i \in DOMAIN stream : stream[i].op = "upload" /\ stream[i].table = t
  <1>1. Inductive /\ [Next]_vars => [Kept]_vars
    <2> SUFFICES ASSUME Inductive, [Next]_vars PROVE Kept
      OBVIOUS
    <2>1. ASSUME NEW k \in Calls, NEW i \in BOOLEAN, NEW o \in BOOLEAN, Submit(k, i, o)
          PROVE  Kept
      BY <2>1, GateMeansNone DEF Inductive, NoUpload, Is
    <2>2. CASE UNCHANGED pinned
      BY <2>2
    <2>3. (\E k \in Calls, i, o \in BOOLEAN : Submit(k, i, o)) \/ UNCHANGED pinned
      BY Shape, CleanupEmpties, GpuShape DEF Next, UploadBindings, Enqueue, Execute, Producer, SignalInput,
         Finished, vars, hostVars
    <2> QED
      BY <2>1, <2>2, <2>3
  <1>2. Spec => []Inductive
    BY PlanInvariant
  <1> QED
    BY <1>1, <1>2, PTL DEF Spec, PinnedBlockImmutable

\* The kernels of a frame read that frame's bindings and its finished input.
THEOREM FramesAreIsolated ==
    ASSUME ~RetryAfterFailure, ~StaticIO
    PROVE  Spec => []FrameIsolation
  <1>1. Inductive => FrameIsolation
    <2> SUFFICES ASSUME Inductive, stream # <<>>, Head(stream).op = "run"
                 PROVE  /\ device[GraphTable] = Head(stream).frame
                        /\ Head(stream).frame \in inputReady
      BY DEF FrameIsolation
    <2>1. /\ 1 \in DOMAIN stream /\ Head(stream) = stream[1]
          /\ \A j \in DOMAIN stream : ~(j < 1)
      <3>1. stream \in Seq(Item)
        BY DEF Inductive, TypeOK, Item
      <3> QED
        BY <3>1, TailFacts
    <2>2. UploadBehind(1) /\ InputBehind(1)
      BY <2>1 DEF Inductive, RunsBacked, Is
    <2> QED
      BY <2>1, <2>2 DEF UploadBehind, InputBehind
  <1>2. Spec => []Inductive
    BY PlanInvariant
  <1> QED
    BY <1>1, <1>2, PTL
=============================================================================
