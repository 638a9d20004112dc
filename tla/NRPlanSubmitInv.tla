-------------------------- MODULE NRPlanSubmitInv ---------------------------
(***************************************************************************)
(* The inductive invariant behind PinnedBlockImmutable and FrameIsolation,  *)
(* for callers that do not submit again after a failed call.  It says where *)
(* the one outstanding copy of the pinned block is in the stream, what will *)
(* close the gate until it has run, and that every launch stands behind the *)
(* upload and the wait of its own frame.                                    *)
(***************************************************************************)
EXTENDS NRPlanSubmit

Is(i, op) == i \in DOMAIN stream /\ stream[i].op = op

\* Steps of a submission that has uploaded its bindings, and steps that come
\* before its last launch.
Uploaded == {"binding_consumed", "copyin", "timing_start", "run", "boundary",
             "copyout", "timing_stop", "signal"}
Launching == Steps \ {"copyout", "timing_stop", "signal"}

\* A submission under way is one of the frames, with boundaries left to pass.
CallTyped ==
    /\ phase \in Steps => frame \in Frame
    /\ phase \in Launching => stage < Stages

\* Its caller had seen no error, and the pinned block of its table is its own.
CallOK ==
    phase \in Steps =>
       /\ ~failed
       /\ call.kind \in Calls
       /\ pinned[Table(call.kind)] = frame

\* At most one copy of a pinned block is queued: the latest frame's.
OneUpload ==
    /\ \A i, j \in DOMAIN stream : Is(i, "upload") /\ Is(j, "upload") => i = j
    /\ \A i \in DOMAIN stream : Is(i, "upload") =>
          /\ phase \notin {"wait", "upload"}
          /\ call.kind \in Calls
          /\ stream[i].frame = frame
          /\ stream[i].table = Table(call.kind)
          /\ pinned[Table(call.kind)] = frame

\* While it is queued, the test of the next submission fails, or there is none.
GateHolds ==
    \A i \in DOMAIN stream : Is(i, "upload") =>
       \/ failed
       \/ phase = "binding_consumed"
       \/ /\ \E j \in DOMAIN stream : i < j /\ Is(j, "binding_consumed")
          /\ submitted \/ phase \in Steps

\* What the launch about to be enqueued stands behind.
CallBacked ==
    /\ phase \in Uploaded =>
          \/ \E i \in DOMAIN stream : Is(i, "upload")
          \/ device[Table(call.kind)] = frame
    /\ phase \in Steps \ {"wait"} =>
          \/ frame \in inputReady
          \/ \E i \in DOMAIN stream : Is(i, "wait") /\ stream[i].frame = frame

\* What the launch enqueued at i stands behind: its own upload, still queued or
\* executed with none since, and its own input.
UploadBehind(i) ==
    \/ \E j \in DOMAIN stream : j < i /\ Is(j, "upload") /\ stream[j].frame = stream[i].frame
    \/ /\ \A j \in DOMAIN stream : j < i => ~Is(j, "upload")
       /\ device[GraphTable] = stream[i].frame

InputBehind(i) ==
    \/ stream[i].frame \in inputReady
    \/ \E j \in DOMAIN stream : j < i /\ Is(j, "wait") /\ stream[j].frame = stream[i].frame

RunsBacked ==
    \A i \in DOMAIN stream : Is(i, "run") => UploadBehind(i) /\ InputBehind(i)

Inductive ==
    /\ TypeOK
    /\ CallTyped
    /\ CallOK
    /\ OneUpload
    /\ GateHolds
    /\ CallBacked
    /\ ~StaticIO => RunsBacked
=============================================================================
