---------------------------- MODULE NativePreview ----------------------------
(***************************************************************************)
(* The native preview: the ReShade callback of tools/native_reshade that     *)
(* replaces frames by the network's, the Bridge it shares with the worker    *)
(* process (tools/native_frame_bridge), the worker (native_gpu_worker.py)    *)
(* and the two GPU queues.                                                   *)
(*                                                                         *)
(* One thread of the game runs the callback and blocks in it; the worker is  *)
(* another process; pipes carry metadata, two shared buffers the pixels, and *)
(* two fences order the GPU work.  The Direct3D queue is the game's own.     *)
(* Any wait may time out while the GPU or the worker goes on: nothing is     *)
(* cancelled, and the session must never act again.                          *)
(***************************************************************************)
EXTENDS Integers, Sequences, FiniteSets

CONSTANTS
    MaxFrames,      \* bound: frames the game renders
    Limit,          \* NR_PREVIEW_FRAMES: frames the network replaces
    Scenarios       \* bound: the sets of FailureKinds a session may meet

\* A Direct3D call or a check of the callback fails; a wait of the host or of
\* the worker ends before its event; the worker raises an exception.
FailureKinds == {"d3d", "timeout", "worker"}

ASSUME BoundsAssumption == MaxFrames \in Nat \ {0} /\ Limit \in Nat \ {0}
ASSUME ScenariosAssumption == Scenarios \subseteq SUBSET FailureKinds

Raw(n) == [frame |-> n, net |-> FALSE]
Net(n) == [frame |-> n, net |-> TRUE]
Image == [frame : 0 .. MaxFrames, net : BOOLEAN]

HostPhases == {"game", "effects", "hello", "launched", "prepared", "input", "decoded",
               "texture", "submitted", "frame", "done", "receive", "received", "output",
               "encoded", "consumed", "released", "close", "closed", "exit", "present"}
WorkerPhases == {"none", "start", "prepare", "loop", "input", "network", "copied",
                 "closing", "exited", "dead"}
\* Command lists recorded in the bridge's one allocator.
Lists == {"decode", "tobuffer", "fromoutput", "encode"}
Item(op, n) == [op |-> op, n |-> n]
Message(op, s) == [op |-> op, sequence |-> s]

VARIABLES
    mayFail,        \* the kinds of failure of this session
    phase,          \* where the game's thread is
    frame,          \* frame the game renders
    failed, finished, frames,               \* addon.cpp
    state, seq, hostValue,                  \* Bridge
    freed,          \* bridge.close() and delete surface released everything
    queue,          \* the game's Direct3D queue
    target,         \* the game's effect target
    texture,        \* Bridge::texture
    inputBuffer, outputBuffer,              \* shared heaps
    inputFence, outputFence, hostFence,     \* completed values
    presented,      \* images shown
    toWorker, toHost,                       \* pipes
    worker,         \* where the worker is
    commands, sequence,                     \* Commands.state and .sequence
    remote,         \* Remote::state
    stream,         \* the worker's HIP stream
    value, pending  \* the worker's input tensor and pending_output

addon == <<failed, finished, frames>>
bridge == <<state, seq, hostValue, freed>>
d3d == <<target, texture, inputBuffer, inputFence, hostFence, presented>>
pipes == <<toWorker, toHost>>
process == <<worker, commands, sequence, remote>>
hip == <<value, pending, outputBuffer, outputFence>>
vars == <<mayFail, phase, frame, addon, bridge, queue, d3d, pipes, process, stream, hip>>

TypeOK ==
    /\ mayFail \in Scenarios
    /\ phase \in HostPhases
    /\ frame \in 0 .. MaxFrames
    /\ failed \in BOOLEAN /\ finished \in BOOLEAN /\ freed \in BOOLEAN
    /\ frames \in 0 .. Limit
    /\ state \in -1 .. 4 /\ remote \in 0 .. 2
    /\ seq \in Nat /\ hostValue \in Nat /\ sequence \in Nat
    /\ queue \in Seq([op : Lists \cup {"draw", "present", "ready", "host"}, n : Nat])
    /\ stream \in Seq([op : {"wait", "copyin", "network", "copyout", "signal"}, n : Nat])
    /\ {target, texture, inputBuffer, outputBuffer, value, pending} \subseteq Image
    /\ inputFence \in Nat /\ outputFence \in Nat /\ hostFence \in Nat
    /\ presented \in Seq(Image)
    /\ toWorker \in Seq([op : {"prepare", "frame", "consumed", "close"}, sequence : Nat])
    /\ toHost \in Seq([op : {"hello", "ready", "done", "released", "closed"},
                       sequence : Nat])
    /\ worker \in WorkerPhases
    /\ commands \in {"READY", "AWAITING_CONSUMPTION", "CLOSED"}

\* The game runs, the preview is not armed, nothing is allocated.
Init ==
    /\ mayFail \in Scenarios
    /\ phase = "game" /\ frame = 0
    /\ failed = FALSE /\ finished = FALSE /\ frames = 0
    /\ state = 0 /\ seq = 0 /\ hostValue = 0 /\ freed = FALSE
    /\ queue = <<>>
    /\ target = Raw(0) /\ texture = Raw(0)
    /\ inputBuffer = Raw(0) /\ outputBuffer = Raw(0)
    /\ inputFence = 0 /\ outputFence = 0 /\ hostFence = 0
    /\ presented = <<>>
    /\ toWorker = <<>> /\ toHost = <<>>
    /\ worker = "none" /\ commands = "READY" /\ sequence = 0 /\ remote = 0
    /\ stream = <<>> /\ value = Raw(0) /\ pending = Raw(0)
-----------------------------------------------------------------------------
(* The game's frame *)

\* The game draws its next frame and calls the effect chain.
Draw ==
    /\ phase = "game" /\ frame < MaxFrames
    /\ frame' = frame + 1
    /\ queue' = Append(queue, Item("draw", frame + 1))
    /\ phase' = "effects"
    /\ UNCHANGED <<mayFail, addon, bridge, d3d, pipes, process, stream, hip>>

\* The chain is over: the frame goes to the screen.
Present ==
    /\ phase = "present"
    /\ queue' = Append(queue, Item("present", frame))
    /\ phase' = "game"
    /\ UNCHANGED <<mayFail, frame, addon, bridge, d3d, pipes, process, stream, hip>>

\* The game takes the effect runtime down before the session is complete.
RuntimeDestroyed ==
    /\ phase = "game" /\ worker # "none" /\ ~finished /\ ~failed
    /\ failed' = TRUE
    /\ UNCHANGED <<mayFail, phase, frame, finished, frames, bridge, queue, d3d, pipes, process,
                   stream, hip>>
-----------------------------------------------------------------------------
(* The callback *)

\* An exception: the session has failed, everything is kept, the game goes on.
Fail ==
    /\ failed' = TRUE
    /\ phase' = "present"
    /\ UNCHANGED <<finished, frames>>

Gone == worker \in {"exited", "dead"}

\* Stopped, not armed, or another callback holds the mutex.
Skip ==
    /\ phase = "effects"
    /\ phase' = "present"
    /\ UNCHANGED <<mayFail, frame, addon, bridge, queue, d3d, pipes, process, stream, hip>>

\* An armed frame; the first one launches the worker.
Enter ==
    /\ phase = "effects" /\ ~failed /\ ~finished
    /\ IF worker = "none"
       THEN worker' = "start" /\ phase' = "hello"
       ELSE phase' = "input" /\ UNCHANGED worker
    /\ UNCHANGED <<mayFail, frame, addon, bridge, queue, d3d, pipes, commands, sequence, remote,
                   stream, hip>>

\* A check of the callback refuses the target, the thread, the worker's identity
\* or its adapter, or a resource cannot be created: nothing was submitted.
Refuse ==
    /\ phase \in {"effects", "hello", "launched", "input", "receive"}
    /\ phase = "effects" => ~failed /\ ~finished
    /\ "d3d" \in mayFail
    /\ Fail
    /\ UNCHANGED <<mayFail, frame, bridge, queue, d3d, pipes, process, stream, hip>>

\* Worker::read: what the worker must say in each phase of the callback.
Expected == [hello |-> Message("hello", 0), prepared |-> Message("ready", 0),
             done |-> Message("done", seq), released |-> Message("released", seq),
             closed |-> Message("closed", 0)]

Answer(at) ==
    /\ phase = at
    /\ toHost # <<>> /\ Head(toHost) = Expected[at]
    /\ toHost' = Tail(toHost)
    /\ UNCHANGED <<mayFail, frame, queue, d3d, toWorker, process, stream, hip>>

\* Mutation: a dead worker goes unnoticed.
NoAnswerPatient ==
    /\ phase \in DOMAIN Expected
    /\ IF toHost = <<>>
       THEN "timeout" \in mayFail /\ UNCHANGED toHost
       ELSE Head(toHost) # Expected[phase] /\ toHost' = Tail(toHost)
    /\ Fail
    /\ UNCHANGED <<mayFail, frame, bridge, queue, d3d, toWorker, process, stream, hip>>

\* Another message, one whose report (identity, finite, released bytes) is refused,
\* none in ninety seconds, or an empty pipe and no worker.
NoAnswer ==
    /\ phase \in DOMAIN Expected
    /\ IF toHost = <<>>
       THEN (Gone \/ "timeout" \in mayFail) /\ UNCHANGED toHost
       ELSE /\ Head(toHost) # Expected[phase] \/ "worker" \in mayFail
            /\ toHost' = Tail(toHost)
    /\ Fail
    /\ UNCHANGED <<mayFail, frame, bridge, queue, d3d, toWorker, process, stream, hip>>

\* Worker::send: the pipe is broken when the worker is gone.
Send(at, message, next) ==
    /\ phase = at
    /\ IF Gone
       THEN Fail /\ UNCHANGED toWorker
       ELSE /\ toWorker' = Append(toWorker, message)
            /\ phase' = next
            /\ UNCHANGED addon
    /\ UNCHANGED <<mayFail, frame, bridge, queue, d3d, toHost, process, stream, hip>>

\* begin(), a command list, submit() and the signals behind it, if the checks
\* before them (ok) pass.  The calls fail one by one: a beginning is enqueued.
Submit(at, ok, items, next) ==
    /\ phase = at
    /\ \E k \in 0 .. Len(items) :
          /\ IF ok THEN k = Len(items) \/ "d3d" \in mayFail ELSE k = 0
          /\ queue' = queue \o SubSeq(items, 1, k)
          /\ hostValue' = IF k + 1 >= Len(items) THEN hostValue + 1 ELSE hostValue
          /\ IF k = Len(items) THEN phase' = next /\ UNCHANGED addon ELSE Fail
    /\ UNCHANGED <<mayFail, frame, freed, d3d, pipes, process, stream, hip>>

\* Mutation: the result of the wait is ignored.
WaitIgnored(at, next) ==
    /\ phase = at
    /\ hostFence = hostValue \/ "timeout" \in mayFail
    /\ phase' = next
    /\ UNCHANGED <<mayFail, addon, frame, seq, hostValue, freed, queue, d3d, pipes, process, stream,
                   hip>>

\* waitHost: two seconds for the list just submitted.
WaitHost(at, next) ==
    /\ phase = at
    /\ IF hostFence = hostValue
       THEN phase' = next /\ UNCHANGED addon
       ELSE "timeout" \in mayFail /\ Fail
    /\ UNCHANGED <<mayFail, frame, seq, hostValue, freed, queue, d3d, pipes, process, stream, hip>>

\* Worker::launch ends with the worker's hello; Surface::init and prepare follow.
ReadHello == Answer("hello") /\ phase' = "launched" /\ UNCHANGED <<addon, bridge>>
SendPrepare == state = 0 /\ Send("launched", Message("prepare", 0), "prepared")
ReadReady == Answer("prepared") /\ phase' = "input" /\ UNCHANGED <<addon, bridge>>

\* Surface::input: the target's pixels into the bridge's texture...
Decode ==
    /\ Submit("input", state = 0, <<Item("decode", frame), Item("host", hostValue + 1)>>,
              "decoded")
    /\ UNCHANGED <<state, seq>>

WaitDecoded == WaitHost("decoded", "texture") /\ UNCHANGED state

\* ... and submitTexture: the texture into the shared input, then its fence.
\* state is 1 before the list is closed, seq counts a signal that fails.
SubmitTexture ==
    /\ Submit("texture", state = 0,
              <<Item("tobuffer", frame), Item("ready", seq + 1),
                Item("host", hostValue + 1)>>, "submitted")
    /\ IF queue' = queue
       THEN state' \in {state, 1} /\ UNCHANGED seq
       ELSE state' = 1 /\ seq' = seq + 1

WaitSubmitted == WaitHost("submitted", "frame") /\ UNCHANGED state

SendFrame == Send("frame", Message("frame", seq), "done")

\* Worker::frame: the worker is done, and its fence says so (remote_done).
ReadDone ==
    /\ Answer("done")
    /\ IF state = 1 /\ outputFence >= seq
       THEN state' = 3 /\ phase' = "receive" /\ UNCHANGED addon
       ELSE state' = -1 /\ Fail
    /\ UNCHANGED <<seq, hostValue, freed>>

\* Surface::output: receiveTexture copies the shared output into the texture...
Receive ==
    /\ Submit("receive", state = 3 /\ outputFence >= seq,
              <<Item("fromoutput", frame), Item("host", hostValue + 1)>>, "received")
    /\ UNCHANGED <<state, seq>>

WaitReceived ==
    WaitHost("received", "output") /\ state' = IF phase' = "output" THEN 4 ELSE state

\* ... and the texture is drawn over the game's target.
Encode ==
    /\ Submit("output", TRUE, <<Item("encode", frame), Item("host", hostValue + 1)>>,
              "encoded")
    /\ UNCHANGED <<state, seq>>

\* Mutation: the bridge is readied for the next frame before the worker has let go.
NextAtOnce == WaitHost("encoded", "consumed") /\ state' = 0

WaitEncoded == WaitHost("encoded", "consumed") /\ UNCHANGED state

SendConsumed == Send("consumed", Message("consumed", seq), "released")

\* The frame is written; the last one closes the session, any other makes room
\* for the next (nr_bridge_next).
LastFrame(n) == n >= Limit

ReadReleased ==
    /\ Answer("released")
    /\ frames' = frames + 1
    /\ IF LastFrame(frames')
       THEN phase' = "close" /\ UNCHANGED <<failed, finished, state>>
       ELSE IF state = 4
       THEN state' = 0 /\ phase' = "present" /\ UNCHANGED <<failed, finished>>
       ELSE state' = -1 /\ failed' = TRUE /\ phase' = "present" /\ UNCHANGED finished
    /\ UNCHANGED <<seq, hostValue, freed>>

SendClose == Send("close", Message("close", 0), "closed")
ReadClosed == Answer("closed") /\ phase' = "exit" /\ UNCHANGED <<addon, bridge>>

\* Mutation: the worker's goodbye is taken for its exit.
CloseAtOnce ==
    /\ phase = "exit"
    /\ freed' = TRUE /\ finished' = TRUE /\ phase' = "present"
    /\ UNCHANGED <<failed, frames>>
    /\ UNCHANGED <<mayFail, frame, state, seq, hostValue, queue, d3d, pipes, process, stream, hip>>

\* Worker::close waits for a normal exit; bridge.close() then frees everything.
Close ==
    /\ phase = "exit"
    /\ IF worker = "exited" /\ state \in {0, 4}
       THEN freed' = TRUE /\ finished' = TRUE /\ phase' = "present"
            /\ UNCHANGED <<failed, frames>>
       ELSE (Gone \/ "timeout" \in mayFail) /\ Fail /\ UNCHANGED freed
    /\ UNCHANGED <<mayFail, frame, state, seq, hostValue, queue, d3d, pipes, process, stream, hip>>
-----------------------------------------------------------------------------
(* The worker process *)

Emit(message) == toHost' = Append(toHost, message)
HostKept == UNCHANGED <<mayFail, phase, frame, addon, bridge, queue, d3d, hip>>

\* An exception ends the process: wait() is over its ten seconds, the network's
\* result is not finite, a library call fails.
Dies == worker' = "dead" /\ UNCHANGED <<toHost, commands, sequence, remote, stream>>

WorkerFails ==
    /\ worker # "none" /\ ~Gone
    /\ "worker" \in mayFail \/ ("timeout" \in mayFail /\ stream # <<>>)
    /\ Dies
    /\ UNCHANGED toWorker
    /\ HostKept

WorkerStarts ==
    /\ worker = "start"
    /\ worker' = "prepare"
    /\ Emit(Message("hello", 0))
    /\ UNCHANGED <<toWorker, commands, sequence, remote, stream>>
    /\ HostKept

\* The lease is imported (nr_remote_open), the network's buffers allocated.
WorkerPrepares ==
    /\ worker = "prepare" /\ toWorker # <<>>
    /\ toWorker' = Tail(toWorker)
    /\ IF Head(toWorker).op = "prepare"
       THEN worker' = "loop" /\ Emit(Message("ready", 0))
            /\ UNCHANGED <<commands, sequence, remote, stream>>
       ELSE Dies
    /\ HostKept

Command(op) == worker = "loop" /\ toWorker # <<>> /\ Head(toWorker).op = op

\* Commands.frame, then Remote::begin: the input is fetched behind the fence.
\* Every frame before this one was completed, so there were sequence of them.
WorkerFrame ==
    /\ Command("frame")
    /\ toWorker' = Tail(toWorker)
    /\ LET s == Head(toWorker).sequence IN
       IF sequence < Limit /\ commands = "READY" /\ s = sequence + 1 /\ remote = 0
       THEN /\ commands' = "AWAITING_CONSUMPTION" /\ sequence' = s /\ remote' = 1
            /\ stream' = stream \o <<Item("wait", s), Item("copyin", s)>>
            /\ worker' = "input"
            /\ UNCHANGED toHost
       ELSE Dies
    /\ HostKept

\* wait(): the stream is idle.
Synchronized == stream = <<>>

\* Mutation: the inference of a frame is left out.
WorkerSkipsNetwork ==
    /\ worker = "input" /\ Synchronized
    /\ worker' = "network"
    /\ UNCHANGED <<pipes, commands, sequence, remote, stream>>
    /\ HostKept

WorkerSubmits ==
    /\ worker = "input" /\ Synchronized
    /\ stream' = <<Item("network", sequence)>>
    /\ worker' = "network"
    /\ UNCHANGED <<pipes, commands, sequence, remote>>
    /\ HostKept

\* The result is complete and finite: Remote::finish writes the shared output.
WorkerFinishes ==
    /\ worker = "network" /\ Synchronized
    /\ IF remote = 1
       THEN /\ remote' = 2
            /\ stream' = <<Item("copyout", sequence), Item("signal", sequence)>>
            /\ worker' = "copied"
            /\ UNCHANGED <<toHost, commands, sequence>>
       ELSE Dies
    /\ UNCHANGED toWorker
    /\ HostKept

WorkerDone ==
    /\ worker = "copied" /\ Synchronized
    /\ Emit(Message("done", sequence))
    /\ worker' = "loop"
    /\ UNCHANGED <<toWorker, commands, sequence, remote, stream>>
    /\ HostKept

\* Mutation: the lease is never given back.
ConsumedKeeps ==
    /\ Command("consumed")
    /\ toWorker' = Tail(toWorker)
    /\ Emit(Message("released", sequence))
    /\ UNCHANGED <<worker, commands, remote, sequence, stream>>
    /\ HostKept

WorkerConsumed ==
    /\ Command("consumed")
    /\ toWorker' = Tail(toWorker)
    /\ IF /\ commands = "AWAITING_CONSUMPTION"
          /\ Head(toWorker).sequence = sequence
          /\ remote = 2 /\ Synchronized
       THEN /\ commands' = "READY" /\ remote' = 0
            /\ Emit(Message("released", sequence))
            /\ UNCHANGED <<worker, sequence, stream>>
       ELSE Dies
    /\ HostKept

WorkerClosed ==
    /\ Command("close")
    /\ toWorker' = Tail(toWorker)
    /\ IF commands = "READY" /\ remote = 0
       THEN /\ commands' = "CLOSED" /\ worker' = "closing"
            /\ Emit(Message("closed", 0))
            /\ UNCHANGED <<sequence, remote, stream>>
       ELSE Dies
    /\ HostKept

WorkerExits ==
    /\ worker = "closing"
    /\ worker' = "exited"
    /\ UNCHANGED <<pipes, commands, sequence, remote, stream>>
    /\ HostKept
-----------------------------------------------------------------------------
(* The GPU *)

\* The Direct3D queue executes in order.
D3DStep ==
    /\ queue # <<>>
    /\ queue' = Tail(queue)
    /\ LET op == Head(queue).op
           n == Head(queue).n IN
       /\ target' = CASE op = "draw" -> Raw(n) [] op = "encode" -> texture
                      [] OTHER -> target
       /\ texture' = CASE op = "decode" -> target [] op = "fromoutput" -> outputBuffer
                       [] OTHER -> texture
       /\ inputBuffer' = IF op = "tobuffer" THEN texture ELSE inputBuffer
       /\ inputFence' = IF op = "ready" THEN n ELSE inputFence
       /\ hostFence' = IF op = "host" THEN n ELSE hostFence
       /\ presented' = IF op = "present" THEN Append(presented, target) ELSE presented
    /\ UNCHANGED <<mayFail, phase, frame, addon, bridge, pipes, process, stream, hip>>

\* So does the stream, from the fence's value on.
HipStep ==
    /\ stream # <<>>
    /\ LET op == Head(stream).op
           n == Head(stream).n IN
       /\ op = "wait" => inputFence >= n
       /\ value' = IF op = "copyin" THEN inputBuffer ELSE value
       /\ pending' = IF op = "network" THEN Net(value.frame) ELSE pending
       /\ outputBuffer' = IF op = "copyout" THEN pending ELSE outputBuffer
       /\ outputFence' = IF op = "signal" THEN n ELSE outputFence
    /\ stream' = Tail(stream)
    /\ UNCHANGED <<mayFail, phase, frame, addon, bridge, queue, d3d, pipes, process>>

\* What a dead process had submitted may never run.
StreamLost ==
    /\ worker = "dead" /\ stream # <<>>
    /\ stream' = <<>>
    /\ UNCHANGED <<mayFail, phase, frame, addon, bridge, queue, d3d, pipes, process, hip>>
-----------------------------------------------------------------------------
Callback ==
    \/ Skip \/ Enter \/ Refuse \/ NoAnswer
    \/ ReadHello \/ SendPrepare \/ ReadReady
    \/ Decode \/ WaitDecoded \/ SubmitTexture \/ WaitSubmitted
    \/ SendFrame \/ ReadDone
    \/ Receive \/ WaitReceived \/ Encode \/ WaitEncoded
    \/ SendConsumed \/ ReadReleased \/ SendClose \/ ReadClosed \/ Close

WorkerStep ==
    \/ WorkerStarts \/ WorkerPrepares \/ WorkerFrame \/ WorkerSubmits \/ WorkerFinishes
    \/ WorkerDone \/ WorkerConsumed \/ WorkerClosed \/ WorkerExits

Next ==
    \/ Draw \/ Present \/ RuntimeDestroyed
    \/ Callback
    \/ WorkerStep \/ WorkerFails
    \/ D3DStep \/ HipStep \/ StreamLost

Spec == Init /\ [][Next]_vars

\* The game's thread, the worker's process and both queues are scheduled.  The
\* game need not draw, the runtime need not be destroyed, nothing need fail.
FairSpec ==
    /\ Spec
    /\ WF_vars(Present) /\ WF_vars(Callback)
    /\ WF_vars(WorkerStep)
    /\ WF_vars(D3DStep) /\ WF_vars(HipStep)
-----------------------------------------------------------------------------
(* Properties *)

QueueHas(ops) == {i \in DOMAIN queue : queue[i].op \in ops}
StreamHas(ops) == {i \in DOMAIN stream : stream[i].op \in ops}

\* What is shared has one user, after any failure too.  Every list is recorded in
\* the one allocator, which may only be reset when the GPU has finished the last
\* (begin, native_frame_bridge.cpp:110).  The two GPUs never both have work
\* outstanding on a shared buffer: the input is handed over when it is written,
\* the output when the worker has written it.
BuffersExclusive ==
    /\ Cardinality(QueueHas(Lists)) <= 1
    /\ QueueHas({"tobuffer"}) # {} => StreamHas({"copyin"}) = {}
    /\ QueueHas({"fromoutput"}) # {} => StreamHas({"copyout"}) = {}

\* The two processes agree on the lease: the host can offer a frame only when the
\* worker has let go of the last one (nr_bridge_next after "released").
LeaseAgrees ==
    /\ TypeOK
    /\ state = 0 => remote = 0 /\ commands # "AWAITING_CONSUMPTION"

\* bridge.close() frees buffers, fences and handles ("uncertain resources must
\* remain retained"): no GPU, no process uses them any more.
ReleasedIsIdle ==
    freed => QueueHas(Lists) = {} /\ stream = <<>> /\ worker = "exited"

\* Every presented frame is its own image, drawn by the game or made by the
\* network from it, at most Limit times and never after a stop ("no stale output").
Preview == INSTANCE PreviewService WITH
    budget <- Limit - Cardinality({i \in DOMAIN presented : presented[i].net}),
    stopped <- (failed \/ finished) /\ QueueHas({"encode"}) = {} /\ ~target.net
PreviewSpec == Preview!Spec

\* The callback gives the thread back to the game, whatever fails, the worker's
\* death included: not only because a wait runs into its timeout in the end.
CallbackReturns ==
    "timeout" \notin mayFail => ((phase = "effects") ~> (phase = "game"))

\* When nothing fails, a frame the callback takes is shown as the network's: host,
\* worker and the two queues never wait on each other in a circle.
TakenIsReplaced ==
    mayFail = {} =>
        \A n \in 1 .. MaxFrames :
            (phase = "input" /\ frame = n) ~> (n \in DOMAIN presented /\ presented[n].net)
=============================================================================
