-------------------------- MODULE ResidentExchange --------------------------
(***************************************************************************)
(* The shared-memory exchange between a game process and the resident      *)
(* worker: class Exchange (tools/ffx_observer/resident_exchange.h) on one   *)
(* side, scripts/resident_frame_worker.py with its ResidentGraph on the     *)
(* other.  They share a mapping (header, input, output) and two auto-reset  *)
(* events; each read or write of the mapping and each event call is an     *)
(* action of its own, so the two processes interleave between them.        *)
(*                                                                         *)
(* A pixel is the number of the surface it belongs to.  The 22 s, 20 s and *)
(* 10 s deadlines expire at any point once "slow" may happen.              *)
(***************************************************************************)
EXTENDS Integers, Sequences

CONSTANTS
    Sizes,       \* surface sizes <<width, height>> the client asks for
    Tile,        \* <<WIDTH, HEIGHT>> of the network's fixed tile
    MaxFrames,   \* --max-frames of the worker
    MaxAsked,    \* bound: surfaces asked for by all clients together
    MaxClients,  \* bound: game processes that open the exchange, one by one
    Scenarios    \* sets of what may go wrong in one behaviour, subsets of
                 \* {"slow", "worker", "event", "data", "kill", "crash"}

ASSUME SizesAssumption ==
    /\ Sizes \subseteq (Nat \ {0}) \X (Nat \ {0}) /\ Sizes # {}
    /\ Tile \in (Nat \ {0}) \X (Nat \ {0})
ASSUME ExchangeBounds ==
    /\ MaxFrames \in Nat \ {0} /\ MaxAsked \in Nat \ {0} /\ MaxClients \in Nat \ {0}
    /\ \A s \in Scenarios : s \subseteq {"slow", "worker", "event", "data", "kill", "crash"}

Cells(size) == (0 .. size[1] - 1) \X (0 .. size[2] - 1)
Pixels == UNION {Cells(s) : s \in Sizes}
Surfaces == 1 .. MaxAsked
Pids == 1 .. MaxClients

VARIABLES
    mayFail,   \* what may go wrong in this behaviour
    header,    \* header of the mapping
    input,     \* input plane of the mapping
    output,    \* output plane of the mapping: color and alpha of each pixel
    signalled, \* the two auto-reset events
    client,    \* the Exchange object of the game process, and its process
    asked,     \* calls of Run so far
    answers,   \* images returned by Run, in order
    worker,    \* locals of main() in the worker
    graph      \* ResidentGraph, and the GPU under it

clientVars == <<client, asked, answers>>
workerVars == <<worker, graph>>
mapping == <<header, input, output, signalled>>
vars == <<mayFail, mapping, clientVars, workerVars>>

Headers == [request : 0 .. MaxAsked, response : 0 .. MaxAsked, status : 0 .. 3,
            client : {0} \cup Pids, size : Sizes \cup {<<0, 0>>}]
NoHeader == [request |-> 0, response |-> 0, status |-> 0, client |-> 0, size |-> <<0, 0>>]
Blank == [color |-> 0, alpha |-> 0]
Colors == [color : 0 .. MaxAsked, alpha : 0 .. MaxAsked]
Planes == [Pixels -> Colors]

ClientPhases == {"closed", "idle", "checked", "copy", "header", "reset", "set",
                 "wait", "read", "take"}
WorkerPhases == {"start", "wait", "request", "data", "tile", "poll",
                 "recheck", "output", "publish", "signal", "save",
                 "fail", "alarm", "close", "gone"}

ClientRecords == [pid : 0 .. MaxClients, phase : ClientPhases, sequence : 0 .. MaxAsked,
                  poisoned : BOOLEAN, sent : Headers]
WorkerRecords == [phase : WorkerPhases, served : 0 .. MaxFrames, previous : 0 .. MaxAsked,
                  owner : {0} \cup Pids, seen : Headers, data : [Pixels -> 0 .. MaxAsked],
                  todo : SUBSET Pixels, result : Planes]
GraphRecords == [state : {"open", "failed", "closed", "retained"}, gpu : {"idle", "running"}]

TypeOK ==
    /\ mayFail \in Scenarios
    /\ header \in Headers
    /\ input \in [Pixels -> 0 .. MaxAsked]
    /\ output \in Planes
    /\ signalled \in [request : BOOLEAN, response : BOOLEAN]
    /\ client \in ClientRecords
    /\ asked \in 0 .. MaxAsked
    /\ DOMAIN answers = 1 .. Len(answers)
    /\ \A i \in DOMAIN answers :
          /\ answers[i].frame \in Surfaces
          /\ \E s \in Sizes : answers[i].image \in [Cells(s) -> Colors]
    /\ worker \in WorkerRecords
    /\ graph \in GraphRecords

Init ==
    /\ mayFail \in Scenarios
    /\ header = NoHeader
    /\ input = [p \in Pixels |-> 0]
    /\ output = [p \in Pixels |-> Blank]
    /\ signalled = [request |-> FALSE, response |-> FALSE]
    /\ client = [pid |-> 0, phase |-> "closed", sequence |-> 0, poisoned |-> FALSE,
                 sent |-> NoHeader]
    /\ asked = 0
    /\ answers = <<>>
    /\ worker = [phase |-> "start", served |-> 0, previous |-> 0, owner |-> 0,
                 seen |-> NoHeader, data |-> [p \in Pixels |-> 0],
                 todo |-> {}, result |-> [p \in Pixels |-> Blank]]
    /\ graph = [state |-> "open", gpu |-> "idle"]
-----------------------------------------------------------------------------
(* The client: Exchange::Exchange and Exchange::Run *)

Goto(phase) == client' = [client EXCEPT !.phase = phase]

\* Every exception inside the try of Run poisons the object.
Poison == client' = [client EXCEPT !.phase = "idle", !.poisoned = TRUE]

\* Mutation: a worker that waits is good enough.
OpenWaiting ==
    /\ client.phase = "closed" /\ client.pid < MaxClients
    /\ header.status = 1
    /\ client' = [pid |-> client.pid + 1, phase |-> "idle", sequence |-> header.request,
                  poisoned |-> FALSE, sent |-> NoHeader]
    /\ UNCHANGED <<mayFail, mapping, asked, answers, workerVars>>

\* Only a header that no client has used is accepted: a name file is read long
\* after the worker wrote it, and a new game process must not resume a session.
Open ==
    /\ client.phase = "closed" /\ client.pid < MaxClients
    /\ header = [NoHeader EXCEPT !.status = 1]
    /\ client' = [pid |-> client.pid + 1, phase |-> "idle", sequence |-> 0,
                  poisoned |-> FALSE, sent |-> NoHeader]
    /\ UNCHANGED <<mayFail, mapping, asked, answers, workerVars>>

\* The header of a worker that waits for this client's next request.
HeaderCurrent ==
    /\ header.status = 1
    /\ header.request = client.sequence /\ header.response = client.sequence
    /\ header.client \in {0, client.pid}

\* Mutation: neither the poisoned flag nor the header is tested.
RunsAlways == TRUE

MayRun == ~client.poisoned /\ HeaderCurrent

\* Nonfinite input or a header of another state poisons the object; a poisoned
\* object refuses every call and changes nothing.
Run ==
    /\ client.phase = "idle"
    /\ asked < MaxAsked
    /\ mayFail = {} => asked < MaxFrames
    /\ asked' = asked + 1
    /\ \/ /\ MayRun
          /\ \E size \in Sizes :
               client' = [client EXCEPT !.phase = "checked",
                 !.sent = [request |-> client.sequence + 1, response |-> client.sequence,
                           status |-> 2, client |-> client.pid, size |-> size]]
       \/ ~client.poisoned /\ ~HeaderCurrent /\ Poison
       \/ ~client.poisoned /\ "data" \in mayFail /\ Poison
    /\ UNCHANGED <<mayFail, mapping, answers, workerVars>>

\* memcpy of the input: the first row, then the rest.
Fill(cells) == [p \in Pixels |-> IF p \in cells THEN asked ELSE input[p]]
FirstRow == {p \in Cells(client.sent.size) : p[2] = 0}

CopyFirstRow ==
    /\ client.phase = "checked"
    /\ input' = Fill(FirstRow)
    /\ Goto("copy")
    /\ UNCHANGED <<mayFail, header, output, signalled, asked, answers, workerVars>>

CopyRest ==
    /\ client.phase = "copy"
    /\ input' = Fill(Cells(client.sent.size) \ FirstRow)
    /\ Goto("header")
    /\ UNCHANGED <<mayFail, header, output, signalled, asked, answers, workerVars>>

WriteHeader ==
    /\ client.phase = "header"
    /\ header' = client.sent
    /\ Goto("reset")
    /\ UNCHANGED <<mayFail, input, output, signalled, asked, answers, workerVars>>

\* Mutation: the request is signalled before the old answer is cleared.
SignalThenReset ==
    /\ \/ client.phase = "reset" /\ signalled' = [signalled EXCEPT !.request = TRUE]
          /\ Goto("set")
       \/ client.phase = "set" /\ signalled' = [signalled EXCEPT !.response = FALSE]
          /\ Goto("wait")
    /\ UNCHANGED <<mayFail, header, input, output, asked, answers, workerVars>>

\* An answer left over from the worker's failure is cleared first; an answer to
\* this request cannot come before the request is signalled.  A call on an event
\* that fails poisons the object.
SignalRequest ==
    /\ \/ client.phase = "reset" /\ signalled' = [signalled EXCEPT !.response = FALSE]
          /\ Goto("set")
       \/ client.phase = "set" /\ signalled' = [signalled EXCEPT !.request = TRUE]
          /\ Goto("wait")
       \/ client.phase \in {"reset", "set"} /\ "event" \in mayFail /\ Poison
          /\ UNCHANGED signalled
    /\ UNCHANGED <<mayFail, header, input, output, asked, answers, workerVars>>

WaitResponse ==
    /\ client.phase = "wait"
    /\ signalled.response
    /\ signalled' = [signalled EXCEPT !.response = FALSE]
    /\ Goto("read")
    /\ UNCHANGED <<mayFail, header, input, output, asked, answers, workerVars>>

\* Mutation: the wait has no deadline.
TimeOutNever == FALSE

\* 22 s without an answer, certain when nobody is left to give one, or a wait that
\* fails.
TimeOut ==
    /\ client.phase = "wait"
    /\ {"slow", "event"} \cap mayFail # {} \/ (worker.phase = "gone" /\ ~signalled.response)
    /\ Poison
    /\ UNCHANGED <<mayFail, mapping, asked, answers, workerVars>>

\* Mutation: the wake-up is taken for the answer.
AnswersWakeUp == TRUE

\* The header must be the one sent but for the response and the status.
AnswersRequest ==
    header = [client.sent EXCEPT !.response = client.sent.request, !.status = 1]

ReadHeader ==
    /\ client.phase = "read"
    /\ IF AnswersRequest THEN Goto("take") ELSE Poison
    /\ UNCHANGED <<mayFail, mapping, asked, answers, workerVars>>

\* The output is copied and returned, or a nonfinite value poisons the object.
TakeOutput ==
    /\ client.phase = "take"
    /\ \/ /\ answers' = Append(answers,
                [frame |-> asked, image |-> [p \in Cells(client.sent.size) |-> output[p]]])
          /\ client' = [client EXCEPT !.phase = "idle", !.sequence = client.sent.request]
       \/ "data" \in mayFail /\ Poison /\ UNCHANGED answers
    /\ UNCHANGED <<mayFail, mapping, asked, workerVars>>

\* The game exits or dies at any point: its handles and its object are gone.
ClientDies ==
    /\ "crash" \in mayFail
    /\ client.phase # "closed"
    /\ Goto("closed")
    /\ UNCHANGED <<mayFail, mapping, asked, answers, workerVars>>

ClientStep ==
    \/ CopyFirstRow \/ CopyRest \/ WriteHeader \/ SignalRequest
    \/ WaitResponse \/ TimeOut \/ ReadHeader \/ TakeOutput
-----------------------------------------------------------------------------
(* The worker: main of resident_frame_worker.py *)

At(phase) == worker.phase = phase
Enter(phase) == worker' = [worker EXCEPT !.phase = phase]
WorkerUnchanged == UNCHANGED <<mayFail, clientVars>>

\* The graph is built and warmed before the mapping and its header exist; the
\* warm-up is an inference and may leave the GPU running.
Start ==
    /\ At("start")
    /\ \/ header' = [NoHeader EXCEPT !.status = 1] /\ Enter("wait") /\ UNCHANGED graph
       \/ /\ "worker" \in mayFail
          /\ Enter("close")
          /\ \E gpu \in {"idle", "running"} : graph' = [state |-> "failed", gpu |-> gpu]
          /\ UNCHANGED header
    /\ WorkerUnchanged /\ UNCHANGED <<input, output, signalled>>

\* Mutation: the frame limit is not tested.
WaitRequestAgain ==
    /\ At("wait") /\ signalled.request
    /\ signalled' = [signalled EXCEPT !.request = FALSE]
    /\ Enter("request")
    /\ WorkerUnchanged /\ UNCHANGED <<header, input, output, graph>>

WaitRequest ==
    /\ At("wait") /\ worker.served < MaxFrames
    /\ signalled.request
    /\ signalled' = [signalled EXCEPT !.request = FALSE]
    /\ Enter("request")
    /\ WorkerUnchanged /\ UNCHANGED <<header, input, output, graph>>

\* FRAME_LIMIT and IDLE_TIMEOUT end the loop without a word to the client.
Leave ==
    /\ At("wait")
    /\ worker.served = MaxFrames \/ "slow" \in mayFail
    /\ Enter("close")
    /\ WorkerUnchanged /\ UNCHANGED <<mapping, graph>>

ValidRequest ==
    /\ header.request = worker.previous + 1 /\ header.response = worker.previous
    /\ header.status = 2 /\ header.client # 0
    /\ worker.owner \in {0, header.client}

ReadRequest ==
    /\ At("request")
    /\ worker' = IF ValidRequest
                 THEN [worker EXCEPT !.phase = "data", !.seen = header,
                                     !.owner = header.client]
                 ELSE [worker EXCEPT !.phase = "fail"]
    /\ WorkerUnchanged /\ UNCHANGED <<mapping, graph>>

\* Mutation: only the tiles that fit.
WholeTiles(size) ==
    {p \in Cells(size) : /\ p[1] % Tile[1] = 0 /\ p[1] + Tile[1] <= size[1]
                         /\ p[2] % Tile[2] = 0 /\ p[2] + Tile[2] <= size[2]}

\* range(0, width, WIDTH) by range(0, height, HEIGHT).
Tiles(size) == {p \in Cells(size) : p[1] % Tile[1] = 0 /\ p[2] % Tile[2] = 0}

ReadData ==
    /\ At("data")
    /\ worker' = [worker EXCEPT !.phase = "tile", !.data = input,
                                !.todo = Tiles(worker.seen.size),
                                !.result = [p \in Pixels |-> Blank]]
    /\ WorkerUnchanged /\ UNCHANGED <<mapping, graph>>

NextTile ==
    CHOOSE t \in worker.todo : \A u \in worker.todo :
        t[2] < u[2] \/ (t[2] = u[2] /\ t[1] <= u[1])

\* The tile cropped to the surface: w and h are the smaller of the two.
TileCells(t) ==
    {p \in Cells(worker.seen.size) : /\ p[1] \in t[1] .. t[1] + Tile[1] - 1
                                     /\ p[2] \in t[2] .. t[2] + Tile[2] - 1}

\* ResidentGraph.infer up to the last launch; a launch that fails leaves the
\* earlier ones running.
Infer ==
    /\ At("tile") /\ worker.todo # {}
    /\ graph.state = "open"
    /\ \/ graph' = [graph EXCEPT !.gpu = "running"] /\ Enter("poll")
       \/ /\ "worker" \in mayFail
          /\ \E gpu \in {"idle", "running"} : graph' = [state |-> "failed", gpu |-> gpu]
          /\ Enter("fail")
    /\ WorkerUnchanged /\ UNCHANGED mapping

\* The completion event, the readback and the crop; the deadline poisons the
\* graph whether the GPU has finished or not.
Collect ==
    /\ At("poll")
    /\ \/ /\ graph.gpu = "idle"
          /\ worker' = [worker EXCEPT !.phase = "tile", !.todo = @ \ {NextTile},
                !.result = [p \in Pixels |->
                              IF p \in TileCells(NextTile)
                              THEN [color |-> worker.data[p], alpha |-> 0]
                              ELSE worker.result[p]]]
          /\ UNCHANGED graph
       \/ /\ {"slow", "worker"} \cap mayFail # {}
          /\ graph' = [graph EXCEPT !.state = "failed"]
          /\ Enter("fail")
    /\ WorkerUnchanged /\ UNCHANGED mapping

\* After the last tile: the alpha of the source, whatever the network made of it.
FinishFrame ==
    /\ At("tile") /\ worker.todo = {}
    /\ worker' = [worker EXCEPT !.phase = "recheck",
            !.result = [p \in Pixels |->
                          IF p \in Cells(worker.seen.size)
                          THEN [worker.result[p] EXCEPT !.alpha = worker.data[p]]
                          ELSE worker.result[p]]]
    /\ WorkerUnchanged /\ UNCHANGED <<mapping, graph>>

Recheck ==
    /\ At("recheck")
    /\ Enter(IF header = worker.seen THEN "output" ELSE "fail")
    /\ WorkerUnchanged /\ UNCHANGED <<mapping, graph>>

WriteOutput ==
    /\ At("output")
    /\ output' = [p \in Pixels |-> IF p \in Cells(worker.seen.size)
                                   THEN worker.result[p] ELSE output[p]]
    /\ Enter("publish")
    /\ WorkerUnchanged /\ UNCHANGED <<header, input, signalled, graph>>

\* The whole header is written, over whatever it holds now.
Publish ==
    /\ At("publish")
    /\ header' = [worker.seen EXCEPT !.response = worker.seen.request, !.status = 1]
    /\ Enter("signal")
    /\ WorkerUnchanged /\ UNCHANGED <<input, output, signalled, graph>>

SignalAnswer ==
    /\ At("signal")
    /\ signalled' = [signalled EXCEPT !.response = TRUE]
    /\ worker' = [worker EXCEPT !.phase = "save", !.previous = worker.seen.request]
    /\ WorkerUnchanged /\ UNCHANGED <<header, input, output, graph>>

\* The audit files and the progress report of a frame already answered.
Save ==
    /\ At("save")
    /\ worker' = [worker EXCEPT !.phase = "wait", !.served = @ + 1]
    /\ WorkerUnchanged /\ UNCHANGED <<mapping, graph>>

\* Nonfinite pixels, an expired budget, a file that cannot be written, a wait or
\* the signal of an answer already published that fails.
WorkerRaises ==
    /\ \/ "event" \in mayFail /\ worker.phase \in {"wait", "signal"}
       \/ "worker" \in mayFail /\ At("save")
       \/ "data" \in mayFail /\ At("data")
       \/ "slow" \in mayFail /\ At("tile")
    /\ Enter("fail")
    /\ WorkerUnchanged /\ UNCHANGED <<mapping, graph>>

\* The handler writes the status, then signals the response; that this signal
\* fails it does not notice.
ReportFailure ==
    /\ \/ At("fail") /\ Enter("alarm") /\ header' = [header EXCEPT !.status = 3]
          /\ UNCHANGED signalled
       \/ At("alarm") /\ Enter("close") /\ UNCHANGED header
          /\ \/ signalled' = [signalled EXCEPT !.response = TRUE]
             \/ "event" \in mayFail /\ UNCHANGED signalled
    /\ WorkerUnchanged /\ UNCHANGED <<input, output, graph>>

\* Mutation: a failed graph is freed like any other.
CloseAnyway == graph' = [graph EXCEPT !.state = "closed"]

\* ResidentGraph.close: after a failure nothing is destroyed.
CloseGraph ==
    graph' = [graph EXCEPT !.state = IF graph.state = "failed" THEN "retained" ELSE "closed"]

\* finally: the last report may raise before the graph is closed.
Close ==
    /\ At("close")
    /\ Enter("gone")
    /\ CloseGraph \/ ("worker" \in mayFail /\ UNCHANGED graph)
    /\ WorkerUnchanged /\ UNCHANGED mapping

WorkerDies ==
    /\ "kill" \in mayFail
    /\ ~At("gone")
    /\ Enter("gone")
    /\ WorkerUnchanged /\ UNCHANGED <<mapping, graph>>

GpuFinishes ==
    /\ graph.gpu = "running"
    /\ graph' = [graph EXCEPT !.gpu = "idle"]
    /\ WorkerUnchanged /\ UNCHANGED <<mapping, worker>>

WorkerStep ==
    \/ Start \/ WaitRequest \/ ReadRequest \/ ReadData \/ Infer \/ Collect \/ FinishFrame
    \/ Recheck \/ WriteOutput \/ Publish \/ SignalAnswer \/ Save \/ ReportFailure \/ Close

Next ==
    \/ Open \/ Run \/ ClientStep \/ ClientDies
    \/ WorkerStep \/ Leave \/ WorkerRaises \/ WorkerDies \/ GpuFinishes

Spec == Init /\ [][Next]_vars

\* Both processes go on with what they are doing and the GPU with its launches.
\* Nothing obliges the game to ask again.
FairSpec ==
    Spec /\ WF_vars(ClientStep) /\ WF_vars(WorkerStep) /\ WF_vars(GpuFinishes)
-----------------------------------------------------------------------------
(* Properties *)

\* Every image Run returns is the network's image of the surface of that call:
\* every pixel of it, with the alpha of that surface, whatever answers came late,
\* whatever wake-ups were left over, whoever failed or died in between
\* (resident_exchange.h:50-56, resident_frame_worker.py:146-150, 165-170).
AnswersOwn ==
    \A i \in DOMAIN answers : \A p \in DOMAIN answers[i].image :
        answers[i].image[p] = [color |-> answers[i].frame, alpha |-> answers[i].frame]

\* While a request is unanswered the input plane belongs to the worker: a client
\* that gave up, failed or was replaced never writes into it
\* ("Client owns input while request is in flight; never publish if mutated").
InputPinned == [][header.status = 2 => input' = input]_vars

\* The graph's GPU objects are only destroyed with the GPU idle
\* (resident_full_graph.py:261-264), also when a deadline expired with launches
\* outstanding or a launch failed after others.
FreedIsIdle == graph.state = "closed" => graph.gpu = "idle"

\* Run returns to the game's submission thread, whatever becomes of the worker.
RunReturns == (client.phase \notin {"closed", "idle"}) ~> (client.phase \in {"closed", "idle"})

\* With nothing going wrong every surface within the worker's limit is answered:
\* no wake-up is lost between the two events.
RequestAnswered ==
    \A n \in 1 .. MaxFrames :
        (mayFail = {} /\ asked = n) ~> (\E i \in DOMAIN answers : answers[i].frame = n)

\* What the game hook sees is an ExchangeService: answers in the order of the
\* requests, none after a failure, no second session after an answer.
Service == INSTANCE ExchangeService WITH
    waiting <- client.phase \notin {"closed", "idle"},
    answers <- [i \in DOMAIN answers |-> answers[i].frame],
    over <- client.phase = "closed" \/ client.poisoned

ServiceSpec == Service!Spec
=============================================================================
