----------------------- MODULE ResidentExchangeProofs -----------------------
(***************************************************************************)
(* Theorems about ResidentExchange for every set of surface sizes, every    *)
(* tile, every limit and every mixture of failures: what the game gets is   *)
(* the image of the surface it asked for, the worker reads a plane nobody   *)
(* writes, the graph is freed only when idle, and the whole exchange        *)
(* implements ExchangeService.                                             *)
(***************************************************************************)
EXTENDS ResidentExchange, TLAPS

(* Where a client prepares a request, and where it has one out.            *)
Sending == {"checked", "copy", "header"}
Pending == {"reset", "set", "wait", "read", "take"}
(* Where the worker holds a request it has not published the answer of.    *)
Serving == {"data", "tile", "poll", "recheck", "output", "publish"}

(* The image of surface n in a plane or in an answer.                      *)
Own(n) == [color |-> n, alpha |-> n]

Images == UNION {[Cells(size) -> Colors] : size \in Sizes}
Answers == [frame : Surfaces, image : Images]

(* What the counters and the fields of a request can be, beyond their types. *)
Counters ==
    /\ answers \in Seq(Answers)
    /\ client.sequence <= asked
    /\ client.phase \in Sending \cup Pending =>
          /\ ~client.poisoned
          /\ client.sent.request = client.sequence + 1 /\ client.sent.request <= asked
          /\ client.sent.status = 2 /\ client.sent.size \in Sizes
    /\ worker.phase \in Serving \cup {"request", "signal", "save"} => worker.served < MaxFrames
    /\ client.phase # "closed" => worker.phase # "start"

(* While a request is out nobody asks for another surface, and the input    *)
(* plane holds the surface that was asked for.                             *)
Requests ==
    /\ client.phase \in Sending => header.status # 2
    /\ client.phase = "idle" /\ ~client.poisoned => header.status # 2
    /\ client.phase = "take" => header.status # 2
    /\ header.status = 2 /\ client.phase \in Pending => header = client.sent
    /\ header.status = 2 =>
          /\ header.request > 0 /\ header.size \in Sizes
          /\ \A p \in Cells(header.size) : input[p] = asked
    /\ client.phase = "copy" => \A p \in FirstRow : input[p] = asked
    /\ client.phase = "header" => \A p \in Cells(client.sent.size) : input[p] = asked
    /\ client.phase \in Pending => header.request > 0
    /\ worker.phase = "start" => header.status = 0

(* The worker's copy of the request, of the plane and of the result.       *)
Served ==
    /\ worker.phase \in Serving => header = worker.seen /\ header.status = 2
    /\ worker.phase \in Serving \ {"data"} =>
          \A p \in Cells(worker.seen.size) : worker.data[p] = asked
    /\ worker.phase \in {"tile", "poll"} =>
          \A p \in Cells(worker.seen.size) :
             worker.result[p].color = asked \/ \E t \in worker.todo : p \in TileCells(t)
    /\ worker.phase \in {"recheck", "output"} =>
          \A p \in Cells(worker.seen.size) : worker.result[p] = Own(asked)
    /\ worker.phase = "publish" =>
          \A p \in Cells(worker.seen.size) : output[p] = Own(asked)

(* A client that has a published header before it has its own surface in    *)
(* the output plane.                                                       *)
Answered ==
    /\ (client.phase \in Pending /\ header.status = 1) \/ client.phase = "take" =>
          \A p \in Cells(client.sent.size) : output[p] = Own(asked)
    /\ AnswersOwn
    /\ answers # <<>> => header.request > 0
    /\ worker.phase = "start" => answers = <<>>

(* Launches are only outstanding while they are polled, or once the worker  *)
(* is gone or has given the graph up.                                      *)
Launched ==
    /\ graph.state = "open" /\ graph.gpu = "running" => worker.phase \in {"poll", "gone"}
    /\ graph.state = "closed" => graph.gpu = "idle"
    /\ graph.state \in {"closed", "retained"} => worker.phase = "gone"

ExchangeInv == TypeOK /\ Counters /\ Requests /\ Served /\ Answered /\ Launched
-----------------------------------------------------------------------------
(* Every pixel of a surface is in a tile that starts inside it.            *)

LEMMA Euclid ==
    ASSUME NEW a \in Nat, NEW b \in Nat \ {0}, NEW m \in Int, m = a % b,
           NEW q \in Int, q = a \div b
    PROVE  a = b * q + m /\ 0 <= m /\ m < b /\ m <= a
OBVIOUS

LEMMA Multiple ==
    ASSUME NEW b \in Nat \ {0}, NEW q \in Int, NEW c \in Nat, c = b * q PROVE c % b = 0
OBVIOUS

LEMMA TileOrigin ==
    ASSUME NEW a \in Nat, NEW b \in Nat \ {0}
    PROVE  \E c \in 0 .. a : c % b = 0 /\ a \in c .. c + b - 1
<1>1. PICK m \in Int, q \in Int : m = a % b /\ q = a \div b
  OBVIOUS
<1>2. a = b * q + m /\ 0 <= m /\ m < b /\ m <= a
  BY <1>1, Euclid
<1>3. a - m = b * q /\ a - m \in 0 .. a /\ a \in (a - m) .. (a - m) + b - 1
  BY <1>2
<1>4. (a - m) % b = 0
  BY <1>3, Multiple
<1> QED BY <1>3, <1>4

LEMMA TilesCover ==
    ASSUME NEW p \in Cells(worker.seen.size), worker.seen.size \in Sizes
    PROVE  \E t \in Tiles(worker.seen.size) : p \in TileCells(t)
<1> DEFINE size == worker.seen.size
<1>1. /\ size \in (Nat \ {0}) \X (Nat \ {0})
      /\ Tile \in (Nat \ {0}) \X (Nat \ {0})
  BY SizesAssumption
<1>2. /\ size[1] \in Nat /\ size[2] \in Nat /\ Tile[1] \in Nat \ {0} /\ Tile[2] \in Nat \ {0}
  BY <1>1
<1>3. p = <<p[1], p[2]>> /\ p[1] \in 0 .. size[1] - 1 /\ p[2] \in 0 .. size[2] - 1
  BY DEF Cells
<1> HIDE DEF size
<1>4. PICK x \in 0 .. p[1] : x % Tile[1] = 0 /\ p[1] \in x .. x + Tile[1] - 1
  BY <1>2, <1>3, TileOrigin
<1>5. PICK y \in 0 .. p[2] : y % Tile[2] = 0 /\ p[2] \in y .. y + Tile[2] - 1
  BY <1>2, <1>3, TileOrigin
<1>6. <<x, y>> \in Tiles(size)
  BY <1>2, <1>3, <1>4, <1>5 DEF Tiles, Cells
<1>7. p \in TileCells(<<x, y>>)
  BY <1>4, <1>5 DEF TileCells
<1> QED BY <1>6, <1>7 DEF size
-----------------------------------------------------------------------------
(* Types.                                                                  *)

LEMMA Bounds == MaxFrames \in Nat /\ MaxAsked \in Nat /\ MaxClients \in Nat
BY ExchangeBounds

LEMMA CellsArePixels == \A size \in Sizes \cup {<<0, 0>>} : Cells(size) \subseteq Pixels
<1>1. \A size \in Sizes : Cells(size) \subseteq Pixels
  BY DEF Pixels
<1>2. Cells(<<0, 0>>) = {}
  BY DEF Cells
<1> QED BY <1>1, <1>2

LEMMA ClientUpdates ==
    ASSUME client \in ClientRecords, NEW phase \in ClientPhases
    PROVE  /\ Goto(phase) => client' \in ClientRecords
           /\ Poison => client' \in ClientRecords
           /\ \A sent \in Headers :
                 [client EXCEPT !.phase = phase, !.sent = sent] \in ClientRecords
           /\ \A n \in 0 .. MaxAsked :
                 [client EXCEPT !.phase = phase, !.sequence = n] \in ClientRecords
BY DEF Goto, Poison, ClientRecords, ClientPhases

LEMMA WorkerUpdates ==
    ASSUME worker \in WorkerRecords, NEW phase \in WorkerPhases, Enter(phase)
    PROVE  worker' \in WorkerRecords
BY DEF Enter, WorkerRecords

LEMMA ClientTypes ==
    ASSUME TypeOK, Counters, Open \/ Run \/ ClientStep \/ ClientDies
    PROVE  TypeOK' /\ answers' \in Seq(Answers)
<1> USE DEF workerVars, mapping
<1>1. CASE Open
  <2>1. client' \in ClientRecords
    BY <1>1, ExchangeBounds DEF Open, TypeOK, ClientRecords, ClientPhases, NoHeader, Headers
  <2> QED BY <1>1, <2>1 DEF Open, TypeOK, Counters
<1>2. CASE Run
  <2>0. asked < MaxAsked /\ asked' = asked + 1 /\ asked \in 0 .. MaxAsked
    BY <1>2 DEF Run, TypeOK
  <2>1. client' \in ClientRecords
    <3>1. CASE Poison
      BY <3>1, ClientUpdates DEF TypeOK, ClientPhases
    <3>2. ASSUME NEW size \in Sizes,
                 client' = [client EXCEPT !.phase = "checked",
                   !.sent = [request |-> client.sequence + 1, response |-> client.sequence,
                             status |-> 2, client |-> client.pid, size |-> size]]
          PROVE client' \in ClientRecords
      <4> DEFINE sent == [request |-> client.sequence + 1, response |-> client.sequence,
                          status |-> 2, client |-> client.pid, size |-> size]
      <4>1. sent \in Headers
        <5>1. client \in ClientRecords /\ client.sequence + 1 \in 0 .. MaxAsked
          <6>1. client \in ClientRecords /\ client.sequence \in 0 .. MaxAsked
            BY DEF TypeOK, ClientRecords
          <6>2. client.sequence <= asked
            BY DEF Counters
          <6> QED BY <2>0, <6>1, <6>2, Bounds
        <5>2. client.pid \in {0} \cup Pids
          BY <5>1, Bounds DEF ClientRecords, Pids
        <5> QED BY <5>1, <5>2 DEF ClientRecords, Headers
      <4> HIDE DEF sent
      <4>2. client' = [client EXCEPT !.phase = "checked", !.sent = sent]
        BY <3>2 DEF sent
      <4>3. "checked" \in ClientPhases /\ client \in ClientRecords
        BY DEF TypeOK, ClientPhases
      <4> QED BY <4>1, <4>2, <4>3, ClientUpdates
    <3> QED BY <1>2, <3>1, <3>2 DEF Run
  <2>2. asked' \in 0 .. MaxAsked
    BY <2>0, Bounds
  <2>3. UNCHANGED <<mayFail, header, input, output, signalled, answers, worker, graph>>
    BY <1>2 DEF Run
  <2> QED BY <2>1, <2>2, <2>3 DEF TypeOK, Counters
<1>3. CASE CopyFirstRow \/ CopyRest
  <2>1. client' \in ClientRecords
    BY <1>3, ClientUpdates DEF CopyFirstRow, CopyRest, TypeOK, ClientPhases
  <2>2. input' \in [Pixels -> 0 .. MaxAsked]
    BY <1>3 DEF CopyFirstRow, CopyRest, Fill, TypeOK
  <2> QED BY <1>3, <2>1, <2>2 DEF CopyFirstRow, CopyRest, TypeOK, Counters
<1>4. CASE WriteHeader
  <2>1. client' \in ClientRecords /\ header' \in Headers
    BY <1>4, ClientUpdates DEF WriteHeader, TypeOK, ClientPhases, ClientRecords
  <2> QED BY <1>4, <2>1 DEF WriteHeader, TypeOK, Counters
<1>5. CASE SignalRequest \/ WaitResponse
  <2>1. client' \in ClientRecords
    BY <1>5, ClientUpdates DEF SignalRequest, WaitResponse, TypeOK, ClientPhases
  <2> QED BY <1>5, <2>1 DEF SignalRequest, WaitResponse, TypeOK, Counters
<1>6. CASE TimeOut \/ ReadHeader \/ ClientDies
  <2>1. client' \in ClientRecords
    BY <1>6, ClientUpdates DEF TimeOut, ReadHeader, ClientDies, TypeOK, ClientPhases
  <2> QED BY <1>6, <2>1 DEF TimeOut, ReadHeader, ClientDies, TypeOK, Counters
<1>7. CASE TakeOutput
  <2>1. client' \in ClientRecords
    <3>1. client \in ClientRecords /\ client.sent.request \in 0 .. MaxAsked
      BY DEF TypeOK, ClientRecords, Headers
    <3>2. Poison \/ client' = [client EXCEPT !.phase = "idle", !.sequence = client.sent.request]
      BY <1>7 DEF TakeOutput
    <3>3. "idle" \in ClientPhases
      BY DEF ClientPhases
    <3> QED BY <3>1, <3>2, <3>3, ClientUpdates
  <2>2. answers' \in Seq(Answers)
    <3> DEFINE image == [p \in Cells(client.sent.size) |-> output[p]]
    <3>1. client.sent.size \in Sizes /\ asked \in Surfaces
      BY <1>7 DEF TakeOutput, Counters, Pending, TypeOK, Surfaces, ClientRecords
    <3>2. image \in [Cells(client.sent.size) -> Colors]
      BY <3>1, CellsArePixels DEF TypeOK, Planes
    <3>3. image \in Images
      BY <3>1, <3>2 DEF Images
    <3> HIDE DEF image
    <3>4. [frame |-> asked, image |-> image] \in Answers
      BY <3>1, <3>3 DEF Answers
    <3>5. answers' = answers \/ answers' = Append(answers, [frame |-> asked, image |-> image])
      BY <1>7 DEF TakeOutput, image
    <3> QED BY <3>4, <3>5 DEF Counters
  <2>3. /\ DOMAIN answers' = 1 .. Len(answers')
        /\ \A i \in DOMAIN answers' :
              /\ answers'[i].frame \in Surfaces
              /\ \E size \in Sizes : answers'[i].image \in [Cells(size) -> Colors]
    <3>1. DOMAIN answers' = 1 .. Len(answers') /\ \A i \in DOMAIN answers' : answers'[i] \in Answers
      BY <2>2
    <3> QED BY <3>1 DEF Answers, Images
  <2> QED BY <1>7, <2>1, <2>2, <2>3 DEF TakeOutput, TypeOK
<1> QED BY <1>1, <1>2, <1>3, <1>4, <1>5, <1>6, <1>7 DEF ClientStep

LEMMA WorkerTypes ==
    ASSUME TypeOK, Counters,
           WorkerStep \/ Leave \/ WorkerRaises \/ WorkerDies \/ GpuFinishes
    PROVE  TypeOK' /\ answers' = answers
<1> USE DEF WorkerUnchanged, clientVars, mapping
<1>1. SUFFICES /\ worker' \in WorkerRecords /\ graph' \in GraphRecords
               /\ header' \in Headers /\ output' \in Planes
               /\ signalled' \in [request : BOOLEAN, response : BOOLEAN]
               /\ UNCHANGED <<mayFail, input, client, asked, answers>>
  BY DEF TypeOK
<1>2. /\ worker \in WorkerRecords /\ graph \in GraphRecords
      /\ header \in Headers /\ output \in Planes /\ input \in [Pixels -> 0 .. MaxAsked]
      /\ signalled \in [request : BOOLEAN, response : BOOLEAN]
  BY DEF TypeOK
<1> USE <1>2
<1>3. CASE Start
  <2>1. worker' \in WorkerRecords
    BY <1>3, WorkerUpdates DEF Start, WorkerPhases
  <2>2. header' \in Headers /\ graph' \in GraphRecords
    BY <1>3, Bounds DEF Start, NoHeader, Headers, GraphRecords, Pids
  <2> QED BY <1>3, <2>1, <2>2 DEF Start
<1>4. CASE WaitRequest \/ Leave
  <2>1. worker' \in WorkerRecords
    BY <1>4, WorkerUpdates DEF WaitRequest, Leave, WorkerPhases
  <2> QED BY <1>4, <2>1 DEF WaitRequest, Leave
<1>5. CASE ReadRequest
  <2>1. worker' \in WorkerRecords
    BY <1>5 DEF ReadRequest, WorkerRecords, WorkerPhases, Headers
  <2> QED BY <1>5, <2>1 DEF ReadRequest
<1>6. CASE ReadData
  <2>1. Tiles(worker.seen.size) \subseteq Pixels
    <3>1. worker.seen.size \in Sizes \cup {<<0, 0>>}
      BY DEF WorkerRecords, Headers
    <3> QED BY <3>1, CellsArePixels DEF Tiles
  <2>2. [p \in Pixels |-> Blank] \in Planes
    BY Bounds DEF Planes, Colors, Blank
  <2>3. worker' \in WorkerRecords
    BY <1>6, <2>1, <2>2 DEF ReadData, WorkerRecords, WorkerPhases
  <2> QED BY <1>6, <2>3 DEF ReadData
<1>7. CASE Infer
  <2>1. worker' \in WorkerRecords
    BY <1>7, WorkerUpdates DEF Infer, WorkerPhases
  <2>2. graph' \in GraphRecords
    BY <1>7 DEF Infer, GraphRecords
  <2> QED BY <1>7, <2>1, <2>2 DEF Infer
<1>8. CASE Collect
  <2> DEFINE plane == [p \in Pixels |-> IF p \in TileCells(NextTile)
                              THEN [color |-> worker.data[p], alpha |-> 0]
                              ELSE worker.result[p]]
  <2>1. plane \in Planes
    BY Bounds DEF Planes, Colors, WorkerRecords
  <2> HIDE DEF plane
  <2>2. \/ worker' = [worker EXCEPT !.phase = "tile", !.todo = @ \ {NextTile}, !.result = plane]
        \/ Enter("fail")
    BY <1>8 DEF Collect, plane
  <2>3. worker' \in WorkerRecords
    <3>1. CASE Enter("fail")
      BY <3>1, WorkerUpdates DEF WorkerPhases
    <3>2. CASE worker' = [worker EXCEPT !.phase = "tile", !.todo = @ \ {NextTile}, !.result = plane]
      BY <2>1, <3>2 DEF WorkerRecords, WorkerPhases
    <3> QED BY <2>2, <3>1, <3>2
  <2>4. graph' \in GraphRecords
    BY <1>8 DEF Collect, GraphRecords
  <2> QED BY <1>8, <2>3, <2>4 DEF Collect
<1>9. CASE FinishFrame
  <2> DEFINE plane == [p \in Pixels |-> IF p \in Cells(worker.seen.size)
                          THEN [worker.result[p] EXCEPT !.alpha = worker.data[p]]
                          ELSE worker.result[p]]
  <2>1. plane \in Planes
    BY Bounds DEF Planes, Colors, WorkerRecords
  <2> HIDE DEF plane
  <2>2. worker' = [worker EXCEPT !.phase = "recheck", !.result = plane]
    BY <1>9 DEF FinishFrame, plane
  <2>3. worker' \in WorkerRecords
    BY <2>1, <2>2 DEF WorkerRecords, WorkerPhases
  <2> QED BY <1>9, <2>3 DEF FinishFrame
<1>10. CASE Recheck \/ WriteOutput \/ WorkerRaises \/ WorkerDies
  <2>1. worker' \in WorkerRecords
    BY <1>10, WorkerUpdates DEF Recheck, WriteOutput, WorkerRaises, WorkerDies, WorkerPhases
  <2>2. output' \in Planes
    BY <1>10 DEF Recheck, WriteOutput, WorkerRaises, WorkerDies, Planes, WorkerRecords
  <2> QED BY <1>10, <2>1, <2>2 DEF Recheck, WriteOutput, WorkerRaises, WorkerDies
<1>11. CASE Publish \/ ReportFailure
  <2>1. worker' \in WorkerRecords
    BY <1>11, WorkerUpdates DEF Publish, ReportFailure, WorkerPhases
  <2>2. header' \in Headers /\ signalled' \in [request : BOOLEAN, response : BOOLEAN]
    <3>1. worker.seen \in Headers /\ worker.seen.request \in 0 .. MaxAsked
      BY DEF WorkerRecords, Headers
    <3>2. \A h \in Headers, n \in 0 .. MaxAsked, status \in 0 .. 3 :
             [h EXCEPT !.response = n, !.status = status] \in Headers
      BY DEF Headers
    <3>3. 1 \in 0 .. 3 /\ 3 \in 0 .. 3
      OBVIOUS
    <3>4. CASE Publish
      BY <3>1, <3>2, <3>3, <3>4 DEF Publish
    <3>5. CASE ReportFailure
      <4>1. [signalled EXCEPT !.response = TRUE] \in [request : BOOLEAN, response : BOOLEAN]
        OBVIOUS
      <4>2. header' = header \/ header' = [header EXCEPT !.status = 3]
        BY <3>5 DEF ReportFailure
      <4>3. signalled' = signalled \/ signalled' = [signalled EXCEPT !.response = TRUE]
        BY <3>5 DEF ReportFailure
      <4>4. header' \in Headers
        <5>1. \A status \in 0 .. 3 : [header EXCEPT !.status = status] \in Headers
          BY DEF Headers
        <5> QED BY <3>3, <4>2, <5>1
      <4>5. signalled' \in [request : BOOLEAN, response : BOOLEAN]
        BY <4>1, <4>3
      <4> QED BY <4>4, <4>5
    <3> QED BY <1>11, <3>4, <3>5
  <2> QED BY <1>11, <2>1, <2>2 DEF Publish, ReportFailure
<1>12. CASE SignalAnswer
  <2>1. worker' \in WorkerRecords /\ signalled' \in [request : BOOLEAN, response : BOOLEAN]
    BY <1>12 DEF SignalAnswer, WorkerRecords, WorkerPhases, Headers
  <2> QED BY <1>12, <2>1 DEF SignalAnswer
<1>13. CASE Save
  <2>1. worker' \in WorkerRecords
    <3>1. worker.phase = "save" /\ worker' = [worker EXCEPT !.phase = "wait", !.served = @ + 1]
      BY <1>13 DEF Save, At
    <3>2. worker.served < MaxFrames
      BY <3>1 DEF Counters
    <3>3. worker.served + 1 \in 0 .. MaxFrames
      BY <3>2, Bounds DEF WorkerRecords
    <3>4. \A n \in 0 .. MaxFrames, phase \in WorkerPhases :
             [worker EXCEPT !.phase = phase, !.served = n] \in WorkerRecords
      BY DEF WorkerRecords
    <3>5. "wait" \in WorkerPhases
      BY DEF WorkerPhases
    <3> QED BY <3>1, <3>3, <3>4, <3>5
  <2> QED BY <1>13, <2>1 DEF Save
<1>14. CASE Close
  <2>1. worker' \in WorkerRecords
    BY <1>14, WorkerUpdates DEF Close, WorkerPhases
  <2>2. graph' \in GraphRecords
    BY <1>14 DEF Close, CloseGraph, GraphRecords
  <2> QED BY <1>14, <2>1, <2>2 DEF Close
<1>15. CASE GpuFinishes
  BY <1>15 DEF GpuFinishes, GraphRecords
<1> QED BY <1>3, <1>4, <1>5, <1>6, <1>7, <1>8, <1>9, <1>10, <1>11, <1>12, <1>13, <1>14, <1>15
        DEF WorkerStep

LEMMA TypeStep == TypeOK /\ Counters /\ [Next]_vars => TypeOK' /\ answers' \in Seq(Answers)
<1>1. CASE UNCHANGED vars
  BY <1>1 DEF TypeOK, Counters, vars, mapping, clientVars, workerVars
<1> QED BY <1>1, ClientTypes, WorkerTypes DEF Next, Counters
-----------------------------------------------------------------------------
(* What a step of one side does to its own record, field by field.          *)

LEMMA ClientMoves ==
    ASSUME client \in ClientRecords, NEW phase
    PROVE  /\ Goto(phase) =>
                 /\ client'.phase = phase /\ client'.sequence = client.sequence
                 /\ client'.poisoned = client.poisoned /\ client'.sent = client.sent
                 /\ client'.pid = client.pid
           /\ Poison =>
                 /\ client'.phase = "idle" /\ client'.sequence = client.sequence
                 /\ client'.poisoned /\ client'.sent = client.sent
                 /\ client'.pid = client.pid
BY DEF Goto, Poison, ClientRecords

LEMMA WorkerMoves ==
    ASSUME worker \in WorkerRecords, NEW phase, Enter(phase)
    PROVE  /\ worker'.phase = phase /\ worker'.served = worker.served
           /\ worker'.seen = worker.seen /\ worker'.data = worker.data
           /\ worker'.todo = worker.todo /\ worker'.result = worker.result
BY DEF Enter, WorkerRecords

(* Run either prepares a request or poisons the object.                    *)
LEMMA RunOutcome ==
    ASSUME TypeOK, Run
    PROVE  /\ client.phase = "idle" /\ ~client.poisoned /\ asked' = asked + 1
           /\ UNCHANGED <<mayFail, header, input, output, signalled, answers, worker, graph>>
           /\ client'.sequence = client.sequence
           /\ \/ client'.phase = "idle" /\ client'.poisoned
              \/ /\ client'.phase = "checked" /\ ~client'.poisoned
                 /\ client'.sent.request = client.sequence + 1
                 /\ client'.sent.status = 2 /\ client'.sent.size \in Sizes
                 /\ header.status = 1
<1>1. client \in ClientRecords
  BY DEF TypeOK
<1>2. /\ client.phase = "idle" /\ ~client.poisoned /\ asked' = asked + 1
      /\ UNCHANGED <<mayFail, header, input, output, signalled, answers, worker, graph>>
  BY DEF Run, mapping, workerVars, MayRun
<1>3. CASE Poison
  BY <1>1, <1>2, <1>3, ClientMoves
<1>4. ASSUME NEW size \in Sizes, header.status = 1,
             client' = [client EXCEPT !.phase = "checked",
               !.sent = [request |-> client.sequence + 1, response |-> client.sequence,
                         status |-> 2, client |-> client.pid, size |-> size]]
      PROVE /\ client'.phase = "checked" /\ ~client'.poisoned
            /\ client'.sequence = client.sequence
            /\ client'.sent.request = client.sequence + 1
            /\ client'.sent.status = 2 /\ client'.sent.size \in Sizes
  BY <1>1, <1>2, <1>4 DEF ClientRecords
<1> QED BY <1>1, <1>2, <1>3, <1>4, ClientMoves DEF Run, MayRun, HeaderCurrent

(* The client's steps after a request is prepared: nothing but the phase    *)
(* changes, or the object is poisoned.                                     *)
LEMMA StepOutcome ==
    ASSUME TypeOK, ClientStep
    PROVE  /\ asked' = asked /\ client'.sent = client.sent /\ UNCHANGED <<output, worker, graph>>
           /\ client.phase \in Sending \cup Pending
           /\ \/ /\ client'.poisoned /\ client'.phase = "idle" /\ client'.sequence = client.sequence
                 /\ UNCHANGED <<header, input, answers>>
              \/ /\ client'.poisoned = client.poisoned /\ client'.sequence = client.sequence
                 /\ client'.phase \in Sending \cup Pending /\ answers' = answers
              \/ TakeOutput /\ client'.phase = "idle" /\ client'.poisoned = client.poisoned
                 /\ client'.sequence = client.sent.request
           /\ \/ client.phase = "checked" /\ client'.phase = "copy" /\ input' = Fill(FirstRow)
                 /\ header' = header
              \/ client.phase = "copy" /\ client'.phase = "header" /\ header' = header
                 /\ input' = Fill(Cells(client.sent.size) \ FirstRow)
              \/ client.phase = "header" /\ client'.phase = "reset" /\ header' = client.sent
                 /\ input' = input
              \/ /\ client.phase \in Pending /\ client'.phase \in Pending \cup {"idle"}
                 /\ UNCHANGED <<header, input>>
                 /\ client'.phase = "take" => header.status = 1
<1> USE DEF Sending, Pending, mapping, workerVars
<1>1. client \in ClientRecords
  BY DEF TypeOK
<1>2. CASE CopyFirstRow
  BY <1>1, <1>2, ClientMoves DEF CopyFirstRow
<1>3. CASE CopyRest
  BY <1>1, <1>3, ClientMoves DEF CopyRest
<1>4. CASE WriteHeader
  BY <1>1, <1>4, ClientMoves DEF WriteHeader
<1>5. CASE SignalRequest
  BY <1>1, <1>5, ClientMoves DEF SignalRequest
<1>6. CASE WaitResponse
  BY <1>1, <1>6, ClientMoves DEF WaitResponse
<1>7. CASE TimeOut
  BY <1>1, <1>7, ClientMoves DEF TimeOut
<1>8. CASE ReadHeader
  <2>1. AnswersRequest => header.status = 1
    BY <1>1 DEF AnswersRequest, ClientRecords, Headers
  <2> QED BY <1>1, <1>8, <2>1, ClientMoves DEF ReadHeader
<1>9. CASE TakeOutput
  <2>1. \/ Poison /\ UNCHANGED answers
        \/ client' = [client EXCEPT !.phase = "idle", !.sequence = client.sent.request]
    BY <1>9 DEF TakeOutput
  <2>2. client.phase = "take" /\ UNCHANGED <<header, input, output, asked, worker, graph>>
    BY <1>9 DEF TakeOutput
  <2>3. CASE Poison /\ UNCHANGED answers
    BY <1>1, <2>2, <2>3, ClientMoves
  <2>4. CASE client' = [client EXCEPT !.phase = "idle", !.sequence = client.sent.request]
    <3>1. /\ client'.phase = "idle" /\ client'.sequence = client.sent.request
          /\ client'.sent = client.sent /\ client'.poisoned = client.poisoned
      BY <1>1, <2>4 DEF ClientRecords
    <3> QED BY <1>9, <2>2, <3>1
  <2> QED BY <2>1, <2>3, <2>4
<1> QED BY <1>2, <1>3, <1>4, <1>5, <1>6, <1>7, <1>8, <1>9 DEF ClientStep

(* What a step of the worker, or of the GPU, does to the mapping and to the  *)
(* frames it has served.                                                   *)
LEMMA WorkerOutcome ==
    ASSUME TypeOK, WorkerStep \/ Leave \/ WorkerRaises \/ WorkerDies \/ GpuFinishes
    PROVE  /\ UNCHANGED <<mayFail, input, client, asked, answers>>
           /\ worker'.phase = "start" => worker.phase = "start" /\ header' = header
           /\ worker'.phase \in Serving \cup {"request", "signal", "save"} =>
                 /\ worker'.served = worker.served
                 /\ \/ worker.phase \in Serving \cup {"request", "signal", "save"}
                    \/ worker.served < MaxFrames
           /\ \/ header' = header
              \/ worker.phase = "start" /\ header' = [NoHeader EXCEPT !.status = 1]
              \/ /\ Publish /\ header'.status = 1
                 /\ header'.request = worker.seen.request
              \/ /\ worker.phase = "fail" /\ worker'.phase = "alarm"
                 /\ header'.status = 3 /\ header'.request = header.request
           /\ output' = output \/ WriteOutput
<1> USE DEF WorkerUnchanged, clientVars, mapping, Serving, At
<1>1. worker \in WorkerRecords /\ header \in Headers
  BY DEF TypeOK
<1>2. CASE Start
  BY <1>1, <1>2, WorkerMoves DEF Start
<1>3. CASE WaitRequest
  BY <1>1, <1>3, WorkerMoves DEF WaitRequest
<1>4. CASE Leave
  BY <1>1, <1>4, WorkerMoves DEF Leave
<1>5. CASE ReadRequest
  <2>1. worker'.served = worker.served /\ worker'.phase \in {"data", "fail"}
    BY <1>1, <1>5 DEF ReadRequest, WorkerRecords
  <2> QED BY <1>5, <2>1 DEF ReadRequest
<1>6. CASE ReadData
  <2>1. worker'.served = worker.served /\ worker'.phase = "tile"
    BY <1>1, <1>6 DEF ReadData, WorkerRecords
  <2> QED BY <1>6, <2>1 DEF ReadData
<1>7. CASE Infer
  BY <1>1, <1>7, WorkerMoves DEF Infer
<1>8. CASE Collect
  <2>1. CASE Enter("fail")
    BY <1>1, <1>8, <2>1, WorkerMoves DEF Collect
  <2>2. ASSUME NEW plane,
               worker' = [worker EXCEPT !.phase = "tile", !.todo = @ \ {NextTile}, !.result = plane]
        PROVE  worker'.served = worker.served /\ worker'.phase = "tile"
    BY <1>1, <2>2 DEF WorkerRecords
  <2>3. Enter("fail") \/ (worker'.served = worker.served /\ worker'.phase = "tile")
    BY <1>8, <2>2 DEF Collect
  <2> QED BY <1>8, <2>1, <2>3 DEF Collect
<1>9. CASE FinishFrame
  <2>1. ASSUME NEW plane, worker' = [worker EXCEPT !.phase = "recheck", !.result = plane]
        PROVE  worker'.served = worker.served /\ worker'.phase = "recheck"
    BY <1>1, <2>1 DEF WorkerRecords
  <2>2. worker'.served = worker.served /\ worker'.phase = "recheck"
    BY <1>9, <2>1 DEF FinishFrame
  <2> QED BY <1>9, <2>2 DEF FinishFrame
<1>10. CASE Recheck
  BY <1>1, <1>10, WorkerMoves DEF Recheck
<1>11. CASE WriteOutput
  BY <1>1, <1>11, WorkerMoves DEF WriteOutput
<1>12. CASE Publish
  <2>1. header'.status = 1 /\ header'.request = worker.seen.request
    BY <1>1, <1>12 DEF Publish, WorkerRecords, Headers
  <2> QED BY <1>1, <1>12, <2>1, WorkerMoves DEF Publish
<1>13. CASE SignalAnswer
  <2>1. worker'.served = worker.served /\ worker'.phase = "save"
    BY <1>1, <1>13 DEF SignalAnswer, WorkerRecords
  <2> QED BY <1>13, <2>1 DEF SignalAnswer
<1>14. CASE Save
  <2>1. worker'.phase = "wait"
    BY <1>1, <1>14 DEF Save, WorkerRecords
  <2> QED BY <1>14, <2>1 DEF Save
<1>15. CASE WorkerRaises
  BY <1>1, <1>15, WorkerMoves DEF WorkerRaises
<1>16. CASE ReportFailure
  <2>1. \/ At("fail") /\ Enter("alarm") /\ header' = [header EXCEPT !.status = 3]
        \/ At("alarm") /\ Enter("close") /\ UNCHANGED header
    BY <1>16 DEF ReportFailure
  <2>2. CASE At("fail") /\ Enter("alarm") /\ header' = [header EXCEPT !.status = 3]
    <3>1. header'.status = 3 /\ header'.request = header.request
      BY <1>1, <2>2 DEF Headers
    <3> QED BY <1>1, <1>16, <2>2, <3>1, WorkerMoves DEF ReportFailure
  <2>3. CASE At("alarm") /\ Enter("close") /\ UNCHANGED header
    BY <1>1, <1>16, <2>3, WorkerMoves DEF ReportFailure
  <2> QED BY <2>1, <2>2, <2>3
<1>17. CASE Close \/ WorkerDies
  BY <1>1, <1>17, WorkerMoves DEF Close, WorkerDies
<1>18. CASE GpuFinishes
  BY <1>18 DEF GpuFinishes
<1> QED BY <1>2, <1>3, <1>4, <1>5, <1>6, <1>7, <1>8, <1>9, <1>10, <1>11, <1>12, <1>13, <1>14,
           <1>15, <1>16, <1>17, <1>18 DEF WorkerStep

(* Open and ClientDies, the two ends of a client.                          *)
LEMMA EndOutcome ==
    ASSUME TypeOK, Open \/ ClientDies
    PROVE  /\ UNCHANGED <<mayFail, header, input, output, signalled, asked, answers, worker, graph>>
           /\ \/ /\ Open /\ client'.phase = "idle" /\ client'.sequence = 0
                 /\ ~client'.poisoned /\ header.status = 1
              \/ /\ client'.phase = "closed" /\ client'.sequence = client.sequence
                 /\ client'.poisoned = client.poisoned
<1>1. client \in ClientRecords
  BY DEF TypeOK
<1>2. CASE Open
  BY <1>2 DEF Open, mapping, workerVars, NoHeader
<1>3. CASE ClientDies
  BY <1>1, <1>3, ClientMoves DEF ClientDies, mapping, workerVars
<1> QED BY <1>2, <1>3
-----------------------------------------------------------------------------
(* Each part of the invariant is kept by every step.                       *)

LEMMA CountersStep == TypeOK /\ Counters /\ Requests /\ [Next]_vars => Counters'
<1> SUFFICES ASSUME TypeOK, Counters, Requests, [Next]_vars PROVE Counters'
  OBVIOUS
<1> USE DEF Sending, Pending
<1>1. answers' \in Seq(Answers)
  BY TypeStep
<1>2. client.sequence \in Nat /\ asked \in Nat /\ client.sent.request \in Nat
  BY Bounds DEF TypeOK, ClientRecords, Headers
<1>3. CASE UNCHANGED vars
  BY <1>3 DEF Counters, vars, mapping, clientVars, workerVars
<1>4. CASE Open \/ ClientDies
  <2>1. Open => worker.phase # "start"
    <3>1. Open => header.status = 1
      BY DEF Open, NoHeader
    <3> QED BY <3>1 DEF Requests
  <2>2. client.phase # "closed" \/ Open
    BY <1>4 DEF ClientDies
  <2> QED BY <1>1, <1>2, <1>4, <2>1, <2>2, EndOutcome DEF Counters
<1>5. CASE Run
  BY <1>1, <1>2, <1>5, RunOutcome DEF Counters
<1>6. CASE ClientStep
  <2>1. TakeOutput => client.phase = "take"
    BY DEF TakeOutput
  <2> QED BY <1>1, <1>2, <1>6, <2>1, StepOutcome DEF Counters
<1>7. CASE WorkerStep \/ Leave \/ WorkerRaises \/ WorkerDies \/ GpuFinishes
  BY <1>1, <1>7, WorkerOutcome DEF Counters
<1> QED BY <1>3, <1>4, <1>5, <1>6, <1>7 DEF Next

LEMMA RequestsStep ==
    TypeOK /\ Counters /\ Requests /\ Served /\ Answered /\ [Next]_vars => Requests'
<1> SUFFICES ASSUME TypeOK, Counters, Requests, Served, Answered, [Next]_vars PROVE Requests'
  OBVIOUS
<1> USE DEF Sending, Pending
<1>3. CASE UNCHANGED vars
  BY <1>3 DEF Requests, FirstRow, vars, mapping, clientVars, workerVars
<1>4. CASE Open \/ ClientDies
  BY <1>4, EndOutcome DEF Requests
<1>5. CASE Run
  BY <1>5, RunOutcome DEF Requests
<1>6. CASE ClientStep
  <2>0. client \in ClientRecords /\ input \in [Pixels -> 0 .. MaxAsked]
    BY DEF TypeOK
  <2>1. CASE client.phase = "checked" /\ client'.phase = "copy" /\ input' = Fill(FirstRow)
             /\ header' = header
    <3>1. FirstRow' = FirstRow
      BY <1>6, StepOutcome DEF FirstRow
    <3>2. \A p \in FirstRow : p \in Pixels
      <4>1. client.sent.size \in Sizes
        BY <2>1 DEF Counters
      <4> QED BY <4>1, CellsArePixels DEF FirstRow
    <3>3. \A p \in FirstRow : input'[p] = asked
      BY <2>1, <3>2 DEF Fill
    <3> QED BY <1>6, <2>1, <3>1, <3>3, StepOutcome DEF Requests
  <2>2. CASE client.phase = "copy" /\ client'.phase = "header" /\ header' = header
             /\ input' = Fill(Cells(client.sent.size) \ FirstRow)
    <3>2. \A p \in Cells(client.sent.size) : p \in Pixels
      <4>1. client.sent.size \in Sizes
        BY <2>2 DEF Counters
      <4> QED BY <4>1, CellsArePixels
    <3>3. \A p \in Cells(client.sent.size) : input'[p] = asked
      BY <2>2, <3>2 DEF Fill, Requests
    <3> QED BY <1>6, <2>2, <3>3, StepOutcome DEF Requests
  <2>3. CASE client.phase = "header" /\ client'.phase = "reset" /\ header' = client.sent
             /\ input' = input
    <3>1. client.sent.request = client.sequence + 1 /\ client.sequence \in Nat
          /\ client.sent.size \in Sizes
      BY <2>3, Bounds DEF Counters, TypeOK, ClientRecords
    <3>2. client.sent.request > 0
      BY <3>1
    <3>3. worker.phase # "start"
      BY <2>3 DEF Counters
    <3> QED BY <1>6, <2>3, <3>1, <3>2, <3>3, StepOutcome DEF Requests
  <2>4. CASE /\ client.phase \in Pending /\ client'.phase \in Pending \cup {"idle"}
             /\ UNCHANGED <<header, input>>
             /\ client'.phase = "take" => header.status = 1
    <3>1. client'.phase = "idle" /\ ~client'.poisoned => header.status # 2
      <4>1. client'.phase = "idle" /\ ~client'.poisoned => TakeOutput
        BY <1>6, StepOutcome
      <4>2. TakeOutput => client.phase = "take"
        BY DEF TakeOutput
      <4> QED BY <4>1, <4>2 DEF Requests
    <3> QED BY <1>6, <2>4, <3>1, StepOutcome DEF Requests
  <2> QED BY <1>6, <2>1, <2>2, <2>3, <2>4, StepOutcome
<1>7. CASE WorkerStep \/ Leave \/ WorkerRaises \/ WorkerDies \/ GpuFinishes
  <2>1. FirstRow' = FirstRow
    BY <1>7, WorkerOutcome DEF FirstRow
  <2>2. CASE header' = header
    BY <1>7, <2>1, <2>2, WorkerOutcome DEF Requests
  <2>3. CASE worker.phase = "start" /\ header' = [NoHeader EXCEPT !.status = 1]
    <3>1. client.phase = "closed" /\ header'.status = 1
      BY <2>3 DEF Counters, NoHeader
    <3>2. header' # header
      <4>1. header.status = 0
        BY <2>3 DEF Requests
      <4> QED BY <3>1, <4>1
    <3>3. client' = client /\ worker'.phase # "start"
      BY <1>7, <3>2, WorkerOutcome
    <3> QED BY <3>1, <3>3 DEF Requests
  <2>4. CASE Publish /\ header'.status = 1 /\ header'.request = worker.seen.request
    <3>1. header = worker.seen /\ worker.phase = "publish"
      BY <2>4 DEF Served, Serving, Publish, At
    <3> QED BY <1>7, <2>1, <2>4, <3>1, WorkerOutcome DEF Requests
  <2>5. CASE worker.phase = "fail" /\ worker'.phase = "alarm" /\ header'.status = 3
             /\ header'.request = header.request
    BY <1>7, <2>1, <2>5, WorkerOutcome DEF Requests
  <2> QED BY <1>7, <2>2, <2>3, <2>4, <2>5, WorkerOutcome
<1> QED BY <1>3, <1>4, <1>5, <1>6, <1>7 DEF Next

(* The worker's part holds whatever the client does: it neither asks nor    *)
(* writes while the request is being served.                               *)
LEMMA ServedByClient ==
    ASSUME TypeOK, Counters, Requests, Served, Open \/ Run \/ ClientStep \/ ClientDies
    PROVE  Served'
<1> USE DEF Serving
<1>1. worker' = worker /\ output' = output
  BY EndOutcome, RunOutcome, StepOutcome
<1>2. worker.phase \in Serving => header' = header /\ asked' = asked
  <2>1. worker.phase \in Serving => header.status = 2
    BY DEF Served
  <2>2. CASE Open \/ ClientDies
    BY <2>2, EndOutcome
  <2>3. CASE Run
    BY <2>1, <2>3, RunOutcome DEF Requests
  <2>4. CASE ClientStep
    BY <2>1, <2>4, StepOutcome DEF Requests, Sending
  <2> QED BY <2>2, <2>3, <2>4
<1>3. \A t : TileCells(t)' = TileCells(t)
  BY <1>1 DEF TileCells
<1> QED BY <1>1, <1>2, <1>3 DEF Served

LEMMA ServedByWorker ==
    ASSUME TypeOK, Counters, Requests, Served,
           WorkerStep \/ Leave \/ WorkerRaises \/ WorkerDies \/ GpuFinishes
    PROVE  Served'
<1> USE DEF At
<1>1. worker \in WorkerRecords /\ asked' = asked
  BY WorkerOutcome DEF TypeOK
<1>2. CASE worker'.phase \notin Serving
  BY <1>2 DEF Served, Serving
<1>3. CASE GpuFinishes
  <2>1. worker' = worker /\ header' = header /\ output' = output
    BY <1>3 DEF GpuFinishes, mapping
  <2> QED BY <1>1, <2>1 DEF Served, TileCells
<1>4. CASE ReadRequest /\ worker'.phase \in Serving
  <2>1. worker' = [worker EXCEPT !.phase = "data", !.seen = header, !.owner = header.client]
        /\ ValidRequest
    <3>1. worker' = [worker EXCEPT !.phase = "fail"] => worker'.phase = "fail"
      BY <1>1 DEF WorkerRecords
    <3> QED BY <1>4, <3>1 DEF ReadRequest, Serving
  <2>2. worker'.phase = "data" /\ worker'.seen = header
    BY <1>1, <2>1 DEF WorkerRecords
  <2>3. header' = header /\ header.status = 2
    BY <1>4, <2>1 DEF ReadRequest, ValidRequest, mapping
  <2> QED BY <2>2, <2>3 DEF Served, Serving
<1>5. CASE ReadData
  <2>1. /\ worker'.phase = "tile" /\ worker'.data = input /\ worker'.todo = Tiles(worker.seen.size)
        /\ worker'.seen = worker.seen
    BY <1>1, <1>5 DEF ReadData, WorkerRecords
  <2>2. header = worker.seen /\ header.status = 2 /\ header' = header
    BY <1>5 DEF ReadData, Served, Serving, mapping
  <2>3. worker.seen.size \in Sizes /\ \A p \in Cells(worker.seen.size) : input[p] = asked
    BY <2>2 DEF Requests
  <2>4. \A t : TileCells(t)' = TileCells(t)
    BY <2>1 DEF TileCells
  <2>5. \A p \in Cells(worker.seen.size) : \E t \in worker'.todo : p \in TileCells(t)'
    BY <2>1, <2>3, <2>4, TilesCover
  <2> QED BY <1>1, <2>1, <2>2, <2>3, <2>5 DEF Served
<1>6. CASE Infer /\ worker'.phase \in Serving
  <2>1. Enter("poll")
    <3>1. Enter("fail") => worker'.phase = "fail"
      BY <1>1, WorkerMoves
    <3> QED BY <1>6, <3>1 DEF Infer, Serving
  <2>2. /\ worker'.phase = "poll" /\ worker'.seen = worker.seen /\ worker'.data = worker.data
        /\ worker'.todo = worker.todo /\ worker'.result = worker.result
    BY <1>1, <2>1, WorkerMoves
  <2>3. worker.phase = "tile" /\ header' = header
    BY <1>6 DEF Infer, mapping
  <2>4. \A t : TileCells(t)' = TileCells(t)
    BY <2>2 DEF TileCells
  <2> QED BY <1>1, <2>2, <2>3, <2>4 DEF Served, Serving
<1>7. CASE Collect /\ worker'.phase \in Serving
  <2> DEFINE plane == [p \in Pixels |-> IF p \in TileCells(NextTile)
                              THEN [color |-> worker.data[p], alpha |-> 0]
                              ELSE worker.result[p]]
  <2>1. worker' = [worker EXCEPT !.phase = "tile", !.todo = @ \ {NextTile}, !.result = plane]
    <3>1. Enter("fail") => worker'.phase = "fail"
      BY <1>1, WorkerMoves
    <3> QED BY <1>7, <3>1 DEF Collect, Serving
  <2>2. worker.phase = "poll" /\ header' = header
    BY <1>7 DEF Collect, mapping
  <2>3. \A p \in Pixels : plane[p].color =
            IF p \in TileCells(NextTile) THEN worker.data[p] ELSE worker.result[p].color
    OBVIOUS
  <2> HIDE DEF plane
  <2>4. /\ worker'.phase = "tile" /\ worker'.seen = worker.seen /\ worker'.data = worker.data
        /\ worker'.todo = worker.todo \ {NextTile} /\ worker'.result = plane
    BY <1>1, <2>1 DEF WorkerRecords
  <2>5. \A t : TileCells(t)' = TileCells(t)
    BY <2>4 DEF TileCells
  <2>6. \A p \in Cells(worker.seen.size) : p \in Pixels
    <3>1. worker.seen.size \in Sizes
      BY <2>2 DEF Served, Serving, Requests
    <3> QED BY <3>1, CellsArePixels
  <2>7. ASSUME NEW p \in Cells(worker.seen.size)
        PROVE  plane[p].color = asked \/ \E t \in worker'.todo : p \in TileCells(t)
    <3>1. worker.data[p] = asked
      BY <2>2 DEF Served, Serving
    <3>2. worker.result[p].color = asked \/ \E t \in worker.todo : p \in TileCells(t)
      BY <2>2 DEF Served
    <3>3. CASE p \in TileCells(NextTile)
      BY <2>3, <2>6, <3>1, <3>3
    <3>4. CASE p \notin TileCells(NextTile)
      BY <2>3, <2>4, <2>6, <3>2, <3>4
    <3> QED BY <3>3, <3>4
  <2> QED BY <1>1, <2>2, <2>4, <2>5, <2>7 DEF Served, Serving
<1>8. CASE FinishFrame
  <2> DEFINE plane == [p \in Pixels |-> IF p \in Cells(worker.seen.size)
                          THEN [worker.result[p] EXCEPT !.alpha = worker.data[p]]
                          ELSE worker.result[p]]
  <2>1. worker' = [worker EXCEPT !.phase = "recheck", !.result = plane]
    BY <1>8 DEF FinishFrame
  <2>2. worker.phase = "tile" /\ worker.todo = {} /\ header' = header
    BY <1>8 DEF FinishFrame, mapping
  <2>3. \A p \in Cells(worker.seen.size) : p \in Pixels
    <3>1. worker.seen.size \in Sizes
      BY <2>2 DEF Served, Serving, Requests
    <3> QED BY <3>1, CellsArePixels
  <2>4. ASSUME NEW p \in Cells(worker.seen.size) PROVE plane[p] = Own(asked)
    <3>1. worker.data[p] = asked /\ worker.result[p].color = asked
      BY <2>2 DEF Served, Serving
    <3>2. worker.result[p] \in Colors
      BY <2>3 DEF TypeOK, WorkerRecords, Planes
    <3>3. plane[p] = [worker.result[p] EXCEPT !.alpha = worker.data[p]]
      BY <2>3
    <3> HIDE DEF plane
    <3> QED BY <3>1, <3>2, <3>3 DEF Colors, Own
  <2> HIDE DEF plane
  <2>5. /\ worker'.phase = "recheck" /\ worker'.seen = worker.seen /\ worker'.data = worker.data
        /\ worker'.result = plane
    BY <1>1, <2>1 DEF WorkerRecords
  <2> QED BY <1>1, <2>2, <2>4, <2>5 DEF Served, Serving, Own
<1>9. CASE Recheck
  <2>1. header' = header /\ worker.phase = "recheck"
    BY <1>9 DEF Recheck, mapping
  <2>2. worker'.phase \in {"output", "fail"} /\ worker'.seen = worker.seen
        /\ worker'.data = worker.data /\ worker'.result = worker.result
    BY <1>1, <1>9, WorkerMoves DEF Recheck
  <2> QED BY <1>1, <2>1, <2>2 DEF Served, Serving, Own
<1>10. CASE WriteOutput
  <2>1. header' = header /\ worker.phase = "output"
    BY <1>10 DEF WriteOutput
  <2>2. worker'.phase = "publish" /\ worker'.seen = worker.seen /\ worker'.data = worker.data
    BY <1>1, <1>10, WorkerMoves DEF WriteOutput
  <2>3. \A p \in Cells(worker.seen.size) : p \in Pixels
    <3>1. worker.seen.size \in Sizes
      BY <2>1 DEF Served, Serving, Requests
    <3> QED BY <3>1, CellsArePixels
  <2>4. \A p \in Cells(worker.seen.size) : output'[p] = worker.result[p]
    BY <1>10, <2>3 DEF WriteOutput
  <2> QED BY <1>1, <2>1, <2>2, <2>4 DEF Served, Serving, Own
<1>11. CASE Start \/ WaitRequest \/ Leave \/ Publish \/ WorkerRaises \/ ReportFailure
            \/ Close \/ WorkerDies
  <2>1. worker'.phase \notin Serving
    BY <1>1, <1>11, WorkerMoves
       DEF Start, WaitRequest, Leave, Publish, WorkerRaises, ReportFailure, Close, WorkerDies, Serving
  <2> QED BY <1>2, <2>1
<1>12. CASE SignalAnswer \/ Save
  <2>1. worker'.phase \in {"save", "wait"}
    BY <1>1, <1>12 DEF SignalAnswer, Save, WorkerRecords
  <2> QED BY <1>2, <2>1 DEF Serving
<1> QED BY <1>2, <1>3, <1>4, <1>5, <1>6, <1>7, <1>8, <1>9, <1>10, <1>11, <1>12 DEF WorkerStep

LEMMA ServedStep == TypeOK /\ Counters /\ Requests /\ Served /\ [Next]_vars => Served'
<1>1. UNCHANGED vars /\ Served => Served'
  BY DEF Served, TileCells, vars, mapping, clientVars, workerVars
<1> QED BY <1>1, ServedByClient, ServedByWorker DEF Next

(* Run adds the image of its own surface, and nothing else adds any.       *)
LEMMA AnsweredStep ==
    TypeOK /\ Counters /\ Requests /\ Served /\ Answered /\ [Next]_vars => Answered'
<1> SUFFICES ASSUME TypeOK, Counters, Requests, Served, Answered, [Next]_vars PROVE Answered'
  OBVIOUS
<1> USE DEF Pending
<1>1. CASE UNCHANGED vars
  BY <1>1 DEF Answered, AnswersOwn, Own, vars, mapping, clientVars, workerVars
<1>2. ASSUME answers' = answers PROVE AnswersOwn'
  BY <1>2 DEF Answered, AnswersOwn
<1>3. CASE Open \/ ClientDies
  BY <1>2, <1>3, EndOutcome DEF Answered, Own
<1>4. CASE Run
  BY <1>2, <1>4, RunOutcome DEF Answered, Own
<1>5. CASE ClientStep
  <2>1. /\ UNCHANGED <<output, asked, worker>> /\ client'.sent = client.sent
    BY <1>5, StepOutcome
  <2>2. AnswersOwn'
    <3>1. CASE answers' = answers
      BY <1>2, <3>1
    <3>2. CASE answers' # answers
      <4> DEFINE image == [p \in Cells(client.sent.size) |-> output[p]]
                 answer == [frame |-> asked, image |-> image]
      <4>1. TakeOutput /\ answers' = Append(answers, answer)
        BY <1>5, <3>2, StepOutcome DEF TakeOutput
      <4>2. client.phase = "take"
        BY <4>1 DEF TakeOutput
      <4>3. \A p \in DOMAIN image : image[p] = Own(asked)
        BY <4>2 DEF Answered
      <4>4. answer.frame = asked /\ answer.image = image
        OBVIOUS
      <4> HIDE DEF image, answer
      <4>5. \A i \in DOMAIN answers' :
               answers'[i] = answer \/ (i \in DOMAIN answers /\ answers'[i] = answers[i])
        <5>1. answers \in Seq(Answers)
          BY DEF Counters
        <5> QED BY <4>1, <5>1
      <4> QED BY <4>3, <4>4, <4>5 DEF AnswersOwn, Own, Answered
    <3> QED BY <3>1, <3>2
  <2>3. client'.phase = "take" => header.status = 1 /\ client.phase \in Pending
    BY <1>5, StepOutcome DEF Sending
  <2>4. answers' # <<>> => header'.request > 0
    <3>1. CASE client.phase = "header" /\ header' = client.sent
      <4>1. client.sent.request = client.sequence + 1 /\ client.sequence \in Nat
        BY <3>1, Bounds DEF Counters, Sending, TypeOK, ClientRecords
      <4> QED BY <3>1, <4>1
    <3>2. CASE header' = header
      <4>1. TakeOutput => header.request > 0
        BY DEF TakeOutput, Requests
      <4>2. answers' = answers \/ TakeOutput
        BY <1>5, StepOutcome
      <4> QED BY <3>2, <4>1, <4>2 DEF Answered
    <3> QED BY <1>5, <3>1, <3>2, StepOutcome
  <2>5. client'.phase \in Pending /\ header'.status = 1 =>
           client.phase \in Pending /\ header.status = 1
    <3>1. client.phase = "header" => client.sent.status = 2
      BY DEF Counters, Sending
    <3> QED BY <1>5, <3>1, StepOutcome
  <2>6. worker.phase # "start"
    <3>1. client.phase # "closed"
      BY <1>5, StepOutcome DEF Sending
    <3> QED BY <3>1 DEF Counters
  <2> QED BY <2>1, <2>2, <2>3, <2>4, <2>5, <2>6 DEF Answered, Own
<1>6. CASE WorkerStep \/ Leave \/ WorkerRaises \/ WorkerDies \/ GpuFinishes
  <2>1. /\ UNCHANGED <<client, asked, answers>>
    BY <1>6, WorkerOutcome
  <2>2. AnswersOwn'
    BY <1>2, <2>1
  <2>3. answers # <<>> => header'.request > 0
    <3>1. Publish => worker.seen = header
      BY DEF Publish, Served, Serving, At
    <3>2. worker.phase = "start" => answers = <<>>
      BY DEF Answered
    <3> QED BY <1>6, <3>1, <3>2, WorkerOutcome DEF Answered
  <2>4. worker'.phase = "start" => answers = <<>>
    BY <1>6, WorkerOutcome DEF Answered
  <2>5. ASSUME (client.phase \in Pending /\ header'.status = 1) \/ client.phase = "take"
        PROVE  \A p \in Cells(client.sent.size) : output'[p] = Own(asked)
    <3>1. CASE WriteOutput
      <4>1. header' = header /\ header.status = 2
        BY <3>1 DEF WriteOutput, Served, Serving, At
      <4> QED BY <2>5, <4>1 DEF Requests
    <3>2. CASE Publish
      <4>1. header = worker.seen /\ header.status = 2 /\ output' = output
            /\ \A p \in Cells(worker.seen.size) : output[p] = Own(asked)
        BY <3>2 DEF Publish, Served, Serving, At
      <4>2. header = client.sent
        BY <2>5, <4>1 DEF Requests
      <4> QED BY <4>1, <4>2
    <3>3. CASE output' = output /\ header' = header
      BY <2>5, <3>3 DEF Answered
    <3>4. CASE worker.phase = "start" /\ header' = [NoHeader EXCEPT !.status = 1]
      BY <2>5, <3>4 DEF Counters
    <3>5. CASE output' = output /\ header'.status = 3
      BY <2>5, <3>5 DEF Answered
    <3> QED BY <1>6, <3>1, <3>2, <3>3, <3>4, <3>5, WorkerOutcome
  <2> QED BY <2>1, <2>2, <2>3, <2>4, <2>5 DEF Answered, Own
<1> QED BY <1>1, <1>3, <1>4, <1>5, <1>6 DEF Next

LEMMA LaunchedStep == TypeOK /\ Launched /\ [Next]_vars => Launched'
<1> SUFFICES ASSUME TypeOK, Launched, [Next]_vars PROVE Launched'
  OBVIOUS
<1> USE DEF At, mapping
<1>1. worker \in WorkerRecords /\ graph \in GraphRecords
  BY DEF TypeOK
<1>2. CASE UNCHANGED vars
  BY <1>2 DEF Launched, vars, workerVars
<1>3. CASE Open \/ Run \/ ClientStep \/ ClientDies
  BY <1>3, EndOutcome, RunOutcome, StepOutcome DEF Launched
<1>4. CASE Start
  <2>1. \/ graph' = graph
        \/ graph'.state = "failed"
    BY <1>4 DEF Start
  <2> QED BY <1>1, <1>4, <2>1, WorkerMoves DEF Start, Launched
<1>5. CASE WaitRequest \/ Leave \/ Recheck \/ WriteOutput \/ Publish \/ WorkerRaises \/ ReportFailure
  <2>1. graph' = graph
    BY <1>5 DEF WaitRequest, Leave, Recheck, WriteOutput, Publish, WorkerRaises, ReportFailure
  <2>2. worker.phase \notin {"poll", "gone"}
    BY <1>5 DEF WaitRequest, Leave, Recheck, WriteOutput, Publish, WorkerRaises, ReportFailure
  <2> QED BY <2>1, <2>2 DEF Launched
<1>6. CASE ReadRequest \/ ReadData \/ FinishFrame \/ SignalAnswer \/ Save
  <2>1. graph' = graph /\ worker.phase \notin {"poll", "gone"}
    BY <1>6 DEF ReadRequest, ReadData, FinishFrame, SignalAnswer, Save
  <2> QED BY <2>1 DEF Launched
<1>7. CASE Infer
  <2>1. \/ graph' = [graph EXCEPT !.gpu = "running"] /\ Enter("poll")
        \/ graph'.state = "failed"
    BY <1>7 DEF Infer
  <2>2. graph.state = "open"
    BY <1>7 DEF Infer
  <2> QED BY <1>1, <2>1, <2>2, WorkerMoves DEF Launched, GraphRecords
<1>8. CASE Collect
  <2>1. \/ graph' = graph /\ graph.gpu = "idle"
        \/ graph' = [graph EXCEPT !.state = "failed"]
    BY <1>8 DEF Collect
  <2>2. worker.phase = "poll"
    BY <1>8 DEF Collect
  <2> QED BY <1>1, <2>1, <2>2 DEF Launched, GraphRecords
<1>9. CASE Close
  <2>0. PICK state \in {"retained", "closed"} :
           state = IF graph.state = "failed" THEN "retained" ELSE "closed"
    OBVIOUS
  <2>1. worker.phase = "close" /\ Enter("gone")
        /\ (graph' = graph \/ graph' = [graph EXCEPT !.state = state])
    BY <1>9, <2>0 DEF Close, CloseGraph
  <2>2. graph.state \notin {"closed", "retained"} /\ (graph.state = "open" => graph.gpu = "idle")
    BY <1>1, <2>1 DEF Launched, GraphRecords
  <2>3. graph' = graph \/ (graph'.gpu = graph.gpu /\ graph'.state \in {"retained", "closed"}
                           /\ (graph'.state = "closed" => graph.state # "failed"))
    BY <1>1, <2>0, <2>1 DEF GraphRecords
  <2>4. worker'.phase = "gone"
    BY <1>1, <2>1, WorkerMoves
  <2> QED BY <1>1, <2>2, <2>3, <2>4 DEF Launched, GraphRecords
<1>10. CASE WorkerDies
  <2>1. graph' = graph /\ worker'.phase = "gone"
    BY <1>1, <1>10, WorkerMoves DEF WorkerDies
  <2> QED BY <2>1 DEF Launched
<1>11. CASE GpuFinishes
  BY <1>1, <1>11 DEF GpuFinishes, Launched, GraphRecords
<1> QED BY <1>2, <1>3, <1>4, <1>5, <1>6, <1>7, <1>8, <1>9, <1>10, <1>11 DEF Next, WorkerStep
-----------------------------------------------------------------------------
LEMMA InvariantInit == Init => ExchangeInv
<1> SUFFICES ASSUME Init PROVE ExchangeInv
  OBVIOUS
<1>1. NoHeader \in Headers /\ Blank \in Colors
  BY Bounds DEF NoHeader, Headers, Blank, Colors
<1>2. client \in ClientRecords /\ worker \in WorkerRecords /\ graph \in GraphRecords
  BY <1>1, Bounds DEF Init, ClientRecords, ClientPhases, WorkerRecords, WorkerPhases, GraphRecords, Planes
<1>3. TypeOK
  BY <1>1, <1>2, Bounds DEF Init, TypeOK, Planes
<1>4. Counters
  BY DEF Init, Counters, Sending, Pending, Serving
<1>5. Requests /\ Served /\ Answered /\ Launched
  BY DEF Init, Requests, Served, Answered, AnswersOwn, Launched, Sending, Pending, Serving, NoHeader
<1> QED BY <1>3, <1>4, <1>5 DEF ExchangeInv

LEMMA InvariantStep == ExchangeInv /\ [Next]_vars => ExchangeInv'
BY TypeStep, CountersStep, RequestsStep, ServedStep, AnsweredStep, LaunchedStep DEF ExchangeInv

(* The invariant of the exchange: who owns the header, the planes and the   *)
(* graph at every step of the two processes.                               *)
THEOREM ExchangeInvariant == Spec => []ExchangeInv
<1>1. Init => ExchangeInv
  BY InvariantInit
<1>2. ExchangeInv /\ [Next]_vars => ExchangeInv'
  BY InvariantStep
<1> QED BY <1>1, <1>2, PTL DEF Spec

(* The mapping's header, the planes, both processes and the GPU keep their  *)
(* types: no step writes a status, a size or a pixel outside its range.     *)
THEOREM TypeCorrect == Spec => []TypeOK
<1>1. ExchangeInv => TypeOK
  BY DEF ExchangeInv
<1> QED BY <1>1, ExchangeInvariant, PTL

(* Run returns the image of the surface it was given, whatever failed, came *)
(* late or was left over before (resident_exchange.h:50-56).               *)
THEOREM AnswersAreOwn == Spec => []AnswersOwn
<1>1. ExchangeInv => AnswersOwn
  BY DEF ExchangeInv, Answered
<1> QED BY <1>1, ExchangeInvariant, PTL

(* The graph is closed with the GPU idle, or not at all                     *)
(* (resident_full_graph.py:261-264).                                       *)
THEOREM ClosedIsIdle == Spec => []FreedIsIdle
<1>1. ExchangeInv => FreedIsIdle
  BY DEF ExchangeInv, Launched, FreedIsIdle
<1> QED BY <1>1, ExchangeInvariant, PTL

(* No client writes the input plane while a request is unanswered           *)
(* (resident_exchange.h:37-47).                                            *)
THEOREM InputIsPinned == Spec => InputPinned
<1>1. ExchangeInv /\ [Next]_vars => [header.status = 2 => input' = input]_vars
  <2> SUFFICES ASSUME ExchangeInv, Next, header.status = 2 PROVE input' = input
    OBVIOUS
  <2>1. TypeOK /\ Requests
    BY DEF ExchangeInv
  <2>2. CASE Open \/ Run \/ ClientDies
    BY <2>1, <2>2, EndOutcome, RunOutcome
  <2>3. CASE ClientStep
    BY <2>1, <2>3, StepOutcome DEF Requests, Sending
  <2>4. CASE WorkerStep \/ Leave \/ WorkerRaises \/ WorkerDies \/ GpuFinishes
    BY <2>1, <2>4, WorkerOutcome
  <2> QED BY <2>2, <2>3, <2>4 DEF Next
<1> QED BY <1>1, ExchangeInvariant, PTL DEF Spec, InputPinned

(* What the game sees of the exchange is an ExchangeService.               *)
LEMMA ServiceInit == Init => Service!Init
BY DEF Init, Service!Init

LEMMA ServiceStep == ExchangeInv /\ [Next]_vars => [Service!Next]_(Service!vars)
<1> DEFINE waits == client.phase \notin {"closed", "idle"}
           frames == [i \in DOMAIN answers |-> answers[i].frame]
           ended == client.phase = "closed" \/ client.poisoned
<1> SUFFICES ASSUME ExchangeInv, [Next]_vars
             PROVE \/ ended /\ frames = <<>> /\ ~ended' /\ asked' = asked /\ waits' = waits
                      /\ frames' = frames
                   \/ ~ended /\ ~waits /\ asked' = asked + 1 /\ waits' = ~ended' /\ frames' = frames
                   \/ waits /\ frames' = Append(frames, asked) /\ ~waits' /\ asked' = asked
                      /\ ended' = ended
                   \/ ended' /\ ~waits' /\ asked' = asked /\ frames' = frames
                   \/ asked' = asked /\ waits' = waits /\ frames' = frames /\ ended' = ended
  BY DEF Service!Next, Service!Open, Service!Ask, Service!Answer, Service!GiveUp, Service!vars
<1> USE DEF Sending, Pending
<1>1. TypeOK /\ Counters /\ Answered
  BY DEF ExchangeInv
<1>2. answers' = answers => frames' = frames
  OBVIOUS
<1>3. CASE UNCHANGED vars
  BY <1>3 DEF vars, clientVars
<1>4. CASE Open
  <2>1. answers = <<>>
    BY <1>1, <1>4 DEF Open, NoHeader, Answered
  <2>2. frames = <<>>
    BY <2>1
  <2>3. client.phase = "closed"
    BY <1>4 DEF Open
  <2>4. client'.phase = "idle" /\ ~client'.poisoned /\ asked' = asked /\ answers' = answers
    BY <1>1, <1>4 DEF Open
  <2> QED BY <1>2, <2>2, <2>3, <2>4
<1>5. CASE ClientDies
  <2>1. client'.phase = "closed" /\ asked' = asked /\ answers' = answers
    BY <1>1, <1>5, EndOutcome DEF ClientDies, Goto, TypeOK, ClientRecords
  <2> QED BY <1>2, <2>1
<1>6. CASE Run
  BY <1>1, <1>2, <1>6, RunOutcome
<1>7. CASE ClientStep
  <2>1. waits /\ ~ended /\ asked' = asked
    BY <1>1, <1>7, StepOutcome DEF Counters
  <2>2. CASE client'.phase # "idle" \/ client'.poisoned
    BY <1>1, <1>2, <1>7, <2>1, <2>2, StepOutcome
  <2>3. CASE client'.phase = "idle" /\ ~client'.poisoned
    <3> DEFINE answer == [frame |-> asked, image |-> [p \in Cells(client.sent.size) |-> output[p]]]
    <3>1. TakeOutput /\ answers' = Append(answers, answer)
      <4>1. TakeOutput
        BY <1>1, <1>7, <2>3, StepOutcome DEF Counters
      <4>2. ~Poison
        BY <1>1, <2>3, ClientMoves DEF TypeOK
      <4> QED BY <4>1, <4>2 DEF TakeOutput
    <3>2. answer.frame = asked
      OBVIOUS
    <3> HIDE DEF answer
    <3>3. frames' = Append(frames, asked)
      <4>1. answers \in Seq(Answers)
        BY <1>1 DEF Counters
      <4> QED BY <3>1, <3>2, <4>1
    <3>4. ~waits' /\ ended' = ended
      BY <1>1, <1>7, <2>1, <2>3, StepOutcome
    <3> QED BY <2>1, <3>3, <3>4
  <2> QED BY <2>2, <2>3
<1>8. CASE WorkerStep \/ Leave \/ WorkerRaises \/ WorkerDies \/ GpuFinishes
  BY <1>1, <1>2, <1>8, WorkerOutcome
<1> QED BY <1>3, <1>4, <1>5, <1>6, <1>7, <1>8 DEF Next

THEOREM ExchangeImplementsService == Spec => ServiceSpec
<1>1. Init => Service!Init
  BY ServiceInit
<1>2. ExchangeInv /\ [Next]_vars => [Service!Next]_(Service!vars)
  BY ServiceStep
<1> QED BY <1>1, <1>2, ExchangeInvariant, PTL DEF Spec, ServiceSpec, Service!Spec
=============================================================================
