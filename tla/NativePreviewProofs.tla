------------------------- MODULE NativePreviewProofs -------------------------
(***************************************************************************)
(* Theorems about NativePreview for every number of frames, limit and set of *)
(* failures: what the two processes and the two GPU queues share has one user, *)
(* the processes agree on the lease, what is released is idle, and what the   *)
(* player sees is a PreviewService.                                          *)
(***************************************************************************)
EXTENDS NativePreview, FiniteSetTheorems, SequenceTheorems, TLAPS

(* Phases in which the game has its thread, phases in which the callback waits *)
(* for the list it submitted, and phases in which it is its turn to speak.     *)
Outside == {"game", "effects", "present"}
Waiting == {"decoded", "submitted", "received", "encoded"}
Turn == {"input", "decoded", "texture", "submitted", "frame", "receive", "received",
         "output", "encoded", "consumed", "close"}
Running == {"input", "network", "copied"}

(* The worker waits for the host: the pipes are empty, its stream is idle.        *)
Still == stream = <<>> /\ toWorker = <<>> /\ toHost = <<>> /\ worker \in {"loop", "dead"}

(* Entry i is a list of the bridge's allocator, a signal of its host fence.       *)
Listed(i) == i \in DOMAIN queue /\ queue[i].op \in Lists
Hosted(i) == i \in DOMAIN queue /\ queue[i].op = "host"

(* The callback runs in a session that has not stopped, and the bridge is in the *)
(* state the phase implies.                                                  *)
StateAt ==
    /\ phase \notin Outside => ~failed /\ ~finished
    /\ finished => ~failed /\ phase \in Outside
    /\ phase \in {"hello", "launched", "prepared", "input", "decoded", "texture"} => state = 0
    /\ phase \in Outside /\ ~failed /\ ~finished => state = 0
    /\ phase \in {"submitted", "frame", "done"} => state = 1
    /\ phase \in {"receive", "received"} => state = 3

(* One allocator.  While the session goes on, a list on the queue is followed by  *)
(* the signal the callback waits for, and outside a wait there is none.           *)
Allocator ==
    /\ \A i, j \in DOMAIN queue : Listed(i) /\ Listed(j) => i = j
    /\ ~failed =>
        /\ \A i \in DOMAIN queue : Listed(i) => \E j \in DOMAIN queue : i < j /\ Hosted(j)
        /\ \A i \in DOMAIN queue : Hosted(i) => queue[i].n = hostValue /\ hostFence # hostValue
        /\ \A i, j \in DOMAIN queue : Hosted(i) /\ Hosted(j) => i = j
        /\ phase \notin Waiting => hostFence = hostValue

(* The pipes and the stream are never used at once, and carry one message.      *)
Channels ==
    /\ worker \in {"none", "start"} \cup Running => toWorker = <<>> /\ toHost = <<>>
    /\ worker \in {"closing", "exited"} => toWorker = <<>>
    /\ stream # <<>> => worker \in Running \cup {"dead"} /\ toWorker = <<>> /\ toHost = <<>>
    /\ toWorker # <<>> => Len(toWorker) = 1 /\ toHost = <<>>
    /\ toHost # <<>> =>
        /\ Len(toHost) = 1
        /\ Head(toHost).op = "hello" => worker \in {"prepare", "dead"}
        /\ Head(toHost).op \in {"ready", "done", "released"} => worker \in {"loop", "dead"}

(* When it is the callback's turn, and while a list of its is on the queue, the   *)
(* worker has nothing to do.                                                 *)
Turns ==
    /\ phase \in Turn => Still
    /\ phase \in Outside /\ ~failed /\ ~finished /\ worker # "none" => Still
    /\ phase = "launched" => toWorker = <<>> /\ toHost = <<>> /\ worker \in {"prepare", "dead"}
    /\ \A i \in DOMAIN queue : Listed(i) =>
          stream = <<>> /\ toWorker = <<>> /\ worker \in {"loop", "dead"}
    /\ Channels

(* The lease: AWAITING_CONSUMPTION is the worker's own state while it works on a  *)
(* frame, and is left before the host reads "released" and readies the bridge.  *)
Lease ==
    /\ commands # "AWAITING_CONSUMPTION" => remote = 0
    /\ worker \in Running => commands = "AWAITING_CONSUMPTION"
    /\ state = 0 => commands # "AWAITING_CONSUMPTION"
    /\ state = 0 /\ toWorker # <<>> => Head(toWorker).op # "frame"
    /\ toHost # <<>> /\ Head(toHost).op = "released" => commands # "AWAITING_CONSUMPTION"

(* bridge.close() comes last, after the worker's normal exit.                    *)
Released == freed => finished /\ worker = "exited"

(* The queue, the stream, hold work of this kind.                               *)
Has(op) == \E i \in DOMAIN queue : queue[i].op = op
Streams(op) == \E i \in DOMAIN stream : stream[i].op = op

(* The list on the queue is the one the callback waits for, about its frame.      *)
OwnList ==
    \A i \in DOMAIN queue : Listed(i) /\ ~failed =>
        /\ queue[i].n = frame
        /\ \/ phase = "decoded" /\ queue[i].op = "decode"
           \/ phase = "submitted" /\ queue[i].op = "tobuffer"
           \/ phase = "received" /\ queue[i].op = "fromoutput"
           \/ phase = "encoded" /\ queue[i].op = "encode"

(* What the callback has copied or waits to have copied is its frame's picture.   *)
OwnPicture ==
    /\ phase = "decoded" => Has("decode") \/ texture.frame = frame
    /\ phase \in {"texture", "submitted"} => texture.frame = frame
    /\ phase = "submitted" => Has("tobuffer") \/ inputBuffer.frame = frame
    /\ phase \in {"frame", "done"} => inputBuffer.frame = frame
    /\ phase \in {"receive", "received"} => outputBuffer = Net(frame)
    /\ phase = "received" => Has("fromoutput") \/ texture = Net(frame)
    /\ phase = "output" => texture = Net(frame)
    /\ \A i \in DOMAIN queue : queue[i].op = "encode" => texture = Net(queue[i].n)

(* So is what the worker has made of it while the callback waits.                 *)
OwnResult ==
    phase = "done" =>
        /\ worker = "input" => Streams("copyin") \/ value.frame = frame
        /\ worker \in {"network", "copied"} => value.frame = frame
        /\ worker = "network" => Streams("network") \/ pending = Net(frame)
        /\ worker = "copied" => pending = Net(frame)
        /\ worker = "copied" => Streams("copyout") \/ outputBuffer = Net(frame)
        /\ toHost # <<>> /\ Head(toHost).op = "done" => outputBuffer = Net(frame)

(* Entries about the target's picture; the last frame given to the screen.        *)
Shows == {"draw", "decode", "encode", "present"}
Last == IF phase = "game" THEN frame ELSE frame - 1

(* What is queued about the target follows the frames' order, and finds the frame *)
(* it is about drawn, or its drawing before it.                                *)
Screen ==
    /\ frame = 0 => phase = "game"
    /\ \A i \in DOMAIN queue : queue[i].op \in Shows =>
        /\ target.frame <= queue[i].n /\ queue[i].n <= frame
        /\ queue[i].op = "draw" => target.frame < queue[i].n
        /\ \A j \in DOMAIN queue : j < i /\ queue[j].op \in Shows =>
             /\ queue[j].n <= queue[i].n
             /\ queue[i].op = "draw" => queue[j].n < queue[i].n
    /\ \A i \in DOMAIN queue : queue[i].op \in Shows \ {"draw"} =>
          \/ target.frame = queue[i].n
          \/ \E j \in DOMAIN queue : j < i /\ queue[j] = Item("draw", queue[i].n)
    /\ target.frame = frame \/ \E j \in DOMAIN queue : queue[j] = Item("draw", frame)

(* Every frame the game has finished is presented once, in order.                 *)
Presents ==
    /\ Len(presented) <= Last
    /\ \A i \in DOMAIN queue : queue[i].op = "present" =>
        /\ Len(presented) < queue[i].n /\ queue[i].n <= Last
        /\ \A j \in DOMAIN queue : j < i /\ queue[j].op = "present" => queue[j].n < queue[i].n
    /\ \A k \in Len(presented) + 1 .. Last : \E i \in DOMAIN queue : queue[i] = Item("present", k)

(* The frames on screen as the network's, and those that are to be: in the target *)
(* or about to be drawn over it.                                             *)
Nets == {i \in DOMAIN presented : presented[i].net}
Replaced == Nets \cup {n \in 0 .. MaxFrames : target = Net(n)}
                 \cup {n \in 0 .. MaxFrames : \E i \in DOMAIN queue : queue[i] = Item("encode", n)}

(* A frame is counted when the worker has let go of it: until then one more than  *)
(* the counter may be the network's.                                         *)
Budget ==
    /\ Cardinality(Replaced) <= Limit
    /\ ~failed /\ phase \notin {"encoded", "consumed", "released"} => Cardinality(Replaced) <= frames
    /\ phase \in {"encoded", "consumed", "released"} => Cardinality(Replaced) <= frames + 1
    /\ ~failed /\ ~finished /\ phase \notin {"close", "closed", "exit"} => frames < Limit

PreviewInv ==
    /\ TypeOK /\ StateAt /\ Allocator /\ Turns /\ Lease /\ Released
    /\ OwnList /\ OwnPicture /\ OwnResult /\ Screen /\ Presents /\ Budget
-----------------------------------------------------------------------------
(* Sequences.                                                              *)

QueueOps == Lists \cup {"draw", "present", "ready", "host"}
StreamOps == {"wait", "copyin", "network", "copyout", "signal"}
Requests == {"prepare", "frame", "consumed", "close"}
Answers == {"hello", "ready", "done", "released", "closed"}
Entries == [op : QueueOps, n : Nat]

(* Appending keeps every position and adds one.                              *)
LEMMA AppendFacts ==
    ASSUME NEW S, NEW s \in Seq(S), NEW e \in S
    PROVE  /\ Append(s, e) \in Seq(S)
           /\ Len(s) \in Nat
           /\ Len(Append(s, e)) = Len(s) + 1
           /\ DOMAIN s = 1 .. Len(s)
           /\ DOMAIN Append(s, e) = 1 .. Len(s) + 1
           /\ \A i \in 1 .. Len(s) : Append(s, e)[i] = s[i]
           /\ Append(s, e)[Len(s) + 1] = e
           /\ s = <<>> => Len(s) = 0 /\ Head(Append(s, e)) = e
OBVIOUS

(* Taking the head away moves every position by one.                         *)
LEMMA TailFacts ==
    ASSUME NEW S, NEW s \in Seq(S), s # <<>>
    PROVE  /\ Tail(s) \in Seq(S)
           /\ Len(s) \in Nat \ {0}
           /\ Len(Tail(s)) = Len(s) - 1
           /\ DOMAIN s = 1 .. Len(s)
           /\ DOMAIN Tail(s) = 1 .. Len(s) - 1
           /\ \A i \in 1 .. Len(s) - 1 : Tail(s)[i] = s[i + 1]
           /\ Head(s) = s[1]
           /\ Head(s) \in S
OBVIOUS

(* A sequence of one message is empty without it.                             *)
LEMMA LastMessage ==
    ASSUME NEW S, NEW s \in Seq(S), s # <<>>, Len(s) = 1
    PROVE  Tail(s) = <<>>
<1>1. Tail(s) \in Seq(S) /\ Len(Tail(s)) = 0
  OBVIOUS
<1> QED BY <1>1, EmptySeq

(* The types of the queue and the pipes, with the names the proofs give them. *)
LEMMA QueueTyped == TypeOK => queue \in Seq(Entries)
BY DEF TypeOK, Entries, QueueOps, Lists

(* A message of a kind the pipe carries has the type of its pipe.             *)
LEMMA MessageTypes ==
    ASSUME TypeOK, NEW s \in Nat
    PROVE  /\ \A op \in Requests : Message(op, s) \in [op : Requests, sequence : Nat]
           /\ \A op \in Answers : Message(op, s) \in [op : Answers, sequence : Nat]
BY DEF Message

LEMMA PipeTypes ==
    ASSUME TypeOK
    PROVE  /\ toWorker \in Seq([op : Requests, sequence : Nat])
           /\ toHost \in Seq([op : Answers, sequence : Nat])
BY DEF TypeOK, Requests, Answers

(* A message read, or read and refused, leaves the pipe typed.                 *)
LEMMA ReadTypes ==
    ASSUME TypeOK, toHost # <<>>
    PROVE  Tail(toHost) \in Seq([op : Answers, sequence : Nat])
BY PipeTypes, TailFacts

(* A command taken leaves the pipe typed, and is one the host sends.          *)
LEMMA TakeTypes ==
    ASSUME TypeOK, toWorker # <<>>
    PROVE  /\ Tail(toWorker) \in Seq([op : Requests, sequence : Nat])
           /\ Head(toWorker).op \in Requests
           /\ Head(toWorker).sequence \in Nat
<1> DEFINE Kind == [op : Requests, sequence : Nat]
<1>1. toWorker \in Seq(Kind)
  BY PipeTypes
<1>2. Tail(toWorker) \in Seq(Kind) /\ Head(toWorker) \in Kind
  BY <1>1, TailFacts
<1> QED BY <1>2

(* An answer leaves the pipe typed.                                           *)
LEMMA EmitTypes ==
    ASSUME TypeOK, NEW op \in Answers, NEW s \in Nat, Emit(Message(op, s))
    PROVE  toHost' \in Seq([op : Answers, sequence : Nat])
<1>1. /\ toHost \in Seq([op : Answers, sequence : Nat])
      /\ Message(op, s) \in [op : Answers, sequence : Nat]
  BY PipeTypes, MessageTypes
<1> QED BY <1>1, AppendFacts DEF Emit

-----------------------------------------------------------------------------
(* What the submissions, and the game, do to the queue.                       *)

(* A list goes first, its fence and the signal of the bridge follow; only a    *)
(* complete submission carries that signal and goes on.                       *)
Submits(at, op, next) ==
    /\ phase = at
    /\ \E m \in 0 .. 3 :
        /\ queue' \in Seq(Entries)
        /\ Len(queue') = Len(queue) + m
        /\ \A i \in 1 .. Len(queue) : queue'[i] = queue[i]
        /\ m > 0 => queue'[Len(queue) + 1] = Item(op, frame)
        /\ \A i \in Len(queue) + 2 .. Len(queue) + m : queue'[i].op \in {"ready", "host"}
        /\ \/ /\ phase' = next /\ UNCHANGED addon
              /\ m >= 2 /\ hostValue' = hostValue + 1
              /\ queue'[Len(queue) + m] = Item("host", hostValue + 1)
              /\ \A i \in Len(queue) + 1 .. Len(queue) + m - 1 : queue'[i].op # "host"
           \/ Fail /\ hostValue' \in Nat
    /\ UNCHANGED <<mayFail, frame, freed, d3d, pipes, process, stream, hip>>

(* A sequence followed by a beginning of another.                             *)
LEMMA JoinFacts ==
    ASSUME NEW S, NEW s \in Seq(S), NEW t \in Seq(S), NEW k \in 0 .. Len(t)
    PROVE  /\ Len(s) \in Nat /\ Len(t) \in Nat
           /\ s \o SubSeq(t, 1, k) \in Seq(S)
           /\ Len(s \o SubSeq(t, 1, k)) = Len(s) + k
           /\ \A i \in 1 .. Len(s) : (s \o SubSeq(t, 1, k))[i] = s[i]
           /\ \A i \in Len(s) + 1 .. Len(s) + k :
                 (s \o SubSeq(t, 1, k))[i] = t[i - Len(s)]
OBVIOUS

(* Submit, whatever calls of it fail, does what Submits says.                 *)
LEMMA SubmitDoes ==
    ASSUME TypeOK, NEW at, NEW ok, NEW next, NEW op, NEW items \in Seq(Entries),
           Len(items) \in {2, 3}, items[1] = Item(op, frame),
           items[Len(items)] = Item("host", hostValue + 1),
           \A i \in 2 .. Len(items) - 1 : items[i].op = "ready",
           op # "host",
           Submit(at, ok, items, next)
    PROVE  Submits(at, op, next)
<1>1. PICK k \in 0 .. Len(items) :
        /\ queue' = queue \o SubSeq(items, 1, k)
        /\ hostValue' = IF k + 1 >= Len(items) THEN hostValue + 1 ELSE hostValue
        /\ IF k = Len(items) THEN phase' = next /\ UNCHANGED addon ELSE Fail
  BY DEF Submit
<1>2. hostValue \in Nat /\ queue \in Seq(Entries)
  BY QueueTyped DEF TypeOK
<1>3. /\ queue' \in Seq(Entries)
      /\ Len(queue) \in Nat
      /\ Len(queue') = Len(queue) + k
      /\ \A i \in 1 .. Len(queue) : queue'[i] = queue[i]
      /\ \A i \in Len(queue) + 1 .. Len(queue) + k : queue'[i] = items[i - Len(queue)]
  BY <1>1, <1>2, JoinFacts
<1>4. k \in 0 .. 3
  <2>1. Len(items) \in Nat /\ Len(items) <= 3
    OBVIOUS
  <2> QED BY <2>1
<1>5. k > 0 => queue'[Len(queue) + 1] = Item(op, frame)
  BY <1>1, <1>3
<1>6. \A i \in Len(queue) + 2 .. Len(queue) + k : queue'[i].op \in {"ready", "host"}
  <2> SUFFICES ASSUME NEW i \in Len(queue) + 2 .. Len(queue) + k
               PROVE  queue'[i].op \in {"ready", "host"}
    OBVIOUS
  <2>1. queue'[i] = items[i - Len(queue)] /\ i - Len(queue) \in 2 .. Len(items)
    BY <1>1, <1>3
  <2>2. CASE i - Len(queue) = Len(items)
    BY <2>1, <2>2 DEF Item
  <2>3. CASE i - Len(queue) # Len(items)
    <3>1. i - Len(queue) \in 2 .. Len(items) - 1
      BY <2>1, <2>3
    <3> QED BY <2>1, <3>1
  <2> QED BY <2>2, <2>3
<1>7. CASE k = Len(items)
  <2>1. /\ phase' = next /\ UNCHANGED addon
        /\ k >= 2 /\ hostValue' = hostValue + 1
    BY <1>1, <1>7
  <2>2. queue'[Len(queue) + k] = Item("host", hostValue + 1)
    BY <1>1, <1>3, <1>7
  <2>3. \A i \in Len(queue) + 1 .. Len(queue) + k - 1 : queue'[i].op # "host"
    <3> SUFFICES ASSUME NEW i \in Len(queue) + 1 .. Len(queue) + k - 1
                 PROVE  queue'[i].op # "host"
      OBVIOUS
    <3>1. queue'[i] = items[i - Len(queue)] /\ i - Len(queue) \in 1 .. Len(items) - 1
      BY <1>1, <1>3, <1>7
    <3>2. CASE i - Len(queue) = 1
      BY <3>1, <3>2 DEF Item
    <3>3. CASE i - Len(queue) # 1
      <4>1. i - Len(queue) \in 2 .. Len(items) - 1
        BY <3>1, <3>3
      <4> QED BY <3>1, <4>1
    <3> QED BY <3>2, <3>3
  <2>4. phase = at /\ UNCHANGED <<mayFail, frame, freed, d3d, pipes, process, stream, hip>>
    BY DEF Submit
  <2> QED BY <1>3, <1>4, <1>5, <1>6, <2>1, <2>2, <2>3, <2>4 DEF Submits
<1>8. CASE k # Len(items)
  <2>1. Fail /\ hostValue' \in Nat
    BY <1>1, <1>2, <1>8
  <2>2. phase = at /\ UNCHANGED <<mayFail, frame, freed, d3d, pipes, process, stream, hip>>
    BY DEF Submit
  <2> QED BY <1>3, <1>4, <1>5, <1>6, <2>1, <2>2 DEF Submits
<1> QED BY <1>7, <1>8

(* The submissions of a list and its signal.                                  *)
LEMMA PairTyped ==
    ASSUME TypeOK, NEW op \in Lists
    PROVE  LET items == <<Item(op, frame), Item("host", hostValue + 1)>> IN
           /\ items \in Seq(Entries) /\ Len(items) = 2
           /\ items[1] = Item(op, frame) /\ items[2] = Item("host", hostValue + 1)
<1>1. hostValue \in Nat /\ frame \in Nat
  BY BoundsAssumption DEF TypeOK
<1>2. Item(op, frame) \in Entries /\ Item("host", hostValue + 1) \in Entries
  BY <1>1 DEF Item, Entries, QueueOps
<1> QED BY <1>2

LEMMA PairSubmits ==
    ASSUME TypeOK, NEW op \in Lists, NEW at, NEW ok, NEW next,
           Submit(at, ok, <<Item(op, frame), Item("host", hostValue + 1)>>, next)
    PROVE  Submits(at, op, next)
<1> DEFINE items == <<Item(op, frame), Item("host", hostValue + 1)>>
<1>1. /\ items \in Seq(Entries) /\ Len(items) = 2
      /\ items[1] = Item(op, frame) /\ items[2] = Item("host", hostValue + 1)
  BY PairTyped
<1>2. Submit(at, ok, items, next) /\ op # "host"
  BY DEF Lists
<1> HIDE DEF items
<1>3. \A i \in 2 .. Len(items) - 1 : items[i].op = "ready"
  BY <1>1
<1> QED BY <1>1, <1>2, <1>3, SubmitDoes

(* submitTexture puts the input fence between the list and the signal.        *)
LEMMA SubmitTextureDoes ==
    ASSUME TypeOK, SubmitTexture
    PROVE  Submits("texture", "tobuffer", "submitted")
<1> DEFINE items == <<Item("tobuffer", frame), Item("ready", seq + 1), Item("host", hostValue + 1)>>
<1>1. hostValue \in Nat /\ frame \in Nat /\ seq \in Nat
  BY BoundsAssumption DEF TypeOK
<1>2. /\ Item("tobuffer", frame) \in Entries /\ Item("ready", seq + 1) \in Entries
      /\ Item("host", hostValue + 1) \in Entries
  BY <1>1 DEF Item, Entries, QueueOps, Lists
<1>3. /\ items \in Seq(Entries) /\ Len(items) = 3
      /\ items[1] = Item("tobuffer", frame) /\ items[2].op = "ready"
      /\ items[3] = Item("host", hostValue + 1)
  BY <1>2 DEF Item
<1>4. Submit("texture", state = 0, items, "submitted")
  BY DEF SubmitTexture
<1> HIDE DEF items
<1>5. \A i \in 2 .. Len(items) - 1 : items[i].op = "ready"
  BY <1>3
<1> QED BY <1>3, <1>4, <1>5, SubmitDoes

(* Every submission of the callback, and what it does to the bridge.            *)
LEMMA Submissions ==
    ASSUME TypeOK
    PROVE  /\ Decode => Submits("input", "decode", "decoded") /\ UNCHANGED <<state, seq>>
           /\ SubmitTexture => Submits("texture", "tobuffer", "submitted")
           /\ Receive => Submits("receive", "fromoutput", "received") /\ UNCHANGED <<state, seq>>
           /\ Encode => Submits("output", "encode", "encoded") /\ UNCHANGED <<state, seq>>
<1>1. Decode => Submits("input", "decode", "decoded") /\ UNCHANGED <<state, seq>>
  BY PairSubmits DEF Decode, Lists
<1>2. Receive => Submits("receive", "fromoutput", "received") /\ UNCHANGED <<state, seq>>
  BY PairSubmits DEF Receive, Lists
<1>3. Encode => Submits("output", "encode", "encoded") /\ UNCHANGED <<state, seq>>
  BY PairSubmits DEF Encode, Lists
<1> QED BY <1>1, <1>2, <1>3, SubmitTextureDoes

-----------------------------------------------------------------------------
(* Types.                                                                  *)

(* The initial state is typed.                                                *)
LEMMA TypeInit == Init => TypeOK
<1> SUFFICES ASSUME Init PROVE TypeOK
  OBVIOUS
<1>1. {target, texture, inputBuffer, outputBuffer, value, pending} \subseteq Image
  <2>1. Raw(0) \in Image
    BY BoundsAssumption DEF Raw, Image
  <2> QED BY <2>1 DEF Init
<1>2. /\ queue = <<>> /\ stream = <<>> /\ presented = <<>> /\ toWorker = <<>> /\ toHost = <<>>
      /\ mayFail \in Scenarios
  BY DEF Init
<1>3. /\ phase \in HostPhases /\ worker \in WorkerPhases
      /\ commands \in {"READY", "AWAITING_CONSUMPTION", "CLOSED"}
  BY DEF Init, HostPhases, WorkerPhases
<1>4. /\ frame \in 0 .. MaxFrames /\ frames \in 0 .. Limit
      /\ state \in -1 .. 4 /\ remote \in 0 .. 2
      /\ seq \in Nat /\ hostValue \in Nat /\ sequence \in Nat
      /\ inputFence \in Nat /\ outputFence \in Nat /\ hostFence \in Nat
  BY BoundsAssumption DEF Init
<1>5. failed \in BOOLEAN /\ finished \in BOOLEAN /\ freed \in BOOLEAN
  BY Zenon DEF Init
<1> QED BY <1>1, <1>2, <1>3, <1>4, <1>5 DEF TypeOK

(* A failure is an exception caught by the callback.                            *)
LEMMA FailTyped ==
    ASSUME TypeOK, Fail
    PROVE  /\ phase' \in HostPhases
           /\ failed' \in BOOLEAN /\ finished' \in BOOLEAN /\ frames' \in 0 .. Limit
<1>1. failed' \in BOOLEAN
  BY Zenon DEF Fail
<1>2. phase' \in HostPhases
  BY DEF Fail, HostPhases
<1> QED BY <1>1, <1>2 DEF Fail, TypeOK

LEMMA AddonTyped ==
    ASSUME TypeOK, UNCHANGED addon
    PROVE  failed' \in BOOLEAN /\ finished' \in BOOLEAN /\ frames' \in 0 .. Limit
BY DEF TypeOK, addon

(* Steps that change none of the pictures, pipes and queues but one.            *)
LEMMA SubmitsTyped ==
    ASSUME TypeOK, NEW at, NEW op, NEW next \in HostPhases, Submits(at, op, next),
           state' \in -1 .. 4, seq' \in Nat
    PROVE  TypeOK'
<1>1. queue' \in Seq(Entries) /\ hostValue \in Nat
  BY DEF Submits, TypeOK
<1>2. \/ phase' = next /\ UNCHANGED addon /\ hostValue' = hostValue + 1
      \/ Fail /\ hostValue' \in Nat
  BY DEF Submits
<1>3. hostValue' \in Nat
  BY <1>1, <1>2
<1>4. /\ phase' \in HostPhases
      /\ failed' \in BOOLEAN /\ finished' \in BOOLEAN /\ frames' \in 0 .. Limit
  BY <1>2, FailTyped, AddonTyped
<1> QED BY <1>1, <1>3, <1>4 DEF Submits, TypeOK, Entries, QueueOps, d3d, pipes, process, hip

LEMMA AnswerTyped ==
    ASSUME TypeOK, NEW at, Answer(at), phase' \in HostPhases,
           failed' \in BOOLEAN, finished' \in BOOLEAN, frames' \in 0 .. Limit,
           state' \in -1 .. 4, UNCHANGED <<seq, hostValue, freed>>
    PROVE  TypeOK'
<1>1. toHost' \in Seq([op : {"hello", "ready", "done", "released", "closed"}, sequence : Nat])
  BY ReadTypes DEF Answer, Answers
<1> QED BY <1>1 DEF Answer, TypeOK, d3d, process, hip

(* A message sent leaves the state typed.                                     *)
LEMMA SendTyped ==
    ASSUME TypeOK, NEW at, NEW message \in [op : Requests, sequence : Nat],
           NEW next \in HostPhases, Send(at, message, next)
    PROVE  TypeOK'
<1>1. toWorker' \in Seq([op : Requests, sequence : Nat])
  <2>1. toWorker \in Seq([op : Requests, sequence : Nat])
    BY PipeTypes
  <2>2. Append(toWorker, message) \in Seq([op : Requests, sequence : Nat])
    BY <2>1, AppendFacts
  <2> QED BY <2>1, <2>2 DEF Send
<1>2. toWorker' \in Seq([op : {"prepare", "frame", "consumed", "close"}, sequence : Nat])
  BY <1>1 DEF Requests
<1>3. /\ phase' \in HostPhases
      /\ failed' \in BOOLEAN /\ finished' \in BOOLEAN /\ frames' \in 0 .. Limit
  BY FailTyped, AddonTyped DEF Send
<1> QED BY <1>2, <1>3 DEF Send, TypeOK, bridge, d3d, process, hip

LEMMA WaitTyped ==
    ASSUME TypeOK, NEW at, NEW next \in HostPhases, WaitHost(at, next), state' \in -1 .. 4
    PROVE  TypeOK'
<1>1. /\ phase' \in HostPhases
      /\ failed' \in BOOLEAN /\ finished' \in BOOLEAN /\ frames' \in 0 .. Limit
  BY FailTyped, AddonTyped DEF WaitHost
<1> QED BY <1>1 DEF WaitHost, TypeOK, d3d, pipes, process, hip

(* The moves of the game and the callback.                                    *)
LEMMA HostTypes ==
    ASSUME TypeOK, StateAt, Budget,
           Draw \/ Present \/ RuntimeDestroyed \/ Callback
    PROVE  TypeOK'
<1>1. CASE Draw
  <2>1. frame \in Nat /\ frame' \in 0 .. MaxFrames /\ frame' \in Nat /\ frame' = frame + 1
    BY <1>1, BoundsAssumption DEF Draw, TypeOK
  <2>2. Item("draw", frame + 1) \in Entries
    BY <2>1 DEF Item, Entries, QueueOps
  <2>3. queue' \in Seq(Entries)
    BY <1>1, <2>2, QueueTyped, AppendFacts DEF Draw
  <2>4. phase' \in HostPhases
    BY <1>1 DEF Draw, HostPhases
  <2> QED BY <1>1, <2>1, <2>3, <2>4 DEF Draw, TypeOK, Entries, QueueOps, addon, bridge, d3d, pipes, process, hip
<1>2. CASE Present
  <2>1. frame \in Nat
    BY BoundsAssumption DEF TypeOK
  <2>2. Item("present", frame) \in Entries
    BY <2>1 DEF Item, Entries, QueueOps
  <2>3. queue' \in Seq(Entries)
    BY <1>2, <2>2, QueueTyped, AppendFacts DEF Present
  <2>4. phase' \in HostPhases
    BY <1>2 DEF Present, HostPhases
  <2> QED BY <1>2, <2>3, <2>4 DEF Present, TypeOK, Entries, QueueOps, addon, bridge, d3d, pipes, process, hip
<1>3. CASE RuntimeDestroyed
  BY <1>3 DEF RuntimeDestroyed, TypeOK, bridge, d3d, pipes, process, hip
<1>4. CASE Skip
  BY <1>4 DEF Skip, TypeOK, HostPhases, addon, bridge, d3d, pipes, process, hip
<1>5. CASE Enter
  <2>1. phase' \in HostPhases /\ worker' \in WorkerPhases
    BY <1>5 DEF Enter, TypeOK, HostPhases, WorkerPhases
  <2> QED BY <1>5, <2>1 DEF Enter, TypeOK, addon, bridge, d3d, pipes, hip
<1>6. CASE Refuse
  BY <1>6 DEF Refuse, Fail, TypeOK, HostPhases, bridge, d3d, pipes, process, hip
<1>7. CASE NoAnswer
  <2>1. toHost' \in Seq([op : {"hello", "ready", "done", "released", "closed"}, sequence : Nat])
    BY <1>7, ReadTypes DEF NoAnswer, Answers, TypeOK
  <2> QED BY <1>7, <2>1 DEF NoAnswer, Fail, TypeOK, HostPhases, bridge, d3d, process, hip
<1>8. CASE ReadHello
  BY <1>8, AnswerTyped DEF ReadHello, TypeOK, HostPhases, addon, bridge
<1>9. CASE SendPrepare
  <2>1. Message("prepare", 0) \in [op : Requests, sequence : Nat]
    BY DEF Message, Requests
  <2>2. Send("launched", Message("prepare", 0), "prepared") /\ "prepared" \in HostPhases
    BY <1>9 DEF SendPrepare, HostPhases
  <2> QED BY <2>1, <2>2, SendTyped
<1>10. CASE ReadReady
  BY <1>10, AnswerTyped DEF ReadReady, TypeOK, HostPhases, addon, bridge
<1>11. CASE Decode
  BY <1>11, Submissions, SubmitsTyped DEF HostPhases, TypeOK
<1>12. CASE WaitDecoded
  BY <1>12, WaitTyped DEF WaitDecoded, HostPhases, TypeOK
<1>13. CASE SubmitTexture
  <2>1. state' \in -1 .. 4 /\ seq' \in Nat
    <3>1. state \in -1 .. 4 /\ 1 \in -1 .. 4 /\ seq \in Nat
      BY DEF TypeOK
    <3>2. CASE queue' = queue
      BY <1>13, <3>1, <3>2 DEF SubmitTexture
    <3>3. CASE queue' # queue
      BY <1>13, <3>1, <3>3 DEF SubmitTexture
    <3> QED BY <3>2, <3>3
  <2> QED BY <1>13, <2>1, Submissions, SubmitsTyped DEF HostPhases
<1>14. CASE WaitSubmitted
  BY <1>14, WaitTyped DEF WaitSubmitted, HostPhases, TypeOK
<1>15. CASE SendFrame
  <2>1. Message("frame", seq) \in [op : Requests, sequence : Nat]
    BY DEF Message, Requests, TypeOK
  <2>2. Send("frame", Message("frame", seq), "done") /\ "done" \in HostPhases
    BY <1>15 DEF SendFrame, HostPhases
  <2> QED BY <2>1, <2>2, SendTyped
<1>16. CASE ReadDone
  <2>1. /\ phase' \in HostPhases /\ state' \in -1 .. 4
        /\ failed' \in BOOLEAN /\ finished' \in BOOLEAN /\ frames' \in 0 .. Limit
    <3>1. 3 \in -1 .. 4 /\ -1 \in -1 .. 4 /\ "receive" \in HostPhases
      BY DEF HostPhases
    <3>2. CASE state = 1 /\ outputFence >= seq
      BY <1>16, <3>1, <3>2, AddonTyped DEF ReadDone
    <3>3. CASE ~(state = 1 /\ outputFence >= seq)
      BY <1>16, <3>1, <3>3, FailTyped DEF ReadDone
    <3> QED BY <3>2, <3>3
  <2> QED BY <1>16, <2>1, AnswerTyped DEF ReadDone
<1>17. CASE Receive
  BY <1>17, Submissions, SubmitsTyped DEF HostPhases, TypeOK
<1>18. CASE WaitReceived
  <2>1. state' \in -1 .. 4
    BY <1>18 DEF WaitReceived, TypeOK
  <2> QED BY <1>18, <2>1, WaitTyped DEF WaitReceived, HostPhases
<1>19. CASE Encode
  BY <1>19, Submissions, SubmitsTyped DEF HostPhases, TypeOK
<1>20. CASE WaitEncoded
  BY <1>20, WaitTyped DEF WaitEncoded, HostPhases, TypeOK
<1>21. CASE SendConsumed
  <2>1. Message("consumed", seq) \in [op : Requests, sequence : Nat]
    BY DEF Message, Requests, TypeOK
  <2>2. Send("consumed", Message("consumed", seq), "released") /\ "released" \in HostPhases
    BY <1>21 DEF SendConsumed, HostPhases
  <2> QED BY <2>1, <2>2, SendTyped
<1>22. CASE ReadReleased
  <2>1. phase = "released"
    BY <1>22 DEF ReadReleased, Answer
  <2>2. ~failed /\ ~finished
    BY <2>1 DEF StateAt, Outside
  <2>3. frames < Limit
    BY <2>1, <2>2 DEF Budget
  <2>4. frames' \in 0 .. Limit
    BY <1>22, <2>3, BoundsAssumption DEF ReadReleased, TypeOK
  <2>5. phase' \in HostPhases /\ state' \in -1 .. 4
    <3>1. 0 \in -1 .. 4 /\ -1 \in -1 .. 4 /\ {"close", "present"} \subseteq HostPhases
      BY DEF HostPhases
    <3> QED BY <1>22, <3>1 DEF ReadReleased, TypeOK
  <2>6. failed' = failed \/ failed' = TRUE
    BY <1>22 DEF ReadReleased
  <2>7. finished' = finished
    BY <1>22 DEF ReadReleased
  <2>8. failed' \in BOOLEAN /\ finished' \in BOOLEAN
    BY <2>6, <2>7, Zenon DEF TypeOK
  <2> QED BY <1>22, <2>4, <2>5, <2>8, AnswerTyped DEF ReadReleased
<1>23. CASE SendClose
  <2>1. Message("close", 0) \in [op : Requests, sequence : Nat]
    BY DEF Message, Requests
  <2>2. Send("close", Message("close", 0), "closed") /\ "closed" \in HostPhases
    BY <1>23 DEF SendClose, HostPhases
  <2> QED BY <2>1, <2>2, SendTyped
<1>24. CASE ReadClosed
  BY <1>24, AnswerTyped DEF ReadClosed, TypeOK, HostPhases, addon, bridge
<1>25. CASE Close
  <2>1. CASE worker = "exited" /\ state \in {0, 4}
    <3>1. freed' = TRUE /\ finished' = TRUE /\ phase' = "present" /\ UNCHANGED <<failed, frames>>
      BY <1>25, <2>1 DEF Close
    <3>2. freed' \in BOOLEAN /\ finished' \in BOOLEAN
      BY <3>1, Zenon
    <3>3. phase' \in HostPhases
      BY <3>1 DEF HostPhases
    <3> QED BY <1>25, <3>1, <3>2, <3>3 DEF Close, TypeOK, d3d, pipes, process, hip
  <2>2. CASE ~(worker = "exited" /\ state \in {0, 4})
    <3>1. Fail /\ UNCHANGED freed
      BY <1>25, <2>2 DEF Close
    <3> QED BY <1>25, <3>1, FailTyped DEF Close, TypeOK, d3d, pipes, process, hip
  <2> QED BY <2>1, <2>2
<1> QED
  BY <1>1, <1>2, <1>3, <1>4, <1>5, <1>6, <1>7, <1>8, <1>9, <1>10, <1>11, <1>12, <1>13, <1>14,
     <1>15, <1>16, <1>17, <1>18, <1>19, <1>20, <1>21, <1>22, <1>23, <1>24, <1>25 DEF Callback

(* The worker's steps leave everything else alone.                              *)
LEMMA WorkerTyped ==
    ASSUME TypeOK, HostKept, worker' \in WorkerPhases,
           commands' \in {"READY", "AWAITING_CONSUMPTION", "CLOSED"},
           sequence' \in Nat, remote' \in 0 .. 2,
           toWorker' \in Seq([op : Requests, sequence : Nat]),
           toHost' \in Seq([op : Answers, sequence : Nat]),
           stream' \in Seq([op : StreamOps, n : Nat])
    PROVE  TypeOK'
BY DEF TypeOK, HostKept, addon, bridge, d3d, hip, Requests, Answers, StreamOps

(* The steps of the worker.                                                   *)
LEMMA WorkerTypes ==
    ASSUME TypeOK, WorkerStep \/ WorkerFails
    PROVE  TypeOK'
<1>0. /\ toWorker \in Seq([op : Requests, sequence : Nat])
      /\ toHost \in Seq([op : Answers, sequence : Nat])
      /\ stream \in Seq([op : StreamOps, n : Nat])
      /\ worker \in WorkerPhases /\ remote \in 0 .. 2 /\ sequence \in Nat
      /\ commands \in {"READY", "AWAITING_CONSUMPTION", "CLOSED"}
  BY PipeTypes DEF TypeOK, StreamOps
<1>1. CASE WorkerStarts
  BY <1>0, <1>1, EmitTypes, WorkerTyped DEF WorkerStarts, Answers, WorkerPhases
<1>2. CASE WorkerPrepares
  <2>1. toWorker' \in Seq([op : Requests, sequence : Nat])
    BY <1>2, TakeTypes DEF WorkerPrepares
  <2>2. CASE Head(toWorker).op = "prepare"
    BY <1>0, <1>2, <2>1, <2>2, EmitTypes, WorkerTyped DEF WorkerPrepares, Answers, WorkerPhases
  <2>3. CASE Head(toWorker).op # "prepare"
    BY <1>0, <1>2, <2>1, <2>3, WorkerTyped DEF WorkerPrepares, Dies, WorkerPhases
  <2> QED BY <2>2, <2>3
<1>3. CASE WorkerFrame
  <2>1. /\ toWorker' \in Seq([op : Requests, sequence : Nat])
        /\ Head(toWorker).sequence \in Nat
    BY <1>3, TakeTypes DEF WorkerFrame, Command
  <2>2. CASE Dies
    BY <1>0, <1>3, <2>1, <2>2, WorkerTyped DEF WorkerFrame, Dies, WorkerPhases
  <2>3. CASE ~Dies
    <3> DEFINE s == Head(toWorker).sequence
    <3>1. /\ commands' = "AWAITING_CONSUMPTION" /\ sequence' = s /\ remote' = 1
          /\ stream' = stream \o <<Item("wait", s), Item("copyin", s)>>
          /\ worker' = "input" /\ UNCHANGED toHost /\ HostKept
      BY <1>3, <2>3 DEF WorkerFrame
    <3>2. <<Item("wait", s), Item("copyin", s)>> \in Seq([op : StreamOps, n : Nat])
      <4>1. Item("wait", s) \in [op : StreamOps, n : Nat] /\ Item("copyin", s) \in [op : StreamOps, n : Nat]
        BY <2>1 DEF Item, StreamOps
      <4> QED BY <4>1
    <3>3. stream' \in Seq([op : StreamOps, n : Nat])
      BY <1>0, <3>1, <3>2
    <3>4. remote' \in 0 .. 2 /\ worker' \in WorkerPhases
      BY <3>1 DEF WorkerPhases
    <3> QED BY <1>0, <2>1, <3>1, <3>3, <3>4, WorkerTyped
  <2> QED BY <2>2, <2>3
<1>4. CASE WorkerSubmits
  <2>1. Item("network", sequence) \in [op : StreamOps, n : Nat]
    BY <1>0 DEF Item, StreamOps
  <2>2. stream' \in Seq([op : StreamOps, n : Nat]) /\ worker' \in WorkerPhases
    BY <1>4, <2>1 DEF WorkerSubmits, WorkerPhases
  <2> QED BY <1>0, <1>4, <2>2, WorkerTyped DEF WorkerSubmits, pipes
<1>5. CASE WorkerFinishes
  <2>1. CASE Dies
    BY <1>0, <1>5, <2>1, WorkerTyped DEF WorkerFinishes, Dies, WorkerPhases
  <2>2. CASE ~Dies
    <3>1. Item("copyout", sequence) \in [op : StreamOps, n : Nat] /\ Item("signal", sequence) \in [op : StreamOps, n : Nat]
      BY <1>0 DEF Item, StreamOps
    <3>2. stream' \in Seq([op : StreamOps, n : Nat]) /\ worker' \in WorkerPhases /\ remote' \in 0 .. 2
      <4>1. /\ remote' = 2 /\ worker' = "copied"
            /\ stream' = <<Item("copyout", sequence), Item("signal", sequence)>>
        BY <1>5, <2>2 DEF WorkerFinishes
      <4>2. <<Item("copyout", sequence), Item("signal", sequence)>> \in Seq([op : StreamOps, n : Nat])
        BY <3>1
      <4> QED BY <4>1, <4>2 DEF WorkerPhases
    <3> QED BY <1>0, <1>5, <2>2, <3>2, WorkerTyped DEF WorkerFinishes
  <2> QED BY <2>1, <2>2
<1>6. CASE WorkerDone
  BY <1>0, <1>6, EmitTypes, WorkerTyped DEF WorkerDone, Answers, WorkerPhases
<1>7. CASE WorkerConsumed
  <2>1. toWorker' \in Seq([op : Requests, sequence : Nat])
    BY <1>7, TakeTypes DEF WorkerConsumed, Command
  <2>2. CASE Dies
    BY <1>0, <1>7, <2>1, <2>2, WorkerTyped DEF WorkerConsumed, Dies, WorkerPhases
  <2>3. CASE ~Dies
    <3>1. /\ commands' = "READY" /\ remote' = 0 /\ Emit(Message("released", sequence))
          /\ UNCHANGED <<worker, sequence, stream>> /\ HostKept
      BY <1>7, <2>3 DEF WorkerConsumed
    <3>2. toHost' \in Seq([op : Answers, sequence : Nat]) /\ remote' \in 0 .. 2
      BY <1>0, <3>1, EmitTypes DEF Answers
    <3> QED BY <1>0, <2>1, <3>1, <3>2, WorkerTyped
  <2> QED BY <2>2, <2>3
<1>8. CASE WorkerClosed
  <2>1. toWorker' \in Seq([op : Requests, sequence : Nat])
    BY <1>8, TakeTypes DEF WorkerClosed, Command
  <2>2. CASE Dies
    BY <1>0, <1>8, <2>1, <2>2, WorkerTyped DEF WorkerClosed, Dies, WorkerPhases
  <2>3. CASE ~Dies
    <3>1. /\ commands' = "CLOSED" /\ worker' = "closing" /\ Emit(Message("closed", 0))
          /\ UNCHANGED <<sequence, remote, stream>> /\ HostKept
      BY <1>8, <2>3 DEF WorkerClosed
    <3>2. toHost' \in Seq([op : Answers, sequence : Nat]) /\ worker' \in WorkerPhases
      BY <1>0, <3>1, EmitTypes DEF Answers, WorkerPhases
    <3> QED BY <1>0, <2>1, <3>1, <3>2, WorkerTyped
  <2> QED BY <2>2, <2>3
<1>9. CASE WorkerExits
  BY <1>0, <1>9, WorkerTyped DEF WorkerExits, WorkerPhases, pipes
<1>10. CASE WorkerFails
  BY <1>0, <1>10, WorkerTyped DEF WorkerFails, Dies, WorkerPhases
<1> QED
  BY <1>1, <1>2, <1>3, <1>4, <1>5, <1>6, <1>7, <1>8, <1>9, <1>10 DEF WorkerStep

(* The steps of the two GPU queues.                                           *)
LEMMA GpuTypes ==
    ASSUME TypeOK, Screen, D3DStep \/ HipStep \/ StreamLost
    PROVE  TypeOK'
<1>0. target \in Image /\ texture \in Image /\ inputBuffer \in Image /\ outputBuffer \in Image
      /\ value \in Image /\ pending \in Image
  BY DEF TypeOK
<1>1. CASE D3DStep
  <2> DEFINE op == Head(queue).op
             n == Head(queue).n
  <2>1. queue' \in Seq(Entries) /\ Head(queue) \in Entries /\ Head(queue) = queue[1] /\ 1 \in DOMAIN queue
    BY <1>1, QueueTyped, TailFacts DEF D3DStep
  <2>2. n \in Nat
    BY <2>1 DEF Entries
  <2>3. op = "draw" => n <= MaxFrames
    <3>1. op = "draw" => n <= frame
      BY <2>1 DEF Screen, Shows
    <3>2. frame \in Nat /\ MaxFrames \in Nat /\ frame <= MaxFrames
      BY BoundsAssumption DEF TypeOK
    <3> QED BY <2>2, <3>1, <3>2
  <2>4. inputFence' \in Nat /\ hostFence' \in Nat
    BY <1>1, <2>2 DEF D3DStep, TypeOK
  <2>5. texture' \in Image /\ inputBuffer' \in Image
    BY <1>0, <1>1 DEF D3DStep
  <2>6. presented' \in Seq(Image)
    <3>1. presented \in Seq(Image)
      BY DEF TypeOK
    <3>2. Append(presented, target) \in Seq(Image)
      BY <1>0, <3>1, AppendFacts
    <3> QED BY <1>1, <3>1, <3>2 DEF D3DStep
  <2>7. target' \in Image
    <3>1. op = "draw" => Raw(n) \in Image
      BY <2>2, <2>3, BoundsAssumption DEF Raw, Image
    <3>2. target' \in {Raw(n), texture, target} /\ (target' = Raw(n) => op = "draw" \/ target' \in {texture, target})
      BY <1>1 DEF D3DStep
    <3> QED BY <1>0, <3>1, <3>2
  <2> HIDE DEF op, n
  <2>8. {target', texture', inputBuffer', outputBuffer', value', pending'} \subseteq Image
    BY <1>0, <1>1, <2>5, <2>7 DEF D3DStep, hip
  <2> QED BY <1>1, <2>1, <2>4, <2>6, <2>8 DEF D3DStep, TypeOK, Entries, QueueOps, addon, bridge, pipes, process, hip
<1>2. CASE HipStep
  <2>1. stream \in Seq([op : StreamOps, n : Nat])
    BY DEF TypeOK, StreamOps
  <2>2. stream' \in Seq([op : StreamOps, n : Nat]) /\ Head(stream) \in [op : StreamOps, n : Nat]
    BY <1>2, <2>1, TailFacts DEF HipStep
  <2>3. outputFence' \in Nat
    BY <1>2, <2>2 DEF HipStep, TypeOK
  <2>4. Net(value.frame) \in Image
    BY <1>0 DEF Net, Image
  <2>5. value' \in Image /\ pending' \in Image /\ outputBuffer' \in Image
    BY <1>0, <1>2, <2>4 DEF HipStep
  <2>6. {target', texture', inputBuffer', outputBuffer', value', pending'} \subseteq Image
    BY <1>0, <1>2, <2>5 DEF HipStep, d3d
  <2> QED BY <1>2, <2>2, <2>3, <2>6 DEF HipStep, TypeOK, StreamOps, addon, bridge, d3d, pipes, process
<1>3. CASE StreamLost
  <2>1. stream' \in Seq([op : {"wait", "copyin", "network", "copyout", "signal"}, n : Nat])
    BY <1>3 DEF StreamLost
  <2> QED BY <1>3, <2>1 DEF StreamLost, TypeOK, addon, bridge, d3d, pipes, process, hip
<1> QED BY <1>1, <1>2, <1>3

(* No step leaves the types: the frames in pictures and counters stay in range.*)
LEMMA TypeStep == TypeOK /\ StateAt /\ Budget /\ Screen /\ [Next]_vars => TypeOK'
<1> SUFFICES ASSUME TypeOK, StateAt, Budget, Screen, [Next]_vars PROVE TypeOK'
  OBVIOUS
<1>1. CASE UNCHANGED vars
  BY <1>1 DEF vars, TypeOK, addon, bridge, d3d, pipes, process, hip
<1> QED BY <1>1, HostTypes, WorkerTypes, GpuTypes DEF Next

-----------------------------------------------------------------------------
(* What the steps leave alone.                                               *)

Moves == Draw \/ Present \/ RuntimeDestroyed \/ Callback
Background == WorkerStep \/ WorkerFails \/ D3DStep \/ HipStep \/ StreamLost

(* A step is a move of the game's thread, or the worker's or a GPU's.         *)
LEMMA NextMoves == Next <=> Moves \/ Background
BY DEF Next, Moves, Background

(* The worker changes its pipes, its own state and its stream.                *)
LEMMA WorkerKeeps ==
    ASSUME WorkerStep \/ WorkerFails
    PROVE  UNCHANGED <<mayFail, phase, frame, failed, finished, frames, state, seq, hostValue, freed,
                       queue, target, texture, inputBuffer, inputFence, hostFence, presented,
                       value, pending, outputBuffer, outputFence>>
<1>1. HostKept
  BY DEF WorkerStep, WorkerFails, WorkerStarts, WorkerPrepares, WorkerFrame, WorkerSubmits,
         WorkerFinishes, WorkerDone, WorkerConsumed, WorkerClosed, WorkerExits
<1> QED BY <1>1 DEF HostKept, addon, bridge, d3d, hip

(* Nothing but the game's thread changes the callback and the bridge.         *)
LEMMA BackgroundKeeps ==
    ASSUME Background \/ UNCHANGED vars
    PROVE  UNCHANGED <<mayFail, phase, frame, failed, finished, frames, state, seq, hostValue, freed>>
<1>1. CASE WorkerStep \/ WorkerFails
  BY <1>1, WorkerKeeps
<1>2. CASE D3DStep \/ HipStep \/ StreamLost
  BY <1>2 DEF D3DStep, HipStep, StreamLost, addon, bridge
<1>3. CASE UNCHANGED vars
  BY <1>3 DEF vars, addon, bridge
<1> QED BY <1>1, <1>2, <1>3 DEF Background

(* The callback does no GPU work itself.                                      *)
LEMMA MovesKeep ==
    ASSUME TypeOK, Moves
    PROVE  UNCHANGED <<d3d, hip, stream, commands, sequence, remote>>
BY Submissions DEF Moves, Callback, Draw, Present, RuntimeDestroyed, Skip, Enter, Refuse, NoAnswer,
     ReadHello, SendPrepare, ReadReady, WaitDecoded, WaitSubmitted, SendFrame, ReadDone,
     WaitReceived, WaitEncoded, SendConsumed, ReadReleased, SendClose, ReadClosed, Close,
     Answer, Send, WaitHost, Submits, process

-----------------------------------------------------------------------------
(* The state of the bridge follows the callback.                             *)

LEMMA StateInit == Init => StateAt
BY DEF Init, StateAt, Outside

(* A failure keeps the bridge, or marks it.                                    *)
LEMMA FailState ==
    ASSUME StateAt, phase \notin {"game", "present"}, phase = "effects" => ~finished, Fail
    PROVE  StateAt'
BY DEF StateAt, Outside, Fail

(* A submission keeps the state the phase implies, but for submitTexture's.   *)
LEMMA SubmitsState ==
    ASSUME TypeOK, StateAt, NEW at, NEW op, NEW next, Submits(at, op, next)
    PROVE  phase = at /\ ((phase' = next /\ UNCHANGED <<failed, finished>>) \/ Fail)
BY DEF Submits, addon

(* The last call of a complete texture submission has made the state 1.         *)
LEMMA TextureState ==
    ASSUME TypeOK, SubmitTexture, ~Fail
    PROVE  state' = 1 /\ phase = "texture" /\ phase' = "submitted" /\ UNCHANGED addon
<1>1. Submits("texture", "tobuffer", "submitted")
  BY Submissions
<1>2. PICK m \in 0 .. 3 :
        /\ Len(queue') = Len(queue) + m
        /\ phase' = "submitted" /\ UNCHANGED addon /\ m >= 2
  BY <1>1 DEF Submits
<1>3. Len(queue) \in Nat
  BY QueueTyped
<1>4. queue' # queue
  BY <1>2, <1>3
<1> QED BY <1>1, <1>2, <1>4 DEF SubmitTexture, Submits

(* Every step keeps the bridge's state and the phase together.                *)
LEMMA StateStep == TypeOK /\ StateAt /\ [Next]_vars => StateAt'
<1> SUFFICES ASSUME TypeOK, StateAt, [Next]_vars PROVE StateAt'
  OBVIOUS
<1>1. CASE Background \/ UNCHANGED vars
  BY <1>1, BackgroundKeeps DEF StateAt
<1>2. CASE Draw \/ Present \/ RuntimeDestroyed \/ Skip \/ Enter
  BY <1>2 DEF Draw, Present, RuntimeDestroyed, Skip, Enter, StateAt, Outside, addon, bridge
<1>3. CASE Refuse
  <2>1. UNCHANGED state
    BY <1>3 DEF Refuse, bridge
  <2> QED BY <1>3, <2>1, FailState DEF Refuse
<1>4. CASE NoAnswer
  BY <1>4, FailState DEF NoAnswer, Expected
<1>5. CASE ReadHello \/ ReadReady \/ ReadClosed
  BY <1>5 DEF ReadHello, ReadReady, ReadClosed, Answer, StateAt, Outside, addon, bridge
<1>6. ASSUME NEW at \in {"launched", "frame", "consumed", "close"}, NEW message, NEW next,
             Send(at, message, next),
             <<at, next>> \in {<<"launched", "prepared">>, <<"frame", "done">>,
                               <<"consumed", "released">>, <<"close", "closed">>}
      PROVE  StateAt'
  BY <1>6, FailState DEF Send, StateAt, Outside, addon, bridge
<1>7. CASE SendPrepare \/ SendFrame \/ SendConsumed \/ SendClose
  BY <1>6, <1>7 DEF SendPrepare, SendFrame, SendConsumed, SendClose
<1>8. CASE Decode \/ Receive \/ Encode
  <2>1. UNCHANGED state
    BY <1>8, Submissions
  <2>2. \/ <<phase, phase'>> \in {<<"input", "decoded">>, <<"receive", "received">>, <<"output", "encoded">>}
           /\ UNCHANGED <<failed, finished>>
        \/ phase \in {"input", "receive", "output"} /\ Fail
    <3>1. CASE Decode
      BY <3>1, Submissions, SubmitsState
    <3>2. CASE Receive
      BY <3>2, Submissions, SubmitsState
    <3>3. CASE Encode
      BY <3>3, Submissions, SubmitsState
    <3> QED BY <1>8, <3>1, <3>2, <3>3
  <2>3. CASE Fail
    BY <2>2, <2>3, FailState DEF Fail
  <2>4. CASE ~Fail
    BY <2>1, <2>2, <2>4 DEF StateAt, Outside
  <2> QED BY <2>3, <2>4
<1>9. CASE SubmitTexture
  <2>1. CASE Fail
    BY <1>9, <2>1, Submissions, FailState DEF Submits
  <2>2. CASE ~Fail
    BY <1>9, <2>2, TextureState DEF StateAt, Outside, addon
  <2> QED BY <2>1, <2>2
<1>10. CASE WaitDecoded \/ WaitSubmitted \/ WaitEncoded
  <2>1. CASE Fail
    BY <1>10, <2>1, FailState DEF WaitDecoded, WaitSubmitted, WaitEncoded, WaitHost
  <2>2. CASE ~Fail
    BY <1>10, <2>2 DEF WaitDecoded, WaitSubmitted, WaitEncoded, WaitHost, StateAt, Outside, addon
  <2> QED BY <2>1, <2>2
<1>11. CASE WaitReceived
  <2>1. CASE Fail
    BY <1>11, <2>1, FailState DEF WaitReceived, WaitHost
  <2>2. CASE ~Fail
    BY <1>11, <2>2 DEF WaitReceived, WaitHost, StateAt, Outside, addon
  <2> QED BY <2>1, <2>2
<1>12. CASE ReadDone
  <2>1. CASE Fail
    BY <1>12, <2>1, FailState DEF ReadDone, Answer
  <2>2. CASE ~Fail
    BY <1>12, <2>2 DEF ReadDone, Answer, StateAt, Outside, addon
  <2> QED BY <2>1, <2>2
<1>13. CASE ReadReleased
  BY <1>13 DEF ReadReleased, Answer, StateAt, Outside
<1>14. CASE Close
  <2>1. CASE Fail
    BY <1>14, <2>1, FailState DEF Close
  <2>2. CASE ~Fail
    BY <1>14, <2>2 DEF Close, StateAt, Outside
  <2> QED BY <2>1, <2>2
<1> QED
  BY <1>1, <1>2, <1>3, <1>4, <1>5, <1>7, <1>8, <1>9, <1>10, <1>11, <1>12, <1>13, <1>14, NextMoves
  DEF Moves, Callback

-----------------------------------------------------------------------------
(* Positions on the queue.                                                  *)

(* Indices of the queue.                                                      *)
LEMMA Domains ==
    ASSUME TypeOK
    PROVE  Len(queue) \in Nat /\ DOMAIN queue = 1 .. Len(queue)
<1>1. queue \in Seq(Entries)
  BY QueueTyped
<1> QED BY <1>1

(* The Direct3D queue executes its first entry; the others move up.              *)
LEMMA PopIndex ==
    ASSUME TypeOK, D3DStep
    PROVE  /\ Len(queue) \in Nat \ {0}
           /\ DOMAIN queue = 1 .. Len(queue)
           /\ DOMAIN queue' = 1 .. Len(queue) - 1
           /\ \A i \in 1 .. Len(queue) - 1 : queue'[i] = queue[i + 1] /\ i + 1 \in DOMAIN queue
           /\ Head(queue) = queue[1] /\ 1 \in DOMAIN queue
           /\ queue[1] \in Entries
<1>1. queue \in Seq(Entries)
  BY QueueTyped
<1>2. queue # <<>> /\ queue' = Tail(queue)
  BY DEF D3DStep
<1>3. /\ Len(queue) \in Nat \ {0}
      /\ DOMAIN queue = 1 .. Len(queue)
      /\ DOMAIN queue' = 1 .. Len(queue) - 1
      /\ \A i \in 1 .. Len(queue) - 1 : queue'[i] = queue[i + 1]
      /\ Head(queue) = queue[1] /\ Head(queue) \in Entries
  BY <1>1, <1>2, TailFacts
<1> QED BY <1>3

(* The game appends one entry.                                               *)
LEMMA AppendIndex ==
    ASSUME TypeOK, NEW e \in Entries, queue' = Append(queue, e)
    PROVE  /\ Len(queue) \in Nat
           /\ DOMAIN queue = 1 .. Len(queue)
           /\ DOMAIN queue' = 1 .. Len(queue) + 1
           /\ \A i \in DOMAIN queue : queue'[i] = queue[i] /\ i \in DOMAIN queue' /\ i # Len(queue) + 1
           /\ queue'[Len(queue) + 1] = e
           /\ \A i \in DOMAIN queue' : i \in DOMAIN queue \/ i = Len(queue) + 1
<1>1. queue \in Seq(Entries)
  BY QueueTyped
<1>2. /\ Len(queue) \in Nat
      /\ DOMAIN queue = 1 .. Len(queue)
      /\ DOMAIN queue' = 1 .. Len(queue) + 1
      /\ \A i \in 1 .. Len(queue) : queue'[i] = queue[i]
      /\ queue'[Len(queue) + 1] = e
  BY <1>1, AppendFacts
<1> QED BY <1>2

(* A submission appends its list first, and behind it what is none.             *)
LEMMA SubmitsIndex ==
    ASSUME TypeOK, NEW at, NEW op, NEW next, Submits(at, op, next)
    PROVE  /\ \A i \in DOMAIN queue : queue'[i] = queue[i] /\ i \in DOMAIN queue'
           /\ \A i \in DOMAIN queue' :
                 \/ i \in DOMAIN queue
                 \/ i = Len(queue) + 1 /\ queue'[i] = Item(op, frame)
                 \/ i > Len(queue) + 1 /\ queue'[i].op \in {"ready", "host"}
           /\ \/ /\ phase' = next /\ UNCHANGED addon /\ hostValue' = hostValue + 1
                 /\ \E h \in DOMAIN queue' :
                       /\ h > Len(queue) + 1 /\ Len(queue) + 1 \in DOMAIN queue'
                       /\ queue'[h] = Item("host", hostValue + 1)
                       /\ \A i \in DOMAIN queue' : i <= h
                       /\ \A i \in DOMAIN queue' \ DOMAIN queue : i # h => queue'[i].op # "host"
              \/ Fail
<1>1. PICK m \in 0 .. 3 :
        /\ queue' \in Seq(Entries)
        /\ Len(queue') = Len(queue) + m
        /\ \A i \in 1 .. Len(queue) : queue'[i] = queue[i]
        /\ m > 0 => queue'[Len(queue) + 1] = Item(op, frame)
        /\ \A i \in Len(queue) + 2 .. Len(queue) + m : queue'[i].op \in {"ready", "host"}
        /\ \/ /\ phase' = next /\ UNCHANGED addon
              /\ m >= 2 /\ hostValue' = hostValue + 1
              /\ queue'[Len(queue) + m] = Item("host", hostValue + 1)
              /\ \A i \in Len(queue) + 1 .. Len(queue) + m - 1 : queue'[i].op # "host"
           \/ Fail /\ hostValue' \in Nat
  BY DEF Submits
<1>2. Len(queue) \in Nat /\ DOMAIN queue = 1 .. Len(queue)
  BY Domains
<1>3. DOMAIN queue' = 1 .. Len(queue) + m
  <2>1. DOMAIN queue' = 1 .. Len(queue')
    BY <1>1
  <2> QED BY <1>1, <2>1
<1>4. \A i \in DOMAIN queue : queue'[i] = queue[i] /\ i \in DOMAIN queue'
  BY <1>1, <1>2, <1>3
<1>5. \A i \in DOMAIN queue' :
         \/ i \in DOMAIN queue
         \/ i = Len(queue) + 1 /\ queue'[i] = Item(op, frame)
         \/ i > Len(queue) + 1 /\ queue'[i].op \in {"ready", "host"}
  BY <1>1, <1>2, <1>3
<1>6. CASE Fail
  BY <1>4, <1>5, <1>6
<1>7. CASE ~Fail
  <2>1. /\ phase' = next /\ UNCHANGED addon /\ hostValue' = hostValue + 1 /\ m >= 2
        /\ queue'[Len(queue) + m] = Item("host", hostValue + 1)
        /\ \A i \in Len(queue) + 1 .. Len(queue) + m - 1 : queue'[i].op # "host"
    BY <1>1, <1>7
  <2> DEFINE h == Len(queue) + m
  <2>2. h \in DOMAIN queue' /\ h > Len(queue) + 1 /\ Len(queue) + 1 \in DOMAIN queue'
    BY <1>2, <1>3, <2>1
  <2>3. \A i \in DOMAIN queue' : i <= h
    BY <1>3
  <2>4. \A i \in DOMAIN queue' \ DOMAIN queue : i # h => queue'[i].op # "host"
    <3> SUFFICES ASSUME NEW i \in DOMAIN queue' \ DOMAIN queue, i # h
                 PROVE  queue'[i].op # "host"
      OBVIOUS
    <3>1. i \in Len(queue) + 1 .. Len(queue) + m - 1
      BY <1>2, <1>3
    <3> QED BY <2>1, <3>1
  <2>5. queue'[h] = Item("host", hostValue + 1)
    BY <2>1
  <2> QED BY <1>4, <1>5, <2>1, <2>2, <2>3, <2>4, <2>5
<1> QED BY <1>6, <1>7

(* The moves of the host that submit nothing.                                  *)
LEMMA QueueKept ==
    ASSUME TypeOK, Moves,
           ~Draw, ~Present, ~Decode, ~SubmitTexture, ~Receive, ~Encode
    PROVE  /\ UNCHANGED <<queue, hostValue>>
           /\ failed => failed'
           /\ ~failed' => phase' \notin Waiting /\ (phase \in Waiting => hostFence = hostValue)
<1>1. CASE RuntimeDestroyed \/ Skip \/ Enter \/ Refuse \/ NoAnswer
  BY <1>1 DEF RuntimeDestroyed, Skip, Enter, Refuse, NoAnswer, Fail, Expected, Waiting, addon, bridge
<1>2. CASE ReadHello \/ ReadReady \/ ReadClosed \/ ReadDone \/ ReadReleased
  BY <1>2 DEF ReadHello, ReadReady, ReadClosed, ReadDone, ReadReleased, Answer, Fail, Waiting, addon, bridge
<1>3. CASE SendPrepare \/ SendFrame \/ SendConsumed \/ SendClose
  BY <1>3 DEF SendPrepare, SendFrame, SendConsumed, SendClose, Send, Fail, Waiting, addon, bridge
<1>4. CASE WaitDecoded \/ WaitSubmitted \/ WaitReceived \/ WaitEncoded
  BY <1>4 DEF WaitDecoded, WaitSubmitted, WaitReceived, WaitEncoded, WaitHost, Fail, Waiting, addon
<1>5. CASE Close
  BY <1>5 DEF Close, Fail, Waiting
<1> QED BY <1>1, <1>2, <1>3, <1>4, <1>5 DEF Moves, Callback

-----------------------------------------------------------------------------
(* One allocator.                                                           *)

(* Outside a wait, a session that goes on has no list on the queue.             *)
LEMMA NoList ==
    ASSUME TypeOK, Allocator, ~failed, hostFence = hostValue
    PROVE  \A i \in DOMAIN queue : ~Listed(i) /\ ~Hosted(i)
BY DEF Allocator

LEMMA AllocatorInit == Init => Allocator
<1> SUFFICES ASSUME Init PROVE Allocator
  OBVIOUS
<1>1. DOMAIN queue = {}
  BY DEF Init
<1> QED BY <1>1 DEF Init, Allocator

(* What the game appends is no list.                                          *)
LEMMA AllocatorAppend ==
    ASSUME TypeOK, Allocator, NEW e \in Entries, queue' = Append(queue, e),
           e.op \notin Lists \cup {"host"},
           UNCHANGED <<failed, hostFence, hostValue>>,
           phase \notin Waiting
    PROVE  Allocator'
<1>1. /\ DOMAIN queue \subseteq DOMAIN queue'
      /\ \A i \in DOMAIN queue : queue'[i] = queue[i]
      /\ \A i \in DOMAIN queue' : i \in DOMAIN queue \/ queue'[i] = e
  BY AppendIndex
<1>2. \A i \in DOMAIN queue' : /\ Listed(i)' => Listed(i)
                               /\ Hosted(i)' => Hosted(i)
  BY <1>1 DEF Listed, Hosted
<1>3. \A i \in DOMAIN queue : Hosted(i) => Hosted(i)'
  BY <1>1 DEF Hosted
<1>4. \A i \in DOMAIN queue' : Listed(i)' \/ Hosted(i)' => i \in DOMAIN queue /\ queue'[i] = queue[i]
  BY <1>1, <1>2 DEF Listed, Hosted
<1> QED BY <1>1, <1>2, <1>3, <1>4 DEF Allocator

(* The callback submits when the host fence has reached the last signal.      *)
LEMMA AllocatorSubmits ==
    ASSUME TypeOK, StateAt, Allocator, NEW at, NEW op, NEW next, op \in Lists,
           at \notin Waiting \cup Outside, next \in Waiting, Submits(at, op, next)
    PROVE  Allocator'
<1>1. phase = at /\ ~failed /\ ~finished /\ UNCHANGED hostFence
  BY DEF Submits, StateAt, d3d
<1>2. hostFence = hostValue /\ hostValue \in Nat
  BY <1>1 DEF Allocator, TypeOK
<1>3. \A i \in DOMAIN queue : ~Listed(i) /\ ~Hosted(i)
  BY <1>1, <1>2, NoList
<1>4. /\ \A i \in DOMAIN queue : queue'[i] = queue[i] /\ i \in DOMAIN queue'
      /\ \A i \in DOMAIN queue' :
            \/ i \in DOMAIN queue
            \/ i = Len(queue) + 1 /\ queue'[i] = Item(op, frame)
            \/ i > Len(queue) + 1 /\ queue'[i].op \in {"ready", "host"}
  BY SubmitsIndex
<1>5. \A i \in DOMAIN queue' : Listed(i)' => i = Len(queue) + 1
  BY <1>3, <1>4 DEF Listed, Lists
<1>6. \A i, j \in DOMAIN queue' : Listed(i)' /\ Listed(j)' => i = j
  BY <1>5
<1>7. CASE Fail
  BY <1>6, <1>7 DEF Fail, Allocator
<1>8. CASE ~Fail
  <2>1. /\ phase' = next /\ hostValue' = hostValue + 1
        /\ \E h \in DOMAIN queue' :
              /\ h > Len(queue) + 1 /\ Len(queue) + 1 \in DOMAIN queue'
              /\ queue'[h] = Item("host", hostValue + 1)
              /\ \A i \in DOMAIN queue' : i <= h
              /\ \A i \in DOMAIN queue' \ DOMAIN queue : i # h => queue'[i].op # "host"
    BY <1>8, SubmitsIndex
  <2>2. PICK h \in DOMAIN queue' :
              /\ h > Len(queue) + 1
              /\ queue'[h] = Item("host", hostValue + 1)
              /\ \A i \in DOMAIN queue' \ DOMAIN queue : i # h => queue'[i].op # "host"
    BY <2>1
  <2>3. \A i \in DOMAIN queue' : Hosted(i)' <=> i = h
    BY <1>3, <1>4, <2>2 DEF Hosted, Item
  <2>4. queue'[h].n = hostValue' /\ hostFence' # hostValue'
    BY <1>1, <1>2, <2>1, <2>2 DEF Item
  <2>5. \A i \in DOMAIN queue' : Listed(i)' => i < h
    BY <1>5, <2>2
  <2>6. phase' \in Waiting
    BY <2>1
  <2> QED BY <1>6, <2>2, <2>3, <2>4, <2>5, <2>6 DEF Allocator
<1> QED BY <1>7, <1>8

(* Executing in order keeps the list before its signal.                       *)
LEMMA AllocatorPop ==
    ASSUME TypeOK, Allocator, D3DStep
    PROVE  Allocator'
<1>1. /\ Len(queue) \in Nat \ {0}
      /\ DOMAIN queue = 1 .. Len(queue)
      /\ DOMAIN queue' = 1 .. Len(queue) - 1
      /\ \A i \in 1 .. Len(queue) - 1 : queue'[i] = queue[i + 1] /\ i + 1 \in DOMAIN queue
      /\ Head(queue) = queue[1] /\ 1 \in DOMAIN queue
  BY PopIndex
<1>2. UNCHANGED <<phase, failed, hostValue>>
  BY DEF D3DStep, addon, bridge
<1>3. hostFence' = IF queue[1].op = "host" THEN queue[1].n ELSE hostFence
  BY <1>1 DEF D3DStep
<1>4. \A i \in DOMAIN queue' : /\ Listed(i)' <=> Listed(i + 1)
                               /\ Hosted(i)' <=> Hosted(i + 1)
                               /\ queue'[i] = queue[i + 1] /\ i + 1 \in DOMAIN queue
  BY <1>1 DEF Listed, Hosted
<1>5. \A i, j \in DOMAIN queue' : Listed(i)' /\ Listed(j)' => i = j
  <2> SUFFICES ASSUME NEW i \in DOMAIN queue', NEW j \in DOMAIN queue', Listed(i)', Listed(j)'
               PROVE  i = j
    OBVIOUS
  <2>1. i + 1 = j + 1
    BY <1>4 DEF Allocator
  <2> QED BY <1>1, <2>1
<1>6. CASE failed
  BY <1>2, <1>5, <1>6 DEF Allocator
<1>7. CASE ~failed /\ queue[1].op = "host"
  <2>1. Hosted(1) /\ hostFence' = hostValue
    BY <1>1, <1>3, <1>7 DEF Hosted, Allocator
  <2>2. \A i \in DOMAIN queue' : ~Hosted(i)'
    <3> SUFFICES ASSUME NEW i \in DOMAIN queue', Hosted(i)' PROVE FALSE
      OBVIOUS
    <3>1. i + 1 = 1
      BY <1>1, <1>4, <1>7, <2>1 DEF Allocator
    <3> QED BY <1>1, <3>1
  <2>3. \A i \in DOMAIN queue' : ~Listed(i)'
    <3> SUFFICES ASSUME NEW i \in DOMAIN queue', Listed(i)' PROVE FALSE
      OBVIOUS
    <3>1. PICK j \in DOMAIN queue : i + 1 < j /\ Hosted(j)
      BY <1>4, <1>7 DEF Allocator
    <3>2. j = 1
      BY <1>1, <1>7, <2>1, <3>1 DEF Allocator
    <3> QED BY <1>1, <3>1, <3>2
  <2> QED BY <1>2, <2>1, <2>2, <2>3 DEF Allocator
<1>8. CASE ~failed /\ queue[1].op # "host"
  <2>1. \A i \in DOMAIN queue' : Listed(i)' => \E j \in DOMAIN queue' : i < j /\ Hosted(j)'
    <3> SUFFICES ASSUME NEW i \in DOMAIN queue', Listed(i)'
                 PROVE  \E j \in DOMAIN queue' : i < j /\ Hosted(j)'
      OBVIOUS
    <3>1. PICK j \in DOMAIN queue : i + 1 < j /\ Hosted(j)
      BY <1>4, <1>8 DEF Allocator
    <3>2. j - 1 \in DOMAIN queue' /\ i < j - 1 /\ (j - 1) + 1 = j
      BY <1>1, <3>1
    <3>3. Hosted(j - 1)' <=> Hosted((j - 1) + 1)
      BY <1>4, <3>2
    <3> QED BY <3>1, <3>2, <3>3
  <2>2. \A i \in DOMAIN queue' : Hosted(i)' => queue'[i].n = hostValue' /\ hostFence' # hostValue'
    BY <1>2, <1>3, <1>4, <1>8 DEF Allocator
  <2>3. \A i, j \in DOMAIN queue' : Hosted(i)' /\ Hosted(j)' => i = j
    <3> SUFFICES ASSUME NEW i \in DOMAIN queue', NEW j \in DOMAIN queue', Hosted(i)', Hosted(j)'
                 PROVE  i = j
      OBVIOUS
    <3>1. i + 1 = j + 1
      BY <1>4, <1>8 DEF Allocator
    <3> QED BY <1>1, <3>1
  <2>4. phase' \notin Waiting => hostFence' = hostValue'
    BY <1>2, <1>3, <1>8 DEF Allocator
  <2> QED BY <1>5, <2>1, <2>2, <2>3, <2>4 DEF Allocator
<1> QED BY <1>6, <1>7, <1>8

(* No step puts a second list on the queue.                                   *)
LEMMA AllocatorStep == TypeOK /\ StateAt /\ Allocator /\ [Next]_vars => Allocator'
<1> SUFFICES ASSUME TypeOK, StateAt, Allocator, [Next]_vars PROVE Allocator'
  OBVIOUS
<1>1. CASE WorkerStep \/ WorkerFails \/ HipStep \/ StreamLost \/ UNCHANGED vars
  <2>1. UNCHANGED <<queue, hostFence>>
    BY <1>1, WorkerKeeps DEF HipStep, StreamLost, vars, d3d
  <2>2. UNCHANGED <<phase, failed, hostValue>>
    BY <1>1, BackgroundKeeps DEF Background
  <2> QED BY <2>1, <2>2 DEF Allocator, Listed, Hosted
<1>2. CASE D3DStep
  BY <1>2, AllocatorPop
<1>3. CASE Draw
  <2>1. Item("draw", frame + 1) \in Entries /\ Item("draw", frame + 1).op \notin Lists \cup {"host"}
    BY BoundsAssumption DEF TypeOK, Item, Entries, QueueOps, Lists
  <2> QED BY <1>3, <2>1, AllocatorAppend DEF Draw, addon, bridge, d3d, Waiting
<1>4. CASE Present
  <2>1. Item("present", frame) \in Entries /\ Item("present", frame).op \notin Lists \cup {"host"}
    BY BoundsAssumption DEF TypeOK, Item, Entries, QueueOps, Lists
  <2> QED BY <1>4, <2>1, AllocatorAppend DEF Present, addon, bridge, d3d, Waiting
<1>5. CASE Decode \/ SubmitTexture \/ Receive \/ Encode
  BY <1>5, Submissions, AllocatorSubmits DEF Lists, Waiting, Outside
<1>6. CASE Moves /\ ~Draw /\ ~Present /\ ~Decode /\ ~SubmitTexture /\ ~Receive /\ ~Encode
  <2>1. /\ UNCHANGED <<queue, hostValue>>
        /\ failed => failed'
        /\ ~failed' => phase' \notin Waiting /\ (phase \in Waiting => hostFence = hostValue)
    BY <1>6, QueueKept
  <2>2. UNCHANGED hostFence
    BY <1>6, MovesKeep DEF d3d
  <2>3. \A i \in DOMAIN queue : (Listed(i)' <=> Listed(i)) /\ (Hosted(i)' <=> Hosted(i))
    BY <2>1 DEF Listed, Hosted
  <2> QED BY <2>1, <2>2, <2>3 DEF Allocator
<1> QED BY <1>1, <1>2, <1>3, <1>4, <1>5, <1>6, NextMoves DEF Background

-----------------------------------------------------------------------------
(* One party at a time.                                                     *)

LEMMA TurnsInit == Init => Turns
<1> SUFFICES ASSUME Init PROVE Turns
  OBVIOUS
<1>1. /\ DOMAIN queue = {} /\ stream = <<>> /\ toWorker = <<>> /\ toHost = <<>>
      /\ phase = "game" /\ worker = "none"
  BY DEF Init
<1> QED BY <1>1 DEF Turns, Channels, Turn, Outside, Running

(* The callback goes on, or comes back, without a word: it still is its turn.    *)
LEMMA TurnsKept ==
    ASSUME Turns, UNCHANGED <<stream, toWorker, toHost, worker>>,
           \A i \in DOMAIN queue' : Listed(i)' => Still \/ \E j \in DOMAIN queue : Listed(j),
           phase' \in Turn => Still,
           phase' \in Outside /\ ~failed' /\ ~finished' /\ worker # "none" => Still,
           phase' = "launched" => phase = "launched"
    PROVE  Turns'
BY DEF Turns, Channels, Still

(* Messages.                                                                *)
LEMMA EmitFacts ==
    ASSUME TypeOK, toHost = <<>>, NEW op \in Answers, NEW s \in Nat, Emit(Message(op, s))
    PROVE  /\ toHost' # <<>> /\ Len(toHost') = 1
           /\ Head(toHost').op = op
<1>1. /\ toHost \in Seq([op : Answers, sequence : Nat])
      /\ Message(op, s) \in [op : Answers, sequence : Nat]
  BY PipeTypes, MessageTypes
<1>2. /\ Len(toHost') = 1 /\ Head(toHost') = Message(op, s)
  BY <1>1, AppendFacts DEF Emit
<1>3. toHost' # <<>>
  BY <1>2
<1> QED BY <1>2, <1>3 DEF Message

(* A message sent on an empty pipe is its only one.                           *)
LEMMA SendFacts ==
    ASSUME TypeOK, toWorker = <<>>, NEW op \in Requests, NEW s \in Nat,
           toWorker' = Append(toWorker, Message(op, s))
    PROVE  /\ toWorker' # <<>> /\ Len(toWorker') = 1
           /\ Head(toWorker').op = op
<1>1. /\ toWorker \in Seq([op : Requests, sequence : Nat])
      /\ Message(op, s) \in [op : Requests, sequence : Nat]
  BY PipeTypes, MessageTypes
<1>2. /\ Len(toWorker') = 1 /\ Head(toWorker') = Message(op, s)
  BY <1>1, AppendFacts
<1>3. toWorker' # <<>>
  BY <1>2
<1> QED BY <1>2, <1>3 DEF Message

(* The one message on a pipe is taken.                                         *)
LEMMA TakeFacts ==
    ASSUME TypeOK, Turns
    PROVE  /\ toWorker # <<>> => Tail(toWorker) = <<>>
           /\ toHost # <<>> => Tail(toHost) = <<>>
<1>1. toWorker # <<>> => Tail(toWorker) = <<>>
  <2>1. toWorker # <<>> => Len(toWorker) = 1
    BY DEF Turns, Channels
  <2> QED BY <2>1, PipeTypes, LastMessage
<1>2. toHost # <<>> => Tail(toHost) = <<>>
  <2>1. toHost # <<>> => Len(toHost) = 1
    BY DEF Turns, Channels
  <2> QED BY <2>1, PipeTypes, LastMessage
<1> QED BY <1>1, <1>2

(* A worker that has something to do has no list of the callback's before it.     *)
LEMMA TurnsBusy ==
    ASSUME TypeOK, Turns, UNCHANGED <<phase, failed, finished, queue>>,
           worker # "none", phase # "launched",
           ~(stream = <<>> /\ toWorker = <<>> /\ worker \in {"loop", "dead"}),
           Channels'
    PROVE  Turns'
<1>1. /\ phase \notin Turn /\ ~(phase \in Outside /\ ~failed /\ ~finished)
      /\ \A i \in DOMAIN queue : ~Listed(i)
  BY DEF Turns, Still
<1>2. \A i \in DOMAIN queue' : ~Listed(i)'
  BY <1>1 DEF Listed
<1> QED BY <1>1, <1>2 DEF Turns

(* The worker answers once, and waits again.                                  *)
LEMMA TurnsWorker ==
    ASSUME TypeOK, Turns, WorkerStep \/ WorkerFails
    PROVE  Turns'
<1>1. UNCHANGED <<phase, failed, finished, queue>> /\ sequence \in Nat
  BY WorkerKeeps DEF TypeOK
<1>3. CASE WorkerFails
  <2>1. worker' = "dead" /\ UNCHANGED <<toHost, toWorker, stream>> /\ worker # "none"
        /\ worker \notin {"exited", "dead"}
    BY <1>3 DEF WorkerFails, Dies, Gone
  <2>2. \A i \in DOMAIN queue' : Listed(i)' <=> Listed(i)
    BY <1>1 DEF Listed
  <2> QED BY <1>1, <2>1, <2>2 DEF Turns, Channels, Still, Running
<1>4. CASE WorkerStarts
  <2>1. worker = "start" /\ worker' = "prepare" /\ UNCHANGED <<toWorker, stream>>
        /\ toHost = <<>> /\ toWorker = <<>> /\ stream = <<>>
    BY <1>4 DEF WorkerStarts, Turns, Channels, Running
  <2>2. toHost' # <<>> /\ Len(toHost') = 1 /\ Head(toHost').op = "hello"
    BY <1>4, <2>1, EmitFacts DEF WorkerStarts, Answers
  <2> QED BY <1>1, <2>1, <2>2, TurnsBusy DEF Turns, Channels, Running
<1>5. CASE WorkerPrepares
  <2>1. worker = "prepare" /\ toWorker # <<>> /\ UNCHANGED stream
        /\ toHost = <<>> /\ toWorker' = <<>> /\ stream = <<>>
    BY <1>5, TakeFacts DEF WorkerPrepares, Turns, Channels, Running, Dies
  <2>2. CASE Head(toWorker).op = "prepare"
    <3>1. toHost' # <<>> /\ Len(toHost') = 1 /\ Head(toHost').op = "ready" /\ worker' = "loop"
      BY <1>5, <2>1, <2>2, EmitFacts DEF WorkerPrepares, Answers
    <3> QED BY <1>1, <2>1, <3>1, TurnsBusy DEF Turns, Channels, Running
  <2>3. CASE Head(toWorker).op # "prepare"
    <3>1. worker' = "dead" /\ UNCHANGED toHost
      BY <1>5, <2>3 DEF WorkerPrepares, Dies
    <3> QED BY <1>1, <2>1, <3>1, TurnsBusy DEF Turns, Channels, Running
  <2> QED BY <2>2, <2>3
<1>6. CASE WorkerFrame
  <2>1. worker = "loop" /\ toWorker # <<>> /\ UNCHANGED toHost
        /\ toHost = <<>> /\ toWorker' = <<>>
        /\ (worker' = "input" \/ (worker' = "dead" /\ UNCHANGED stream))
    BY <1>6, TakeFacts DEF WorkerFrame, Command, Turns, Channels, Running, Dies
  <2> QED BY <1>1, <2>1, TurnsBusy DEF Turns, Channels, Running
<1>7. CASE WorkerSubmits \/ WorkerFinishes
  <2>1. worker \in Running /\ worker' \in Running \cup {"dead"} /\ UNCHANGED <<toHost, toWorker>>
        /\ toHost = <<>> /\ toWorker = <<>>
    BY <1>7 DEF WorkerSubmits, WorkerFinishes, Turns, Channels, Running, Dies, pipes
  <2> QED BY <1>1, <2>1, TurnsBusy DEF Turns, Channels, Running
<1>8. CASE WorkerDone
  <2>1. worker = "copied" /\ worker' = "loop" /\ UNCHANGED <<toWorker, stream>>
        /\ toHost = <<>> /\ toWorker = <<>> /\ stream = <<>>
    BY <1>8 DEF WorkerDone, Turns, Channels, Running, Synchronized
  <2>2. toHost' # <<>> /\ Len(toHost') = 1 /\ Head(toHost').op = "done"
    BY <1>1, <1>8, <2>1, EmitFacts DEF WorkerDone, Answers
  <2> QED BY <1>1, <2>1, <2>2, TurnsBusy DEF Turns, Channels, Running
<1>9. CASE WorkerConsumed
  <2>1. worker = "loop" /\ toWorker # <<>> /\ UNCHANGED stream
        /\ toHost = <<>> /\ toWorker' = <<>> /\ stream = <<>>
    BY <1>9, TakeFacts DEF WorkerConsumed, Command, Turns, Channels, Running, Dies
  <2>2. \/ worker' = "loop" /\ toHost' # <<>> /\ Len(toHost') = 1 /\ Head(toHost').op = "released"
        \/ worker' = "dead" /\ UNCHANGED toHost
    BY <1>1, <1>9, <2>1, EmitFacts DEF WorkerConsumed, Answers, Dies
  <2> QED BY <1>1, <2>1, <2>2, TurnsBusy DEF Turns, Channels, Running
<1>10. CASE WorkerClosed
  <2>1. worker = "loop" /\ toWorker # <<>> /\ UNCHANGED stream
        /\ toHost = <<>> /\ toWorker' = <<>> /\ stream = <<>>
    BY <1>10, TakeFacts DEF WorkerClosed, Command, Turns, Channels, Running, Dies
  <2>2. \/ worker' = "closing" /\ toHost' # <<>> /\ Len(toHost') = 1 /\ Head(toHost').op = "closed"
        \/ worker' = "dead" /\ UNCHANGED toHost
    BY <1>10, <2>1, EmitFacts DEF WorkerClosed, Answers, Dies
  <2> QED BY <1>1, <2>1, <2>2, TurnsBusy DEF Turns, Channels, Running
<1>11. CASE WorkerExits
  <2>1. worker = "closing" /\ worker' = "exited" /\ UNCHANGED <<toHost, toWorker, stream>>
    BY <1>11 DEF WorkerExits, pipes
  <2> QED BY <1>1, <2>1, TurnsBusy DEF Turns, Channels, Running
<1> QED
  BY <1>3, <1>4, <1>5, <1>6, <1>7, <1>8, <1>9, <1>10, <1>11 DEF WorkerStep

(* The callback speaks only in its turn, and listens only when it waits.         *)
LEMMA TurnsSend ==
    ASSUME TypeOK, StateAt, Allocator, Turns,
           NEW at \in {"launched", "frame", "consumed", "close"}, NEW next,
           NEW op \in Requests, NEW s \in Nat, Send(at, Message(op, s), next),
           next \in {"prepared", "done", "released", "closed"}
    PROVE  Turns'
<1>1. phase = at /\ UNCHANGED <<queue, toHost, worker, stream>>
  BY DEF Send, process
<1>2. toWorker = <<>> /\ toHost = <<>> /\ worker \in {"prepare", "loop", "dead"}
  BY <1>1 DEF Turns, Turn, Still
<1>3. \A i \in DOMAIN queue : ~Listed(i)
  <2>1. ~failed /\ phase \notin Waiting
    BY <1>1 DEF StateAt, Outside, Waiting
  <2> QED BY <2>1, NoList DEF Allocator
<1>4. \A i \in DOMAIN queue' : ~Listed(i)'
  BY <1>1, <1>3 DEF Listed
<1>5. CASE Gone
  <2>1. Fail /\ UNCHANGED toWorker
    BY <1>5 DEF Send
  <2> QED BY <1>1, <1>4, <2>1, TurnsKept DEF Fail, Turn, Outside
<1>6. CASE ~Gone
  <2>1. phase' = next /\ toWorker' = Append(toWorker, Message(op, s))
    BY <1>6 DEF Send
  <2>2. toWorker' # <<>> /\ Len(toWorker') = 1
    BY <1>2, <2>1, SendFacts
  <2>3. worker \in {"prepare", "loop"} /\ stream = <<>>
    BY <1>2, <1>6 DEF Gone, Turns, Channels, Running
  <2> QED BY <1>1, <1>2, <1>4, <2>1, <2>2, <2>3 DEF Turns, Channels, Still, Running, Turn, Outside
<1> QED BY <1>5, <1>6

(* An answer read gives the turn back to the callback.                        *)
LEMMA TurnsAnswer ==
    ASSUME TypeOK, Turns, NEW at \in {"hello", "prepared", "done", "released", "closed"}, Answer(at),
           at # "hello" => phase' # "launched",
           at \in {"hello", "closed"} => phase' \notin Turn \cup Outside
    PROVE  Turns'
<1>1. toHost # <<>> /\ toHost' = <<>> /\ Head(toHost) = Expected[at]
      /\ UNCHANGED <<queue, toWorker, worker, stream>>
  BY TakeFacts DEF Answer, process
<1>2. Head(toHost).op = CASE at = "hello" -> "hello" [] at = "prepared" -> "ready"
                        [] at = "done" -> "done" [] at = "released" -> "released"
                        [] at = "closed" -> "closed"
  BY <1>1 DEF Expected, Message
<1>3. toWorker = <<>> /\ stream = <<>>
  BY <1>1 DEF Turns, Channels
<1>4. CASE at = "hello"
  <2>1. worker \in {"prepare", "dead"}
    BY <1>1, <1>2, <1>4 DEF Turns, Channels
  <2> QED BY <1>1, <1>3, <1>4, <2>1 DEF Turns, Channels, Still, Running, Turn, Outside, Listed
<1>5. CASE at \in {"prepared", "done", "released"}
  <2>1. worker \in {"loop", "dead"}
    BY <1>1, <1>2, <1>5 DEF Turns, Channels
  <2> QED BY <1>1, <1>3, <1>5, <2>1 DEF Turns, Channels, Still, Running, Turn, Outside, Listed
<1>6. CASE at = "closed"
  BY <1>1, <1>3, <1>6 DEF Turns, Channels, Still, Running, Turn, Outside, Listed
<1> QED BY <1>4, <1>5, <1>6

(* A submission is made when it is the callback's turn.                       *)
LEMMA TurnsSubmits ==
    ASSUME TypeOK, StateAt, Turns, NEW at \in {"input", "texture", "receive", "output"},
           NEW op, NEW next \in Waiting, Submits(at, op, next)
    PROVE  Turns'
<1>1. phase = at /\ UNCHANGED <<toHost, toWorker, worker, stream>> /\ ~failed /\ ~finished
  BY DEF Submits, pipes, process, StateAt, Outside
<1>2. Still
  BY <1>1 DEF Turns, Turn
<1>3. phase' = next \/ phase' = "present"
  BY DEF Submits, Fail
<1>4. phase' # "launched"
  BY <1>3 DEF Waiting
<1> QED BY <1>1, <1>2, <1>4, TurnsKept

(* Every step keeps the turns, and the pipes and the stream apart.            *)
LEMMA TurnsStep == TypeOK /\ StateAt /\ Allocator /\ Turns /\ [Next]_vars => Turns'
<1> SUFFICES ASSUME TypeOK, StateAt, Allocator, Turns, [Next]_vars PROVE Turns'
  OBVIOUS
<1>1. CASE WorkerStep \/ WorkerFails
  BY <1>1, TurnsWorker
<1>2. CASE D3DStep
  <2>1. UNCHANGED <<phase, failed, finished, stream, toWorker, toHost, worker>>
    BY <1>2 DEF D3DStep, addon, pipes, process
  <2>2. \A i \in DOMAIN queue' : Listed(i)' => \E j \in DOMAIN queue : Listed(j)
    BY <1>2, PopIndex DEF Listed
  <2> QED BY <2>1, <2>2, TurnsKept DEF Turns
<1>3. CASE HipStep \/ StreamLost
  <2>1. UNCHANGED <<phase, failed, finished, queue, toWorker, toHost, worker>> /\ stream # <<>>
    BY <1>3 DEF HipStep, StreamLost, addon, pipes, process
  <2>2. worker \in Running \cup {"dead"} /\ toWorker = <<>> /\ toHost = <<>>
    BY <2>1 DEF Turns, Channels
  <2> QED BY <2>1, <2>2 DEF Turns, Channels, Still, Running, Listed
<1>4. CASE UNCHANGED vars
  BY <1>4 DEF vars, addon, pipes, process, Turns, Channels, Still, Listed
<1>5. CASE Draw \/ Present
  <2>1. UNCHANGED <<failed, finished, stream, toWorker, toHost, worker>>
        /\ phase \in Outside /\ phase' \in Outside
    BY <1>5 DEF Draw, Present, addon, pipes, process, Outside
  <2>2. \A i \in DOMAIN queue' : Listed(i)' => \E j \in DOMAIN queue : Listed(j)
    <3>1. PICK e \in Entries : e.op \notin Lists /\ queue' = Append(queue, e)
      <4>1. frame \in Nat /\ frame + 1 \in Nat
        BY BoundsAssumption DEF TypeOK
      <4>2. Item("draw", frame + 1) \in Entries /\ Item("present", frame) \in Entries
        BY <4>1 DEF Item, Entries, QueueOps
      <4>3. Item("draw", frame + 1).op \notin Lists /\ Item("present", frame).op \notin Lists
        BY DEF Item, Lists
      <4> QED BY <1>5, <4>2, <4>3 DEF Draw, Present
    <3>2. \A i \in DOMAIN queue' : (i \in DOMAIN queue /\ queue'[i] = queue[i]) \/ queue'[i] = e
      BY <3>1, AppendIndex
    <3> QED BY <3>1, <3>2 DEF Listed
  <2>3. phase' \notin Turn /\ phase' # "launched"
    BY <2>1 DEF Turn, Outside
  <2> QED BY <2>1, <2>2, <2>3, TurnsKept DEF Turns
<1>6. CASE RuntimeDestroyed \/ Skip \/ Refuse
  <2>1. /\ UNCHANGED <<queue, stream, toWorker, toHost, worker>>
        /\ phase' \in Outside
        /\ failed' \/ (phase \in Outside /\ UNCHANGED <<failed, finished>>)
    BY <1>6 DEF RuntimeDestroyed, Skip, Refuse, Fail, addon, pipes, process, Outside
  <2>2. phase' \notin Turn /\ phase' # "launched"
    BY <2>1 DEF Turn, Outside
  <2> QED BY <2>1, <2>2, TurnsKept DEF Turns, Listed
<1>7. CASE Enter
  <2>1. /\ UNCHANGED <<queue, stream, toWorker, toHost, failed, finished>>
        /\ phase = "effects" /\ ~failed /\ ~finished
    BY <1>7 DEF Enter, addon, pipes
  <2>2. \A i \in DOMAIN queue : ~Listed(i)
    <3>1. phase \notin Waiting
      BY <2>1 DEF Waiting
    <3> QED BY <2>1, <3>1, NoList DEF Allocator
  <2>3. CASE worker = "none"
    <3>1. worker' = "start" /\ phase' = "hello" /\ toWorker = <<>> /\ toHost = <<>> /\ stream = <<>>
      BY <1>7, <2>3 DEF Enter, Turns, Channels, Running
    <3> QED BY <2>1, <2>2, <3>1 DEF Turns, Channels, Still, Running, Turn, Outside, Listed
  <2>4. CASE worker # "none"
    <3>1. worker' = worker /\ phase' = "input" /\ Still
      BY <1>7, <2>1, <2>4 DEF Enter, Turns, Outside
    <3> QED BY <2>1, <3>1, TurnsKept DEF Outside
  <2> QED BY <2>3, <2>4
<1>8. CASE NoAnswer
  <2>1. /\ UNCHANGED <<queue, stream, toWorker, worker>>
        /\ failed' /\ phase' = "present"
        /\ toHost' = <<>>
    BY <1>8, TakeFacts DEF NoAnswer, Fail, process
  <2> QED BY <2>1 DEF Turns, Channels, Still, Running, Turn, Outside, Listed
<1>9. CASE ReadHello \/ ReadReady \/ ReadDone \/ ReadReleased \/ ReadClosed
  <2>1. CASE ReadHello
    BY <2>1, TurnsAnswer DEF ReadHello, Turn, Outside
  <2>2. CASE ReadReady
    BY <2>2, TurnsAnswer DEF ReadReady
  <2>3. CASE ReadDone
    <3>1. phase' # "launched"
      BY <2>3 DEF ReadDone, Fail
    <3> QED BY <2>3, <3>1, TurnsAnswer DEF ReadDone
  <2>4. CASE ReadReleased
    <3>1. phase' # "launched"
      BY <2>4 DEF ReadReleased
    <3> QED BY <2>4, <3>1, TurnsAnswer DEF ReadReleased
  <2>5. CASE ReadClosed
    BY <2>5, TurnsAnswer DEF ReadClosed, Turn, Outside
  <2> QED BY <1>9, <2>1, <2>2, <2>3, <2>4, <2>5
<1>10. CASE SendPrepare \/ SendFrame \/ SendConsumed \/ SendClose
  BY <1>10, TurnsSend DEF SendPrepare, SendFrame, SendConsumed, SendClose, Requests, TypeOK
<1>11. CASE Decode \/ SubmitTexture \/ Receive \/ Encode
  BY <1>11, Submissions, TurnsSubmits DEF Waiting
<1>12. CASE WaitDecoded \/ WaitSubmitted \/ WaitReceived \/ WaitEncoded
  <2>1. /\ UNCHANGED <<queue, stream, toWorker, toHost, worker>> /\ phase \in Waiting
        /\ phase' \in {"texture", "frame", "output", "consumed", "present"}
        /\ phase' = "present" => failed'
    BY <1>12 DEF WaitDecoded, WaitSubmitted, WaitReceived, WaitEncoded, WaitHost, Fail, pipes, process, Waiting
  <2>2. Still
    BY <2>1 DEF Turns, Turn, Waiting
  <2> QED BY <2>1, <2>2, TurnsKept
<1>13. CASE Close
  <2>1. /\ UNCHANGED <<queue, stream, toWorker, toHost, worker>>
        /\ phase' = "present" /\ (failed' \/ finished')
    BY <1>13 DEF Close, Fail, pipes, process
  <2>2. phase' \notin Turn /\ phase' # "launched"
    BY <2>1 DEF Turn
  <2> QED BY <2>1, <2>2, TurnsKept DEF Listed
<1> QED
  BY <1>1, <1>2, <1>3, <1>4, <1>5, <1>6, <1>7, <1>8, <1>9, <1>10, <1>11, <1>12, <1>13, NextMoves
  DEF Moves, Background, Callback

-----------------------------------------------------------------------------
(* The lease.                                                              *)

LEMMA LeaseInit == Init => Lease /\ Released
BY DEF Init, Lease, Released, Running

(* The worker's commands follow the lease.                                    *)
LEMMA LeaseWorker ==
    ASSUME TypeOK, Turns, Lease, WorkerStep \/ WorkerFails
    PROVE  Lease'
<1>1. UNCHANGED state /\ sequence \in Nat
  BY WorkerKeeps DEF TypeOK
<1>2. CASE WorkerFails \/ WorkerSubmits \/ WorkerExits
  BY <1>1, <1>2 DEF WorkerFails, WorkerSubmits, WorkerExits, Dies, Lease, Running, pipes
<1>3. CASE WorkerStarts
  <2>1. toHost = <<>>
    BY <1>3 DEF WorkerStarts, Turns, Channels, Running
  <2>2. Head(toHost').op = "hello"
    BY <1>3, <2>1, EmitFacts DEF WorkerStarts, Answers
  <2> QED BY <1>1, <1>3, <2>2 DEF WorkerStarts, Lease, Running
<1>4. CASE WorkerPrepares
  <2>1. toHost = <<>> /\ toWorker' = <<>>
    BY <1>4, TakeFacts DEF WorkerPrepares, Turns, Channels
  <2>2. CASE Head(toWorker).op = "prepare"
    <3>1. Head(toHost').op = "ready"
      BY <1>4, <2>1, <2>2, EmitFacts DEF WorkerPrepares, Answers
    <3> QED BY <1>1, <1>4, <2>1, <2>2, <3>1 DEF WorkerPrepares, Lease, Running
  <2>3. CASE Head(toWorker).op # "prepare"
    BY <1>1, <1>4, <2>1, <2>3 DEF WorkerPrepares, Dies, Lease, Running
  <2> QED BY <2>2, <2>3
<1>5. CASE WorkerFrame
  <2>1. /\ toHost = <<>> /\ UNCHANGED toHost /\ toWorker' = <<>>
        /\ Head(toWorker).op = "frame" /\ toWorker # <<>>
    BY <1>5, TakeFacts DEF WorkerFrame, Command, Dies, Turns, Channels
  <2>2. state # 0
    BY <2>1 DEF Lease
  <2>3. \/ commands' = "AWAITING_CONSUMPTION"
        \/ worker' = "dead" /\ UNCHANGED <<commands, remote>>
    BY <1>5 DEF WorkerFrame, Dies
  <2> QED BY <1>1, <2>1, <2>2, <2>3 DEF Lease, Running
<1>6. CASE WorkerFinishes
  <2>1. UNCHANGED <<toHost, toWorker, commands>> /\ worker \in Running
    BY <1>6 DEF WorkerFinishes, Dies, Running
  <2> QED BY <1>1, <2>1 DEF Lease, Running
<1>7. CASE WorkerDone
  <2>1. toHost = <<>>
    BY <1>7 DEF WorkerDone, Turns, Channels, Running
  <2>2. Head(toHost').op = "done"
    BY <1>1, <1>7, <2>1, EmitFacts DEF WorkerDone, Answers
  <2> QED BY <1>1, <1>7, <2>2 DEF WorkerDone, Lease, Running
<1>8. CASE WorkerConsumed
  <2>1. toWorker' = <<>> /\ toHost = <<>>
    BY <1>8, TakeFacts DEF WorkerConsumed, Command, Turns, Channels
  <2>2. \/ commands' = "READY" /\ remote' = 0 /\ UNCHANGED worker
        \/ worker' = "dead" /\ UNCHANGED <<commands, remote, toHost>>
    BY <1>8 DEF WorkerConsumed, Dies
  <2>3. worker \notin Running
    BY <1>8 DEF WorkerConsumed, Command, Running
  <2> QED BY <1>1, <2>1, <2>2, <2>3 DEF Lease, Running
<1>9. CASE WorkerClosed
  <2>1. toWorker' = <<>> /\ toHost = <<>>
    BY <1>9, TakeFacts DEF WorkerClosed, Command, Turns, Channels
  <2>2. \/ commands' = "CLOSED" /\ remote' = 0 /\ worker' = "closing"
        \/ worker' = "dead" /\ UNCHANGED <<commands, remote, toHost>>
    BY <1>9 DEF WorkerClosed, Dies
  <2> QED BY <1>1, <2>1, <2>2 DEF Lease, Running
<1> QED
  BY <1>2, <1>3, <1>4, <1>5, <1>6, <1>7, <1>8, <1>9 DEF WorkerStep

(* Only the answer "released" gives the bridge back.                             *)
LEMMA LeaseMoves ==
    ASSUME TypeOK, StateAt, Turns, Lease, Moves
    PROVE  Lease'
<1>1. UNCHANGED <<commands, remote>>
  BY MovesKeep
<1>2. worker' \in Running => worker \in Running
  BY Submissions DEF Moves, Callback, Draw, Present, RuntimeDestroyed, Skip, Enter, Refuse, NoAnswer,
     ReadHello, SendPrepare, ReadReady, WaitDecoded, WaitSubmitted, SendFrame, ReadDone,
     WaitReceived, WaitEncoded, SendConsumed, ReadReleased, SendClose, ReadClosed, Close,
     Answer, Send, WaitHost, Submits, process, Running
<1>3. toHost' # <<>> => toHost' = toHost
  BY TakeFacts, Submissions DEF Moves, Callback, Draw, Present, RuntimeDestroyed, Skip, Enter, Refuse, NoAnswer,
     ReadHello, SendPrepare, ReadReady, WaitDecoded, WaitSubmitted, SendFrame, ReadDone,
     WaitReceived, WaitEncoded, SendConsumed, ReadReleased, SendClose, ReadClosed, Close,
     Answer, Send, WaitHost, Submits, pipes
<1>4. CASE ReadReleased
  <2>1. toHost # <<>> /\ Head(toHost).op = "released" /\ UNCHANGED toWorker
    BY <1>4 DEF ReadReleased, Answer, Expected, Message
  <2>2. commands # "AWAITING_CONSUMPTION" /\ toWorker' = <<>>
    BY <2>1 DEF Lease, Turns, Channels
  <2> QED BY <1>1, <1>2, <1>3, <2>2 DEF Lease
<1>5. ASSUME NEW at, NEW next, NEW op \in Requests, NEW s \in Nat, Send(at, Message(op, s), next),
             op = "frame" => state # 0,
             at \in {"launched", "frame", "consumed", "close"}
      PROVE  Lease'
  <2>1. UNCHANGED state /\ toWorker = <<>>
    BY <1>5 DEF Send, bridge, Turns, Turn, Still
  <2>2. toWorker' # <<>> => Head(toWorker').op = op
    <3>1. CASE Gone
      BY <1>5, <2>1, <3>1 DEF Send
    <3>2. CASE ~Gone
      BY <1>5, <2>1, <3>2, SendFacts DEF Send
    <3> QED BY <3>1, <3>2
  <2> QED BY <1>1, <1>2, <1>3, <1>5, <2>1, <2>2 DEF Lease
<1>6. CASE SendPrepare \/ SendFrame \/ SendConsumed \/ SendClose
  <2>1. SendFrame => state # 0
    BY DEF SendFrame, Send, StateAt
  <2> QED BY <1>5, <1>6, <2>1 DEF SendPrepare, SendFrame, SendConsumed, SendClose, Requests, TypeOK
<1>7. CASE ~ReadReleased /\ ~SendPrepare /\ ~SendFrame /\ ~SendConsumed /\ ~SendClose
  <2>1. UNCHANGED toWorker
    BY <1>7, Submissions DEF Moves, Callback, Draw, Present, RuntimeDestroyed, Skip, Enter, Refuse, NoAnswer,
       ReadHello, ReadReady, WaitDecoded, WaitSubmitted, ReadDone,
       WaitReceived, WaitEncoded, ReadClosed, Close, Answer, WaitHost, Submits, pipes
  <2>2. state' = 0 => state = 0
    BY <1>7, Submissions DEF Moves, Callback, Draw, Present, RuntimeDestroyed, Skip, Enter, Refuse, NoAnswer,
       ReadHello, ReadReady, WaitDecoded, WaitSubmitted, SubmitTexture, ReadDone,
       WaitReceived, WaitEncoded, ReadClosed, Close, Answer, WaitHost, bridge
  <2> QED BY <1>1, <1>2, <1>3, <2>1, <2>2 DEF Lease
<1> QED BY <1>4, <1>6, <1>7

(* Every step keeps the bridge, the lease and the remote together.            *)
LEMMA LeaseStep == TypeOK /\ StateAt /\ Turns /\ Lease /\ [Next]_vars => Lease'
<1> SUFFICES ASSUME TypeOK, StateAt, Turns, Lease, [Next]_vars PROVE Lease'
  OBVIOUS
<1>1. CASE D3DStep \/ HipStep \/ StreamLost \/ UNCHANGED vars
  BY <1>1 DEF D3DStep, HipStep, StreamLost, vars, bridge, pipes, process, Lease
<1> QED BY <1>1, LeaseWorker, LeaseMoves, NextMoves DEF Background

(* bridge.close() is reached once the worker has exited.                         *)
LEMMA ReleasedStep == TypeOK /\ StateAt /\ Released /\ [Next]_vars => Released'
<1> SUFFICES ASSUME TypeOK, StateAt, Released, [Next]_vars PROVE Released'
  OBVIOUS
<1>1. CASE WorkerStep \/ WorkerFails
  <2>1. worker = "exited" => worker' = "exited"
    BY <1>1 DEF WorkerStep, WorkerFails, WorkerStarts, WorkerPrepares, WorkerFrame, WorkerSubmits,
       WorkerFinishes, WorkerDone, WorkerConsumed, WorkerClosed, WorkerExits, Command, Gone
  <2> QED BY <1>1, <2>1, WorkerKeeps DEF Released
<1>2. CASE D3DStep \/ HipStep \/ StreamLost \/ UNCHANGED vars
  BY <1>2 DEF D3DStep, HipStep, StreamLost, vars, addon, bridge, process, Released
<1>3. CASE Moves
  <2>1. finished => finished'
    BY <1>3, Submissions DEF Moves, Callback, Draw, Present, RuntimeDestroyed, Skip, Enter, Refuse, NoAnswer,
       ReadHello, SendPrepare, ReadReady, WaitDecoded, WaitSubmitted, SendFrame, ReadDone,
       WaitReceived, WaitEncoded, SendConsumed, ReadReleased, SendClose, ReadClosed, Close,
       Answer, Send, WaitHost, Submits, Fail, addon
  <2>2. worker = "exited" => worker' = "exited"
    BY <1>3, Submissions DEF Moves, Callback, Draw, Present, RuntimeDestroyed, Skip, Enter, Refuse, NoAnswer,
       ReadHello, SendPrepare, ReadReady, WaitDecoded, WaitSubmitted, SendFrame, ReadDone,
       WaitReceived, WaitEncoded, SendConsumed, ReadReleased, SendClose, ReadClosed, Close,
       Answer, Send, WaitHost, Submits, process
  <2>3. freed' => freed \/ (finished' /\ worker' = "exited")
    BY <1>3, Submissions DEF Moves, Callback, Draw, Present, RuntimeDestroyed, Skip, Enter, Refuse, NoAnswer,
       ReadHello, SendPrepare, ReadReady, WaitDecoded, WaitSubmitted, SendFrame, ReadDone,
       WaitReceived, WaitEncoded, SendConsumed, ReadReleased, SendClose, ReadClosed, Close,
       Answer, Send, WaitHost, Submits, process, bridge
  <2> QED BY <2>1, <2>2, <2>3 DEF Released
<1> QED BY <1>1, <1>2, <1>3, NextMoves DEF Background

-----------------------------------------------------------------------------
(* Every copy is the frame's own.                                             *)

LEMMA OwnInit == Init => OwnList /\ OwnPicture /\ OwnResult
<1> SUFFICES ASSUME Init PROVE OwnList /\ OwnPicture /\ OwnResult
  OBVIOUS
<1>1. DOMAIN queue = {} /\ phase = "game"
  BY DEF Init
<1> QED BY <1>1 DEF OwnList, OwnPicture, OwnResult

(* The list submitted is the one waited for, to its signal.                   *)
LEMMA OwnListStep ==
    ASSUME TypeOK, StateAt, OwnList, TypeOK', Allocator', [Next]_vars
    PROVE  OwnList'
<1>1. CASE phase' \notin Waiting \/ failed'
  BY <1>1 DEF OwnList, Allocator
<1>2. CASE Decode \/ SubmitTexture \/ Receive \/ Encode
  <2>1. ASSUME NEW at, NEW op, NEW next, Submits(at, op, next), ~failed',
               <<at, op, next>> \in {<<"input", "decode", "decoded">>, <<"texture", "tobuffer", "submitted">>,
                                     <<"receive", "fromoutput", "received">>, <<"output", "encode", "encoded">>}
        PROVE  OwnList'
    <3>1. phase' = next /\ ~failed /\ phase = at /\ frame' = frame
      BY <2>1, SubmitsIndex DEF Submits, Fail, addon
    <3>2. \A i \in DOMAIN queue : ~Listed(i)
      <4>1. \A i \in DOMAIN queue : ~(Listed(i) /\ ~failed)
        BY <2>1, <3>1 DEF OwnList
      <4> QED BY <3>1, <4>1
    <3>3. \A i \in DOMAIN queue' : Listed(i)' => queue'[i] = Item(op, frame)
      BY <2>1, <3>2, SubmitsIndex DEF Listed, Lists
    <3> QED BY <2>1, <3>1, <3>3 DEF OwnList, Item
  <2> QED BY <1>1, <1>2, <2>1, Submissions
<1>3. CASE Moves /\ ~Decode /\ ~SubmitTexture /\ ~Receive /\ ~Encode
  <2>1. phase' \notin Waiting \/ failed'
    BY <1>3, QueueKept DEF Draw, Present, Waiting
  <2> QED BY <1>1, <2>1
<1>4. CASE D3DStep
  <2>1. UNCHANGED <<phase, failed, frame>>
    BY <1>4 DEF D3DStep, addon
  <2>2. \A i \in DOMAIN queue' : i + 1 \in DOMAIN queue /\ queue'[i] = queue[i + 1]
    BY <1>4, PopIndex
  <2> QED BY <2>1, <2>2 DEF OwnList, Listed
<1>5. CASE WorkerStep \/ WorkerFails \/ HipStep \/ StreamLost \/ UNCHANGED vars
  <2>1. UNCHANGED queue
    BY <1>5, WorkerKeeps DEF HipStep, StreamLost, vars
  <2>2. UNCHANGED <<phase, failed, frame>>
    BY <1>5, BackgroundKeeps DEF Background
  <2> QED BY <2>1, <2>2 DEF OwnList, Listed
<1> QED BY <1>2, <1>3, <1>4, <1>5, NextMoves DEF Background

(* Copies on the Direct3D queue.                                             *)
LEMMA PictureD3D ==
    ASSUME TypeOK, StateAt, Allocator, Screen, OwnList, OwnPicture, D3DStep
    PROVE  OwnPicture'
<1>1. /\ Len(queue) \in Nat \ {0}
      /\ DOMAIN queue' = 1 .. Len(queue) - 1
      /\ \A i \in DOMAIN queue' : queue'[i] = queue[i + 1] /\ i + 1 \in DOMAIN queue
      /\ \A i \in DOMAIN queue : i # 1 => i - 1 \in DOMAIN queue' /\ queue'[i - 1] = queue[i]
      /\ Head(queue) = queue[1] /\ 1 \in DOMAIN queue
  <2>1. /\ Len(queue) \in Nat \ {0}
        /\ DOMAIN queue = 1 .. Len(queue)
        /\ DOMAIN queue' = 1 .. Len(queue) - 1
        /\ \A i \in 1 .. Len(queue) - 1 : queue'[i] = queue[i + 1] /\ i + 1 \in DOMAIN queue
        /\ Head(queue) = queue[1] /\ 1 \in DOMAIN queue
    BY PopIndex
  <2>2. ASSUME NEW i \in DOMAIN queue, i # 1
        PROVE  i - 1 \in DOMAIN queue' /\ queue'[i - 1] = queue[i]
    <3>1. i - 1 \in 1 .. Len(queue) - 1 /\ (i - 1) + 1 = i
      BY <2>1, <2>2
    <3>2. queue'[i - 1] = queue[(i - 1) + 1]
      BY <2>1, <3>1
    <3> QED BY <2>1, <3>1, <3>2
  <2> QED BY <2>1, <2>2
<1>2. UNCHANGED <<phase, frame, failed, outputBuffer>>
  BY DEF D3DStep, addon, hip
<1>3. \A op : Has(op) /\ queue[1].op # op => Has(op)'
  BY <1>1 DEF Has
<1>4. CASE queue[1].op \notin Lists
  <2>1. UNCHANGED <<texture, inputBuffer>>
    BY <1>1, <1>4 DEF D3DStep, Lists
  <2>2. \A op \in Lists : Has(op) => Has(op)'
    BY <1>3, <1>4
  <2>3. Has("decode") => Has("decode")'
    BY <2>2 DEF Lists
  <2>4. Has("tobuffer") => Has("tobuffer")'
    BY <2>2 DEF Lists
  <2>5. Has("fromoutput") => Has("fromoutput")'
    BY <2>2 DEF Lists
  <2>6. \A i \in DOMAIN queue' : queue'[i].op = "encode" => texture' = Net(queue'[i].n)
    BY <1>1, <2>1 DEF OwnPicture
  <2> QED BY <1>2, <2>1, <2>3, <2>4, <2>5, <2>6 DEF OwnPicture
<1>5. CASE queue[1].op \in Lists
  <2>1. Listed(1)
    BY <1>1, <1>5 DEF Listed
  <2>2. \A i \in DOMAIN queue' : queue'[i].op # "encode"
    <3> SUFFICES ASSUME NEW i \in DOMAIN queue', queue'[i].op = "encode" PROVE FALSE
      OBVIOUS
    <3>1. Listed(i + 1)
      BY <1>1 DEF Listed, Lists
    <3>2. i + 1 = 1
      BY <1>1, <2>1, <3>1 DEF Allocator
    <3> QED BY <1>1, <3>2
  <2>3. CASE failed
    <3>1. phase \in Outside
      BY <2>3 DEF StateAt
    <3> QED BY <1>2, <2>2, <3>1 DEF OwnPicture, Outside
  <2>4. CASE ~failed
    <3>1. /\ queue[1].n = frame
          /\ \/ phase = "decoded" /\ queue[1].op = "decode"
             \/ phase = "submitted" /\ queue[1].op = "tobuffer"
             \/ phase = "received" /\ queue[1].op = "fromoutput"
             \/ phase = "encoded" /\ queue[1].op = "encode"
      BY <1>1, <2>1, <2>4 DEF OwnList
    <3>2. CASE phase = "decoded" /\ queue[1].op = "decode"
      <4>1. target.frame = frame
        <5>1. \/ target.frame = queue[1].n
              \/ \E j \in DOMAIN queue : j < 1 /\ queue[j] = Item("draw", queue[1].n)
          BY <1>1, <3>2 DEF Screen, Shows
        <5>2. \A j \in DOMAIN queue : ~(j < 1)
          BY Domains
        <5> QED BY <3>1, <5>1, <5>2
      <4>2. texture' = target
        BY <1>1, <3>2 DEF D3DStep
      <4> QED BY <1>2, <2>2, <3>2, <4>1, <4>2 DEF OwnPicture
    <3>3. CASE phase = "submitted" /\ queue[1].op = "tobuffer"
      <4>1. texture' = texture /\ inputBuffer' = texture
        BY <1>1, <3>3 DEF D3DStep
      <4> QED BY <1>2, <2>2, <3>3, <4>1 DEF OwnPicture
    <3>4. CASE phase = "received" /\ queue[1].op = "fromoutput"
      <4>1. texture' = outputBuffer
        BY <1>1, <3>4 DEF D3DStep
      <4> QED BY <1>2, <2>2, <3>4, <4>1 DEF OwnPicture
    <3>5. CASE phase = "encoded" /\ queue[1].op = "encode"
      BY <1>2, <2>2, <3>5 DEF OwnPicture
    <3> QED BY <3>1, <3>2, <3>3, <3>4, <3>5
  <2> QED BY <2>3, <2>4
<1> QED BY <1>4, <1>5

(* A submission and the moves around it keep the pictures.                    *)
LEMMA PictureSubmits ==
    ASSUME TypeOK, StateAt, Allocator, OwnPicture, NEW at, NEW op, NEW next, Submits(at, op, next),
           <<at, op, next>> \in {<<"input", "decode", "decoded">>, <<"texture", "tobuffer", "submitted">>,
                                 <<"receive", "fromoutput", "received">>, <<"output", "encode", "encoded">>}
    PROVE  OwnPicture'
<1>1. /\ UNCHANGED <<frame, texture, inputBuffer, outputBuffer>>
      /\ phase = at
  BY DEF Submits, d3d, hip
<1>2. /\ \A i \in DOMAIN queue : queue'[i] = queue[i] /\ i \in DOMAIN queue'
      /\ \A i \in DOMAIN queue' :
            \/ i \in DOMAIN queue
            \/ i = Len(queue) + 1 /\ queue'[i] = Item(op, frame)
            \/ i > Len(queue) + 1 /\ queue'[i].op \in {"ready", "host"}
  BY SubmitsIndex
<1>3. \A i \in DOMAIN queue' : queue'[i].op = "encode" => texture' = Net(queue'[i].n)
  <2> SUFFICES ASSUME NEW i \in DOMAIN queue', queue'[i].op = "encode"
               PROVE  texture' = Net(queue'[i].n)
    OBVIOUS
  <2>1. CASE i \in DOMAIN queue
    BY <1>1, <1>2, <2>1 DEF OwnPicture
  <2>2. CASE i \notin DOMAIN queue
    <3>1. queue'[i] = Item(op, frame)
      BY <1>2, <2>2
    <3>2. op = "encode" /\ queue'[i].n = frame
      BY <3>1 DEF Item
    <3> QED BY <1>1, <3>2 DEF OwnPicture
  <2> QED BY <2>1, <2>2
<1>4. CASE Fail
  BY <1>1, <1>3, <1>4 DEF Fail, OwnPicture
<1>5. CASE ~Fail
  <2>1. phase' = next /\ Len(queue) + 1 \in DOMAIN queue'
    BY <1>5, SubmitsIndex
  <2>2. Len(queue) \in Nat /\ Len(queue) + 1 \notin DOMAIN queue
    BY Domains
  <2>3. queue'[Len(queue) + 1] = Item(op, frame)
    BY <1>2, <2>1, <2>2
  <2>4. Has(op)'
    BY <2>1, <2>3 DEF Has, Item
  <2> QED BY <1>1, <1>3, <2>1, <2>4 DEF OwnPicture
<1> QED BY <1>4, <1>5

(* The callback goes on when its list is done: the copy is its frame's.       *)
LEMMA PictureMoves ==
    ASSUME TypeOK, StateAt, Allocator, Turns, OwnList, OwnPicture, OwnResult, Moves
    PROVE  OwnPicture'
<1>1. UNCHANGED <<texture, inputBuffer, outputBuffer>>
  BY MovesKeep DEF d3d, hip
<1>2. CASE Decode \/ SubmitTexture \/ Receive \/ Encode
  BY <1>2, Submissions, PictureSubmits
<1>3. CASE Draw \/ Present
  <2>1. PICK e \in Entries : e.op \in {"draw", "present"} /\ queue' = Append(queue, e)
    <3>1. frame \in Nat /\ frame + 1 \in Nat
      BY BoundsAssumption DEF TypeOK
    <3>2. Item("draw", frame + 1) \in Entries /\ Item("present", frame) \in Entries
      BY <3>1 DEF Item, Entries, QueueOps
    <3>3. Item("draw", frame + 1).op = "draw" /\ Item("present", frame).op = "present"
      BY DEF Item
    <3> QED BY <1>3, <3>2, <3>3 DEF Draw, Present
  <2>2. \A i \in DOMAIN queue' : (i \in DOMAIN queue /\ queue'[i] = queue[i]) \/ queue'[i] = e
    BY <2>1, AppendIndex
  <2>3. phase' \in Outside
    BY <1>3 DEF Draw, Present, Outside
  <2>4. \A i \in DOMAIN queue' : queue'[i].op = "encode" => texture' = Net(queue'[i].n)
    BY <1>1, <2>1, <2>2 DEF OwnPicture
  <2> QED BY <2>3, <2>4 DEF OwnPicture, Outside
<1>4. CASE ~Draw /\ ~Present /\ ~Decode /\ ~SubmitTexture /\ ~Receive /\ ~Encode
  <2>1. UNCHANGED queue
    BY <1>4, QueueKept
  <2>2. UNCHANGED frame
    BY <1>4 DEF Moves, Callback, RuntimeDestroyed, Skip, Enter, Refuse, NoAnswer,
       ReadHello, SendPrepare, ReadReady, WaitDecoded, WaitSubmitted, SendFrame, ReadDone,
       WaitReceived, WaitEncoded, SendConsumed, ReadReleased, SendClose, ReadClosed, Close,
       Answer, Send, WaitHost
  <2>3. \A i \in DOMAIN queue' : queue'[i].op = "encode" => texture' = Net(queue'[i].n)
    BY <1>1, <2>1 DEF OwnPicture
  <2>4. CASE WaitDecoded \/ WaitSubmitted \/ WaitReceived \/ WaitEncoded
    <3>1. CASE hostFence # hostValue
      BY <2>3, <2>4, <3>1 DEF WaitDecoded, WaitSubmitted, WaitReceived, WaitEncoded, WaitHost, Fail, OwnPicture
    <3>2. CASE hostFence = hostValue
      <4>1. ~failed
        BY <2>4 DEF WaitDecoded, WaitSubmitted, WaitReceived, WaitEncoded, WaitHost, StateAt, Outside
      <4>2. ~Has("decode") /\ ~Has("tobuffer") /\ ~Has("fromoutput")
        BY <3>2, <4>1, NoList DEF Has, Listed, Lists
      <4> QED BY <1>1, <2>2, <2>3, <2>4, <3>2, <4>2
              DEF WaitDecoded, WaitSubmitted, WaitReceived, WaitEncoded, WaitHost, OwnPicture
    <3> QED BY <3>1, <3>2
  <2>5. CASE SendFrame
    BY <1>1, <2>2, <2>3, <2>5 DEF SendFrame, Send, Fail, OwnPicture
  <2>6. CASE ReadDone
    <3>1. phase = "done" /\ toHost # <<>> /\ Head(toHost).op = "done"
      BY <2>6 DEF ReadDone, Answer, Expected, Message
    <3>2. outputBuffer = Net(frame)
      BY <3>1 DEF OwnResult
    <3>3. phase' \in {"receive", "present"}
      BY <2>6 DEF ReadDone, Fail
    <3> QED BY <1>1, <2>2, <2>3, <3>2, <3>3 DEF OwnPicture
  <2>7. CASE ~WaitDecoded /\ ~WaitSubmitted /\ ~WaitReceived /\ ~WaitEncoded /\ ~SendFrame /\ ~ReadDone
    <3>1. phase' \in {"game", "effects", "hello", "launched", "prepared", "input", "released", "close",
                      "closed", "exit", "present"}
      BY <1>4, <2>7 DEF Moves, Callback, RuntimeDestroyed, Skip, Enter, Refuse, NoAnswer,
         ReadHello, SendPrepare, ReadReady, SendConsumed, ReadReleased, SendClose, ReadClosed, Close,
         Answer, Send, Fail
    <3> QED BY <2>3, <3>1 DEF OwnPicture
  <2> QED BY <2>4, <2>5, <2>6, <2>7
<1> QED BY <1>2, <1>3, <1>4

(* Every step keeps the callback's pictures its frame's.                      *)
LEMMA PictureStep ==
    ASSUME TypeOK, StateAt, Allocator, Turns, Screen, OwnList, OwnPicture, OwnResult, [Next]_vars
    PROVE  OwnPicture'
<1>1. CASE WorkerStep \/ WorkerFails \/ StreamLost \/ UNCHANGED vars
  <2>1. UNCHANGED <<queue, phase, frame, texture, inputBuffer, outputBuffer>>
    BY <1>1, WorkerKeeps DEF StreamLost, vars, d3d, hip
  <2> QED BY <2>1 DEF OwnPicture, Has
<1>2. CASE HipStep
  <2>1. UNCHANGED <<queue, phase, frame, texture, inputBuffer>> /\ stream # <<>>
    BY <1>2 DEF HipStep, d3d
  <2>2. phase \notin {"receive", "received"}
    BY <2>1 DEF Turns, Turn, Still
  <2> QED BY <2>1, <2>2 DEF OwnPicture, Has
<1> QED BY <1>1, <1>2, PictureD3D, PictureMoves, NextMoves DEF Background

-----------------------------------------------------------------------------
(* The worker's copies.                                                      *)

(* The stream executes its first entry.                                       *)
LEMMA StreamPop ==
    ASSUME TypeOK, HipStep
    PROVE  \A op : Streams(op) => Head(stream).op = op \/ Streams(op)'
<1>1. stream \in Seq([op : StreamOps, n : Nat]) /\ stream # <<>> /\ stream' = Tail(stream)
  BY DEF HipStep, TypeOK, StreamOps
<1>2. /\ Len(stream) \in Nat \ {0}
      /\ DOMAIN stream = 1 .. Len(stream)
      /\ DOMAIN stream' = 1 .. Len(stream) - 1
      /\ \A i \in 1 .. Len(stream) - 1 : stream'[i] = stream[i + 1]
      /\ Head(stream) = stream[1]
  BY <1>1, TailFacts
<1> SUFFICES ASSUME NEW op, Streams(op), Head(stream).op # op PROVE Streams(op)'
  OBVIOUS
<1>3. PICK i \in DOMAIN stream : stream[i].op = op
  BY DEF Streams
<1>4. i - 1 \in DOMAIN stream' /\ (i - 1) + 1 = i
  BY <1>2, <1>3
<1>5. stream'[i - 1] = stream[(i - 1) + 1]
  BY <1>2, <1>4
<1> QED BY <1>3, <1>4, <1>5 DEF Streams

(* The worker goes on when its stream is idle.                                *)
LEMMA ResultWorker ==
    ASSUME TypeOK, Turns, OwnResult, WorkerStep \/ WorkerFails
    PROVE  OwnResult'
<1> SUFFICES ASSUME phase' = "done" PROVE OwnResult'
  BY DEF OwnResult
<1>1. /\ UNCHANGED <<phase, frame, value, pending, outputBuffer>>
      /\ phase = "done" /\ sequence \in Nat
  BY WorkerKeeps DEF TypeOK
<1>2. CASE WorkerFails
  BY <1>1, <1>2 DEF WorkerFails, Dies, OwnResult
<1>3. CASE WorkerStarts
  <2>1. toHost = <<>>
    BY <1>3 DEF WorkerStarts, Turns, Channels, Running
  <2>2. Head(toHost').op = "hello"
    BY <1>3, <2>1, EmitFacts DEF WorkerStarts, Answers
  <2> QED BY <1>1, <1>3, <2>2 DEF WorkerStarts, OwnResult
<1>4. CASE WorkerPrepares
  <2>1. toHost = <<>>
    BY <1>4 DEF WorkerPrepares, Turns, Channels
  <2>2. \/ worker' = "dead" /\ UNCHANGED toHost
        \/ worker' = "loop" /\ Head(toHost').op = "ready"
    BY <1>4, <2>1, EmitFacts DEF WorkerPrepares, Dies, Answers
  <2> QED BY <1>1, <2>1, <2>2 DEF OwnResult
<1>5. CASE WorkerFrame
  <2>1. toHost' = <<>>
    BY <1>5 DEF WorkerFrame, Command, Turns, Channels, Dies
  <2>2. CASE Dies
    BY <1>1, <2>1, <2>2 DEF Dies, OwnResult
  <2>3. CASE ~Dies
    <3> DEFINE s == Head(toWorker).sequence
    <3>1. worker' = "input" /\ stream' = stream \o <<Item("wait", s), Item("copyin", s)>>
      BY <1>5, <2>3 DEF WorkerFrame
    <3>2. Streams("copyin")'
      <4>1. stream \in Seq([op : StreamOps, n : Nat]) /\ s \in Nat
        BY <1>5, TakeTypes DEF WorkerFrame, Command, TypeOK, StreamOps
      <4>2. Item("wait", s) \in [op : StreamOps, n : Nat] /\ Item("copyin", s) \in [op : StreamOps, n : Nat]
        BY <4>1 DEF Item, StreamOps
      <4>3. <<Item("wait", s), Item("copyin", s)>> \in Seq([op : StreamOps, n : Nat])
        BY <4>2
      <4>4. Len(stream) + 2 \in DOMAIN stream' /\ stream'[Len(stream) + 2] = Item("copyin", s)
        BY <3>1, <4>1, <4>3
      <4> QED BY <4>4 DEF Streams, Item
    <3> QED BY <2>1, <3>1, <3>2 DEF OwnResult
  <2> QED BY <2>2, <2>3
<1>6. CASE WorkerSubmits
  <2>1. /\ worker = "input" /\ stream = <<>> /\ worker' = "network"
        /\ stream' = <<Item("network", sequence)>> /\ toHost' = <<>>
    BY <1>6 DEF WorkerSubmits, Synchronized, pipes, Turns, Channels, Running
  <2>2. ~Streams("copyin")
    BY <2>1 DEF Streams
  <2>3. value.frame = frame
    BY <1>1, <2>1, <2>2 DEF OwnResult
  <2>4. Streams("network")'
    <3>1. 1 \in DOMAIN stream' /\ stream'[1] = Item("network", sequence)
      BY <2>1
    <3> QED BY <3>1 DEF Streams, Item
  <2> QED BY <1>1, <2>1, <2>3, <2>4 DEF OwnResult
<1>7. CASE WorkerFinishes
  <2>1. worker = "network" /\ stream = <<>> /\ toHost' = <<>>
    BY <1>7 DEF WorkerFinishes, Synchronized, Dies, Turns, Channels, Running
  <2>2. CASE Dies
    BY <1>1, <2>1, <2>2 DEF Dies, OwnResult
  <2>3. CASE ~Dies
    <3>1. worker' = "copied" /\ stream' = <<Item("copyout", sequence), Item("signal", sequence)>>
      BY <1>7, <2>3 DEF WorkerFinishes
    <3>2. ~Streams("network")
      BY <2>1 DEF Streams
    <3>3. value.frame = frame /\ pending = Net(frame)
      BY <1>1, <2>1, <3>2 DEF OwnResult
    <3>4. Streams("copyout")'
      <4>1. 1 \in DOMAIN stream' /\ stream'[1] = Item("copyout", sequence)
        BY <3>1
      <4> QED BY <4>1 DEF Streams, Item
    <3> QED BY <1>1, <2>1, <3>1, <3>3, <3>4 DEF OwnResult
  <2> QED BY <2>2, <2>3
<1>8. CASE WorkerDone
  <2>1. worker = "copied" /\ stream = <<>> /\ worker' = "loop"
    BY <1>8 DEF WorkerDone, Synchronized
  <2>2. ~Streams("copyout")
    BY <2>1 DEF Streams
  <2>3. outputBuffer = Net(frame)
    BY <1>1, <2>1, <2>2 DEF OwnResult
  <2> QED BY <1>1, <2>1, <2>3 DEF OwnResult
<1>9. CASE WorkerConsumed \/ WorkerClosed
  <2>1. toHost = <<>>
    BY <1>9 DEF WorkerConsumed, WorkerClosed, Command, Turns, Channels
  <2>2. \/ worker' = "dead" /\ UNCHANGED toHost
        \/ worker' \in {"loop", "closing"} /\ Head(toHost').op \in {"released", "closed"}
    BY <1>1, <1>9, <2>1, EmitFacts DEF WorkerConsumed, WorkerClosed, Command, Dies, Answers
  <2> QED BY <1>1, <2>1, <2>2 DEF OwnResult
<1>10. CASE WorkerExits
  BY <1>1, <1>10 DEF WorkerExits, OwnResult, pipes
<1> QED
  BY <1>2, <1>3, <1>4, <1>5, <1>6, <1>7, <1>8, <1>9, <1>10 DEF WorkerStep

(* The stream copies in, infers and copies out.                               *)
LEMMA ResultHip ==
    ASSUME TypeOK, Turns, OwnPicture, OwnResult, HipStep
    PROVE  OwnResult'
<1> SUFFICES ASSUME phase' = "done" PROVE OwnResult'
  BY DEF OwnResult
<1>1. UNCHANGED <<phase, frame, worker, toHost, inputBuffer>> /\ phase = "done" /\ stream # <<>>
  BY DEF HipStep, process, pipes, d3d
<1>2. /\ value' = IF Head(stream).op = "copyin" THEN inputBuffer ELSE value
      /\ pending' = IF Head(stream).op = "network" THEN Net(value.frame) ELSE pending
      /\ outputBuffer' = IF Head(stream).op = "copyout" THEN pending ELSE outputBuffer
  BY DEF HipStep
<1>3. inputBuffer.frame = frame /\ toHost = <<>>
  BY <1>1 DEF OwnPicture, Turns, Channels
<1>4. \A op : Streams(op) => Head(stream).op = op \/ Streams(op)'
  BY StreamPop
<1>5. CASE worker = "input"
  <2>1. Streams("copyin")' \/ value'.frame = frame
    BY <1>1, <1>2, <1>3, <1>4, <1>5 DEF OwnResult
  <2> QED BY <1>1, <1>3, <1>5, <2>1 DEF OwnResult
<1>6. CASE worker = "network"
  <2>1. value.frame = frame /\ value'.frame = frame
    BY <1>1, <1>2, <1>3, <1>6 DEF OwnResult
  <2>2. Streams("network")' \/ pending' = Net(frame)
    BY <1>1, <1>2, <1>4, <1>6, <2>1 DEF OwnResult
  <2> QED BY <1>1, <1>3, <1>6, <2>1, <2>2 DEF OwnResult
<1>7. CASE worker = "copied"
  <2>1. value.frame = frame /\ value'.frame = frame
    BY <1>1, <1>2, <1>3, <1>7 DEF OwnResult
  <2>2. pending = Net(frame) /\ pending' = Net(frame)
    BY <1>1, <1>2, <1>7, <2>1 DEF OwnResult
  <2>3. Streams("copyout")' \/ outputBuffer' = Net(frame)
    BY <1>1, <1>2, <1>4, <1>7, <2>2 DEF OwnResult
  <2> QED BY <1>1, <1>3, <1>7, <2>1, <2>2, <2>3 DEF OwnResult
<1>8. CASE worker \notin {"input", "network", "copied"}
  BY <1>1, <1>3, <1>8 DEF OwnResult
<1> QED BY <1>5, <1>6, <1>7, <1>8

(* Every step keeps the worker's result its frame's.                          *)
LEMMA ResultStep ==
    ASSUME TypeOK, StateAt, Turns, OwnPicture, OwnResult, [Next]_vars
    PROVE  OwnResult'
<1>1. CASE D3DStep \/ UNCHANGED vars
  <2>1. UNCHANGED <<phase, frame, worker, toHost, stream, value, pending, outputBuffer>>
    BY <1>1 DEF D3DStep, vars, process, pipes, hip
  <2> QED BY <2>1 DEF OwnResult, Streams
<1>2. CASE StreamLost
  <2>1. UNCHANGED <<phase, frame, worker, toHost, outputBuffer>> /\ worker = "dead"
    BY <1>2 DEF StreamLost, process, pipes, hip
  <2> QED BY <2>1 DEF OwnResult
<1>3. CASE SendFrame
  <2>1. phase = "frame" /\ UNCHANGED <<worker, toHost>>
    BY <1>3 DEF SendFrame, Send, process
  <2>2. worker \in {"loop", "dead"} /\ toHost = <<>>
    BY <2>1 DEF Turns, Turn, Still
  <2> QED BY <2>1, <2>2 DEF OwnResult
<1>4. CASE Moves /\ ~SendFrame
  <2>1. phase' # "done"
    BY <1>4, Submissions DEF Moves, Callback, Draw, Present, RuntimeDestroyed, Skip, Enter, Refuse, NoAnswer,
       ReadHello, SendPrepare, ReadReady, WaitDecoded, WaitSubmitted, ReadDone,
       WaitReceived, WaitEncoded, SendConsumed, ReadReleased, SendClose, ReadClosed, Close,
       Answer, Send, WaitHost, Submits, Fail
  <2> QED BY <2>1 DEF OwnResult
<1> QED BY <1>1, <1>2, <1>3, <1>4, ResultWorker, ResultHip, NextMoves DEF Background

-----------------------------------------------------------------------------
(* Frames are drawn, worked on and presented in order.                          *)

(* The numbers the order of the frames is about.                              *)
LEMMA EntryTypes ==
    ASSUME TypeOK
    PROVE  /\ \A i \in DOMAIN queue : queue[i] \in Entries /\ queue[i].n \in Nat
           /\ frame \in Nat /\ target.frame \in Nat /\ Len(presented) \in Nat
           /\ Len(queue) \in Nat /\ DOMAIN queue = 1 .. Len(queue)
<1>1. queue \in Seq(Entries)
  BY QueueTyped
<1>2. \A i \in DOMAIN queue : queue[i] \in Entries
  BY <1>1
<1>3. frame \in Nat /\ target.frame \in Nat
  BY BoundsAssumption DEF TypeOK, Image
<1>4. Len(presented) \in Nat
  BY DEF TypeOK
<1> QED BY <1>1, <1>2, <1>3, <1>4 DEF Entries

(* The target shows the latest frame, or will when the queue has drawn it.        *)
LEMMA TargetBehind ==
    ASSUME TypeOK, Screen
    PROVE  target.frame <= frame
<1>1. CASE target.frame = frame
  BY <1>1, EntryTypes
<1>2. CASE target.frame # frame
  <2>1. PICK j \in DOMAIN queue : queue[j] = Item("draw", frame)
    BY <1>2 DEF Screen
  <2>2. queue[j].op \in Shows /\ queue[j].n = frame
    BY <2>1 DEF Item, Shows
  <2> QED BY <2>2, EntryTypes DEF Screen
<1> QED BY <1>1, <1>2

(* Nothing is queued at first.                                                *)
LEMMA ScreenInit == Init => Screen /\ Presents
<1> SUFFICES ASSUME Init PROVE Screen /\ Presents
  OBVIOUS
<1>1. /\ DOMAIN queue = {} /\ phase = "game" /\ frame = 0 /\ Len(presented) = 0 /\ target.frame = 0
  BY DEF Init, Raw
<1> QED BY <1>1 DEF Screen, Presents, Last

(* Work on the latest frame is added behind its drawing.                          *)
LEMMA ScreenAdd ==
    ASSUME TypeOK, TypeOK', Screen, UNCHANGED <<frame, target>>, phase' # "game" => phase # "game",
           phase # "game" \/ frame # 0,
           \A i \in DOMAIN queue : queue'[i] = queue[i] /\ i \in DOMAIN queue',
           \A i \in DOMAIN queue' :
              \/ i \in DOMAIN queue
              \/ i = Len(queue) + 1 /\ queue'[i].n = frame /\ queue'[i].op # "draw"
              \/ i > Len(queue) + 1 /\ queue'[i].op \notin Shows
    PROVE  Screen'
<1>1. target.frame <= frame /\ target.frame \in Nat /\ frame \in Nat
  BY TargetBehind, EntryTypes
<1>2. DOMAIN queue = 1 .. Len(queue) /\ Len(queue) \in Nat
  BY EntryTypes
<1>2a. \A i \in DOMAIN queue' : i \in Nat
  <2>1. DOMAIN queue' = 1 .. Len(queue')
    <3>1. (queue \in Seq(Entries))'
      BY QueueTyped DEF TypeOK, Entries, QueueOps
    <3> QED BY <3>1
  <2>2. Len(queue') \in Nat
    <3>1. (queue \in Seq(Entries))'
      BY QueueTyped DEF TypeOK, Entries, QueueOps
    <3> QED BY <3>1
  <2> QED BY <2>1, <2>2
<1>3. ASSUME NEW i \in DOMAIN queue', queue'[i].op \in Shows
      PROVE  /\ target.frame <= queue'[i].n /\ queue'[i].n <= frame
             /\ queue'[i].op = "draw" => target.frame < queue'[i].n
             /\ \A j \in DOMAIN queue' : j < i /\ queue'[j].op \in Shows =>
                  /\ queue'[j].n <= queue'[i].n
                  /\ queue'[i].op = "draw" => queue'[j].n < queue'[i].n
  <2>1. CASE i \in DOMAIN queue
    <3>1. \A j \in DOMAIN queue' : j < i => j \in DOMAIN queue
      BY <1>2, <1>2a, <2>1
    <3> QED BY <1>3, <2>1, <3>1 DEF Screen
  <2>2. CASE i \notin DOMAIN queue
    <3>1. i = Len(queue) + 1 /\ queue'[i].n = frame /\ queue'[i].op # "draw"
      BY <1>3, <2>2
    <3>2. \A j \in DOMAIN queue' : j < i => j \in DOMAIN queue
      BY <1>2, <1>2a, <3>1
    <3>3. \A j \in DOMAIN queue : queue[j].op \in Shows => queue[j].n <= frame
      BY DEF Screen
    <3> QED BY <1>1, <3>1, <3>2, <3>3
  <2> QED BY <2>1, <2>2
<1>4. target.frame = frame \/ \E j \in DOMAIN queue' : j \in DOMAIN queue /\ queue'[j] = Item("draw", frame)
  BY DEF Screen
<1>5. ASSUME NEW i \in DOMAIN queue', queue'[i].op \in Shows \ {"draw"}
      PROVE  \/ target.frame = queue'[i].n
             \/ \E j \in DOMAIN queue' : j < i /\ queue'[j] = Item("draw", queue'[i].n)
  <2>1. CASE i \in DOMAIN queue
    BY <1>5, <2>1 DEF Screen
  <2>2. CASE i \notin DOMAIN queue
    <3>1. i = Len(queue) + 1 /\ queue'[i].n = frame
      BY <1>5, <2>2
    <3>2. \A j \in DOMAIN queue : j < i
      BY <1>2, <3>1
    <3> QED BY <1>4, <3>1, <3>2
  <2> QED BY <2>1, <2>2
<1>6. (frame = 0 => phase = "game")'
  BY DEF Screen
<1> QED BY <1>3, <1>4, <1>5, <1>6 DEF Screen

(* The game draws a later frame than any queued.                              *)
LEMMA ScreenDraw ==
    ASSUME TypeOK, Screen, Draw
    PROVE  Screen'
<1>1. Item("draw", frame + 1) \in Entries /\ frame \in Nat
  BY EntryTypes DEF Item, Entries, QueueOps
<1>2. queue' = Append(queue, Item("draw", frame + 1)) /\ frame' = frame + 1 /\ UNCHANGED target
  BY DEF Draw, d3d
<1>3. /\ Len(queue) \in Nat
      /\ DOMAIN queue = 1 .. Len(queue)
      /\ DOMAIN queue' = 1 .. Len(queue) + 1
      /\ \A i \in DOMAIN queue : queue'[i] = queue[i] /\ i \in DOMAIN queue' /\ i # Len(queue) + 1
      /\ queue'[Len(queue) + 1] = Item("draw", frame + 1)
      /\ \A i \in DOMAIN queue' : i \in DOMAIN queue \/ i = Len(queue) + 1
  BY <1>1, <1>2, AppendIndex
<1>4. target.frame <= frame /\ target.frame \in Nat
  BY TargetBehind, EntryTypes
<1>5. \A j \in DOMAIN queue : queue[j].op \in Shows => queue[j].n <= frame /\ queue[j].n \in Nat
  BY EntryTypes DEF Screen
<1>6. ASSUME NEW i \in DOMAIN queue', queue'[i].op \in Shows
      PROVE  /\ target'.frame <= queue'[i].n /\ queue'[i].n <= frame'
             /\ queue'[i].op = "draw" => target'.frame < queue'[i].n
             /\ \A j \in DOMAIN queue' : j < i /\ queue'[j].op \in Shows =>
                  /\ queue'[j].n <= queue'[i].n
                  /\ queue'[i].op = "draw" => queue'[j].n < queue'[i].n
  <2>1. CASE i \in DOMAIN queue
    <3>1. \A j \in DOMAIN queue' : j < i => j \in DOMAIN queue
      BY <1>3, <2>1
    <3>2. queue[i].n <= frame /\ queue[i].n \in Nat /\ queue'[i] = queue[i]
      BY <1>3, <1>5, <1>6, <2>1
    <3>3. queue'[i].n <= frame'
      BY <1>1, <1>2, <3>2
    <3> QED BY <1>2, <1>3, <1>6, <2>1, <3>1, <3>2, <3>3 DEF Screen
  <2>2. CASE i = Len(queue) + 1
    <3>1. queue'[i].n = frame + 1
      BY <1>3, <2>2 DEF Item
    <3>2. \A j \in DOMAIN queue' : j < i => j \in DOMAIN queue
      BY <1>3, <2>2
    <3>3. \A j \in DOMAIN queue' : j < i /\ queue'[j].op \in Shows => queue'[j].n < frame + 1 /\ queue'[j].n <= frame + 1
      BY <1>1, <1>3, <1>5, <3>2
    <3> QED BY <1>1, <1>2, <1>4, <3>1, <3>3
  <2> QED BY <1>3, <2>1, <2>2
<1>7. ASSUME NEW i \in DOMAIN queue', queue'[i].op \in Shows \ {"draw"}
      PROVE  \/ target'.frame = queue'[i].n
             \/ \E j \in DOMAIN queue' : j < i /\ queue'[j] = Item("draw", queue'[i].n)
  <2>1. i \in DOMAIN queue
    BY <1>3, <1>7 DEF Item
  <2> QED BY <1>2, <1>3, <1>7, <2>1 DEF Screen
<1>8. Len(queue) + 1 \in DOMAIN queue' /\ queue'[Len(queue) + 1] = Item("draw", frame')
  BY <1>2, <1>3
<1>9. frame' # 0
  BY <1>1, <1>2
<1> QED BY <1>6, <1>7, <1>8, <1>9 DEF Screen

(* Executing in order keeps the order.                                        *)
LEMMA ScreenPop ==
    ASSUME TypeOK, OwnPicture, Screen, D3DStep
    PROVE  Screen'
<1>1. /\ Len(queue) \in Nat \ {0}
      /\ DOMAIN queue = 1 .. Len(queue)
      /\ DOMAIN queue' = 1 .. Len(queue) - 1
      /\ \A i \in 1 .. Len(queue) - 1 : queue'[i] = queue[i + 1] /\ i + 1 \in DOMAIN queue
      /\ Head(queue) = queue[1] /\ 1 \in DOMAIN queue
  BY PopIndex
<1>2. \A j \in DOMAIN queue : j # 1 => j - 1 \in DOMAIN queue' /\ queue'[j - 1] = queue[j]
  <2> SUFFICES ASSUME NEW j \in DOMAIN queue, j # 1
               PROVE  j - 1 \in DOMAIN queue' /\ queue'[j - 1] = queue[j]
    OBVIOUS
  <2>1. j - 1 \in 1 .. Len(queue) - 1 /\ (j - 1) + 1 = j
    BY <1>1
  <2>2. queue'[j - 1] = queue[(j - 1) + 1]
    BY <1>1, <2>1
  <2> QED BY <1>1, <2>1, <2>2
<1>3. UNCHANGED <<phase, frame>>
  BY DEF D3DStep
<1>4. \A j \in DOMAIN queue : queue[j].n \in Nat
  BY EntryTypes
<1>5. target.frame \in Nat /\ frame \in Nat
  BY EntryTypes
<1>6. \A i, j \in DOMAIN queue' :
        /\ queue'[i] = queue[i + 1] /\ queue'[j] = queue[j + 1]
        /\ i + 1 \in DOMAIN queue /\ j + 1 \in DOMAIN queue
        /\ i < j <=> i + 1 < j + 1
  BY <1>1
<1>7. ASSUME NEW i \in DOMAIN queue', queue'[i].op \in Shows
      PROVE  /\ target.frame <= queue'[i].n /\ queue'[i].n <= frame
             /\ queue'[i].op = "draw" => target.frame < queue'[i].n
             /\ \A j \in DOMAIN queue' : j < i /\ queue'[j].op \in Shows =>
                  /\ queue'[j].n <= queue'[i].n
                  /\ queue'[i].op = "draw" => queue'[j].n < queue'[i].n
             /\ queue[1].op \in Shows => /\ queue[1].n <= queue'[i].n
                                         /\ queue'[i].op = "draw" => queue[1].n < queue'[i].n
  <2>1. queue'[i] = queue[i + 1] /\ i + 1 \in DOMAIN queue /\ 1 < i + 1
    BY <1>1
  <2> QED BY <1>1, <1>6, <1>7, <2>1 DEF Screen
<1>8. CASE queue[1].op # "draw"
  <2>1. target'.frame = target.frame
    <3>1. CASE queue[1].op = "encode"
      <4>1. target' = texture /\ texture = Net(queue[1].n)
        BY <1>1, <3>1 DEF D3DStep, OwnPicture
      <4>2. \A j \in DOMAIN queue : ~(j < 1)
        BY <1>1
      <4>3. target.frame = queue[1].n
        BY <1>1, <3>1, <4>2 DEF Screen, Shows
      <4> QED BY <4>1, <4>3 DEF Net
    <3>2. CASE queue[1].op # "encode"
      BY <1>1, <1>8, <3>2 DEF D3DStep
    <3> QED BY <3>1, <3>2
  <2>2. ASSUME NEW i \in DOMAIN queue', queue'[i].op \in Shows \ {"draw"}
        PROVE  \/ target.frame = queue'[i].n
               \/ \E j \in DOMAIN queue' : j < i /\ queue'[j] = Item("draw", queue'[i].n)
    <3>1. queue'[i] = queue[i + 1] /\ i + 1 \in DOMAIN queue
      BY <1>1
    <3>2. CASE target.frame # queue'[i].n
      <4>1. PICK j \in DOMAIN queue : j < i + 1 /\ queue[j] = Item("draw", queue'[i].n)
        BY <2>2, <3>1, <3>2 DEF Screen
      <4>2. j # 1
        BY <1>8, <4>1 DEF Item
      <4>3. j - 1 < i
        BY <1>1, <4>1
      <4> QED BY <1>2, <4>1, <4>2, <4>3
    <3> QED BY <3>2
  <2>3. target.frame = frame \/ \E j \in DOMAIN queue' : queue'[j] = Item("draw", frame)
    <3>1. CASE target.frame # frame
      <4>1. PICK j \in DOMAIN queue : queue[j] = Item("draw", frame)
        BY <3>1 DEF Screen
      <4>2. j # 1
        BY <1>8, <4>1 DEF Item
      <4> QED BY <1>2, <4>1, <4>2
    <3> QED BY <3>1
  <2>4. frame' = 0 => phase' = "game"
    BY <1>3 DEF Screen
  <2> QED BY <1>3, <1>7, <2>1, <2>2, <2>3, <2>4 DEF Screen
<1>9. CASE queue[1].op = "draw"
  <2>1. target'.frame = queue[1].n
    BY <1>1, <1>9 DEF D3DStep, Raw
  <2>2. target.frame < queue[1].n /\ queue[1].n <= frame
    BY <1>1, <1>9 DEF Screen, Shows
  <2>3. ASSUME NEW i \in DOMAIN queue', queue'[i].op \in Shows
        PROVE  /\ queue[1].n <= queue'[i].n
               /\ queue'[i].op = "draw" => queue[1].n < queue'[i].n
    BY <1>7, <1>9, <2>3 DEF Shows
  <2>4. ASSUME NEW i \in DOMAIN queue', queue'[i].op \in Shows \ {"draw"}
        PROVE  \/ queue[1].n = queue'[i].n
               \/ \E j \in DOMAIN queue' : j < i /\ queue'[j] = Item("draw", queue'[i].n)
    <3>1. queue'[i] = queue[i + 1] /\ i + 1 \in DOMAIN queue /\ queue'[i].n \in Nat
      BY <1>1, <1>4
    <3>2. target.frame # queue'[i].n
      BY <1>1, <1>4, <1>5, <2>2, <2>3, <2>4, <3>1
    <3>3. PICK j \in DOMAIN queue : j < i + 1 /\ queue[j] = Item("draw", queue'[i].n)
      BY <2>4, <3>1, <3>2 DEF Screen
    <3>4. CASE j = 1
      BY <3>3, <3>4 DEF Item
    <3>5. CASE j # 1
      <4>1. j - 1 < i
        BY <1>1, <3>3
      <4> QED BY <1>2, <3>3, <3>5, <4>1
    <3> QED BY <3>4, <3>5
  <2>5. queue[1].n = frame \/ \E j \in DOMAIN queue' : queue'[j] = Item("draw", frame)
    <3>1. target.frame # frame
      BY <1>1, <1>4, <1>5, <2>2
    <3>2. PICK j \in DOMAIN queue : queue[j] = Item("draw", frame)
      BY <3>1 DEF Screen
    <3>3. CASE j = 1
      BY <3>2, <3>3 DEF Item
    <3>4. CASE j # 1
      BY <1>2, <3>2, <3>4
    <3> QED BY <3>3, <3>4
  <2>6. frame' = 0 => phase' = "game"
    BY <1>3 DEF Screen
  <2> QED BY <1>3, <1>7, <2>1, <2>3, <2>4, <2>5, <2>6 DEF Screen
<1> QED BY <1>8, <1>9

(* Every step keeps the order of the frames.                                  *)
LEMMA ScreenStep ==
    ASSUME TypeOK, TypeOK', StateAt, OwnPicture, Screen, [Next]_vars
    PROVE  Screen'
<1>1. CASE WorkerStep \/ WorkerFails \/ HipStep \/ StreamLost \/ UNCHANGED vars
  <2>1. UNCHANGED <<queue, phase, frame, target>>
    BY <1>1, WorkerKeeps DEF HipStep, StreamLost, vars, d3d
  <2> QED BY <2>1 DEF Screen
<1>2. CASE Draw
  BY <1>2, ScreenDraw
<1>3. CASE Present
  <2>1. queue' = Append(queue, Item("present", frame)) /\ UNCHANGED <<frame, target>>
        /\ phase = "present" /\ phase' = "game"
    BY <1>3 DEF Present, d3d
  <2>2. Item("present", frame) \in Entries
    BY EntryTypes DEF Item, Entries, QueueOps
  <2>3. /\ \A i \in DOMAIN queue : queue'[i] = queue[i] /\ i \in DOMAIN queue'
        /\ queue'[Len(queue) + 1] = Item("present", frame)
        /\ \A i \in DOMAIN queue' : i \in DOMAIN queue \/ i = Len(queue) + 1
    BY <2>1, <2>2, AppendIndex
  <2> QED BY <2>1, <2>3, ScreenAdd DEF Item
<1>4. CASE Decode \/ SubmitTexture \/ Receive \/ Encode
  <2>1. ASSUME NEW at, NEW op \in Lists, NEW next \in Waiting, Submits(at, op, next),
               at \in {"input", "texture", "receive", "output"}
        PROVE  Screen'
    <3>1. UNCHANGED <<frame, target>> /\ phase # "game" /\ phase' # "game"
      BY <2>1 DEF Submits, d3d, Fail, Waiting
    <3>2. /\ \A i \in DOMAIN queue : queue'[i] = queue[i] /\ i \in DOMAIN queue'
          /\ \A i \in DOMAIN queue' :
                \/ i \in DOMAIN queue
                \/ i = Len(queue) + 1 /\ queue'[i] = Item(op, frame)
                \/ i > Len(queue) + 1 /\ queue'[i].op \in {"ready", "host"}
      BY <2>1, SubmitsIndex
    <3>3. \A i \in DOMAIN queue' :
                \/ i \in DOMAIN queue
                \/ i = Len(queue) + 1 /\ queue'[i].n = frame /\ queue'[i].op # "draw"
                \/ i > Len(queue) + 1 /\ queue'[i].op \notin Shows
      <4>1. Item(op, frame).n = frame /\ Item(op, frame).op # "draw"
        BY <2>1 DEF Item, Lists
      <4> QED BY <3>2, <4>1 DEF Shows
    <3> QED BY <3>1, <3>2, <3>3, ScreenAdd
  <2> QED BY <1>4, <2>1, Submissions DEF Lists, Waiting
<1>5. CASE Moves /\ ~Draw /\ ~Present /\ ~Decode /\ ~SubmitTexture /\ ~Receive /\ ~Encode
  <2>1. UNCHANGED queue
    BY <1>5, QueueKept
  <2>2. UNCHANGED frame /\ (phase = "game" => phase' = "game")
    BY <1>5 DEF Moves, Callback, RuntimeDestroyed, Skip, Enter, Refuse, NoAnswer, Expected,
       ReadHello, SendPrepare, ReadReady, WaitDecoded, WaitSubmitted, SendFrame, ReadDone,
       WaitReceived, WaitEncoded, SendConsumed, ReadReleased, SendClose, ReadClosed, Close,
       Answer, Send, WaitHost
  <2>3. UNCHANGED target
    BY <1>5, MovesKeep DEF d3d
  <2> QED BY <2>1, <2>2, <2>3 DEF Screen
<1> QED BY <1>1, <1>2, <1>3, <1>4, <1>5, ScreenPop, NextMoves DEF Background

(* Frames begin and end with Draw and Present only.                           *)
LEMMA LastKept ==
    ASSUME TypeOK, StateAt, Screen, Next, ~Draw, ~Present
    PROVE  UNCHANGED <<frame, Last>>
<1>1. CASE Background
  BY <1>1, BackgroundKeeps DEF Last
<1>2. CASE RuntimeDestroyed \/ Callback
  <2>1. CASE RuntimeDestroyed
    BY <2>1 DEF RuntimeDestroyed, Last
  <2>2. CASE Callback
    <3>1. /\ phase # "game" /\ phase' # "game" /\ UNCHANGED frame
      BY <2>2, Submissions DEF Callback, Skip, Enter, Refuse, NoAnswer, Expected,
         ReadHello, SendPrepare, ReadReady, WaitDecoded, WaitSubmitted, SendFrame, ReadDone,
         WaitReceived, WaitEncoded, SendConsumed, ReadReleased, SendClose, ReadClosed, Close,
         Answer, Send, WaitHost, Submits, Fail
    <3> QED BY <3>1 DEF Last
  <2> QED BY <1>2, <2>1, <2>2
<1> QED BY <1>1, <1>2, NextMoves DEF Moves

(* Steps that add no "present" and execute none.                                  *)
LEMMA PresentsKept ==
    ASSUME TypeOK, Presents, UNCHANGED <<presented, Last>>,
           \A i \in DOMAIN queue : queue'[i] = queue[i] /\ i \in DOMAIN queue',
           \A i \in DOMAIN queue' : queue'[i].op = "present" => i \in DOMAIN queue
    PROVE  Presents'
<1>1. ASSUME NEW i \in DOMAIN queue', queue'[i].op = "present"
      PROVE  /\ Len(presented') < queue'[i].n /\ queue'[i].n <= Last'
             /\ \A j \in DOMAIN queue' : j < i /\ queue'[j].op = "present" => queue'[j].n < queue'[i].n
  BY <1>1 DEF Presents
<1>2. \A k \in Len(presented) + 1 .. Last : \E i \in DOMAIN queue' : queue'[i] = Item("present", k)
  BY DEF Presents
<1>3. \A k \in Len(presented') + 1 .. Last' : \E i \in DOMAIN queue' : queue'[i] = Item("present", k)
  BY <1>2
<1>4. Len(presented') <= Last'
  BY DEF Presents
<1> HIDE DEF Last
<1> QED BY <1>1, <1>3, <1>4 DEF Presents

(* The frame the game has finished is the last on the queue.                  *)
LEMMA PresentsPresent ==
    ASSUME TypeOK, Screen, Presents, Present
    PROVE  Presents'
<1>1. /\ frame \in Nat /\ Len(presented) \in Nat /\ UNCHANGED presented
      /\ Last = frame - 1 /\ Last' = frame
      /\ queue' = Append(queue, Item("present", frame))
  BY EntryTypes DEF Present, Last, d3d
<1>2. Item("present", frame) \in Entries
  BY <1>1 DEF Item, Entries, QueueOps
<1>3. /\ Len(queue) \in Nat
      /\ DOMAIN queue = 1 .. Len(queue)
      /\ DOMAIN queue' = 1 .. Len(queue) + 1
      /\ \A i \in DOMAIN queue : queue'[i] = queue[i] /\ i \in DOMAIN queue' /\ i # Len(queue) + 1
      /\ queue'[Len(queue) + 1] = Item("present", frame)
      /\ \A i \in DOMAIN queue' : i \in DOMAIN queue \/ i = Len(queue) + 1
  BY <1>1, <1>2, AppendIndex
<1>4. \A i \in DOMAIN queue : queue[i].op = "present" => queue[i].n <= frame - 1 /\ queue[i].n < frame
                                                         /\ queue[i].n <= frame
  BY <1>1, EntryTypes DEF Presents
<1>5. ASSUME NEW i \in DOMAIN queue', queue'[i].op = "present"
      PROVE  /\ Len(presented') < queue'[i].n /\ queue'[i].n <= Last'
             /\ \A j \in DOMAIN queue' : j < i /\ queue'[j].op = "present" => queue'[j].n < queue'[i].n
  <2>1. CASE i \in DOMAIN queue
    <3>1. \A j \in DOMAIN queue' : j < i => j \in DOMAIN queue
      BY <1>3, <2>1
    <3> QED BY <1>1, <1>3, <1>4, <1>5, <2>1, <3>1 DEF Presents
  <2>2. CASE i = Len(queue) + 1
    <3>1. \A j \in DOMAIN queue' : j < i => j \in DOMAIN queue
      BY <1>3, <2>2
    <3>2. queue'[i].n = frame
      BY <1>3, <2>2 DEF Item
    <3>3. Len(presented) <= frame - 1
      BY <1>1 DEF Presents
    <3>4. Len(presented) < frame
      BY <1>1, <3>3
    <3> QED BY <1>1, <1>3, <1>4, <3>1, <3>2, <3>4
  <2> QED BY <1>3, <2>1, <2>2
<1>6. ASSUME NEW k \in Len(presented) + 1 .. frame
      PROVE  \E i \in DOMAIN queue' : queue'[i] = Item("present", k)
  <2>1. CASE k = frame
    <3>1. Len(queue) + 1 \in DOMAIN queue'
      BY <1>3
    <3> QED BY <1>3, <2>1, <3>1
  <2>2. CASE k # frame
    <3>1. k \in Len(presented) + 1 .. frame - 1
      BY <1>1, <2>2
    <3>2. PICK i \in DOMAIN queue : queue[i] = Item("present", k)
      BY <1>1, <3>1 DEF Presents
    <3> QED BY <1>3, <3>2
  <2> QED BY <2>1, <2>2
<1>7. Len(presented') <= Last'
  BY <1>1 DEF Presents
<1> QED BY <1>1, <1>5, <1>6, <1>7 DEF Presents

(* The "present" executed first is the next frame's.                              *)
LEMMA NextPresented ==
    ASSUME TypeOK, Presents, queue # <<>>, queue[1].op = "present"
    PROVE  queue[1].n = Len(presented) + 1
<1>1. /\ Len(presented) \in Nat /\ 1 \in DOMAIN queue /\ queue[1].n \in Nat /\ Last \in Int
      /\ DOMAIN queue = 1 .. Len(queue) /\ Len(queue) \in Nat
  <2>1. Len(queue) \in Nat \ {0}
    BY QueueTyped, EmptySeq
  <2> QED BY <2>1, EntryTypes DEF Last
<1>2. Len(presented) < queue[1].n /\ queue[1].n <= Last
  BY <1>1 DEF Presents
<1> SUFFICES ASSUME queue[1].n # Len(presented) + 1 PROVE FALSE
  OBVIOUS
<1>3. Len(presented) + 1 \in Len(presented) + 1 .. Last
  BY <1>1, <1>2
<1>4. PICK i \in DOMAIN queue : queue[i] = Item("present", Len(presented) + 1)
  BY <1>3 DEF Presents
<1>5. queue[i].op = "present" /\ queue[i].n = Len(presented) + 1
  BY <1>4 DEF Item
<1>6. 1 < i
  BY <1>1, <1>5
<1>7. queue[1].n < queue[i].n
  BY <1>1, <1>5, <1>6 DEF Presents
<1> QED BY <1>1, <1>2, <1>5, <1>7

(* The frame shown is the next.                                               *)
LEMMA PresentsPop ==
    ASSUME TypeOK, Presents, D3DStep
    PROVE  Presents'
<1>1. /\ Len(queue) \in Nat \ {0}
      /\ DOMAIN queue = 1 .. Len(queue)
      /\ DOMAIN queue' = 1 .. Len(queue) - 1
      /\ \A i \in 1 .. Len(queue) - 1 : queue'[i] = queue[i + 1] /\ i + 1 \in DOMAIN queue
      /\ Head(queue) = queue[1] /\ 1 \in DOMAIN queue
  BY PopIndex
<1>2. \A j \in DOMAIN queue : j # 1 => j - 1 \in DOMAIN queue' /\ queue'[j - 1] = queue[j]
  <2> SUFFICES ASSUME NEW j \in DOMAIN queue, j # 1
               PROVE  j - 1 \in DOMAIN queue' /\ queue'[j - 1] = queue[j]
    OBVIOUS
  <2>1. j - 1 \in 1 .. Len(queue) - 1 /\ (j - 1) + 1 = j
    BY <1>1
  <2>2. queue'[j - 1] = queue[(j - 1) + 1]
    BY <1>1, <2>1
  <2> QED BY <1>1, <2>1, <2>2
<1>3. UNCHANGED Last /\ Last \in Int /\ Len(presented) \in Nat
  BY EntryTypes DEF D3DStep, Last
<1>4. \A i, j \in DOMAIN queue' :
        /\ queue'[i] = queue[i + 1] /\ queue'[j] = queue[j + 1]
        /\ i + 1 \in DOMAIN queue /\ j + 1 \in DOMAIN queue
        /\ i < j <=> i + 1 < j + 1
        /\ 1 < i + 1
  BY <1>1
<1>5. \A i \in DOMAIN queue : queue[i].n \in Nat
  BY EntryTypes
<1>6. ASSUME NEW i \in DOMAIN queue', queue'[i].op = "present"
      PROVE  /\ Len(presented) < queue'[i].n /\ queue'[i].n <= Last
             /\ \A j \in DOMAIN queue' : j < i /\ queue'[j].op = "present" => queue'[j].n < queue'[i].n
             /\ queue[1].op = "present" => queue[1].n < queue'[i].n
  <2>1. queue'[i] = queue[i + 1] /\ i + 1 \in DOMAIN queue /\ 1 < i + 1
    BY <1>4
  <2> QED BY <1>1, <1>4, <1>6, <2>1 DEF Presents
<1>7. CASE queue[1].op # "present"
  <2>1. UNCHANGED presented
    BY <1>1, <1>7 DEF D3DStep
  <2>2. ASSUME NEW k \in Len(presented) + 1 .. Last
        PROVE  \E i \in DOMAIN queue' : queue'[i] = Item("present", k)
    <3>1. PICK i \in DOMAIN queue : queue[i] = Item("present", k)
      BY DEF Presents
    <3>2. i # 1
      BY <1>7, <3>1 DEF Item
    <3> QED BY <1>2, <3>1, <3>2
  <2>3. Len(presented) <= Last
    BY DEF Presents
  <2> HIDE DEF Last
  <2> QED BY <1>3, <1>6, <2>1, <2>2, <2>3 DEF Presents
<1>8. CASE queue[1].op = "present"
  <2>1. queue[1].n = Len(presented) + 1
    BY <1>8, NextPresented DEF D3DStep
  <2>2. Len(presented') = Len(presented) + 1
    <3>1. presented' = Append(presented, target) /\ presented \in Seq(Image) /\ target \in Image
      BY <1>1, <1>8 DEF D3DStep, TypeOK
    <3> QED BY <3>1, AppendFacts
  <2>3. Len(presented') <= Last
    BY <1>1, <1>8, <2>1, <2>2 DEF Presents
  <2>4. ASSUME NEW k \in Len(presented') + 1 .. Last
        PROVE  \E i \in DOMAIN queue' : queue'[i] = Item("present", k)
    <3>1. k \in Len(presented) + 1 .. Last /\ k # queue[1].n
      BY <1>3, <2>1, <2>2
    <3>2. PICK i \in DOMAIN queue : queue[i] = Item("present", k)
      BY <3>1 DEF Presents
    <3>3. i # 1
      BY <3>1, <3>2 DEF Item
    <3> QED BY <1>2, <3>2, <3>3
  <2>5. ASSUME NEW i \in DOMAIN queue', queue'[i].op = "present"
        PROVE  Len(presented') < queue'[i].n
    BY <1>6, <1>8, <2>1, <2>2, <2>5
  <2> HIDE DEF Last
  <2> QED BY <1>3, <1>6, <2>3, <2>4, <2>5 DEF Presents
<1> QED BY <1>7, <1>8

(* Every step keeps the frames shown in order, without a gap.                 *)
LEMMA PresentsStep ==
    ASSUME TypeOK, StateAt, Screen, Presents, [Next]_vars
    PROVE  Presents'
<1>1. CASE Draw
  <2>1. Item("draw", frame + 1) \in Entries /\ Item("draw", frame + 1).op # "present"
    BY EntryTypes DEF Item, Entries, QueueOps
  <2>2. /\ \A i \in DOMAIN queue : queue'[i] = queue[i] /\ i \in DOMAIN queue'
        /\ \A i \in DOMAIN queue' : i \in DOMAIN queue \/ queue'[i] = Item("draw", frame + 1)
    BY <1>1, <2>1, AppendIndex DEF Draw
  <2>3. UNCHANGED <<presented, Last>>
    BY <1>1, EntryTypes DEF Draw, Last, d3d
  <2> QED BY <2>1, <2>2, <2>3, PresentsKept
<1>2. CASE Present
  BY <1>2, PresentsPresent
<1>3. CASE D3DStep
  BY <1>3, PresentsPop
<1>4. CASE Decode \/ SubmitTexture \/ Receive \/ Encode
  <2>1. UNCHANGED <<presented, Last>>
    BY <1>4, LastKept, NextMoves, MovesKeep, Submissions DEF Moves, Callback, d3d, Draw, Present, Submits
  <2>2. ASSUME NEW at, NEW op \in Lists, NEW next, Submits(at, op, next)
        PROVE  Presents'
    <3>1. /\ \A i \in DOMAIN queue : queue'[i] = queue[i] /\ i \in DOMAIN queue'
          /\ \A i \in DOMAIN queue' :
                \/ i \in DOMAIN queue
                \/ i = Len(queue) + 1 /\ queue'[i] = Item(op, frame)
                \/ i > Len(queue) + 1 /\ queue'[i].op \in {"ready", "host"}
      BY <2>2, SubmitsIndex
    <3>2. Item(op, frame).op # "present"
      BY DEF Item, Lists
    <3> QED BY <2>1, <3>1, <3>2, PresentsKept
  <2> QED BY <1>4, <2>2, Submissions DEF Lists
<1>5. CASE Next /\ ~Draw /\ ~Present /\ ~D3DStep /\ ~Decode /\ ~SubmitTexture /\ ~Receive /\ ~Encode
  <2>1. UNCHANGED <<presented, Last>>
    <3>1. UNCHANGED Last
      BY <1>5, LastKept
    <3>2. UNCHANGED presented
      BY <1>5, NextMoves, MovesKeep, WorkerKeeps DEF Background, HipStep, StreamLost, d3d
    <3> QED BY <3>1, <3>2
  <2>2. UNCHANGED queue
    BY <1>5, NextMoves, QueueKept, WorkerKeeps DEF Background, HipStep, StreamLost
  <2> QED BY <2>1, <2>2, PresentsKept
<1>6. CASE UNCHANGED vars
  <2>1. UNCHANGED <<presented, Last, queue>>
    BY <1>6 DEF vars, d3d, Last
  <2> QED BY <2>1, PresentsKept
<1> QED BY <1>1, <1>2, <1>3, <1>4, <1>5, <1>6

-----------------------------------------------------------------------------
(* The frames that are, or will be, shown as the network's.                     *)

(* The frames counted are finitely many.                                      *)
LEMMA ReplacedFinite ==
    ASSUME TypeOK
    PROVE  IsFiniteSet(Replaced) /\ Cardinality(Replaced) \in Nat
           /\ IsFiniteSet(Nets) /\ Nets \subseteq Replaced
<1>1. Len(presented) \in Int /\ MaxFrames \in Int /\ DOMAIN presented = 1 .. Len(presented)
  BY BoundsAssumption DEF TypeOK
<1>2. IsFiniteSet(1 .. Len(presented)) /\ IsFiniteSet(0 .. MaxFrames)
  BY <1>1, FS_Interval
<1>3. IsFiniteSet((1 .. Len(presented)) \cup (0 .. MaxFrames))
  BY <1>2, FS_Union
<1>4. Replaced \subseteq (1 .. Len(presented)) \cup (0 .. MaxFrames)
  BY <1>1 DEF Replaced, Nets
<1>5. IsFiniteSet(Replaced)
  BY <1>3, <1>4, FS_Subset
<1>6. Nets \subseteq Replaced
  BY DEF Replaced
<1> QED BY <1>5, <1>6, FS_Subset, FS_CardinalityType

(* A step that submits no "encode" and executes nothing adds no frame.            *)
LEMMA ReplacedKept ==
    ASSUME UNCHANGED <<presented, target>>,
           \A i \in DOMAIN queue' : queue'[i].op = "encode" => i \in DOMAIN queue /\ queue'[i] = queue[i]
    PROVE  Replaced' \subseteq Replaced
<1>1. ASSUME NEW n, NEW i \in DOMAIN queue', queue'[i] = Item("encode", n)
      PROVE  i \in DOMAIN queue /\ queue[i] = Item("encode", n)
  BY <1>1 DEF Item
<1>2. Nets' = Nets
  BY DEF Nets
<1> QED BY <1>1, <1>2 DEF Replaced

(* The picture an "encode" leaves in the target is the one it was submitted for; *)
(* a "present" shows the one drawn for its frame.                            *)
LEMMA ReplacedPop ==
    ASSUME TypeOK, OwnPicture, Screen, Presents, D3DStep
    PROVE  Replaced' \subseteq Replaced
<1>1. /\ Len(queue) \in Nat \ {0}
      /\ DOMAIN queue = 1 .. Len(queue)
      /\ DOMAIN queue' = 1 .. Len(queue) - 1
      /\ \A i \in 1 .. Len(queue) - 1 : queue'[i] = queue[i + 1] /\ i + 1 \in DOMAIN queue
      /\ Head(queue) = queue[1] /\ 1 \in DOMAIN queue /\ queue[1] \in Entries
  BY PopIndex
<1>2. target \in Image /\ presented \in Seq(Image)
  BY DEF TypeOK
<1>3. ASSUME NEW n \in 0 .. MaxFrames, target' = Net(n)
      PROVE  n \in Replaced
  <2>1. CASE queue[1].op = "encode"
    <3>1. target' = texture /\ texture = Net(queue[1].n)
      BY <1>1, <2>1 DEF D3DStep, OwnPicture
    <3>2. queue[1].n = n
      BY <1>3, <3>1 DEF Net
    <3>3. queue[1] = Item("encode", n)
      BY <1>1, <2>1, <3>2 DEF Item, Entries
    <3> QED BY <1>1, <3>3 DEF Replaced
  <2>2. CASE queue[1].op = "draw"
    <3>1. target' = Raw(queue[1].n)
      BY <1>1, <2>2 DEF D3DStep
    <3> QED BY <1>3, <3>1 DEF Raw, Net
  <2>3. CASE queue[1].op \notin {"encode", "draw"}
    <3>1. target' = target
      BY <1>1, <2>3 DEF D3DStep
    <3> QED BY <1>3, <3>1 DEF Replaced
  <2> QED BY <2>1, <2>2, <2>3
<1>4. ASSUME NEW n \in 0 .. MaxFrames, NEW i \in DOMAIN queue', queue'[i] = Item("encode", n)
      PROVE  n \in Replaced
  <2>1. queue[i + 1] = Item("encode", n) /\ i + 1 \in DOMAIN queue
    BY <1>1, <1>4
  <2> QED BY <2>1 DEF Replaced
<1>5. ASSUME NEW n \in DOMAIN presented', presented'[n].net
      PROVE  n \in Replaced
  <2>1. CASE queue[1].op = "present"
    <3>1. presented' = Append(presented, target)
      BY <1>1, <2>1 DEF D3DStep
    <3>2. /\ n \in DOMAIN presented \/ n = Len(presented) + 1
          /\ n \in DOMAIN presented => presented'[n] = presented[n]
          /\ n = Len(presented) + 1 => presented'[n] = target
      BY <1>2, <1>5, <3>1, AppendFacts
    <3>3. CASE n \in DOMAIN presented
      BY <1>5, <3>2, <3>3 DEF Replaced, Nets
    <3>4. CASE n = Len(presented) + 1
      <4>1. queue[1].n = n
        BY <1>1, <2>1, <3>4, NextPresented DEF D3DStep
      <4>2. target.frame = n
        BY <1>1, <2>1, <4>1 DEF Screen, Shows
      <4>3. target = Net(n) /\ n \in 0 .. MaxFrames
        <5>1. target.net = TRUE
          BY <1>2, <1>5, <3>2, <3>4 DEF Image
        <5> QED BY <1>2, <4>2, <5>1 DEF Image, Net
      <4> QED BY <4>3 DEF Replaced
    <3> QED BY <3>2, <3>3, <3>4
  <2>2. CASE queue[1].op # "present"
    <3>1. presented' = presented
      BY <1>1, <2>2 DEF D3DStep
    <3> QED BY <1>5, <3>1 DEF Replaced, Nets
  <2> QED BY <2>1, <2>2
<1> QED BY <1>3, <1>4, <1>5 DEF Replaced, Nets

(* Only Encode makes one more frame the network's.                            *)
LEMMA ReplacedStep ==
    ASSUME TypeOK, OwnPicture, Screen, Presents, [Next]_vars
    PROVE  /\ ~Encode => Replaced' \subseteq Replaced
           /\ Encode => Replaced' \subseteq Replaced \cup {frame}
<1>1. CASE D3DStep
  <2>1. ~Encode \/ Replaced' \subseteq Replaced \cup {frame}
    BY <1>1, ReplacedPop
  <2> QED BY <1>1, <2>1, ReplacedPop
<1>2. CASE WorkerStep \/ WorkerFails \/ HipStep \/ StreamLost \/ UNCHANGED vars
  <2>1. UNCHANGED <<queue, presented, target>>
    BY <1>2, WorkerKeeps DEF HipStep, StreamLost, vars, d3d
  <2> QED BY <2>1, ReplacedKept
<1>3. CASE Draw \/ Present
  <2>1. Item("draw", frame + 1) \in Entries /\ Item("present", frame) \in Entries
    BY EntryTypes DEF Item, Entries, QueueOps
  <2>2. /\ Item("draw", frame + 1).op # "encode"
        /\ Item("present", frame).op # "encode"
    BY DEF Item
  <2>3. \A i \in DOMAIN queue' : queue'[i].op = "encode" => i \in DOMAIN queue /\ queue'[i] = queue[i]
    <3>1. CASE Draw
      BY <2>1, <2>2, <3>1, AppendIndex DEF Draw
    <3>2. CASE Present
      BY <2>1, <2>2, <3>2, AppendIndex DEF Present
    <3> QED BY <1>3, <3>1, <3>2
  <2>4. UNCHANGED <<presented, target>>
    BY <1>3 DEF Draw, Present, d3d
  <2> QED BY <2>3, <2>4, ReplacedKept
<1>4. CASE Decode \/ SubmitTexture \/ Receive
  <2>1. ASSUME NEW at, NEW op \in Lists \ {"encode"}, NEW next, Submits(at, op, next)
        PROVE  Replaced' \subseteq Replaced
    <3>1. \A i \in DOMAIN queue' :
             \/ i \in DOMAIN queue /\ queue'[i] = queue[i]
             \/ i = Len(queue) + 1 /\ queue'[i] = Item(op, frame)
             \/ i > Len(queue) + 1 /\ queue'[i].op \in {"ready", "host"}
      BY <2>1, SubmitsIndex
    <3>2. Item(op, frame).op # "encode"
      BY <2>1 DEF Item
    <3>3. UNCHANGED <<presented, target>>
      BY <2>1 DEF Submits, d3d
    <3> QED BY <3>1, <3>2, <3>3, ReplacedKept
  <2> QED BY <1>4, <2>1, Submissions DEF Lists
<1>5. CASE Encode
  <2>1. Submits("output", "encode", "encoded")
    BY <1>5, Submissions
  <2>2. \A i \in DOMAIN queue' :
           \/ i \in DOMAIN queue /\ queue'[i] = queue[i]
           \/ i = Len(queue) + 1 /\ queue'[i] = Item("encode", frame)
           \/ i > Len(queue) + 1 /\ queue'[i].op \in {"ready", "host"}
    BY <2>1, SubmitsIndex
  <2>3. UNCHANGED <<presented, target>>
    BY <2>1 DEF Submits, d3d
  <2>4. ASSUME NEW n, NEW i \in DOMAIN queue', queue'[i] = Item("encode", n)
        PROVE  (i \in DOMAIN queue /\ queue[i] = Item("encode", n)) \/ n = frame
    BY <2>2, <2>4 DEF Item
  <2>5. Nets' = Nets
    BY <2>3 DEF Nets
  <2> QED BY <1>5, <2>3, <2>4, <2>5 DEF Replaced
<1>6. CASE Moves /\ ~Draw /\ ~Present /\ ~Decode /\ ~SubmitTexture /\ ~Receive /\ ~Encode
  <2>1. UNCHANGED <<queue, presented, target>>
    BY <1>6, QueueKept, MovesKeep DEF d3d
  <2> QED BY <2>1, ReplacedKept
<1> QED BY <1>1, <1>2, <1>3, <1>4, <1>5, <1>6, NextMoves DEF Background

LEMMA BudgetInit == Init => Budget
<1> SUFFICES ASSUME Init PROVE Budget
  OBVIOUS
<1>1. /\ DOMAIN queue = {} /\ DOMAIN presented = {} /\ target = Raw(0) /\ frames = 0 /\ phase = "game"
  BY DEF Init
<1>2. Replaced = {}
  BY <1>1 DEF Replaced, Nets, Raw, Net
<1>3. Cardinality(Replaced) = 0
  BY <1>2, FS_EmptySet
<1> QED BY <1>1, <1>3, BoundsAssumption DEF Budget

(* One more frame may be the network's from its encoding to the worker's release, *)
(* where it is counted.                                                      *)
LEMMA BudgetStep ==
    ASSUME TypeOK, TypeOK', StateAt, OwnPicture, Screen, Presents, Budget, [Next]_vars
    PROVE  Budget'
<1> DEFINE Open == {"encoded", "consumed", "released"}
           Over == {"close", "closed", "exit"}
           c == Cardinality(Replaced)
<1>1. /\ c \in Nat /\ c' \in Nat
      /\ ~Encode => c' <= c
      /\ Encode => c' <= c + 1
  <2>1. IsFiniteSet(Replaced) /\ c \in Nat
    BY ReplacedFinite
  <2>3. CASE ~Encode
    <3>1. Replaced' \subseteq Replaced
      BY <2>3, ReplacedStep
    <3>2. Cardinality(Replaced') <= Cardinality(Replaced) /\ Cardinality(Replaced') \in Nat
      BY <2>1, <3>1, FS_Subset, FS_CardinalityType
    <3> QED BY <2>1, <2>3, <3>2
  <2>4. CASE Encode
    <3>1. Replaced' \subseteq Replaced \cup {frame}
      BY <2>4, ReplacedStep
    <3>2. IsFiniteSet(Replaced \cup {frame}) /\ Cardinality(Replaced \cup {frame}) <= c + 1
          /\ Cardinality(Replaced \cup {frame}) \in Nat
      BY <2>1, FS_AddElement, FS_CardinalityType
    <3>3. Cardinality(Replaced') <= Cardinality(Replaced \cup {frame})
          /\ Cardinality(Replaced') \in Nat
      BY <3>1, <3>2, FS_Subset, FS_CardinalityType
    <3> QED BY <2>1, <2>4, <3>2, <3>3
  <2> QED BY <2>3, <2>4
<1>2. frames \in 0 .. Limit /\ frames' \in 0 .. Limit /\ Limit \in Nat
  BY BoundsAssumption DEF TypeOK
<1>3. /\ c <= Limit
      /\ ~failed /\ phase \notin Open => c <= frames
      /\ phase \in Open => c <= frames + 1
      /\ ~failed /\ ~finished /\ phase \notin Over => frames < Limit
  BY DEF Budget
<1>4. SUFFICES /\ c' <= Limit
               /\ ~failed' /\ phase' \notin Open => c' <= frames'
               /\ phase' \in Open => c' <= frames' + 1
               /\ ~failed' /\ ~finished' /\ phase' \notin Over => frames' < Limit
  BY DEF Budget
<1> HIDE DEF c
<1>5. CASE Background \/ UNCHANGED vars
  <2>1. UNCHANGED <<phase, failed, finished, frames>>
    BY <1>5, BackgroundKeeps
  <2>2. ~Encode \/ c' <= c
    <3>1. Encode => phase = "output" /\ (phase' = "encoded" \/ phase' = "present")
      BY Submissions DEF Submits, Fail
    <3> QED BY <2>1, <3>1
  <2> QED BY <1>1, <1>2, <1>3, <2>1, <2>2
<1>6. CASE Encode
  <2>1. phase = "output" /\ UNCHANGED frames /\ (failed' \/ phase' = "encoded") 
        /\ (phase' = "encoded" \/ phase' = "present")
        /\ (failed' \/ UNCHANGED <<failed, finished>>)
    BY <1>6, Submissions DEF Submits, Fail, addon
  <2>2. ~failed /\ ~finished
    BY <2>1 DEF StateAt, Outside
  <2>3. c <= frames /\ frames < Limit
    BY <1>3, <2>1, <2>2
  <2> QED BY <1>1, <1>2, <1>6, <2>1, <2>2, <2>3
<1>7. CASE Moves /\ ~Encode
  <2>1. c' <= c
    BY <1>1, <1>7
  <2>2. CASE ReadReleased
    <3>1. /\ phase = "released" /\ frames' = frames + 1 /\ phase' \in {"close", "present"}
          /\ phase' = "close" \/ frames' < Limit
      BY <1>2, <2>2 DEF ReadReleased, Answer, LastFrame
    <3> QED BY <1>1, <1>2, <1>3, <2>1, <3>1
  <2>3. CASE ~ReadReleased
    <3>1. /\ UNCHANGED frames
          /\ failed => failed'
          /\ failed' \/ (phase \in Open <=> phase' \in Open)
          /\ phase' \in Open => phase \in Open
          /\ failed' \/ finished' \/ phase' \in Over \/ (~finished /\ phase \notin Over)
      <4>1. CASE Draw \/ Present \/ RuntimeDestroyed \/ Skip \/ Enter \/ Refuse
        BY <4>1 DEF Draw, Present, RuntimeDestroyed, Skip, Enter, Refuse, Fail, addon
      <4>2. CASE NoAnswer
        BY <4>2 DEF NoAnswer, Fail
      <4>3. CASE ReadHello \/ ReadReady \/ ReadClosed \/ ReadDone
        BY <4>3 DEF ReadHello, ReadReady, ReadClosed, ReadDone, Answer, Fail, addon, StateAt, Outside
      <4>4. CASE SendPrepare \/ SendFrame \/ SendConsumed \/ SendClose
        BY <4>4 DEF SendPrepare, SendFrame, SendConsumed, SendClose, Send, Fail, addon, StateAt, Outside
      <4>5. CASE Decode \/ SubmitTexture \/ Receive
        BY <4>5, Submissions DEF Submits, Fail, addon, StateAt, Outside
      <4>6. CASE WaitDecoded \/ WaitSubmitted \/ WaitReceived \/ WaitEncoded
        BY <4>6 DEF WaitDecoded, WaitSubmitted, WaitReceived, WaitEncoded, WaitHost, Fail, addon,
           StateAt, Outside
      <4>7. CASE Close
        BY <4>7 DEF Close, Fail
      <4> QED BY <1>7, <2>3, <4>1, <4>2, <4>3, <4>4, <4>5, <4>6, <4>7 DEF Moves, Callback
    <3> QED BY <1>1, <1>2, <1>3, <2>1, <3>1
  <2> QED BY <2>2, <2>3
<1> QED BY <1>5, <1>6, <1>7, NextMoves

-----------------------------------------------------------------------------
(* The invariant is inductive.  The proof is by the parts of the invariant.    *)

(* Every step keeps the invariant, part by part.                              *)
LEMMA InvariantStep == PreviewInv /\ [Next]_vars => PreviewInv'
<1> SUFFICES ASSUME PreviewInv, [Next]_vars PROVE PreviewInv'
  OBVIOUS
<1>1. TypeOK /\ StateAt /\ Allocator /\ Turns /\ Lease /\ Released
  BY DEF PreviewInv
<1>2. OwnList /\ OwnPicture /\ OwnResult /\ Screen /\ Presents /\ Budget
  BY DEF PreviewInv
<1>3. TypeOK'
  BY <1>1, <1>2, TypeStep
<1>4. StateAt' /\ Allocator' /\ Turns'
  BY <1>1, StateStep, AllocatorStep, TurnsStep
<1>5. Lease' /\ Released'
  BY <1>1, LeaseStep, ReleasedStep
<1>6. OwnList'
  BY <1>1, <1>2, <1>3, <1>4, OwnListStep
<1>7. OwnPicture' /\ OwnResult'
  BY <1>1, <1>2, PictureStep, ResultStep
<1>8. Screen' /\ Presents'
  BY <1>1, <1>2, <1>3, ScreenStep, PresentsStep
<1>9. Budget'
  BY <1>1, <1>2, <1>3, BudgetStep
<1> QED BY <1>3, <1>4, <1>5, <1>6, <1>7, <1>8, <1>9 DEF PreviewInv

(* In every state the processes, the pipes, the stream and the queue have the    *)
(* order PreviewInv describes.                                               *)
THEOREM Invariance == Spec => []PreviewInv
<1>1. Init => PreviewInv
  BY TypeInit, StateInit, AllocatorInit, TurnsInit, LeaseInit, OwnInit, ScreenInit, BudgetInit
     DEF PreviewInv
<1>2. PreviewInv /\ [Next]_vars => PreviewInv'
  BY InvariantStep
<1> QED BY <1>1, <1>2, PTL DEF Spec

(* Every variable has its type: no counter leaves the range the two processes     *)
(* and the session's limit give it.                                          *)
THEOREM TypeCorrect == Spec => []TypeOK
<1>1. PreviewInv => TypeOK
  BY DEF PreviewInv
<1> QED BY <1>1, Invariance, PTL

-----------------------------------------------------------------------------
(* Sharing.                                                                 *)

(* One list on the queue, and the stream idle with it.                        *)
LEMMA Exclusively == PreviewInv => BuffersExclusive
<1> SUFFICES ASSUME PreviewInv PROVE BuffersExclusive
  OBVIOUS
<1>1. \A i, j \in QueueHas(Lists) : i = j
  BY DEF PreviewInv, Allocator, QueueHas, Listed
<1>2. Cardinality(QueueHas(Lists)) <= 1
  <2>1. CASE QueueHas(Lists) = {}
    <3>1. Cardinality(QueueHas(Lists)) = 0
      BY <2>1, FS_EmptySet
    <3> QED BY <3>1
  <2>2. CASE QueueHas(Lists) # {}
    <3>1. PICK i : i \in QueueHas(Lists)
      BY <2>2
    <3>2. QueueHas(Lists) = {i}
      BY <1>1, <3>1
    <3>3. Cardinality(QueueHas(Lists)) = 1
      BY <3>2, FS_Singleton
    <3> QED BY <3>3
  <2> QED BY <2>1, <2>2
<1>3. ASSUME NEW op \in Lists, QueueHas({op}) # {}
      PROVE  stream = <<>>
  <2>1. PICK i : i \in QueueHas({op})
    BY <1>3
  <2>2. Listed(i) /\ i \in DOMAIN queue
    BY <2>1 DEF QueueHas, Listed
  <2> QED BY <2>2 DEF PreviewInv, Turns
<1>4. stream = <<>> => StreamHas({"copyin"}) = {} /\ StreamHas({"copyout"}) = {}
  BY DEF StreamHas
<1> QED BY <1>2, <1>3, <1>4 DEF BuffersExclusive, Lists

(* The allocator, the input buffer and the output buffer have one user each, for  *)
(* every number of frames and after every failure: begin() resets an allocator   *)
(* whose list is done, and the two GPUs never work on a shared buffer at once.   *)
THEOREM Exclusive == Spec => []BuffersExclusive
BY Exclusively, Invariance, PTL

(* When the host may offer a frame, the worker has let go of the last one.       *)
THEOREM Agrees == Spec => []LeaseAgrees
<1>1. PreviewInv => LeaseAgrees
  BY DEF PreviewInv, Lease, LeaseAgrees
<1> QED BY <1>1, Invariance, PTL

(* Close succeeds when the host fence is reached and the worker has gone.     *)
LEMMA FreedIsIdle == PreviewInv => ReleasedIsIdle
<1> SUFFICES ASSUME PreviewInv, freed
             PROVE  QueueHas(Lists) = {} /\ stream = <<>> /\ worker = "exited"
  BY DEF ReleasedIsIdle
<1>1. finished /\ worker = "exited"
  BY DEF PreviewInv, Released
<1>2. ~failed /\ phase \in Outside
  BY <1>1 DEF PreviewInv, StateAt
<1>3. TypeOK /\ Allocator
  BY DEF PreviewInv
<1>4. hostFence = hostValue
  BY <1>2, <1>3 DEF Allocator, Outside, Waiting
<1>5. QueueHas(Lists) = {}
  BY <1>2, <1>3, <1>4, NoList DEF QueueHas, Listed
<1>6. stream = <<>>
  BY <1>1 DEF PreviewInv, Turns, Channels, Running
<1> QED BY <1>1, <1>5, <1>6

(* What bridge.close() and delete surface release, no GPU and no process uses.    *)
THEOREM ReleasedQuiet == Spec => []ReleasedIsIdle
BY FreedIsIdle, Invariance, PTL

-----------------------------------------------------------------------------
(* What the player sees is a PreviewService.                                   *)

Stopped == (failed \/ finished) /\ QueueHas({"encode"}) = {} /\ ~target.net

(* The initial state is the service's.                                        *)
LEMMA ServiceInit == Init => Preview!Init
<1> SUFFICES ASSUME Init PROVE Preview!Init
  OBVIOUS
<1>1. presented = <<>> /\ failed = FALSE /\ finished = FALSE
  BY DEF Init
<1>2. {i \in DOMAIN presented : presented[i].net} = {}
  BY <1>1
<1>3. Cardinality({i \in DOMAIN presented : presented[i].net}) = 0
  BY <1>2, FS_EmptySet
<1>4. Limit - Cardinality({i \in DOMAIN presented : presented[i].net}) = Limit
  BY <1>3, BoundsAssumption
<1>5. Stopped = FALSE
  BY <1>1 DEF Stopped
<1> QED BY <1>1, <1>4, <1>5 DEF Preview!Init, Stopped

(* Once stopped, the preview encodes nothing any more.                           *)
LEMMA StaysStopped ==
    ASSUME PreviewInv, Stopped, [Next]_vars
    PROVE  Stopped'
<1>1. TypeOK /\ StateAt
  BY DEF PreviewInv
<1>2. /\ failed \/ finished
      /\ target.net = FALSE
      /\ \A i \in DOMAIN queue : queue[i].op # "encode"
  BY <1>1 DEF Stopped, QueueHas, TypeOK, Image
<1>3. phase \in Outside
  BY <1>1, <1>2 DEF StateAt
<1>4. ~Encode
  BY <1>1, <1>3, Submissions DEF Submits, Outside
<1>5. failed' \/ finished'
  <2>1. CASE Moves
    <3>1. CASE Draw \/ Present \/ RuntimeDestroyed \/ Skip
      BY <1>2, <3>1 DEF Stopped, Draw, Present, RuntimeDestroyed, Skip, addon
    <3>2. CASE Enter \/ Refuse
      BY <3>2, <1>2, <1>3 DEF Stopped, Enter, Refuse, Fail, addon, Outside
    <3>3. CASE ~(Draw \/ Present \/ RuntimeDestroyed \/ Skip \/ Enter \/ Refuse)
      <4>1. phase \notin Outside
        BY <1>1, <2>1, <3>3, Submissions DEF Moves, Callback, NoAnswer, Expected, ReadHello,
           SendPrepare, ReadReady, WaitDecoded, WaitSubmitted, SendFrame, ReadDone, WaitReceived,
           WaitEncoded, SendConsumed, ReadReleased, SendClose, ReadClosed, Close, Answer, Send,
           WaitHost, Submits, Outside
      <4> QED BY <1>3, <4>1
    <3> QED BY <3>1, <3>2, <3>3
  <2>2. CASE Background \/ UNCHANGED vars
    BY <2>2, BackgroundKeeps DEF Stopped
  <2> QED BY <2>1, <2>2, NextMoves
<1>6. \A i \in DOMAIN queue' : queue'[i].op # "encode"
  <2>1. CASE D3DStep
    BY <1>1, <1>2, <2>1, PopIndex
  <2>2. CASE Draw \/ Present
    <3>1. Item("draw", frame + 1) \in Entries /\ Item("present", frame) \in Entries
      BY <1>1, EntryTypes DEF Item, Entries, QueueOps
    <3>2. Item("draw", frame + 1).op # "encode" /\ Item("present", frame).op # "encode"
      BY DEF Item
    <3>3. CASE Draw
      BY <1>1, <1>2, <3>1, <3>2, <3>3, AppendIndex DEF Draw
    <3>4. CASE Present
      BY <1>1, <1>2, <3>1, <3>2, <3>4, AppendIndex DEF Present
    <3> QED BY <2>2, <3>3, <3>4
  <2>3. CASE Decode \/ SubmitTexture \/ Receive
    BY <1>1, <1>3, <2>3, Submissions DEF Submits, Outside
  <2>4. CASE Moves /\ ~Draw /\ ~Present /\ ~Decode /\ ~SubmitTexture /\ ~Receive
    BY <1>1, <1>2, <1>4, <2>4, QueueKept
  <2>5. CASE WorkerStep \/ WorkerFails \/ HipStep \/ StreamLost \/ UNCHANGED vars
    <3>1. UNCHANGED queue
      BY <2>5, WorkerKeeps DEF HipStep, StreamLost, vars
    <3> QED BY <1>2, <3>1
  <2> QED BY <2>1, <2>2, <2>3, <2>4, <2>5, NextMoves DEF Background
<1>7. ~target'.net
  <2>1. CASE D3DStep
    <3>1. Head(queue) = queue[1] /\ 1 \in DOMAIN queue
      BY <1>1, <2>1, PopIndex
    <3>2. target' = Raw(Head(queue).n) \/ target' = target
      BY <1>2, <2>1, <3>1 DEF D3DStep
    <3> QED BY <3>2 DEF Raw, Stopped
  <2>2. CASE ~D3DStep
    <3>1. UNCHANGED target
      BY <1>1, <2>2, NextMoves, MovesKeep, WorkerKeeps DEF Background, HipStep, StreamLost, vars, d3d
    <3> QED BY <3>1 DEF Stopped
  <2> QED BY <2>1, <2>2
<1> QED BY <1>5, <1>6, <1>7 DEF Stopped, QueueHas

(* The queue presents a frame: the image the target has, of the next frame.       *)
LEMMA ServicePresents ==
    ASSUME PreviewInv, D3DStep, queue[1].op = "present"
    PROVE  Preview!Next
<1>1. TypeOK /\ Screen /\ Presents /\ Budget
  BY DEF PreviewInv
<1>2. /\ DOMAIN queue = 1 .. Len(queue) /\ Len(queue) \in Nat \ {0}
      /\ DOMAIN queue' = 1 .. Len(queue) - 1
      /\ \A i \in 1 .. Len(queue) - 1 : queue'[i] = queue[i + 1] /\ i + 1 \in DOMAIN queue
      /\ Head(queue) = queue[1] /\ 1 \in DOMAIN queue
  BY <1>1, PopIndex
<1>3. presented' = Append(presented, target) /\ UNCHANGED <<target, failed, finished>>
  BY <1>2 DEF D3DStep, addon
<1>4. presented \in Seq(Image) /\ target \in Image
  BY <1>1 DEF TypeOK
<1>5. queue[1].n = Len(presented) + 1
  BY <1>1, NextPresented DEF D3DStep
<1>6. target.frame = Len(presented) + 1
  BY <1>1, <1>2, <1>5 DEF Screen, Shows
<1>7. /\ Len(presented) \in Nat
      /\ DOMAIN presented = 1 .. Len(presented)
      /\ DOMAIN presented' = 1 .. Len(presented) + 1
      /\ \A i \in 1 .. Len(presented) : presented'[i] = presented[i]
      /\ presented'[Len(presented) + 1] = target
  BY <1>3, <1>4, AppendFacts
<1> DEFINE N == Len(presented) + 1
<1>8. IsFiniteSet(Nets) /\ Cardinality(Nets) \in Nat /\ Limit \in Nat /\ N \notin Nets
  <2>1. N \notin Nets
    BY <1>7 DEF Nets
  <2> QED BY <1>1, <2>1, ReplacedFinite, FS_CardinalityType, BoundsAssumption
<1>9. CASE target.net = FALSE
  <2>1. target = Raw(N)
    BY <1>4, <1>6, <1>9 DEF Image, Raw
  <2>2. Nets' = Nets
    BY <1>7, <1>9 DEF Nets
  <2>3. QueueHas({"encode"})' = {} <=> QueueHas({"encode"}) = {}
    <3>1. \A i \in DOMAIN queue' : queue'[i].op = "encode" => i + 1 \in QueueHas({"encode"})
      BY <1>2 DEF QueueHas
    <3>2. \A i \in QueueHas({"encode"}) : i - 1 \in DOMAIN queue' /\ queue'[i - 1].op = "encode"
      <4> SUFFICES ASSUME NEW i \in QueueHas({"encode"})
                   PROVE  i - 1 \in DOMAIN queue' /\ queue'[i - 1].op = "encode"
        OBVIOUS
      <4>1. i \in DOMAIN queue /\ queue[i].op = "encode"
        BY DEF QueueHas
      <4>2. i # 1
        BY <4>1
      <4>3. i - 1 \in 1 .. Len(queue) - 1 /\ (i - 1) + 1 = i
        BY <1>2, <4>1, <4>2
      <4>4. queue'[i - 1] = queue[(i - 1) + 1]
        BY <1>2, <4>3
      <4> QED BY <1>2, <4>1, <4>3, <4>4
    <3> QED BY <3>1, <3>2 DEF QueueHas
  <2>4. Stopped' <=> Stopped
    BY <1>3, <2>3 DEF Stopped
  <2>5. Preview!PresentOriginal
    BY <1>3, <2>1, <2>2, <2>4 DEF Preview!PresentOriginal, Preview!Raw, Raw, Nets, Stopped
  <2> QED BY <2>5 DEF Preview!Next
<1>10. CASE target.net = TRUE
  <2>1. target = Net(N)
    BY <1>4, <1>6, <1>10 DEF Image, Net
  <2>2. Nets' = Nets \cup {N}
    BY <1>7, <1>10 DEF Nets
  <2>3. Cardinality(Nets') = Cardinality(Nets) + 1
    BY <1>8, <2>2, FS_AddElement
  <2>4. Cardinality(Nets) + 1 <= Limit
    <3>1. N \in 0 .. MaxFrames
      BY <1>4, <1>6 DEF Image
    <3>2. Nets \cup {N} \subseteq Replaced
      BY <2>1, <3>1 DEF Replaced
    <3>3. Cardinality(Nets \cup {N}) <= Cardinality(Replaced)
      BY <1>1, <3>2, ReplacedFinite, FS_Subset
    <3>4. Cardinality(Replaced) <= Limit /\ Cardinality(Replaced) \in Nat
      BY <1>1, ReplacedFinite DEF Budget
    <3> QED BY <1>8, <2>2, <2>3, <3>3, <3>4
  <2>5. /\ Limit - Cardinality(Nets) > 0
        /\ Limit - Cardinality(Nets') = (Limit - Cardinality(Nets)) - 1
    BY <1>8, <2>3, <2>4
  <2>6. ~Stopped /\ Stopped' \in BOOLEAN
    BY <1>10 DEF Stopped
  <2>7. Preview!PresentProcessed
    BY <1>3, <2>1, <2>5, <2>6 DEF Preview!PresentProcessed, Preview!Net, Net, Nets, Stopped
  <2> QED BY <2>7 DEF Preview!Next
<1> QED BY <1>4, <1>9, <1>10 DEF Image

(* A step is one of the service's, or leaves what the player sees.            *)
LEMMA ServiceStep == PreviewInv /\ [Next]_vars => [Preview!Next]_(Preview!vars)
<1> SUFFICES ASSUME PreviewInv, [Next]_vars PROVE [Preview!Next]_(Preview!vars)
  OBVIOUS
<1>1. TypeOK
  BY DEF PreviewInv
<1>2. CASE D3DStep /\ queue[1].op = "present"
  BY <1>2, ServicePresents
<1>3. CASE ~(D3DStep /\ queue[1].op = "present")
  <2>1. UNCHANGED presented
    <3>1. CASE D3DStep
      BY <1>1, <1>3, <3>1, PopIndex DEF D3DStep
    <3>2. CASE ~D3DStep
      BY <1>1, <3>2, NextMoves, MovesKeep, WorkerKeeps DEF Background, HipStep, StreamLost, vars, d3d
    <3> QED BY <3>1, <3>2
  <2>2. CASE Stopped
    <3>1. Stopped'
      BY <2>2, StaysStopped
    <3> QED BY <2>1, <2>2, <3>1 DEF Preview!vars, Stopped
  <2>3. CASE ~Stopped /\ ~Stopped'
    BY <2>1, <2>3 DEF Preview!vars, Stopped
  <2>4. CASE ~Stopped /\ Stopped'
    BY <2>1, <2>4 DEF Preview!Next, Preview!Stop, Stopped
  <2> QED BY <2>2, <2>3, <2>4
<1> QED BY <1>2, <1>3

(* Whatever fails and in whatever order, every frame on screen is that frame, as  *)
(* the game drew it or as the network made it; the network's are at most Limit,  *)
(* and there are none after a stop.                                          *)
THEOREM Implements == Spec => PreviewSpec
<1>1. Init => Preview!Init
  BY ServiceInit
<1>2. PreviewInv /\ [Next]_vars => [Preview!Next]_(Preview!vars)
  BY ServiceStep
<1> QED BY <1>1, <1>2, Invariance, PTL DEF Spec, PreviewSpec, Preview!Spec
=============================================================================
