------------------------ MODULE ResidentPresentProofs ------------------------
(***************************************************************************)
(* Theorems about ResidentPresent for every number of swap chains and        *)
(* frames, every limit and every mixture of failures: a Present shows the   *)
(* frame of its own call, one chain shows at most `Limit` processed frames,  *)
(* a surface outlives the lists that touch it, and a session ends once.      *)
(***************************************************************************)
EXTENDS ResidentPresent, TLAPS

(* Inside the critical section of Process, and with a frame under way that  *)
(* is not counted yet.                                                     *)
Serving == {"read", "reading", "ask", "answer", "write", "writing", "save"}
InFlight(s) == render[s].phase \in Serving \/ render[s].processed

(* A present is still to be executed for the call under way, and could show *)
(* a processed frame: it is counted ahead of the queue.                     *)
Unshown(s) == render[s].phase \notin {"game", "complete"} \/ Queued(s, "present")
MayBeNet(s) == buffer[s].net \/ Queued(s, "write") \/ render[s].phase \in Serving
Ahead(s) == Unshown(s) /\ MayBeNet(s)
Due(s) == shown[s].processed + (IF Ahead(s) THEN 1 ELSE 0)
Touched(s) == Due(s) > 0 \/ InFlight(s)

(* The mutex is held by the chain inside the critical section, or by Start. *)
Held ==
    /\ \A s \in Swaps : serial = s <=> render[s].phase \in Serving
    /\ serial = "start" => ~observer.everStarted
    /\ observer.enabled => observer.everStarted

(* What each phase of a call has put on the queue.                          *)
ListsOf(s) ==
    /\ render[s].phase \in {"hook", "read", "ask", "answer", "write", "save"} => queue[s] = <<>>
    /\ \A i \in DOMAIN queue[s] :
        /\ queue[s][i].frame = render[s].frame
        /\ queue[s][i].op = "present" => i = Len(queue[s]) /\ render[s].phase \in {"complete", "game"}
        /\ queue[s][i].op = "read" => render[s].phase # "writing"
        /\ queue[s][i].op = "write" => render[s].phase # "reading"

(* The surface lives as long as a list may touch it, and holds the images   *)
(* of the frame under way.                                                 *)
SurfaceOf(s) ==
    /\ Queued(s, "read") \/ Queued(s, "write") =>
          surface[s].uncertain /\ surface[s].state \in {"live", "retained"}
    /\ render[s].phase \in Serving \ {"save"} => surface[s].state = "live"
    /\ render[s].phase = "reading" => Queued(s, "read") \/ surface[s].read.frame = render[s].frame
    /\ render[s].phase \in {"ask", "answer"} => surface[s].read.frame = render[s].frame
    /\ render[s].phase \in {"write", "writing"} \/ Queued(s, "write") =>
          surface[s].upload.frame = render[s].frame

(* The back buffer holds the frame under way or nothing.                    *)
BufferOf(s) ==
    /\ render[s].phase \in {"hook"} \cup Serving => buffer[s].frame = render[s].frame
    /\ buffer[s] = Nothing \/ buffer[s].frame = render[s].frame
    /\ render[s].processed => render[s].phase \in {"present", "nested", "complete"}

ChainOf(s) == ListsOf(s) /\ SurfaceOf(s) /\ BufferOf(s)
Chains == \A s \in Swaps : ChainOf(s)

(* One chain shows processed frames, each of them counted or the one in     *)
(* flight.                                                                 *)
CountOf(s) ==
    /\ Due(s) <= Limit
    /\ Active /\ ~InFlight(s) => Due(s) <= observer.frames
    /\ InFlight(s) => observer.frames < Limit /\ Due(s) <= observer.frames + 1
    /\ Touched(s) =>
          /\ observer.everStarted
          /\ Active => observer.selected = s
          /\ \A t \in Swaps \ {s} : ~Touched(t)

Counts == \A s \in Swaps : CountOf(s)

PresentInv == TypeOK /\ Held /\ Chains /\ Counts /\ ShownIsOwn
-----------------------------------------------------------------------------
(* Types.                                                                  *)

ObserverRecords == [enabled : BOOLEAN, failed : BOOLEAN, frames : 0 .. Limit,
                    everStarted : BOOLEAN, selected : Swaps \cup {"none"}]
RenderRecords == [phase : Phases, frame : Numbers, test : BOOLEAN, processed : BOOLEAN]
WorkRecords == [op : Ops, frame : Numbers]
SurfaceRecords == [state : {"none", "live", "retained", "deleted"}, uncertain : BOOLEAN,
                   read : Pictures, upload : Pictures]
ShownRecords == [content : Pictures, call : Numbers, processed : 0 .. Limit]

LEMMA TypesNamed ==
    TypeOK <=>
       /\ serial \in Swaps \cup {"none", "start"}
       /\ observer \in ObserverRecords
       /\ bindings \in [Swaps -> {"none", "sdr", "hdr"}]
       /\ render \in [Swaps -> RenderRecords]
       /\ queue \in [Swaps -> Seq(WorkRecords)]
       /\ buffer \in [Swaps -> Pictures]
       /\ surface \in [Swaps -> SurfaceRecords]
       /\ shown \in [Swaps -> ShownRecords]
BY DEF TypeOK, ObserverRecords, RenderRecords, WorkRecords, SurfaceRecords, ShownRecords

LEMMA Limits == Limit \in Nat \ {0} /\ "none" \notin Swaps /\ "start" \notin Swaps
BY PresentAssumption

LEMMA NumbersAreNats == Numbers \subseteq Nat /\ \A s \in Swaps : 0 .. Frames[s] \subseteq Numbers
BY PresentAssumption DEF Numbers

LEMMA PictureFields ==
    \A n \in Numbers : Raw(n) \in Pictures /\ Net(n) \in Pictures
                       /\ Raw(n).frame = n /\ ~Raw(n).net /\ Net(n).frame = n /\ Net(n).net
BY DEF Raw, Net, Pictures

LEMMA NothingIsPicture ==
    \A s \in Swaps : /\ Nothing \in Pictures /\ 0 \in Numbers
                     /\ Nothing.frame = 0 /\ ~Nothing.net
<1> SUFFICES ASSUME NEW s \in Swaps
             PROVE  Nothing \in Pictures /\ 0 \in Numbers /\ Nothing.frame = 0 /\ ~Nothing.net
  OBVIOUS
<1>1. 0 \in 0 .. Frames[s]
  BY PresentAssumption
<1>2. 0 \in Numbers
  BY <1>1, NumbersAreNats
<1> QED BY <1>2, PictureFields DEF Nothing

LEMMA SurfacesMade ==
    ASSUME NEW s \in Swaps
    PROVE  /\ NoSurface \in SurfaceRecords /\ Deleted \in SurfaceRecords
           /\ [NoSurface EXCEPT !.state = "live"] \in SurfaceRecords
           /\ [NoSurface EXCEPT !.state = "live"].state = "live"
           /\ Deleted.state = "deleted" /\ ~Deleted.uncertain
BY NothingIsPicture DEF NoSurface, Deleted, SurfaceRecords

(* What becomes of the session: it ends, it is selected, it starts.         *)
Ended(old, new) ==
    /\ new \in ObserverRecords /\ ~new.enabled
    /\ new.frames = old.frames /\ new.everStarted = old.everStarted

LEMMA ObserverFields ==
    ASSUME NEW o \in ObserverRecords, NEW b \in BOOLEAN, NEW c \in BOOLEAN, NEW n \in 0 .. Limit,
           NEW e \in BOOLEAN, NEW s \in Swaps \cup {"none"}
    PROVE  /\ [o EXCEPT !.enabled = b, !.failed = c] \in ObserverRecords
           /\ [o EXCEPT !.enabled = b] \in ObserverRecords
           /\ [o EXCEPT !.selected = s] \in ObserverRecords
           /\ [o EXCEPT !.frames = n] \in ObserverRecords
           /\ [o EXCEPT !.everStarted = e, !.frames = n, !.enabled = b] \in ObserverRecords
BY DEF ObserverRecords

LEMMA ObserverUpdates ==
    ASSUME NEW o \in ObserverRecords
    PROVE  /\ Ended(o, Failed(o)) /\ Failed(o).failed /\ Failed(o).selected = o.selected
           /\ Ended(o, Stopped(o)) /\ Stopped(o).failed = o.failed
           /\ Stopped(o).selected = o.selected
<1>1. PICK off \in BOOLEAN : off = FALSE
  OBVIOUS
<1>2. PICK on \in BOOLEAN : on = TRUE
  OBVIOUS
<1>3. /\ Failed(o) = [o EXCEPT !.enabled = off, !.failed = on]
      /\ Stopped(o) = [o EXCEPT !.enabled = off]
  BY <1>1, <1>2, Zenon DEF Failed, Stopped
<1>4. Failed(o) \in ObserverRecords /\ Stopped(o) \in ObserverRecords
  BY <1>3 DEF ObserverRecords
<1>5. /\ ~Failed(o).enabled /\ Failed(o).failed /\ Failed(o).selected = o.selected
      /\ Failed(o).frames = o.frames /\ Failed(o).everStarted = o.everStarted
  BY DEF Failed, ObserverRecords
<1>6. /\ ~Stopped(o).enabled /\ Stopped(o).failed = o.failed /\ Stopped(o).selected = o.selected
      /\ Stopped(o).frames = o.frames /\ Stopped(o).everStarted = o.everStarted
  BY DEF Stopped, ObserverRecords
<1> QED BY <1>4, <1>5, <1>6 DEF Ended
-----------------------------------------------------------------------------
(* What one step of a chain does to its own thread, queue and images.       *)

LEMMA GotoDoes ==
    ASSUME render \in [Swaps -> RenderRecords], NEW s \in Swaps, NEW phase \in Phases,
           Goto(s, phase)
    PROVE  /\ render' \in [Swaps -> RenderRecords]
           /\ \A t \in Swaps \ {s} : render'[t] = render[t]
           /\ render'[s].phase = phase /\ render'[s].frame = render[s].frame
           /\ render'[s].test = render[s].test /\ render'[s].processed = render[s].processed
BY DEF Goto, RenderRecords

LEMMA QueueElements ==
    ASSUME queue \in [Swaps -> Seq(WorkRecords)], NEW s \in Swaps
    PROVE  /\ queue[s] \in Seq(WorkRecords) /\ Len(queue[s]) \in Nat
           /\ DOMAIN queue[s] = 1 .. Len(queue[s])
           /\ \A i \in DOMAIN queue[s] : queue[s][i] \in WorkRecords
<1>1. queue[s] \in Seq(WorkRecords)
  OBVIOUS
<1>2. \A q \in Seq(WorkRecords) : /\ Len(q) \in Nat /\ DOMAIN q = 1 .. Len(q)
                                  /\ \A i \in DOMAIN q : q[i] \in WorkRecords
  OBVIOUS
<1> QED BY <1>1, <1>2

LEMMA PushDoes ==
    ASSUME queue \in [Swaps -> Seq(WorkRecords)], render \in [Swaps -> RenderRecords],
           NEW s \in Swaps, NEW op \in Ops, Push(s, op)
    PROVE  /\ queue' \in [Swaps -> Seq(WorkRecords)]
           /\ \A t \in Swaps \ {s} : queue'[t] = queue[t]
           /\ Len(queue'[s]) = Len(queue[s]) + 1 /\ Len(queue[s]) \in Nat
           /\ DOMAIN queue[s] = 1 .. Len(queue[s])
           /\ DOMAIN queue'[s] = 1 .. Len(queue[s]) + 1
           /\ \A i \in DOMAIN queue[s] : queue'[s][i] = queue[s][i]
           /\ queue'[s][Len(queue[s]) + 1].op = op
           /\ queue'[s][Len(queue[s]) + 1].frame = render[s].frame
           /\ queue'[s] # <<>>
<1>1. PICK work \in WorkRecords : work = [op |-> op, frame |-> render[s].frame]
  BY DEF WorkRecords, RenderRecords
<1>2. queue' = [queue EXCEPT ![s] = Append(queue[s], work)]
  BY <1>1 DEF Push
<1>3. queue[s] \in Seq(WorkRecords)
  OBVIOUS
<1>4. \A q \in Seq(WorkRecords) :
         /\ Append(q, work) \in Seq(WorkRecords)
         /\ Len(Append(q, work)) = Len(q) + 1 /\ Len(q) \in Nat
         /\ DOMAIN q = 1 .. Len(q)
         /\ DOMAIN Append(q, work) = 1 .. Len(q) + 1
         /\ \A i \in DOMAIN q : Append(q, work)[i] = q[i]
         /\ Append(q, work)[Len(q) + 1] = work
         /\ Append(q, work) # <<>>
  OBVIOUS
<1>5. queue'[s] = Append(queue[s], work) /\ queue' \in [Swaps -> Seq(WorkRecords)]
      /\ \A t \in Swaps \ {s} : queue'[t] = queue[t]
  BY <1>2, <1>3, <1>4
<1>6. work.op = op /\ work.frame = render[s].frame
  BY <1>1
<1> QED BY <1>3, <1>4, <1>5, <1>6

LEMMA PushQueues ==
    ASSUME queue \in [Swaps -> Seq(WorkRecords)], render \in [Swaps -> RenderRecords],
           NEW s \in Swaps, NEW op \in Ops, Push(s, op), NEW o \in Ops
    PROVE  Queued(s, o)' <=> (Queued(s, o) \/ o = op)
<1>1. /\ DOMAIN queue[s] = 1 .. Len(queue[s]) /\ Len(queue[s]) \in Nat
      /\ DOMAIN queue'[s] = 1 .. Len(queue[s]) + 1
      /\ \A i \in DOMAIN queue[s] : queue'[s][i] = queue[s][i]
      /\ queue'[s][Len(queue[s]) + 1].op = op
  BY PushDoes
<1>2. ASSUME NEW i \in DOMAIN queue'[s], queue'[s][i].op = o PROVE Queued(s, o) \/ o = op
  <2>1. i \in DOMAIN queue[s] \/ i = Len(queue[s]) + 1
    BY <1>1
  <2> QED BY <1>1, <1>2, <2>1 DEF Queued
<1>3. ASSUME Queued(s, o) PROVE \E i \in DOMAIN queue'[s] : queue'[s][i].op = o
  <2>1. PICK i \in DOMAIN queue[s] : queue[s][i].op = o
    BY <1>3 DEF Queued
  <2>2. i \in DOMAIN queue'[s] /\ queue'[s][i].op = o
    BY <1>1, <2>1
  <2> QED BY <2>2
<1>4. ASSUME o = op PROVE \E i \in DOMAIN queue'[s] : queue'[s][i].op = o
  <2>1. Len(queue[s]) + 1 \in DOMAIN queue'[s]
    BY <1>1
  <2> QED BY <1>1, <1>4, <2>1
<1> QED BY <1>2, <1>3, <1>4 DEF Queued

LEMMA PopDoes ==
    ASSUME queue \in [Swaps -> Seq(WorkRecords)], NEW s \in Swaps, queue[s] # <<>>,
           queue' = [queue EXCEPT ![s] = Tail(@)]
    PROVE  /\ queue' \in [Swaps -> Seq(WorkRecords)]
           /\ \A t \in Swaps \ {s} : queue'[t] = queue[t]
           /\ Head(queue[s]) \in WorkRecords /\ 1 \in DOMAIN queue[s]
           /\ Head(queue[s]) = queue[s][1]
           /\ Len(queue'[s]) = Len(queue[s]) - 1 /\ Len(queue[s]) \in Nat
           /\ DOMAIN queue[s] = 1 .. Len(queue[s])
           /\ DOMAIN queue'[s] = 1 .. Len(queue[s]) - 1
           /\ \A i \in DOMAIN queue'[s] : i + 1 \in DOMAIN queue[s] /\ queue'[s][i] = queue[s][i + 1]
<1>1. queue[s] \in Seq(WorkRecords)
  OBVIOUS
<1>2. \A q \in Seq(WorkRecords) : q # <<>> =>
         /\ Tail(q) \in Seq(WorkRecords) /\ Head(q) \in WorkRecords /\ 1 \in DOMAIN q
         /\ Head(q) = q[1]
         /\ Len(Tail(q)) = Len(q) - 1 /\ Len(q) \in Nat
         /\ DOMAIN q = 1 .. Len(q)
         /\ DOMAIN Tail(q) = 1 .. Len(q) - 1
         /\ \A i \in DOMAIN Tail(q) : i + 1 \in DOMAIN q /\ Tail(q)[i] = q[i + 1]
  OBVIOUS
<1>3. queue'[s] = Tail(queue[s]) /\ \A t \in Swaps \ {s} : queue'[t] = queue[t]
  OBVIOUS
<1>4. queue' \in [Swaps -> Seq(WorkRecords)]
  BY <1>1, <1>2
<1> QED BY <1>1, <1>2, <1>3, <1>4

LEMMA PopQueues ==
    ASSUME queue \in [Swaps -> Seq(WorkRecords)], NEW s \in Swaps, queue[s] # <<>>,
           queue' = [queue EXCEPT ![s] = Tail(@)], NEW o \in Ops
    PROVE  Queued(s, o) <=> (Head(queue[s]).op = o \/ Queued(s, o)')
<1>1. /\ 1 \in DOMAIN queue[s] /\ Head(queue[s]) = queue[s][1]
      /\ DOMAIN queue[s] = 1 .. Len(queue[s]) /\ Len(queue[s]) \in Nat
      /\ DOMAIN queue'[s] = 1 .. Len(queue[s]) - 1
      /\ \A i \in DOMAIN queue'[s] : i + 1 \in DOMAIN queue[s] /\ queue'[s][i] = queue[s][i + 1]
  BY PopDoes
<1>2. ASSUME Queued(s, o)
      PROVE  Head(queue[s]).op = o \/ (\E i \in DOMAIN queue'[s] : queue'[s][i].op = o)
  <2>1. PICK i \in DOMAIN queue[s] : queue[s][i].op = o
    BY <1>2 DEF Queued
  <2>2. i = 1 \/ (i - 1 \in DOMAIN queue'[s] /\ (i - 1) + 1 = i)
    BY <1>1
  <2> QED BY <1>1, <2>1, <2>2
<1>3. ASSUME Head(queue[s]).op = o PROVE Queued(s, o)
  BY <1>1, <1>3 DEF Queued
<1>4. ASSUME NEW i \in DOMAIN queue'[s], queue'[s][i].op = o PROVE Queued(s, o)
  BY <1>1, <1>4 DEF Queued
<1> QED BY <1>2, <1>3, <1>4 DEF Queued
-----------------------------------------------------------------------------
(* Every value keeps its type.                                              *)

Types ==
    /\ observer \in ObserverRecords /\ render \in [Swaps -> RenderRecords]
    /\ queue \in [Swaps -> Seq(WorkRecords)] /\ buffer \in [Swaps -> Pictures]
    /\ surface \in [Swaps -> SurfaceRecords] /\ shown \in [Swaps -> ShownRecords]

LEMMA TypesOfState == TypeOK => Types
BY TypesNamed DEF Types

LEMMA TypesPrime ==
    TypeOK' <=>
       /\ serial' \in Swaps \cup {"none", "start"}
       /\ observer' \in ObserverRecords
       /\ bindings' \in [Swaps -> {"none", "sdr", "hdr"}]
       /\ render' \in [Swaps -> RenderRecords]
       /\ queue' \in [Swaps -> Seq(WorkRecords)]
       /\ buffer' \in [Swaps -> Pictures]
       /\ surface' \in [Swaps -> SurfaceRecords]
       /\ shown' \in [Swaps -> ShownRecords]
BY DEF TypeOK, ObserverRecords, RenderRecords, WorkRecords, SurfaceRecords, ShownRecords

LEMMA TypesInit == Init => TypeOK
<1> SUFFICES ASSUME Init PROVE TypeOK
  OBVIOUS
<1>a. PICK off \in BOOLEAN : off = FALSE
  OBVIOUS
<1>1. \A s \in Swaps :
        /\ [phase |-> "game", frame |-> 0, test |-> off, processed |-> off] \in RenderRecords
        /\ [content |-> Nothing, call |-> 0, processed |-> 0] \in ShownRecords
        /\ NoSurface \in SurfaceRecords /\ Nothing \in Pictures
  <2> TAKE s \in Swaps
  <2>1. NoSurface \in SurfaceRecords /\ Nothing \in Pictures /\ 0 \in Numbers
    BY NothingIsPicture, SurfacesMade
  <2>2. 0 \in 0 .. Limit
    BY Limits
  <2>3. [content |-> Nothing, call |-> 0, processed |-> 0] \in ShownRecords
    BY <2>1, <2>2 DEF ShownRecords
  <2>4. [phase |-> "game", frame |-> 0, test |-> off, processed |-> off] \in RenderRecords
    BY <2>1 DEF RenderRecords, Phases
  <2> QED BY <2>1, <2>3, <2>4
<1>2. observer \in ObserverRecords
  <2>1. PICK none \in 0 .. Limit : none = 0
    BY Limits
  <2>2. observer = [enabled |-> off, failed |-> off, frames |-> none, everStarted |-> off,
                    selected |-> "none"]
    BY <1>a, <2>1, Zenon DEF Init
  <2> QED BY <2>2 DEF ObserverRecords
<1>4. <<>> \in Seq(WorkRecords)
  OBVIOUS
<1>3. queue \in [Swaps -> Seq(WorkRecords)]
  BY <1>4 DEF Init
<1>b. render = [s \in Swaps |-> [phase |-> "game", frame |-> 0, test |-> off, processed |-> off]]
  BY <1>a, Zenon DEF Init
<1>5. /\ render \in [Swaps -> RenderRecords] /\ buffer \in [Swaps -> Pictures]
      /\ surface \in [Swaps -> SurfaceRecords] /\ shown \in [Swaps -> ShownRecords]
  BY <1>1, <1>b DEF Init
<1>6. serial \in Swaps \cup {"none", "start"} /\ bindings \in [Swaps -> {"none", "sdr", "hdr"}]
  BY DEF Init
<1> QED BY <1>2, <1>3, <1>5, <1>6, TypesNamed

LEMMA CommandTypes ==
    ASSUME TypeOK, Start \/ Connect \/ Stop PROVE TypeOK'
<1> USE TypesNamed
<1>0. /\ Failed(observer) \in ObserverRecords /\ Stopped(observer) \in ObserverRecords
      /\ [observer EXCEPT !.everStarted = TRUE, !.frames = 0, !.enabled = TRUE] \in ObserverRecords
  <2>1. PICK on \in BOOLEAN : on = TRUE
    OBVIOUS
  <2>2. PICK none \in 0 .. Limit : none = 0
    BY Limits
  <2>3. [observer EXCEPT !.everStarted = TRUE, !.frames = 0, !.enabled = TRUE]
          = [observer EXCEPT !.everStarted = on, !.frames = none, !.enabled = on]
    BY <2>1, <2>2, Zenon
  <2> HIDE TypesNamed
  <2>4. [observer EXCEPT !.everStarted = on, !.frames = none, !.enabled = on] \in ObserverRecords
    BY ObserverFields, TypesOfState DEF Types
  <2>5. Failed(observer) \in ObserverRecords /\ Stopped(observer) \in ObserverRecords
    BY ObserverUpdates, TypesOfState DEF Types, Ended
  <2> QED BY <2>3, <2>4, <2>5
<1>1. CASE Start
  BY <1>1, TypesPrime DEF Start, gameVars
<1>2. CASE Connect
  BY <1>0, <1>2, TypesPrime DEF Connect, gameVars
<1>3. CASE Stop
  BY <1>0, <1>3, TypesPrime DEF Stop, gameVars
<1> QED BY <1>1, <1>2, <1>3

LEMMA WindowTypes ==
    ASSUME TypeOK, NEW s \in Swaps,
           CreateSwapChain(s) \/ ResizeBuffers(s) \/ ResizeBuffers1(s) \/ SetColorSpace(s)
    PROVE  TypeOK'
<1>0. /\ Failed(observer) \in ObserverRecords /\ Stopped(observer) \in ObserverRecords
      /\ Stopped(observer).selected \in Swaps \cup {"none"}
  BY ObserverUpdates, TypesOfState DEF Types, Ended, ObserverRecords
<1>1. /\ bindings \in [Swaps -> {"none", "sdr", "hdr"}]
      /\ \A color \in {"none", "sdr", "hdr"} :
            [bindings EXCEPT ![s] = color] \in [Swaps -> {"none", "sdr", "hdr"}]
  BY TypesNamed
<1>2. [buffer EXCEPT ![s] = Nothing] \in [Swaps -> Pictures]
  BY NothingIsPicture, TypesNamed
<1>3. CASE CreateSwapChain(s)
  BY <1>0, <1>1, <1>3, TypesNamed, TypesPrime DEF CreateSwapChain, gameVars
<1>4. CASE ResizeBuffers(s)
  BY <1>0, <1>1, <1>2, <1>4, TypesNamed, TypesPrime DEF ResizeBuffers, Resize
<1>5. CASE ResizeBuffers1(s)
  <2>1. PICK chain \in Swaps \cup {"none"} :
           chain = IF Stopped(observer).selected = s THEN "none" ELSE Stopped(observer).selected
    BY <1>0
  <2>2. observer' = [Stopped(observer) EXCEPT !.selected = chain]
    BY <1>5, <2>1 DEF ResizeBuffers1
  <2>3. \E n \in 0 .. Limit : n = 0
    BY Limits
  <2>4. observer' \in ObserverRecords
    BY <1>0, <2>2, <2>3, ObserverFields
  <2> QED BY <1>1, <1>2, <1>5, <2>4, TypesNamed, TypesPrime DEF ResizeBuffers1, Resize
<1>6. CASE SetColorSpace(s)
  BY <1>0, <1>1, <1>6, TypesNamed, TypesPrime DEF SetColorSpace, gameVars
<1> QED BY <1>3, <1>4, <1>5, <1>6

(* The thread of a chain that draws, saves or completes.                     *)
LEMMA DrawDoes ==
    ASSUME TypeOK, NEW s \in Swaps, Draw(s)
    PROVE  /\ render' \in [Swaps -> RenderRecords] /\ buffer' \in [Swaps -> Pictures]
           /\ \A t \in Swaps \ {s} : render'[t] = render[t] /\ buffer'[t] = buffer[t]
           /\ render'[s].phase = "hook" /\ render'[s].frame \in Numbers /\ ~render'[s].processed
           /\ buffer'[s].frame = render'[s].frame /\ ~buffer'[s].net
<1>1. render \in [Swaps -> RenderRecords] /\ buffer \in [Swaps -> Pictures]
  BY TypesNamed
<1>2. PICK next \in Numbers : next = render[s].frame + 1
  <2>1. render[s].frame \in Nat /\ render[s].frame < Frames[s] /\ Frames[s] \in Nat
    BY <1>1, NumbersAreNats, PresentAssumption DEF Draw, RenderRecords
  <2>2. render[s].frame + 1 \in 0 .. Frames[s]
    BY <2>1
  <2> QED BY <2>2, NumbersAreNats
<1>3. PICK test \in BOOLEAN :
         render' = [render EXCEPT ![s] = [phase |-> "hook", frame |-> render[s].frame + 1,
                                          test |-> test, processed |-> FALSE]]
  BY DEF Draw
<1>4. PICK off \in BOOLEAN : off = FALSE
  OBVIOUS
<1>5. PICK new \in RenderRecords :
         new = [phase |-> "hook", frame |-> next, test |-> test, processed |-> off]
  BY DEF RenderRecords, Phases
<1>6. render' = [render EXCEPT ![s] = new]
  BY <1>2, <1>3, <1>4, <1>5, Zenon
<1>7. buffer' = [buffer EXCEPT ![s] = Raw(next)] /\ Raw(next) \in Pictures
      /\ Raw(next).frame = next /\ ~Raw(next).net
  BY <1>2, PictureFields DEF Draw
<1>8. new.phase = "hook" /\ new.frame = next /\ ~new.processed
  BY <1>4, <1>5
<1>9. render'[s] = new /\ render' \in [Swaps -> RenderRecords]
      /\ \A t \in Swaps \ {s} : render'[t] = render[t]
  BY <1>1, <1>6
<1>10. buffer'[s] = Raw(next) /\ buffer' \in [Swaps -> Pictures]
       /\ \A t \in Swaps \ {s} : buffer'[t] = buffer[t]
  BY <1>1, <1>7
<1> QED BY <1>7, <1>8, <1>9, <1>10

LEMMA SaveDoes ==
    ASSUME render \in [Swaps -> RenderRecords], NEW s \in Swaps, Save(s)
    PROVE  /\ render' \in [Swaps -> RenderRecords]
           /\ \A t \in Swaps \ {s} : render'[t] = render[t]
           /\ render'[s].phase = "present" /\ render'[s].frame = render[s].frame
           /\ render'[s].processed
<1>1. PICK on \in BOOLEAN : on = TRUE
  OBVIOUS
<1>2. render' = [render EXCEPT ![s].phase = "present", ![s].processed = on]
  BY <1>1, Zenon DEF Save
<1>3. PICK phase \in Phases : phase = "present"
  BY DEF Phases
<1>4. PICK r : r = render[s]
  OBVIOUS
<1>5. r \in RenderRecords
  BY <1>4
<1>6. PICK new : new = [[r EXCEPT !.phase = phase] EXCEPT !.processed = on]
  OBVIOUS
<1>7. /\ new \in RenderRecords /\ new.phase = phase /\ new.frame = r.frame
      /\ new.processed = on
  BY <1>5, <1>6 DEF RenderRecords
<1>8. render' = [render EXCEPT ![s] = new]
  BY <1>2, <1>3, <1>4, <1>6
<1> QED BY <1>1, <1>3, <1>4, <1>7, <1>8

LEMMA CompleteDoes ==
    ASSUME render \in [Swaps -> RenderRecords], NEW s \in Swaps, Complete(s)
    PROVE  /\ render' \in [Swaps -> RenderRecords]
           /\ \A t \in Swaps \ {s} : render'[t] = render[t]
           /\ render'[s].phase = "game" /\ render'[s].frame = render[s].frame
           /\ ~render'[s].processed
<1>1. PICK off \in BOOLEAN : off = FALSE
  OBVIOUS
<1>2. render' = [render EXCEPT ![s].phase = "game", ![s].test = off, ![s].processed = off]
  BY <1>1, Zenon DEF Complete
<1>3. PICK phase \in Phases : phase = "game"
  BY DEF Phases
<1>4. PICK r : r = render[s]
  OBVIOUS
<1>5. r \in RenderRecords
  BY <1>4
<1>6. PICK new : new = [[[r EXCEPT !.phase = phase] EXCEPT !.test = off] EXCEPT !.processed = off]
  OBVIOUS
<1>7. /\ new \in RenderRecords /\ new.phase = phase /\ new.frame = r.frame
      /\ new.processed = off
  BY <1>5, <1>6 DEF RenderRecords
<1>8. render' = [render EXCEPT ![s] = new]
  BY <1>2, <1>3, <1>4, <1>6
<1> QED BY <1>1, <1>3, <1>4, <1>7, <1>8

(* The surface of a chain: a list is submitted, waited for, answered; the    *)
(* surface is made, destroyed, kept.                                         *)
LEMMA SubmitDoes ==
    ASSUME surface \in [Swaps -> SurfaceRecords], NEW s \in Swaps,
           surface' = [surface EXCEPT ![s].uncertain = TRUE]
    PROVE  /\ surface' \in [Swaps -> SurfaceRecords]
           /\ \A t \in Swaps \ {s} : surface'[t] = surface[t]
           /\ surface'[s].state = surface[s].state /\ surface'[s].uncertain
           /\ surface'[s].read = surface[s].read /\ surface'[s].upload = surface[s].upload
<1>1. PICK on \in BOOLEAN : on = TRUE
  OBVIOUS
<1>2. surface' = [surface EXCEPT ![s].uncertain = on]
  BY <1>1, Zenon
<1>3. PICK r \in SurfaceRecords : r = surface[s]
  OBVIOUS
<1>4. PICK new : new = [r EXCEPT !.uncertain = on]
  OBVIOUS
<1>5. /\ new \in SurfaceRecords /\ new.uncertain = on
      /\ new.state = r.state /\ new.read = r.read /\ new.upload = r.upload
  BY <1>4 DEF SurfaceRecords
<1>6. surface' = [surface EXCEPT ![s] = new]
  BY <1>2, <1>3, <1>4
<1> QED BY <1>1, <1>3, <1>5, <1>6

LEMMA AwaitDoes ==
    ASSUME surface \in [Swaps -> SurfaceRecords], NEW s \in Swaps,
           surface' = [surface EXCEPT ![s].uncertain = FALSE]
    PROVE  /\ surface' \in [Swaps -> SurfaceRecords]
           /\ \A t \in Swaps \ {s} : surface'[t] = surface[t]
           /\ surface'[s].state = surface[s].state
           /\ surface'[s].read = surface[s].read /\ surface'[s].upload = surface[s].upload
<1>1. PICK off \in BOOLEAN : off = FALSE
  OBVIOUS
<1>2. surface' = [surface EXCEPT ![s].uncertain = off]
  BY <1>1, Zenon
<1>3. PICK r \in SurfaceRecords : r = surface[s]
  OBVIOUS
<1>4. PICK new : new = [r EXCEPT !.uncertain = off]
  OBVIOUS
<1>5. /\ new \in SurfaceRecords
      /\ new.state = r.state /\ new.read = r.read /\ new.upload = r.upload
  BY <1>4 DEF SurfaceRecords
<1>6. surface' = [surface EXCEPT ![s] = new]
  BY <1>2, <1>3, <1>4
<1> QED BY <1>3, <1>5, <1>6

LEMMA ImageDoes ==
    ASSUME surface \in [Swaps -> SurfaceRecords], NEW s \in Swaps, NEW p \in Pictures
    PROVE  /\ surface' = [surface EXCEPT ![s].upload = p] =>
                /\ surface' \in [Swaps -> SurfaceRecords]
                /\ \A t \in Swaps \ {s} : surface'[t] = surface[t]
                /\ surface'[s].state = surface[s].state
                /\ surface'[s].uncertain = surface[s].uncertain
                /\ surface'[s].read = surface[s].read /\ surface'[s].upload = p
           /\ surface' = [surface EXCEPT ![s].read = p] =>
                /\ surface' \in [Swaps -> SurfaceRecords]
                /\ \A t \in Swaps \ {s} : surface'[t] = surface[t]
                /\ surface'[s].state = surface[s].state
                /\ surface'[s].uncertain = surface[s].uncertain
                /\ surface'[s].read = p /\ surface'[s].upload = surface[s].upload
BY DEF SurfaceRecords

LEMMA FailureDoes ==
    ASSUME TypeOK, NEW s \in Swaps, surface' = SurfaceAfterFailure(s)
    PROVE  /\ surface' \in [Swaps -> SurfaceRecords]
           /\ \A t \in Swaps \ {s} : surface'[t] = surface[t]
           /\ \/ surface'[s] = surface[s]
              \/ /\ surface[s].uncertain /\ surface'[s].uncertain /\ surface'[s].state = "retained"
                 /\ surface'[s].read = surface[s].read /\ surface'[s].upload = surface[s].upload
              \/ ~surface[s].uncertain /\ surface'[s] = Deleted
<1>1. surface \in [Swaps -> SurfaceRecords] /\ surface[s] \in SurfaceRecords
  BY TypesNamed
<1>2. PICK new : new = IF surface[s].state # "live" THEN surface[s]
                       ELSE IF surface[s].uncertain THEN [surface[s] EXCEPT !.state = "retained"]
                       ELSE Deleted
  OBVIOUS
<1>3. surface' = [surface EXCEPT ![s] = new]
  BY <1>2, Zenon DEF SurfaceAfterFailure
<1>4. /\ [surface[s] EXCEPT !.state = "retained"] \in SurfaceRecords
      /\ [surface[s] EXCEPT !.state = "retained"].state = "retained"
      /\ [surface[s] EXCEPT !.state = "retained"].uncertain = surface[s].uncertain
      /\ [surface[s] EXCEPT !.state = "retained"].read = surface[s].read
      /\ [surface[s] EXCEPT !.state = "retained"].upload = surface[s].upload
  BY <1>1 DEF SurfaceRecords
<1>5. Deleted \in SurfaceRecords
  BY SurfacesMade
<1>6. \/ new = surface[s]
      \/ surface[s].uncertain /\ new = [surface[s] EXCEPT !.state = "retained"]
      \/ ~surface[s].uncertain /\ new = Deleted
  BY <1>2, Zenon
<1>7. new \in SurfaceRecords
  BY <1>1, <1>4, <1>5, <1>6
<1>8. surface'[s] = new /\ surface' \in [Swaps -> SurfaceRecords]
      /\ \A t \in Swaps \ {s} : surface'[t] = surface[t]
  BY <1>1, <1>3, <1>7
<1> QED BY <1>4, <1>6, <1>8, Zenon
-----------------------------------------------------------------------------
(* What one step does to the chain it belongs to; the others are as before.   *)

OthersKept(s) ==
    \A t \in Swaps \ {s} :
        /\ render'[t] = render[t] /\ queue'[t] = queue[t] /\ buffer'[t] = buffer[t]
        /\ surface'[t] = surface[t] /\ shown'[t] = shown[t]

ChainStep(s) ==
    /\ render' \in [Swaps -> RenderRecords] /\ queue' \in [Swaps -> Seq(WorkRecords)]
    /\ buffer' \in [Swaps -> Pictures] /\ surface' \in [Swaps -> SurfaceRecords]
    /\ ChainOf(s)' /\ OthersKept(s)

LEMMA OtherChain ==
    ASSUME NEW s \in Swaps, OthersKept(s), Chains, ChainOf(s)'
    PROVE  Chains'
<1> SUFFICES ASSUME NEW t \in Swaps PROVE ChainOf(t)'
  BY DEF Chains
<1>1. CASE t = s
  BY <1>1
<1>2. CASE t # s
  <2>1. /\ render'[t] = render[t] /\ queue'[t] = queue[t] /\ buffer'[t] = buffer[t]
        /\ surface'[t] = surface[t]
    BY <1>2 DEF OthersKept
  <2>2. ChainOf(t)
    BY DEF Chains
  <2> QED BY <2>1, <2>2 DEF ChainOf, ListsOf, SurfaceOf, BufferOf, Queued
<1> QED BY <1>1, <1>2

LEMMA EmptyQueue ==
    ASSUME NEW s \in Swaps
    PROVE  /\ queue[s] = <<>> => DOMAIN queue[s] = {} /\ \A o \in Ops : ~Queued(s, o)
           /\ queue'[s] = <<>> => DOMAIN queue'[s] = {} /\ \A o \in Ops : ~Queued(s, o)'
BY DEF Queued

LEMMA DrawChain ==
    ASSUME TypeOK, Chains, NEW s \in Swaps, Draw(s)
    PROVE  ChainStep(s)
<1>1. /\ queue' = queue /\ surface' = surface /\ shown' = shown /\ queue'[s] = <<>>
  BY DEF Draw
<1>2. DOMAIN queue'[s] = {} /\ ~Queued(s, "read")' /\ ~Queued(s, "write")'
  BY <1>1, EmptyQueue DEF Ops
<1>3. /\ render' \in [Swaps -> RenderRecords] /\ buffer' \in [Swaps -> Pictures]
      /\ \A t \in Swaps \ {s} : render'[t] = render[t] /\ buffer'[t] = buffer[t]
      /\ render'[s].phase = "hook" /\ ~render'[s].processed
      /\ buffer'[s].frame = render'[s].frame
  BY DrawDoes
<1>4. ListsOf(s)' /\ SurfaceOf(s)' /\ BufferOf(s)'
  BY <1>1, <1>2, <1>3 DEF ListsOf, SurfaceOf, BufferOf, Serving
<1> QED BY <1>1, <1>3, <1>4, TypesNamed DEF ChainStep, ChainOf, OthersKept

LEMMA ResizeChain ==
    ASSUME TypeOK, Chains, NEW s \in Swaps, Resize(s)
    PROVE  ChainStep(s)
<1>1. /\ queue' = queue /\ surface' = surface /\ shown' = shown /\ render' = render
      /\ queue'[s] = <<>> /\ render[s].phase \in {"game", "present"}
      /\ buffer' = [buffer EXCEPT ![s] = Nothing]
  BY DEF Resize
<1>2. DOMAIN queue'[s] = {} /\ ~Queued(s, "read")' /\ ~Queued(s, "write")'
  BY <1>1, EmptyQueue DEF Ops
<1>3. ChainOf(s)
  BY DEF Chains
<1>4. buffer' \in [Swaps -> Pictures] /\ buffer'[s] = Nothing
      /\ \A t \in Swaps \ {s} : buffer'[t] = buffer[t]
  BY <1>1, NothingIsPicture, TypesNamed
<1>5. ListsOf(s)' /\ SurfaceOf(s)' /\ BufferOf(s)'
  BY <1>1, <1>2, <1>3, <1>4 DEF ChainOf, ListsOf, SurfaceOf, BufferOf, Serving
<1> QED BY <1>1, <1>4, <1>5, TypesNamed DEF ChainStep, ChainOf, OthersKept

LEMMA EnterChain ==
    ASSUME TypeOK, Chains, NEW s \in Swaps, Enter(s)
    PROVE  ChainStep(s)
<1>1. /\ queue' = queue /\ buffer' = buffer /\ shown' = shown /\ render[s].phase = "hook"
  BY DEF Enter, At
<1>2. ChainOf(s) /\ queue'[s] = <<>>
  BY <1>1 DEF Chains, ChainOf, ListsOf
<1>3. DOMAIN queue'[s] = {} /\ ~Queued(s, "read")' /\ ~Queued(s, "write")'
  BY <1>2, EmptyQueue DEF Ops
<1>4. \/ Goto(s, "present") /\ UNCHANGED surface
      \/ Goto(s, "read") /\ surface' = [surface EXCEPT ![s] = [NoSurface EXCEPT !.state = "live"]]
  BY DEF Enter
<1>5. CASE Goto(s, "present") /\ UNCHANGED surface
  <2>1. /\ render' \in [Swaps -> RenderRecords]
        /\ \A t \in Swaps \ {s} : render'[t] = render[t]
        /\ render'[s].phase = "present" /\ render'[s].frame = render[s].frame
    BY <1>5, GotoDoes, TypesNamed DEF Phases
  <2>2. ListsOf(s)' /\ SurfaceOf(s)' /\ BufferOf(s)'
    BY <1>1, <1>2, <1>3, <1>5, <2>1 DEF ChainOf, ListsOf, SurfaceOf, BufferOf, Serving
  <2> QED BY <1>1, <1>5, <2>1, <2>2, TypesNamed DEF ChainStep, ChainOf, OthersKept
<1>6. CASE /\ Goto(s, "read")
           /\ surface' = [surface EXCEPT ![s] = [NoSurface EXCEPT !.state = "live"]]
  <2>1. /\ render' \in [Swaps -> RenderRecords]
        /\ \A t \in Swaps \ {s} : render'[t] = render[t]
        /\ render'[s].phase = "read" /\ render'[s].frame = render[s].frame
        /\ render'[s].processed = render[s].processed
    BY <1>6, GotoDoes, TypesNamed DEF Phases
  <2>2. PICK new \in SurfaceRecords : new = [NoSurface EXCEPT !.state = "live"] /\ new.state = "live"
    BY SurfacesMade
  <2>3. /\ surface' \in [Swaps -> SurfaceRecords] /\ surface'[s].state = "live"
        /\ \A t \in Swaps \ {s} : surface'[t] = surface[t]
    BY <1>6, <2>2, TypesNamed
  <2>4. ListsOf(s)' /\ SurfaceOf(s)' /\ BufferOf(s)'
    BY <1>1, <1>2, <1>3, <2>1, <2>3 DEF ChainOf, ListsOf, SurfaceOf, BufferOf, Serving
  <2> QED BY <1>1, <2>1, <2>3, <2>4, TypesNamed DEF ChainStep, ChainOf, OthersKept
<1> QED BY <1>4, <1>5, <1>6

LEMMA SubmitChain ==
    ASSUME TypeOK, Chains, NEW s \in Swaps, NEW op \in Ops, NEW next \in {"reading", "writing"},
           \/ SubmitRead(s) /\ op = "read" /\ next = "reading"
           \/ SubmitWrite(s) /\ op = "write" /\ next = "writing"
    PROVE  ChainStep(s)
<1>1. /\ \/ op = "read" /\ next = "reading" /\ render[s].phase = "read"
         \/ op = "write" /\ next = "writing" /\ render[s].phase = "write"
      /\ Push(s, op) /\ Goto(s, next)
      /\ surface' = [surface EXCEPT ![s].uncertain = TRUE]
      /\ buffer' = buffer /\ shown' = shown
  BY DEF SubmitRead, SubmitWrite, Submit, At
<1>2. ChainOf(s) /\ queue[s] = <<>>
  BY <1>1 DEF Chains, ChainOf, ListsOf
<1>3. /\ render' \in [Swaps -> RenderRecords]
      /\ \A t \in Swaps \ {s} : render'[t] = render[t]
      /\ render'[s].phase = next /\ render'[s].frame = render[s].frame
      /\ render'[s].processed = render[s].processed
  BY <1>1, GotoDoes, TypesNamed DEF Phases
<1>4. /\ surface' \in [Swaps -> SurfaceRecords]
      /\ \A t \in Swaps \ {s} : surface'[t] = surface[t]
      /\ surface'[s].state = surface[s].state /\ surface'[s].uncertain
      /\ surface'[s].read = surface[s].read /\ surface'[s].upload = surface[s].upload
  BY <1>1, SubmitDoes, TypesNamed
<1>5. /\ queue' \in [Swaps -> Seq(WorkRecords)]
      /\ \A t \in Swaps \ {s} : queue'[t] = queue[t]
      /\ Len(queue[s]) = 0
      /\ DOMAIN queue'[s] = 1 .. Len(queue[s]) + 1
      /\ queue'[s][Len(queue[s]) + 1].op = op
      /\ queue'[s][Len(queue[s]) + 1].frame = render[s].frame
      /\ queue'[s] # <<>>
  BY <1>1, <1>2, PushDoes, TypesNamed
<1>6. \A i \in DOMAIN queue'[s] : queue'[s][i].op = op /\ queue'[s][i].frame = render[s].frame
  BY <1>5
<1>7. Queued(s, op)' /\ (op # "read" => ~Queued(s, "read")') /\ (op # "write" => ~Queued(s, "write")')
  <2>1. 1 \in DOMAIN queue'[s]
    BY <1>5
  <2> QED BY <1>6, <2>1 DEF Queued
<1>8. ListsOf(s)'
  BY <1>1, <1>3, <1>5, <1>6 DEF ListsOf
<1>9. SurfaceOf(s)' /\ BufferOf(s)'
  BY <1>1, <1>2, <1>3, <1>4, <1>7 DEF ChainOf, SurfaceOf, BufferOf, Serving
<1> QED BY <1>1, <1>3, <1>4, <1>5, <1>8, <1>9, TypesNamed DEF ChainStep, ChainOf, OthersKept

LEMMA AwaitChain ==
    ASSUME TypeOK, Chains, NEW s \in Swaps, NEW op \in Ops, NEW next \in {"ask", "save"},
           \/ AwaitRead(s) /\ op = "read" /\ next = "ask"
           \/ AwaitWrite(s) /\ op = "write" /\ next = "save"
    PROVE  ChainStep(s)
<1>1. /\ \/ /\ op = "read" /\ next = "ask" /\ render[s].phase = "reading"
            /\ surface' = [surface EXCEPT ![s].uncertain = FALSE]
         \/ /\ op = "write" /\ next = "save" /\ render[s].phase = "writing"
            /\ surface' = [surface EXCEPT ![s] = Deleted]
      /\ Goto(s, next) /\ ~Queued(s, op)
      /\ queue' = queue /\ buffer' = buffer /\ shown' = shown
  BY DEF AwaitRead, AwaitWrite, Await, Executed, At
<1>2. ChainOf(s)
  BY DEF Chains
<1>3. DOMAIN queue[s] = {} /\ queue[s] = <<>>
  <2>1. \A i \in DOMAIN queue[s] : queue[s][i].op \in Ops
    BY QueueElements, TypesNamed DEF WorkRecords
  <2>2. DOMAIN queue[s] = {}
    BY <1>1, <1>2, <2>1 DEF ChainOf, ListsOf, Queued, Ops
  <2>3. DOMAIN queue[s] = 1 .. Len(queue[s]) /\ Len(queue[s]) \in Nat /\ queue[s] \in Seq(WorkRecords)
    BY QueueElements, TypesNamed
  <2>4. \A n \in Nat : 1 .. n = {} => n = 0
    <3> SUFFICES ASSUME NEW n \in Nat, n # 0 PROVE 1 \in 1 .. n
      OBVIOUS
    <3> QED OBVIOUS
  <2>5. Len(queue[s]) = 0
    BY <2>2, <2>3, <2>4
  <2> QED BY <2>2, <2>3, <2>5
<1>4. DOMAIN queue'[s] = {} /\ ~Queued(s, "read")' /\ ~Queued(s, "write")' /\ queue'[s] = <<>>
  BY <1>1, <1>3 DEF Queued
<1>5. /\ render' \in [Swaps -> RenderRecords]
      /\ \A t \in Swaps \ {s} : render'[t] = render[t]
      /\ render'[s].phase = next /\ render'[s].frame = render[s].frame
      /\ render'[s].processed = render[s].processed
  BY <1>1, GotoDoes, TypesNamed DEF Phases
<1>6. /\ surface' \in [Swaps -> SurfaceRecords]
      /\ \A t \in Swaps \ {s} : surface'[t] = surface[t]
      /\ next = "ask" => surface'[s].state = surface[s].state /\ surface'[s].read = surface[s].read
                         /\ surface'[s].upload = surface[s].upload
  <2>1. CASE surface' = [surface EXCEPT ![s].uncertain = FALSE]
    BY <2>1, AwaitDoes, TypesNamed
  <2>2. CASE surface' = [surface EXCEPT ![s] = Deleted] /\ next = "save"
    BY <2>2, SurfacesMade, TypesNamed
  <2> QED BY <1>1, <2>1, <2>2
<1>7. ListsOf(s)' /\ BufferOf(s)'
  BY <1>1, <1>2, <1>4, <1>5 DEF ChainOf, ListsOf, BufferOf, Serving
<1>8. SurfaceOf(s)'
  <2>1. next = "ask" => surface[s].read.frame = render[s].frame /\ surface[s].state = "live"
    BY <1>1, <1>2 DEF ChainOf, SurfaceOf, Serving
  <2> QED BY <1>4, <1>5, <1>6, <2>1 DEF SurfaceOf, Serving
<1> QED BY <1>1, <1>5, <1>6, <1>7, <1>8, TypesNamed DEF ChainStep, ChainOf, OthersKept

LEMMA AskChain ==
    ASSUME TypeOK, Chains, NEW s \in Swaps, Ask(s) \/ Answer(s)
    PROVE  ChainStep(s)
<1>1. queue' = queue /\ buffer' = buffer /\ shown' = shown
  BY DEF Ask, Answer
<1>2. ChainOf(s) /\ queue'[s] = <<>>
  BY <1>1 DEF Chains, ChainOf, ListsOf, Ask, Answer, At
<1>3. DOMAIN queue'[s] = {} /\ ~Queued(s, "read")' /\ ~Queued(s, "write")'
  BY <1>2, EmptyQueue DEF Ops
<1>4. CASE Ask(s)
  <2>1. /\ render' \in [Swaps -> RenderRecords]
        /\ \A t \in Swaps \ {s} : render'[t] = render[t]
        /\ render'[s].phase = "answer" /\ render'[s].frame = render[s].frame
        /\ render'[s].processed = render[s].processed
    BY <1>4, GotoDoes, TypesNamed DEF Phases, Ask
  <2>2. surface' = surface /\ render[s].phase = "ask"
    BY <1>4 DEF Ask, At
  <2>3. ListsOf(s)' /\ SurfaceOf(s)' /\ BufferOf(s)'
    BY <1>1, <1>2, <1>3, <2>1, <2>2 DEF ChainOf, ListsOf, SurfaceOf, BufferOf, Serving
  <2> QED BY <1>1, <2>1, <2>2, <2>3, TypesNamed DEF ChainStep, ChainOf, OthersKept
<1>5. CASE Answer(s)
  <2>1. /\ render' \in [Swaps -> RenderRecords]
        /\ \A t \in Swaps \ {s} : render'[t] = render[t]
        /\ render'[s].phase = "write" /\ render'[s].frame = render[s].frame
        /\ render'[s].processed = render[s].processed
    BY <1>5, GotoDoes, TypesNamed DEF Phases, Answer
  <2>2. surface[s].read.frame \in Numbers
    BY TypesNamed DEF SurfaceRecords, Pictures
  <2>3. PICK image \in Pictures : image = Net(surface[s].read.frame) /\ image.frame = surface[s].read.frame
    BY <2>2, PictureFields
  <2>4. surface' = [surface EXCEPT ![s].upload = image] /\ render[s].phase = "answer"
    BY <1>5, <2>3 DEF Answer, At
  <2>5. /\ surface' \in [Swaps -> SurfaceRecords]
        /\ \A t \in Swaps \ {s} : surface'[t] = surface[t]
        /\ surface'[s].state = surface[s].state /\ surface'[s].upload = image
    BY <2>4, ImageDoes, TypesNamed
  <2>6. ListsOf(s)' /\ SurfaceOf(s)' /\ BufferOf(s)'
    BY <1>1, <1>2, <1>3, <2>1, <2>3, <2>4, <2>5 DEF ChainOf, ListsOf, SurfaceOf, BufferOf, Serving
  <2> QED BY <1>1, <2>1, <2>5, <2>6, TypesNamed DEF ChainStep, ChainOf, OthersKept
<1> QED BY <1>4, <1>5

LEMMA SaveChain ==
    ASSUME TypeOK, Chains, NEW s \in Swaps, Save(s)
    PROVE  ChainStep(s)
<1>1. queue' = queue /\ buffer' = buffer /\ shown' = shown /\ surface' = surface
      /\ render[s].phase = "save"
  BY DEF Save, At
<1>2. ChainOf(s) /\ queue'[s] = <<>>
  BY <1>1 DEF Chains, ChainOf, ListsOf
<1>3. DOMAIN queue'[s] = {} /\ ~Queued(s, "read")' /\ ~Queued(s, "write")'
  BY <1>2, EmptyQueue DEF Ops
<1>4. /\ render' \in [Swaps -> RenderRecords]
      /\ \A t \in Swaps \ {s} : render'[t] = render[t]
      /\ render'[s].phase = "present" /\ render'[s].frame = render[s].frame
  BY SaveDoes, TypesNamed
<1>5. ListsOf(s)' /\ SurfaceOf(s)' /\ BufferOf(s)'
  BY <1>1, <1>2, <1>3, <1>4 DEF ChainOf, ListsOf, SurfaceOf, BufferOf, Serving
<1> QED BY <1>1, <1>4, <1>5, TypesNamed DEF ChainStep, ChainOf, OthersKept

LEMMA AbortChain ==
    ASSUME TypeOK, Chains, NEW s \in Swaps, Abort(s)
    PROVE  ChainStep(s)
<1>1. /\ queue' = queue /\ buffer' = buffer /\ shown' = shown
      /\ Goto(s, "present") /\ surface' = SurfaceAfterFailure(s)
      /\ render[s].phase \in Serving
  BY DEF Abort, Serving
<1>2. ChainOf(s)
  BY DEF Chains
<1>3. /\ render' \in [Swaps -> RenderRecords]
      /\ \A t \in Swaps \ {s} : render'[t] = render[t]
      /\ render'[s].phase = "present" /\ render'[s].frame = render[s].frame
  BY <1>1, GotoDoes, TypesNamed DEF Phases
<1>4. /\ surface' \in [Swaps -> SurfaceRecords]
      /\ \A t \in Swaps \ {s} : surface'[t] = surface[t]
      /\ \/ surface'[s] = surface[s]
         \/ /\ surface[s].uncertain /\ surface'[s].uncertain /\ surface'[s].state = "retained"
            /\ surface'[s].read = surface[s].read /\ surface'[s].upload = surface[s].upload
         \/ ~surface[s].uncertain
  BY <1>1, FailureDoes
<1>5. /\ Queued(s, "read")' <=> Queued(s, "read")
      /\ Queued(s, "write")' <=> Queued(s, "write")
  BY <1>1 DEF Queued
<1>6. ListsOf(s)'
  BY <1>1, <1>2, <1>3 DEF ChainOf, ListsOf, Serving
<1>7. BufferOf(s)'
  BY <1>1, <1>2, <1>3 DEF ChainOf, BufferOf, Serving
<1>8. SurfaceOf(s)'
  BY <1>2, <1>3, <1>4, <1>5 DEF ChainOf, SurfaceOf, Serving
<1> QED BY <1>1, <1>3, <1>4, <1>6, <1>7, <1>8, TypesNamed DEF ChainStep, ChainOf, OthersKept

LEMMA PresentChain ==
    ASSUME TypeOK, Chains, NEW s \in Swaps, PresentOriginal(s) \/ PresentNested(s)
    PROVE  ChainStep(s)
<1>1. /\ buffer' = buffer /\ shown' = shown /\ surface' = surface
      /\ render[s].phase \in {"present", "nested"}
  BY DEF PresentOriginal, PresentNested, At
<1>2. ChainOf(s)
  BY DEF Chains
<1>3. PICK phase \in {"nested", "complete"} :
         Goto(s, phase) /\ (queue' = queue \/ (phase = "complete" /\ Push(s, "present")))
  BY DEF PresentOriginal, PresentNested
<1>4. /\ render' \in [Swaps -> RenderRecords]
      /\ \A t \in Swaps \ {s} : render'[t] = render[t]
      /\ render'[s].phase = phase /\ render'[s].frame = render[s].frame
      /\ render'[s].processed = render[s].processed
  BY <1>3, GotoDoes, TypesNamed DEF Phases
<1>5. CASE queue' = queue
  <2>1. /\ Queued(s, "read")' <=> Queued(s, "read")
        /\ Queued(s, "write")' <=> Queued(s, "write")
    BY <1>5 DEF Queued
  <2>2. ListsOf(s)' /\ BufferOf(s)'
    BY <1>1, <1>2, <1>4, <1>5 DEF ChainOf, ListsOf, BufferOf, Serving
  <2>3. SurfaceOf(s)'
    BY <1>1, <1>2, <1>4, <2>1 DEF ChainOf, SurfaceOf, Serving
  <2> QED BY <1>1, <1>4, <1>5, <2>2, <2>3, TypesNamed DEF ChainStep, ChainOf, OthersKept
<1>6. CASE phase = "complete" /\ Push(s, "present")
  <2>0. "present" \in Ops /\ "read" \in Ops /\ "write" \in Ops
    BY DEF Ops
  <2>1. /\ Queued(s, "read")' <=> Queued(s, "read")
        /\ Queued(s, "write")' <=> Queued(s, "write")
    BY <1>6, <2>0, PushQueues, TypesNamed
  <2>2. /\ queue' \in [Swaps -> Seq(WorkRecords)]
        /\ \A t \in Swaps \ {s} : queue'[t] = queue[t]
        /\ Len(queue'[s]) = Len(queue[s]) + 1 /\ Len(queue[s]) \in Nat
        /\ DOMAIN queue[s] = 1 .. Len(queue[s])
        /\ DOMAIN queue'[s] = 1 .. Len(queue[s]) + 1
        /\ \A i \in DOMAIN queue[s] : queue'[s][i] = queue[s][i]
        /\ queue'[s][Len(queue[s]) + 1].op = "present"
        /\ queue'[s][Len(queue[s]) + 1].frame = render[s].frame
    BY <1>6, <2>0, PushDoes, TypesNamed
  <2>3. ASSUME NEW i \in DOMAIN queue'[s]
        PROVE  /\ queue'[s][i].frame = render[s].frame
               /\ queue'[s][i].op = "present" => i = Len(queue'[s])
    <3>1. i \in DOMAIN queue[s] \/ i = Len(queue[s]) + 1
      BY <2>2
    <3>2. CASE i \in DOMAIN queue[s]
      BY <1>1, <1>2, <2>2, <3>2 DEF ChainOf, ListsOf
    <3>3. CASE i = Len(queue[s]) + 1
      BY <2>2, <3>3
    <3> QED BY <3>1, <3>2, <3>3
  <2>4. ListsOf(s)'
    BY <1>4, <1>6, <2>3 DEF ListsOf
  <2>5. BufferOf(s)'
    BY <1>1, <1>2, <1>4, <1>6 DEF ChainOf, BufferOf, Serving
  <2>6. SurfaceOf(s)'
    BY <1>1, <1>2, <1>4, <1>6, <2>1 DEF ChainOf, SurfaceOf, Serving
  <2> QED BY <1>1, <1>4, <2>2, <2>4, <2>5, <2>6, TypesNamed DEF ChainStep, ChainOf, OthersKept
<1> QED BY <1>3, <1>5, <1>6

LEMMA CompleteChain ==
    ASSUME TypeOK, Chains, NEW s \in Swaps, Complete(s)
    PROVE  ChainStep(s)
<1>1. queue' = queue /\ buffer' = buffer /\ shown' = shown /\ surface' = surface
      /\ render[s].phase = "complete"
  BY DEF Complete, At
<1>2. ChainOf(s)
  BY DEF Chains
<1>3. /\ render' \in [Swaps -> RenderRecords]
      /\ \A t \in Swaps \ {s} : render'[t] = render[t]
      /\ render'[s].phase = "game" /\ render'[s].frame = render[s].frame
      /\ ~render'[s].processed
  BY CompleteDoes, TypesNamed
<1>4. /\ Queued(s, "read")' <=> Queued(s, "read")
      /\ Queued(s, "write")' <=> Queued(s, "write")
  BY <1>1 DEF Queued
<1>5. ListsOf(s)' /\ BufferOf(s)'
  BY <1>1, <1>2, <1>3 DEF ChainOf, ListsOf, BufferOf, Serving
<1>6. SurfaceOf(s)'
  BY <1>1, <1>2, <1>3, <1>4 DEF ChainOf, SurfaceOf, Serving
<1> QED BY <1>1, <1>3, <1>5, <1>6, TypesNamed DEF ChainStep, ChainOf, OthersKept

(* The queue executes its next work: what it reads is the frame of the call,  *)
(* what it writes is the answer for it, what it shows is its own.             *)
LEMMA GpuChain ==
    ASSUME TypeOK, Chains, NEW s \in Swaps, Gpu(s)
    PROVE  ChainStep(s)
<1> DEFINE work == Head(queue[s])
<1>1. /\ queue' \in [Swaps -> Seq(WorkRecords)]
      /\ \A t \in Swaps \ {s} : queue'[t] = queue[t]
      /\ work \in WorkRecords /\ 1 \in DOMAIN queue[s] /\ work = queue[s][1]
      /\ Len(queue'[s]) = Len(queue[s]) - 1 /\ Len(queue[s]) \in Nat
      /\ DOMAIN queue[s] = 1 .. Len(queue[s])
      /\ DOMAIN queue'[s] = 1 .. Len(queue[s]) - 1
      /\ \A i \in DOMAIN queue'[s] : i + 1 \in DOMAIN queue[s] /\ queue'[s][i] = queue[s][i + 1]
  BY PopDoes, TypesNamed DEF Gpu
<1>2. \A o \in Ops : Queued(s, o) <=> (work.op = o \/ Queued(s, o)')
  BY PopQueues, TypesNamed DEF Gpu
<1>3. /\ render' = render
      /\ buffer' = IF work.op = "write" THEN [buffer EXCEPT ![s] = surface[s].upload] ELSE buffer
      /\ surface' = IF work.op = "read" THEN [surface EXCEPT ![s].read = buffer[s]] ELSE surface
      /\ \A t \in Swaps \ {s} : shown'[t] = shown[t]
  BY TypesNamed DEF Gpu
<1> HIDE DEF work
<1>4. ChainOf(s)
  BY DEF Chains
<1>5. queue[s] # <<>> /\ work.op \in Ops
  BY <1>1 DEF WorkRecords, Gpu
<1>6. surface[s].upload \in Pictures /\ buffer[s] \in Pictures
  BY TypesNamed DEF SurfaceRecords
<1>7. /\ buffer' \in [Swaps -> Pictures]
      /\ \A t \in Swaps \ {s} : buffer'[t] = buffer[t]
      /\ work.op = "write" => buffer'[s] = surface[s].upload
      /\ work.op # "write" => buffer'[s] = buffer[s]
  BY <1>3, <1>6, TypesNamed
<1>8. /\ surface' \in [Swaps -> SurfaceRecords]
      /\ \A t \in Swaps \ {s} : surface'[t] = surface[t]
      /\ surface'[s].state = surface[s].state /\ surface'[s].uncertain = surface[s].uncertain
      /\ surface'[s].upload = surface[s].upload
      /\ work.op = "read" => surface'[s].read = buffer[s]
      /\ work.op # "read" => surface'[s].read = surface[s].read
  <2>1. CASE work.op = "read"
    <3>1. PICK image \in Pictures : image = buffer[s]
      BY <1>6
    <3>2. surface' = [surface EXCEPT ![s].read = image]
      BY <1>3, <2>1, <3>1
    <3> QED BY <2>1, <3>1, <3>2, ImageDoes, TypesNamed
  <2>2. CASE work.op # "read"
    BY <1>3, <2>2, TypesNamed
  <2> QED BY <2>1, <2>2
<1>9. ListsOf(s)'
  <2>1. render[s].phase \notin {"hook", "read", "ask", "answer", "write", "save"}
    BY <1>4, <1>5 DEF ChainOf, ListsOf
  <2>2. ASSUME NEW i \in DOMAIN queue'[s]
        PROVE  /\ queue'[s][i].frame = render[s].frame
               /\ queue'[s][i].op = "present" =>
                     i = Len(queue'[s]) /\ render[s].phase \in {"complete", "game"}
               /\ queue'[s][i].op = "read" => render[s].phase # "writing"
               /\ queue'[s][i].op = "write" => render[s].phase # "reading"
    <3>1. i + 1 \in DOMAIN queue[s] /\ queue'[s][i] = queue[s][i + 1] /\ i \in Nat
      BY <1>1
    <3> QED BY <1>1, <1>4, <3>1 DEF ChainOf, ListsOf
  <2> QED BY <1>3, <2>1, <2>2 DEF ListsOf
<1>10. BufferOf(s)'
  <2>1. work.op = "write" => surface[s].upload.frame = render[s].frame
    BY <1>2, <1>4 DEF ChainOf, SurfaceOf, Ops
  <2> QED BY <1>3, <1>4, <1>7, <2>1 DEF ChainOf, BufferOf
<1>11. SurfaceOf(s)'
  <2>1. /\ Queued(s, "read")' => Queued(s, "read")
        /\ Queued(s, "write")' => Queued(s, "write")
        /\ Queued(s, "read") => work.op = "read" \/ Queued(s, "read")'
    BY <1>2 DEF Ops
  <2>2. render[s].phase \in {"reading"} => buffer[s].frame = render[s].frame
    BY <1>4 DEF ChainOf, BufferOf, Serving
  <2>3. render[s].phase \notin {"ask", "answer"}
    BY <1>4, <1>5 DEF ChainOf, ListsOf
  <2> QED BY <1>3, <1>4, <1>8, <2>1, <2>2, <2>3 DEF ChainOf, SurfaceOf
<1> QED BY <1>1, <1>3, <1>7, <1>8, <1>9, <1>10, <1>11, TypesNamed DEF ChainStep, ChainOf, OthersKept
-----------------------------------------------------------------------------
(* Processed frames are counted.  Most steps show none and count none.       *)

LEMMA DueIs ==
    ASSUME shown \in [Swaps -> ShownRecords], NEW s \in Swaps
    PROVE  /\ shown[s].processed \in Nat /\ Due(s) \in Nat
           /\ Ahead(s) => Due(s) = shown[s].processed + 1
           /\ ~Ahead(s) => Due(s) = shown[s].processed
BY Limits DEF ShownRecords, Due

LEMMA DueIsPrime ==
    ASSUME shown' \in [Swaps -> ShownRecords], NEW s \in Swaps
    PROVE  /\ shown'[s].processed \in Nat /\ Due(s)' \in Nat
           /\ Ahead(s)' => Due(s)' = shown'[s].processed + 1
           /\ ~Ahead(s)' => Due(s)' = shown'[s].processed
BY Limits DEF ShownRecords, Due

LEMMA OtherCount ==
    ASSUME NEW s \in Swaps, NEW t \in Swaps \ {s}, OthersKept(s)
    PROVE  Due(t)' = Due(t) /\ (InFlight(t)' <=> InFlight(t))
BY DEF OthersKept, Due, Ahead, Unshown, MayBeNet, Queued, InFlight

(* A step of chain s that shows and counts no processed frame.               *)
Uncounted(s) ==
    /\ shown'[s].processed = shown[s].processed
    /\ Ahead(s)' => Ahead(s)
    /\ InFlight(s)' => InFlight(s)
    /\ InFlight(s) => InFlight(s)' \/ ~observer'.enabled
    /\ OthersKept(s)

(* The session goes on as it was, or ends.                                    *)
SessionKept ==
    /\ observer'.frames = observer.frames /\ observer'.everStarted = observer.everStarted
    /\ Active' => Active /\ observer'.selected = observer.selected

LEMMA CountKept ==
    ASSUME TypeOK, Counts, SessionKept,
           \A t \in Swaps : /\ Due(t)' \in Nat /\ Due(t)' <= Due(t)
                            /\ InFlight(t)' => InFlight(t)
                            /\ InFlight(t) => InFlight(t)' \/ ~observer'.enabled
    PROVE  Counts'
<1> SUFFICES ASSUME NEW s \in Swaps PROVE CountOf(s)'
  BY DEF Counts
<1>1. CountOf(s) /\ observer.frames \in Nat /\ Limit \in Nat
  BY Limits, TypesNamed DEF Counts, ObserverRecords
<1>2. \A t \in Swaps : Due(t) \in Nat
  BY DueIs, TypesNamed
<1>3. \A t \in Swaps : Touched(t)' => Touched(t)
  BY <1>2 DEF Touched
<1>4. Due(s)' \in Nat /\ Due(s) \in Nat /\ Due(s)' <= Due(s) /\ Limit' = Limit
  BY <1>2
<1>5. (Due(s) <= Limit)'
  BY <1>1, <1>4 DEF CountOf
<1>6. (Active /\ ~InFlight(s) => Due(s) <= observer.frames)'
  <2>1. ASSUME Active', ~InFlight(s)' PROVE Due(s)' <= observer'.frames
    <3>1. Active /\ ~InFlight(s)
      BY <2>1 DEF SessionKept, Active
    <3> QED BY <1>1, <1>4, <3>1 DEF CountOf, SessionKept
  <2> QED BY <2>1
<1>7. (InFlight(s) => observer.frames < Limit /\ Due(s) <= observer.frames + 1)'
  <2>1. ASSUME InFlight(s)' PROVE observer'.frames < Limit /\ Due(s)' <= observer'.frames + 1
    BY <1>1, <1>4, <2>1 DEF CountOf, SessionKept
  <2> QED BY <2>1
<1>8. (Touched(s) => /\ observer.everStarted
                     /\ Active => observer.selected = s
                     /\ \A t \in Swaps \ {s} : ~Touched(t))'
  <2>1. ASSUME Touched(s)'
        PROVE  /\ observer'.everStarted
               /\ Active' => observer'.selected = s
               /\ \A t \in Swaps \ {s} : ~Touched(t)'
    BY <1>1, <1>3, <2>1 DEF CountOf, SessionKept
  <2> QED BY <2>1
<1> QED BY <1>5, <1>6, <1>7, <1>8 DEF CountOf

LEMMA UncountedStep ==
    ASSUME TypeOK, shown' \in [Swaps -> ShownRecords], Counts, SessionKept,
           NEW s \in Swaps, Uncounted(s)
    PROVE  Counts'
<1>1. \A t \in Swaps \ {s} : Due(t)' = Due(t) /\ (InFlight(t)' <=> InFlight(t))
  BY OtherCount DEF Uncounted
<1>2. \A t \in Swaps : Due(t) \in Nat /\ Due(t)' \in Nat
  BY DueIs, DueIsPrime, TypesNamed
<1>3. Due(s)' <= Due(s)
  BY DueIs, DueIsPrime, TypesNamed DEF Uncounted
<1>4. ASSUME NEW t \in Swaps
      PROVE  /\ Due(t)' \in Nat /\ Due(t)' <= Due(t)
             /\ InFlight(t)' => InFlight(t)
             /\ InFlight(t) => InFlight(t)' \/ ~observer'.enabled
  <2>1. CASE t = s
    BY <1>2, <1>3, <2>1 DEF Uncounted
  <2>2. CASE t # s
    BY <1>1, <1>2, <2>2
  <2> QED BY <2>1, <2>2
<1> QED BY <1>4, CountKept

LEMMA AheadServing ==
    ASSUME NEW s \in Swaps, render[s].phase \in Serving
    PROVE  Ahead(s) /\ InFlight(s)
BY DEF Ahead, Unshown, MayBeNet, InFlight, Serving

LEMMA SessionSame ==
    /\ observer' = observer => SessionKept
    /\ observer' = Failed(observer) /\ observer \in ObserverRecords =>
          SessionKept /\ ~observer'.enabled /\ observer' \in ObserverRecords
    /\ observer' = Stopped(observer) /\ observer \in ObserverRecords =>
          SessionKept /\ ~observer'.enabled /\ observer' \in ObserverRecords
BY ObserverUpdates DEF SessionKept, Active, Ended

(* Between two lists of the critical section.                                *)
LEMMA ServingUncounted ==
    ASSUME PresentInv, NEW s \in Swaps,
           \/ SubmitRead(s) \/ SubmitWrite(s) \/ AwaitRead(s) \/ AwaitWrite(s) \/ Ask(s) \/ Answer(s)
    PROVE  /\ ChainStep(s) /\ Uncounted(s) /\ SessionKept
           /\ render[s].phase \in Serving /\ render'[s].phase \in Serving
           /\ serial' = serial /\ observer' = observer /\ bindings' = bindings /\ shown' = shown
<1>1. ChainStep(s)
  BY SubmitChain, AwaitChain, AskChain DEF PresentInv, Ops
<1>2. PICK next \in Serving :
         /\ Goto(s, next) /\ render[s].phase \in Serving
         /\ serial' = serial /\ observer' = observer /\ bindings' = bindings /\ shown' = shown
  BY DEF SubmitRead, SubmitWrite, Submit, AwaitRead, AwaitWrite, Await, Ask, Answer, At, Serving
<1>3. next \in Phases
  BY DEF Serving, Phases
<1>4. render'[s].phase \in Serving /\ render'[s].processed = render[s].processed
  BY <1>2, <1>3, GotoDoes, TypesNamed DEF PresentInv
<1>5. Uncounted(s)
  BY <1>1, <1>2, <1>4, AheadServing DEF Uncounted, ChainStep, InFlight
<1> QED BY <1>1, <1>2, <1>4, <1>5, SessionSame

LEMMA SaveUncounted ==
    ASSUME PresentInv, NEW s \in Swaps, Save(s)
    PROVE  ChainStep(s) /\ Uncounted(s) /\ SessionKept /\ render'[s].phase = "present"
<1>1. ChainStep(s)
  BY SaveChain DEF PresentInv
<1>2. /\ render[s].phase \in Serving /\ observer' = observer /\ shown' = shown
  BY DEF Save, At, Serving
<1>3. render'[s].phase = "present" /\ render'[s].processed
  BY SaveDoes, TypesNamed DEF PresentInv
<1>4. Uncounted(s)
  BY <1>1, <1>2, <1>3, AheadServing DEF Uncounted, ChainStep, InFlight
<1> QED BY <1>1, <1>2, <1>3, <1>4, SessionSame

LEMMA AbortUncounted ==
    ASSUME PresentInv, NEW s \in Swaps, Abort(s)
    PROVE  /\ ChainStep(s) /\ Uncounted(s) /\ SessionKept /\ observer' \in ObserverRecords
           /\ render'[s].phase = "present" /\ render[s].phase \in Serving
           /\ ~observer'.enabled
<1>1. ChainStep(s)
  BY AbortChain DEF PresentInv
<1>2. /\ render[s].phase \in Serving /\ observer' = Failed(observer) /\ shown' = shown
      /\ Goto(s, "present")
  BY DEF Abort, Serving
<1>3. render'[s].phase = "present"
  BY <1>2, GotoDoes, TypesNamed DEF PresentInv, Phases
<1>4. SessionKept /\ ~observer'.enabled /\ observer' \in ObserverRecords
  BY <1>2, SessionSame, TypesNamed DEF PresentInv
<1>5. Uncounted(s)
  BY <1>1, <1>2, <1>4, AheadServing DEF Uncounted, ChainStep
<1> QED BY <1>1, <1>2, <1>3, <1>4, <1>5

LEMMA PresentUncounted ==
    ASSUME PresentInv, NEW s \in Swaps, PresentOriginal(s) \/ PresentNested(s)
    PROVE  /\ ChainStep(s) /\ Uncounted(s) /\ SessionKept
           /\ render[s].phase \in {"present", "nested"} /\ render'[s].phase \in {"nested", "complete"}
<1>1. ChainStep(s)
  BY PresentChain DEF PresentInv
<1>2. /\ render[s].phase \in {"present", "nested"} /\ observer' = observer
      /\ shown' = shown /\ buffer' = buffer
  BY DEF PresentOriginal, PresentNested, At
<1>3. PICK phase \in {"nested", "complete"} :
         Goto(s, phase) /\ (queue' = queue \/ Push(s, "present"))
  BY DEF PresentOriginal, PresentNested
<1>4. render'[s].phase = phase /\ render'[s].processed = render[s].processed
  BY <1>3, GotoDoes, TypesNamed DEF PresentInv, Phases
<1>5. Queued(s, "write")' <=> Queued(s, "write")
  <2>1. CASE queue' = queue
    BY <2>1 DEF Queued
  <2>2. CASE Push(s, "present")
    BY <2>2, PushQueues, TypesNamed DEF PresentInv, Ops
  <2> QED BY <1>3, <2>1, <2>2
<1>6. Ahead(s)' => Ahead(s)
  BY <1>2, <1>4, <1>5 DEF Ahead, Unshown, MayBeNet, Serving
<1>7. InFlight(s)' <=> InFlight(s)
  BY <1>2, <1>4 DEF InFlight, Serving
<1>8. Uncounted(s)
  BY <1>1, <1>2, <1>6, <1>7 DEF Uncounted, ChainStep
<1> QED BY <1>1, <1>2, <1>4, <1>8, SessionSame

LEMMA DrawUncounted ==
    ASSUME PresentInv, NEW s \in Swaps, Draw(s)
    PROVE  /\ ChainStep(s) /\ Uncounted(s) /\ SessionKept
           /\ render[s].phase = "game" /\ render'[s].phase = "hook"
<1>1. ChainStep(s)
  BY DrawChain DEF PresentInv
<1>2. /\ render[s].phase = "game" /\ observer' = observer /\ shown' = shown /\ queue'[s] = <<>>
  BY DEF Draw, At
<1>3. render'[s].phase = "hook" /\ ~render'[s].processed /\ ~buffer'[s].net
  BY DrawDoes DEF PresentInv
<1>4. ~Queued(s, "write")'
  BY <1>2, EmptyQueue DEF Ops
<1>5. ~Ahead(s)' /\ ~InFlight(s)'
  BY <1>3, <1>4 DEF Ahead, MayBeNet, InFlight, Serving
<1>6. ~InFlight(s)
  BY <1>2 DEF PresentInv, Chains, ChainOf, BufferOf, InFlight, Serving
<1> QED BY <1>1, <1>2, <1>3, <1>5, <1>6, SessionSame DEF Uncounted, ChainStep

LEMMA ResizeUncounted ==
    ASSUME PresentInv, NEW s \in Swaps, Resize(s), SessionKept
    PROVE  ChainStep(s) /\ Uncounted(s) /\ render' = render /\ shown' = shown /\ serial' = serial
<1>1. ChainStep(s)
  BY ResizeChain DEF PresentInv
<1>2. /\ render[s].phase \in {"game", "present"} /\ shown' = shown /\ queue'[s] = <<>> /\ render' = render
      /\ buffer' = [buffer EXCEPT ![s] = Nothing] /\ serial' = serial
  BY DEF Resize
<1>3. buffer'[s] = Nothing /\ ~Nothing.net
  BY <1>2, NothingIsPicture, TypesNamed DEF PresentInv
<1>4. ~Queued(s, "write")'
  BY <1>2, EmptyQueue DEF Ops
<1>5. ~Ahead(s)'
  BY <1>2, <1>3, <1>4 DEF Ahead, MayBeNet, Serving
<1>6. InFlight(s)' <=> InFlight(s)
  BY <1>2 DEF InFlight
<1> QED BY <1>1, <1>2, <1>5, <1>6 DEF Uncounted, ChainStep

(* Process turns the call down, or starts the frame: the session was not full *)
(* and served no other chain.                                                 *)
Refused(s) ==
    /\ Goto(s, "present") /\ serial' = serial /\ surface' = surface
    /\ observer' \in {observer, Failed(observer), Stopped(observer)}

Accepted(s) ==
    /\ Goto(s, "read") /\ serial' = s
    /\ Active /\ observer.frames < Limit /\ observer.selected \in {"none", s}
    /\ observer' = [observer EXCEPT !.selected = s]

LEMMA EnterDoes ==
    ASSUME TypeOK, NEW s \in Swaps, Enter(s)
    PROVE  /\ Refused(s) \/ (Accepted(s) /\ serial = "none")
           /\ render[s].phase = "hook" /\ bindings' = bindings /\ shown' = shown
           /\ queue' = queue /\ buffer' = buffer
<1>1. observer.frames \in Nat /\ Limit \in Nat
  <2>1. observer \in ObserverRecords
    BY TypesNamed
  <2> QED BY <2>1, Limits DEF ObserverRecords
<1>2. Refused(s) \/ Accepted(s)
  <2>1. CASE ~Active \/ observer.frames >= Limit \/ render[s].test
    BY <2>1, Zenon DEF Enter, Refused
  <2>2. CASE Active /\ ~(observer.frames >= Limit) /\ ~render[s].test
    <3>1. observer.frames < Limit
      BY <1>1, <2>2
    <3>2. \/ /\ Goto(s, "present") /\ observer' \in {observer, Failed(observer), Stopped(observer)}
             /\ serial' = serial /\ surface' = surface
          \/ /\ ~Unsuitable(s) /\ serial' = s /\ Goto(s, "read")
             /\ observer' = [observer EXCEPT !.selected = s]
      BY <2>2, Zenon DEF Enter
    <3> QED BY <2>2, <3>1, <3>2 DEF Refused, Accepted, Unsuitable
  <2> QED BY <2>1, <2>2
<1> QED BY <1>2 DEF Enter, At, Free

LEMMA RefusedUncounted ==
    ASSUME PresentInv, NEW s \in Swaps, Enter(s), Refused(s)
    PROVE  /\ ChainStep(s) /\ Uncounted(s) /\ SessionKept /\ observer' \in ObserverRecords
           /\ render[s].phase = "hook" /\ render'[s].phase = "present"
<1>1. ChainStep(s)
  BY EnterChain DEF PresentInv
<1>2. /\ render[s].phase = "hook" /\ shown' = shown /\ queue' = queue /\ buffer' = buffer
  BY EnterDoes DEF PresentInv
<1>3. SessionKept /\ observer' \in ObserverRecords
  BY SessionSame, TypesNamed DEF Refused, PresentInv
<1>4. render'[s].phase = "present" /\ render'[s].processed = render[s].processed
  BY GotoDoes, TypesNamed DEF PresentInv, Phases, Refused
<1>5. Ahead(s)' => Ahead(s)
  BY <1>2, <1>4 DEF Ahead, Unshown, MayBeNet, Serving, Queued
<1>6. InFlight(s)' <=> InFlight(s)
  BY <1>2, <1>4 DEF InFlight, Serving
<1> QED BY <1>1, <1>2, <1>3, <1>4, <1>5, <1>6 DEF Uncounted, ChainStep

LEMMA AcceptedCounts ==
    ASSUME PresentInv, NEW s \in Swaps, Enter(s), Accepted(s)
    PROVE  Counts' /\ observer' \in ObserverRecords
<1>1. OthersKept(s)
  BY EnterChain DEF PresentInv, ChainStep
<1>2. render[s].phase = "hook" /\ shown' = shown
  BY EnterDoes DEF PresentInv
<1>3. render'[s].phase = "read"
  BY GotoDoes, TypesNamed DEF PresentInv, Phases, Accepted
<1>4. \A t \in Swaps \ {s} : Due(t)' = Due(t) /\ (InFlight(t)' <=> InFlight(t))
  BY <1>1, OtherCount
<1>5. /\ observer' \in ObserverRecords /\ observer'.selected = s
      /\ observer'.frames = observer.frames /\ observer'.everStarted = observer.everStarted
      /\ observer.frames \in Nat /\ Limit \in Nat
  <2>1. observer \in ObserverRecords
    BY TypesNamed DEF PresentInv
  <2> QED BY <2>1, Limits DEF Accepted, ObserverRecords
<1>d. /\ shown \in [Swaps -> ShownRecords] /\ shown' \in [Swaps -> ShownRecords]
  BY <1>2, TypesNamed DEF PresentInv
<1>6. ~InFlight(s)
  BY <1>2 DEF PresentInv, Chains, ChainOf, BufferOf, InFlight, Serving
<1>7. shown[s].processed <= observer.frames /\ shown[s].processed \in Nat
  <2>1. Due(s) <= observer.frames
    BY <1>6 DEF PresentInv, Counts, CountOf, Accepted
  <2>2. /\ shown[s].processed \in Nat /\ Due(s) \in Nat
        /\ Due(s) = shown[s].processed + 1 \/ Due(s) = shown[s].processed
    BY <1>d, DueIs
  <2> QED BY <1>5, <2>1, <2>2
<1>8. Due(s)' <= observer.frames + 1 /\ Due(s)' \in Nat /\ InFlight(s)'
  <2>1. /\ Due(s)' \in Nat
        /\ Due(s)' = shown'[s].processed + 1 \/ Due(s)' = shown'[s].processed
    BY <1>d, DueIsPrime
  <2>2. InFlight(s)'
    BY <1>3 DEF InFlight, Serving
  <2> QED BY <1>2, <1>5, <1>7, <2>1, <2>2
<1>9. ASSUME NEW t \in Swaps \ {s} PROVE ~Touched(t) /\ ~Touched(t)' /\ Due(t)' = 0
  <2>1. Touched(t) => observer.selected = t
    BY DEF PresentInv, Counts, CountOf, Accepted
  <2>2. ~Touched(t)
    BY <2>1, Limits DEF Accepted
  <2>3. Due(t) \in Nat
    BY DueIs, TypesNamed DEF PresentInv
  <2> QED BY <1>4, <2>2, <2>3 DEF Touched
<1>10. observer.everStarted
  BY DEF Accepted, Active, PresentInv, Held
<1>11. ASSUME NEW t \in Swaps PROVE CountOf(t)'
  <2>1. CASE t = s
    <3>1. (Due(s) <= Limit)'
      BY <1>5, <1>8 DEF Accepted
    <3>2. (Active /\ ~InFlight(s) => Due(s) <= observer.frames)'
      BY <1>8
    <3>3. (InFlight(s) => observer.frames < Limit /\ Due(s) <= observer.frames + 1)'
      BY <1>5, <1>8 DEF Accepted
    <3>4. (Touched(s) => /\ observer.everStarted
                         /\ Active => observer.selected = s
                         /\ \A u \in Swaps \ {s} : ~Touched(u))'
      BY <1>5, <1>9, <1>10
    <3> QED BY <2>1, <3>1, <3>2, <3>3, <3>4 DEF CountOf
  <2>2. CASE t # s
    <3>1. ~Touched(t)' /\ Due(t)' = 0
      BY <1>9, <2>2
    <3>2. ~InFlight(t)'
      BY <3>1 DEF Touched
    <3>3. (Due(t) <= Limit)'
      BY <1>5, <3>1
    <3>4. (Active /\ ~InFlight(t) => Due(t) <= observer.frames)'
      BY <1>5, <3>1
    <3>5. (InFlight(t) => observer.frames < Limit /\ Due(t) <= observer.frames + 1)'
      BY <3>2
    <3> QED BY <3>1, <3>3, <3>4, <3>5 DEF CountOf
  <2> QED BY <2>1, <2>2
<1> QED BY <1>5, <1>11 DEF Counts

(* A call that returns: without a processed frame, with one that is counted,   *)
(* or with one that Present did not accept.                                   *)
LEMMA CompleteCounts ==
    ASSUME PresentInv, NEW s \in Swaps, Complete(s)
    PROVE  Counts' /\ observer' \in ObserverRecords /\ (observer'.enabled => observer.enabled)
           /\ observer'.everStarted = observer.everStarted
<1>1. ChainStep(s)
  BY CompleteChain DEF PresentInv
<1>2. render[s].phase = "complete" /\ shown' = shown /\ queue' = queue /\ buffer' = buffer
  BY DEF Complete, At
<1>3. render'[s].phase = "game" /\ ~render'[s].processed
  BY CompleteDoes, TypesNamed DEF PresentInv
<1>4. ~InFlight(s)' /\ (InFlight(s) <=> render[s].processed)
  BY <1>2, <1>3 DEF InFlight, Serving
<1>5. Ahead(s)' => Ahead(s)
  BY <1>2, <1>3 DEF Ahead, Unshown, MayBeNet, Serving, Queued
<1>6. CASE observer' = Failed(observer) \/ (~render[s].processed /\ observer' = observer)
  <2>1. SessionKept /\ observer' \in ObserverRecords /\ (render[s].processed => ~observer'.enabled)
    BY <1>6, SessionSame, TypesNamed DEF PresentInv
  <2>2. Uncounted(s)
    BY <1>1, <1>2, <1>4, <1>5, <2>1 DEF Uncounted, ChainStep
  <2>3. Counts'
    BY <1>2, <2>1, <2>2, UncountedStep, TypesNamed DEF PresentInv
  <2>4. observer'.enabled => observer.enabled
    BY <1>6, ObserverUpdates, TypesNamed DEF PresentInv, Ended
  <2> QED BY <2>1, <2>3, <2>4 DEF SessionKept
<1>7. CASE /\ render[s].processed
           /\ observer' = LET o == [observer EXCEPT !.frames = @ + 1]
                          IN  IF o.frames >= Limit THEN Stopped(o) ELSE o
  <2>1. InFlight(s) /\ observer.frames < Limit /\ Due(s) <= observer.frames + 1
    BY <1>4, <1>7 DEF PresentInv, Counts, CountOf
  <2>2. observer \in ObserverRecords /\ observer.frames \in Nat /\ Limit \in Nat
    BY Limits, TypesNamed DEF PresentInv, ObserverRecords
  <2>3. PICK o : o = [observer EXCEPT !.frames = @ + 1]
    OBVIOUS
  <2>4. /\ o \in ObserverRecords /\ o.frames = observer.frames + 1 /\ o.enabled = observer.enabled
        /\ o.everStarted = observer.everStarted /\ o.selected = observer.selected
        /\ o.failed = observer.failed
    BY <2>1, <2>2, <2>3 DEF ObserverRecords
  <2>5. observer' = o \/ observer' = Stopped(o)
    BY <1>7, <2>3
  <2>6. /\ observer' \in ObserverRecords /\ observer'.frames = observer.frames + 1
        /\ observer'.everStarted = observer.everStarted /\ observer'.selected = observer.selected
        /\ observer'.failed = observer.failed /\ (observer'.enabled => observer.enabled)
    BY <2>4, <2>5, ObserverUpdates DEF Ended
  <2>7. Touched(s)
    BY <2>1 DEF Touched
  <2>8. \A t \in Swaps \ {s} : Due(t)' = Due(t) /\ (InFlight(t)' <=> InFlight(t)) /\ ~Touched(t)
    BY <1>1, <2>7, OtherCount DEF ChainStep, PresentInv, Counts, CountOf
  <2>9. Due(s)' <= Due(s) /\ Due(s)' \in Nat /\ Due(s) \in Nat
    <3>1. shown \in [Swaps -> ShownRecords] /\ shown' \in [Swaps -> ShownRecords]
      BY <1>2, TypesNamed DEF PresentInv
    <3>2. /\ shown[s].processed \in Nat /\ Due(s) \in Nat
          /\ Ahead(s) => Due(s) = shown[s].processed + 1
          /\ ~Ahead(s) => Due(s) = shown[s].processed
      BY <3>1, DueIs
    <3>3. /\ Due(s)' \in Nat
          /\ Ahead(s)' => Due(s)' = shown'[s].processed + 1
          /\ ~Ahead(s)' => Due(s)' = shown'[s].processed
      BY <3>1, DueIsPrime
    <3> QED BY <1>2, <1>5, <3>2, <3>3
  <2>10. Active' => Active
    BY <2>6 DEF Active
  <2>11. observer.everStarted /\ (Active => observer.selected = s)
    BY <2>7 DEF PresentInv, Counts, CountOf
  <2>12. \A t \in Swaps \ {s} : ~InFlight(t)' /\ Due(t)' = 0 /\ ~Touched(t)'
    <3>1. \A t \in Swaps : Due(t) \in Nat
      BY DueIs, TypesNamed DEF PresentInv
    <3> QED BY <2>8, <3>1 DEF Touched
  <2>13. ASSUME NEW t \in Swaps PROVE CountOf(t)'
    <3>1. CASE t = s
      <4>1. (Due(s) <= Limit)'
        BY <2>1, <2>2, <2>9
      <4>2. (Active /\ ~InFlight(s) => Due(s) <= observer.frames)'
        BY <2>1, <2>2, <2>6, <2>9
      <4>3. (Touched(s) => /\ observer.everStarted
                           /\ Active => observer.selected = s
                           /\ \A u \in Swaps \ {s} : ~Touched(u))'
        BY <2>6, <2>10, <2>11, <2>12
      <4> QED BY <1>4, <3>1, <4>1, <4>2, <4>3 DEF CountOf
    <3>2. CASE t # s
      <4>1. ~InFlight(t)' /\ Due(t)' = 0 /\ ~Touched(t)'
        BY <2>12, <3>2
      <4>2. (Due(t) <= Limit)'
        BY <2>2, <4>1
      <4>3. (Active /\ ~InFlight(t) => Due(t) <= observer.frames)'
        BY <2>2, <2>6, <4>1
      <4> QED BY <4>1, <4>2, <4>3 DEF CountOf
    <3> QED BY <3>1, <3>2
  <2>14. Counts'
    BY <2>13 DEF Counts
  <2> QED BY <2>6, <2>14
<1> QED BY <1>6, <1>7 DEF Complete

(* The queue shows a frame: the one of the call, and counted before.          *)
LEMMA GpuCounts ==
    ASSUME PresentInv, NEW s \in Swaps, Gpu(s)
    PROVE  Counts' /\ shown' \in [Swaps -> ShownRecords] /\ ShownIsOwn'
<1> DEFINE work == Head(queue[s])
           count == IF buffer[s].net THEN shown[s].processed + 1 ELSE shown[s].processed
<1>1. /\ work \in WorkRecords /\ 1 \in DOMAIN queue[s] /\ work = queue[s][1]
      /\ DOMAIN queue'[s] = 1 .. Len(queue[s]) - 1
  BY PopDoes, TypesNamed DEF Gpu, PresentInv
<1>2. \A o \in Ops : Queued(s, o) <=> (work.op = o \/ Queued(s, o)')
  BY PopQueues, TypesNamed DEF Gpu, PresentInv
<1>3. ChainStep(s)
  BY GpuChain DEF PresentInv
<1>4. /\ render' = render /\ observer' = observer
      /\ buffer' = IF work.op = "write" THEN [buffer EXCEPT ![s] = surface[s].upload] ELSE buffer
      /\ shown' = IF work.op = "present"
                  THEN [shown EXCEPT ![s] = [content |-> buffer[s], call |-> work.frame,
                                             processed |-> count]]
                  ELSE shown
  BY DEF Gpu
<1>5. ChainOf(s) /\ ShownIsOwn /\ CountOf(s)
  BY DEF PresentInv, Chains, Counts
<1>6. /\ shown \in [Swaps -> ShownRecords] /\ buffer \in [Swaps -> Pictures]
      /\ shown[s].processed \in Nat /\ Limit \in Nat
  BY Limits, TypesNamed DEF PresentInv, ShownRecords
<1>7. Ahead(s) => Due(s) = shown[s].processed + 1
  BY <1>6, DueIs
<1> HIDE DEF work
<1>8. InFlight(s)' <=> InFlight(s)
  BY <1>4 DEF InFlight
<1>9. CASE work.op = "present"
  <2>1. 1 = Len(queue[s]) /\ render[s].phase \in {"complete", "game"} /\ work.frame = render[s].frame
    BY <1>1, <1>5, <1>9 DEF ChainOf, ListsOf
  <2>2. DOMAIN queue'[s] = {} /\ ~Queued(s, "present")'
    <3>1. Len(queue[s]) - 1 = 0
      BY <2>1
    <3>2. DOMAIN queue'[s] = 1 .. 0
      BY <1>1, <3>1
    <3>3. DOMAIN queue'[s] = {}
      BY <3>2
    <3> QED BY <3>3 DEF Queued
  <2>3. buffer[s].net => Ahead(s)
    BY <1>2, <1>9 DEF Ahead, Unshown, MayBeNet, Ops
  <2>4. count \in 0 .. Limit /\ count \in Nat
    <3>1. CASE buffer[s].net
      BY <1>5, <1>6, <1>7, <2>3, <3>1 DEF CountOf
    <3>2. CASE ~buffer[s].net
      BY <1>6, <3>2 DEF ShownRecords
    <3> QED BY <3>1, <3>2
  <2> HIDE DEF count
  <2>5. PICK new \in ShownRecords : new = [content |-> buffer[s], call |-> work.frame, processed |-> count]
    BY <1>1, <1>6, <2>4 DEF ShownRecords, WorkRecords
  <2>6. shown' = [shown EXCEPT ![s] = new]
    BY <1>4, <1>9, <2>5
  <2>7. /\ shown' \in [Swaps -> ShownRecords] /\ shown'[s] = new
        /\ \A t \in Swaps \ {s} : shown'[t] = shown[t]
    BY <1>6, <2>6
  <2>8. ~Ahead(s)' /\ Due(s)' = count
    <3>1. ~Ahead(s)'
      BY <1>4, <2>1, <2>2 DEF Ahead, Unshown
    <3>2. Due(s)' = shown'[s].processed
      BY <2>7, <3>1, DueIsPrime
    <3> QED BY <2>5, <2>7, <3>1, <3>2
  <2>9. count <= Due(s) /\ Due(s) \in Nat
    <3>1. Due(s) \in Nat /\ (~Ahead(s) => Due(s) = shown[s].processed)
      BY <1>6, DueIs
    <3>2. count = shown[s].processed \/ (count = shown[s].processed + 1 /\ buffer[s].net)
      BY DEF count
    <3>3. Due(s) = shown[s].processed + 1 \/ (Due(s) = shown[s].processed /\ ~Ahead(s))
      BY <1>7, <3>1
    <3> QED BY <1>6, <2>3, <3>1, <3>2, <3>3
  <2>10. \A t \in Swaps \ {s} : Due(t)' = Due(t) /\ (InFlight(t)' <=> InFlight(t))
    BY <1>3, OtherCount DEF ChainStep
  <2>11. SessionKept
    BY <1>4, SessionSame
  <2>12. ASSUME NEW t \in Swaps
         PROVE  /\ Due(t)' \in Nat /\ Due(t)' <= Due(t)
                /\ InFlight(t)' => InFlight(t)
                /\ InFlight(t) => InFlight(t)' \/ ~observer'.enabled
    <3>1. CASE t = s
      BY <1>8, <2>4, <2>8, <2>9, <3>1
    <3>2. CASE t # s
      <4>1. Due(t) \in Nat
        BY <1>6, DueIs
      <4> QED BY <2>10, <3>2, <4>1
    <3> QED BY <3>1, <3>2
  <2>13. Counts'
    BY <2>11, <2>12, CountKept DEF PresentInv
  <2>14. ShownIsOwn'
    <3>1. new.content = Nothing \/ new.content.frame = new.call
      BY <1>5, <2>1, <2>5 DEF ChainOf, BufferOf
    <3> QED BY <1>5, <2>7, <3>1 DEF ShownIsOwn
  <2> QED BY <2>7, <2>13, <2>14
<1>10. CASE work.op # "present"
  <2>1. shown' = shown
    BY <1>4, <1>10
  <2>2. work.op = "write" => Queued(s, "write")
    BY <1>2 DEF Ops
  <2>3. /\ Queued(s, "write")' => Queued(s, "write")
        /\ Queued(s, "present")' <=> Queued(s, "present")
    BY <1>2, <1>10 DEF Ops
  <2>4. work.op # "write" => buffer'[s] = buffer[s]
    BY <1>4
  <2>5. Ahead(s)' => Ahead(s)
    BY <1>4, <2>2, <2>3, <2>4 DEF Ahead, Unshown, MayBeNet
  <2>6. SessionKept
    BY <1>4, SessionSame
  <2>7. Uncounted(s)
    BY <1>3, <1>8, <2>1, <2>5 DEF Uncounted, ChainStep
  <2>8. Counts'
    BY <1>6, <2>1, <2>6, <2>7, UncountedStep DEF PresentInv
  <2> QED BY <1>5, <1>6, <2>1, <2>8 DEF ShownIsOwn
<1> QED BY <1>9, <1>10

(* Steps that touch no chain.                                                 *)
LEMMA GameKept ==
    ASSUME PresentInv, UNCHANGED <<gameVars, surface>>
    PROVE  /\ Chains' /\ ShownIsOwn' /\ shown' \in [Swaps -> ShownRecords]
           /\ SessionKept => Counts'
<1>1. /\ render' = render /\ queue' = queue /\ buffer' = buffer /\ shown' = shown /\ surface' = surface
  BY DEF gameVars
<1>2. Chains'
  BY <1>1 DEF PresentInv, Chains, ChainOf, ListsOf, SurfaceOf, BufferOf, Queued
<1>3. ShownIsOwn' /\ shown' \in [Swaps -> ShownRecords]
  BY <1>1, TypesNamed DEF PresentInv, ShownIsOwn
<1>4. \A t \in Swaps : Due(t)' = Due(t) /\ (InFlight(t)' <=> InFlight(t))
  BY <1>1 DEF Due, Ahead, Unshown, MayBeNet, Queued, InFlight
<1>5. \A t \in Swaps : Due(t) \in Nat
  BY DueIs, TypesNamed DEF PresentInv
<1>6. ASSUME SessionKept PROVE Counts'
  BY <1>4, <1>5, <1>6, CountKept DEF PresentInv
<1> QED BY <1>2, <1>3, <1>6

(* A session starts once, when no chain has shown or serves a frame.          *)
LEMMA ConnectCounts ==
    ASSUME PresentInv, Connect
    PROVE  Counts'
<1>1. UNCHANGED <<gameVars, surface>> /\ serial = "start"
  BY DEF Connect
<1>2. observer \in ObserverRecords /\ ~observer.everStarted
  BY <1>1, TypesNamed DEF PresentInv, Held
<1>3. CASE observer' = Failed(observer)
  BY <1>1, <1>2, <1>3, GameKept, SessionSame
<1>4. CASE observer' = [observer EXCEPT !.everStarted = TRUE, !.frames = 0, !.enabled = TRUE]
  <2>1. \A t \in Swaps : ~Touched(t)
    BY <1>2 DEF PresentInv, Counts, CountOf
  <2>2. render' = render /\ queue' = queue /\ buffer' = buffer /\ shown' = shown
    BY <1>1 DEF gameVars
  <2>3. \A t \in Swaps : Due(t)' = Due(t) /\ (InFlight(t)' <=> InFlight(t))
    BY <2>2 DEF Due, Ahead, Unshown, MayBeNet, Queued, InFlight
  <2>4. \A t \in Swaps : Due(t) \in Nat
    BY DueIs, TypesNamed DEF PresentInv
  <2>5. \A t \in Swaps : ~Touched(t)' /\ ~InFlight(t)' /\ Due(t)' = 0
    BY <2>1, <2>3, <2>4 DEF Touched
  <2>6. observer'.frames = 0 /\ Limit \in Nat
    BY <1>2, <1>4, Limits DEF ObserverRecords
  <2> QED BY <2>5, <2>6 DEF Counts, CountOf
<1> QED BY <1>3, <1>4 DEF Connect
-----------------------------------------------------------------------------
(* The mutex.                                                                *)

LEMMA HeldKept ==
    ASSUME Held, serial' = serial,
           \A t \in Swaps : render'[t].phase \in Serving <=> render[t].phase \in Serving,
           observer'.everStarted = observer.everStarted, observer'.enabled => observer.enabled
    PROVE  Held'
BY DEF Held

LEMMA HeldByOne ==
    ASSUME Held, NEW s \in Swaps, render[s].phase \in Serving
    PROVE  serial = s /\ \A t \in Swaps \ {s} : render[t].phase \notin Serving
BY DEF Held

LEMMA HeldByNone ==
    ASSUME Held, serial \in {"none", "start"}
    PROVE  \A t \in Swaps : render[t].phase \notin Serving
BY Limits DEF Held

(* A hook takes the mutex, or releases it.                                   *)
LEMMA HeldTaken ==
    ASSUME Held, NEW s \in Swaps, serial = "none", serial' = s, OthersKept(s),
           render'[s].phase \in Serving,
           observer'.everStarted = observer.everStarted, observer'.enabled => observer.enabled
    PROVE  Held'
<1>1. \A t \in Swaps : render[t].phase \notin Serving
  BY HeldByNone
<1>2. \A t \in Swaps \ {s} : render'[t].phase \notin Serving
  BY <1>1 DEF OthersKept
<1> QED BY <1>2, Limits DEF Held

LEMMA HeldReleased ==
    ASSUME Held, NEW s \in Swaps, render[s].phase \in Serving, serial' = "none", OthersKept(s),
           render'[s].phase \notin Serving,
           observer'.everStarted = observer.everStarted, observer'.enabled => observer.enabled
    PROVE  Held'
<1>1. \A t \in Swaps \ {s} : render[t].phase \notin Serving
  BY HeldByOne
<1>2. \A t \in Swaps : render'[t].phase \notin Serving
  BY <1>1 DEF OthersKept
<1> QED BY <1>2, Limits DEF Held

(* A step of chain s that neither takes nor releases the mutex.                *)
LEMMA HeldSame ==
    ASSUME Held, NEW s \in Swaps, serial' = serial, OthersKept(s),
           render'[s].phase \in Serving <=> render[s].phase \in Serving,
           observer'.everStarted = observer.everStarted, observer'.enabled => observer.enabled
    PROVE  Held'
<1>1. \A t \in Swaps : render'[t].phase \in Serving <=> render[t].phase \in Serving
  BY DEF OthersKept
<1> QED BY <1>1, HeldKept

LEMMA SessionEnables ==
    ASSUME SessionKept, observer' = observer \/ ~observer'.enabled
    PROVE  observer'.everStarted = observer.everStarted /\ (observer'.enabled => observer.enabled)
BY DEF SessionKept

LEMMA Assembled ==
    ASSUME PresentInv, NEW s \in Swaps, ChainStep(s), Counts', Held', ShownIsOwn',
           observer' \in ObserverRecords, shown' \in [Swaps -> ShownRecords],
           serial' \in Swaps \cup {"none", "start"},
           bindings' \in [Swaps -> {"none", "sdr", "hdr"}]
    PROVE  PresentInv'
<1>1. Chains'
  BY OtherChain DEF PresentInv, ChainStep
<1>2. TypeOK'
  BY TypesPrime DEF ChainStep
<1> QED BY <1>1, <1>2 DEF PresentInv

LEMMA AssembledUncounted ==
    ASSUME PresentInv, NEW s \in Swaps, ChainStep(s), Uncounted(s), SessionKept, Held',
           observer' \in ObserverRecords, shown' = shown,
           serial' \in Swaps \cup {"none", "start"},
           bindings' \in [Swaps -> {"none", "sdr", "hdr"}]
    PROVE  PresentInv'
<1>1. shown' \in [Swaps -> ShownRecords] /\ ShownIsOwn'
  BY TypesNamed DEF PresentInv, ShownIsOwn
<1>2. Counts'
  BY <1>1, UncountedStep DEF PresentInv
<1> QED BY <1>1, <1>2, Assembled
-----------------------------------------------------------------------------
(* One step preserves the invariant.                                         *)

LEMMA PresentInit == Init => PresentInv
<1> SUFFICES ASSUME Init PROVE PresentInv
  OBVIOUS
<1>1. TypeOK
  BY TypesInit
<1>2. \A s \in Swaps : /\ render[s].phase = "game" /\ render[s].frame = 0 /\ ~render[s].processed
                       /\ queue[s] = <<>> /\ buffer[s] = Nothing /\ ~Nothing.net
                       /\ shown[s].processed = 0 /\ shown[s].content = Nothing
  BY NothingIsPicture DEF Init
<1>3. \A s \in Swaps : DOMAIN queue[s] = {} /\ \A o \in Ops : ~Queued(s, o)
  BY <1>2, EmptyQueue
<1>4. Held
  BY <1>2, Limits DEF Init, Held, Serving
<1>5. ASSUME NEW s \in Swaps PROVE ChainOf(s)
  BY <1>2, <1>3 DEF ChainOf, ListsOf, SurfaceOf, BufferOf, Serving, Ops
<1>6. \A s \in Swaps : ~Ahead(s) /\ ~InFlight(s)
  BY <1>2, <1>3 DEF Ahead, Unshown, InFlight, Serving, Ops
<1>7. \A s \in Swaps : Due(s) = 0 /\ ~Touched(s)
  <2> TAKE s \in Swaps
  <2>1. shown \in [Swaps -> ShownRecords]
    BY <1>1, TypesNamed
  <2>2. Due(s) = shown[s].processed
    BY <1>6, <2>1, DueIs
  <2> QED BY <1>2, <1>6, <2>2 DEF Touched
<1>8. Counts
  <2>1. ~Active
    BY DEF Init, Active
  <2>2. Limit \in Nat
    BY Limits
  <2> SUFFICES ASSUME NEW s \in Swaps PROVE CountOf(s)
    BY DEF Counts
  <2>3. Due(s) = 0 /\ ~Touched(s) /\ ~InFlight(s)
    BY <1>6, <1>7
  <2>4. Due(s) <= Limit
    BY <2>2, <2>3
  <2> QED BY <2>1, <2>3, <2>4 DEF CountOf
<1> QED BY <1>1, <1>2, <1>4, <1>5, <1>8 DEF PresentInv, Chains, ShownIsOwn

LEMMA CommandKeeps ==
    ASSUME PresentInv, Start \/ Connect \/ Stop
    PROVE  PresentInv'
<1>1. TypeOK' /\ observer \in ObserverRecords
  BY CommandTypes, TypesNamed DEF PresentInv
<1>2. UNCHANGED <<gameVars, surface>> /\ render' = render
  BY DEF Start, Connect, Stop, gameVars
<1>3. Chains' /\ ShownIsOwn' /\ (SessionKept => Counts')
  BY <1>2, GameKept
<1>4. Counts'
  <2>1. CASE Connect
    BY <2>1, ConnectCounts
  <2>2. CASE Start \/ Stop
    BY <1>1, <1>3, <2>2, SessionSame DEF Start, Stop
  <2> QED BY <2>1, <2>2
<1>5. Held'
  <2>1. CASE Start
    <3>1. serial = "none" /\ serial' = "start" /\ observer' = observer /\ ~observer.everStarted
      BY <2>1 DEF Start, Free
    <3>2. \A t \in Swaps : render[t].phase \notin Serving
      BY <3>1, HeldByNone DEF PresentInv
    <3> QED BY <1>2, <3>1, <3>2, Limits DEF PresentInv, Held
  <2>2. CASE Connect
    <3>1. serial = "start" /\ serial' = "none"
      BY <2>2 DEF Connect
    <3>2. \A t \in Swaps : render[t].phase \notin Serving
      BY <3>1, HeldByNone DEF PresentInv
    <3>3. observer'.enabled => observer'.everStarted
      <4>1. CASE observer' = Failed(observer)
        BY <1>1, <4>1, ObserverUpdates DEF Ended
      <4>2. CASE observer' = [observer EXCEPT !.everStarted = TRUE, !.frames = 0, !.enabled = TRUE]
        BY <1>1, <4>2 DEF ObserverRecords
      <4> QED BY <2>2, <4>1, <4>2 DEF Connect
    <3> QED BY <1>2, <3>1, <3>2, <3>3, Limits DEF Held
  <2>3. CASE Stop
    BY <1>1, <1>2, <2>3, HeldKept, ObserverUpdates DEF PresentInv, Stop, Ended
  <2> QED BY <2>1, <2>2, <2>3
<1> QED BY <1>1, <1>3, <1>4, <1>5 DEF PresentInv

LEMMA WindowKeeps ==
    ASSUME PresentInv, NEW s \in Swaps,
           CreateSwapChain(s) \/ ResizeBuffers(s) \/ ResizeBuffers1(s) \/ SetColorSpace(s)
    PROVE  PresentInv'
<1>1. /\ TypeOK' /\ observer \in ObserverRecords
  BY WindowTypes, TypesNamed DEF PresentInv
<1>2. /\ observer' \in ObserverRecords /\ serial' \in Swaps \cup {"none", "start"}
      /\ bindings' \in [Swaps -> {"none", "sdr", "hdr"}]
  BY <1>1, TypesPrime
<1>3. SessionKept /\ (observer'.enabled => observer.enabled)
  <2>1. CASE observer' = observer \/ observer' = Failed(observer) \/ observer' = Stopped(observer)
    BY <1>1, <2>1, SessionSame, ObserverUpdates
  <2>2. CASE ResizeBuffers1(s)
    <3>1. /\ Stopped(observer) \in ObserverRecords /\ ~Stopped(observer).enabled
          /\ Stopped(observer).frames = observer.frames
          /\ Stopped(observer).everStarted = observer.everStarted
      BY <1>1, ObserverUpdates DEF Ended
    <3>2. PICK chain : observer' = [Stopped(observer) EXCEPT !.selected = chain]
      BY <2>2 DEF ResizeBuffers1
    <3>3. ~observer'.enabled /\ observer'.frames = observer.frames
          /\ observer'.everStarted = observer.everStarted
      BY <3>1, <3>2 DEF ObserverRecords
    <3> QED BY <3>3 DEF SessionKept, Active
  <2> QED BY <2>1, <2>2 DEF CreateSwapChain, ResizeBuffers, SetColorSpace
<1>4. CASE CreateSwapChain(s) \/ SetColorSpace(s)
  <2>1. UNCHANGED <<gameVars, surface>> /\ render' = render /\ serial' = serial
    BY <1>4 DEF CreateSwapChain, SetColorSpace, gameVars
  <2>2. Held'
    BY <1>3, <2>1, HeldKept DEF PresentInv, SessionKept
  <2> QED BY <1>1, <1>3, <2>1, <2>2, GameKept DEF PresentInv
<1>5. CASE ResizeBuffers(s) \/ ResizeBuffers1(s)
  <2>1. Resize(s)
    BY <1>5 DEF ResizeBuffers, ResizeBuffers1
  <2>2. ChainStep(s) /\ Uncounted(s) /\ render' = render /\ shown' = shown /\ serial' = serial
    BY <1>3, <2>1, ResizeUncounted
  <2>3. Held'
    BY <1>3, <2>2, HeldKept DEF PresentInv, SessionKept
  <2> QED BY <1>2, <1>3, <2>2, <2>3, AssembledUncounted
<1> QED BY <1>4, <1>5

LEMMA HookKeeps ==
    ASSUME PresentInv, NEW s \in Swaps, Draw(s) \/ HookStep(s) \/ Gpu(s)
    PROVE  PresentInv'
<1>1. /\ Held /\ TypeOK /\ observer \in ObserverRecords
      /\ serial \in Swaps \cup {"none", "start"}
      /\ bindings \in [Swaps -> {"none", "sdr", "hdr"}]
  BY TypesNamed DEF PresentInv
<1>2. CASE Draw(s)
  <2>1. /\ ChainStep(s) /\ Uncounted(s) /\ SessionKept
        /\ render[s].phase \notin Serving /\ render'[s].phase \notin Serving
    BY <1>2, DrawUncounted DEF Serving
  <2>2. observer' = observer /\ serial' = serial /\ bindings' = bindings /\ shown' = shown
    BY <1>2 DEF Draw
  <2>3. Held'
    BY <1>1, <2>1, <2>2, HeldSame, SessionEnables DEF ChainStep
  <2> QED BY <1>1, <2>1, <2>2, <2>3, AssembledUncounted
<1>3. CASE Enter(s)
  <2>1. /\ Refused(s) \/ (Accepted(s) /\ serial = "none")
        /\ bindings' = bindings /\ shown' = shown
    BY <1>1, <1>3, EnterDoes
  <2>2. CASE Refused(s)
    <3>1. /\ ChainStep(s) /\ Uncounted(s) /\ SessionKept /\ observer' \in ObserverRecords
          /\ render[s].phase \notin Serving /\ render'[s].phase \notin Serving
      BY <1>3, <2>2, RefusedUncounted DEF Serving
    <3>2. serial' = serial /\ (observer' = observer \/ ~observer'.enabled)
      BY <1>1, <2>2, SessionSame DEF Refused
    <3>3. Held'
      BY <1>1, <3>1, <3>2, HeldSame, SessionEnables DEF ChainStep
    <3> QED BY <1>1, <2>1, <3>1, <3>2, <3>3, AssembledUncounted
  <2>3. CASE Accepted(s) /\ serial = "none"
    <3>1. ChainStep(s)
      BY <1>3, EnterChain DEF PresentInv
    <3>2. Counts' /\ observer' \in ObserverRecords
      BY <1>3, <2>3, AcceptedCounts
    <3>3. render'[s].phase \in Serving
      BY <2>3, GotoDoes, TypesNamed DEF PresentInv, Phases, Accepted, Serving
    <3>4. /\ serial' = s /\ observer'.everStarted = observer.everStarted
          /\ observer'.enabled = observer.enabled
      BY <1>1, <2>3 DEF Accepted, ObserverRecords
    <3>5. Held'
      BY <1>1, <2>3, <3>1, <3>3, <3>4, HeldTaken DEF ChainStep
    <3>6. ShownIsOwn' /\ shown' \in [Swaps -> ShownRecords]
      BY <2>1, TypesNamed DEF PresentInv, ShownIsOwn
    <3> QED BY <1>1, <2>1, <3>1, <3>2, <3>4, <3>5, <3>6, Assembled
  <2> QED BY <2>1, <2>2, <2>3
<1>4. CASE SubmitRead(s) \/ SubmitWrite(s) \/ AwaitRead(s) \/ AwaitWrite(s) \/ Ask(s) \/ Answer(s)
  <2>1. /\ ChainStep(s) /\ Uncounted(s) /\ SessionKept
        /\ render[s].phase \in Serving /\ render'[s].phase \in Serving
        /\ serial' = serial /\ observer' = observer /\ bindings' = bindings /\ shown' = shown
    BY <1>4, ServingUncounted
  <2>2. Held'
    BY <1>1, <2>1, HeldSame, SessionEnables DEF ChainStep
  <2> QED BY <1>1, <2>1, <2>2, AssembledUncounted
<1>5. CASE Save(s)
  <2>1. /\ ChainStep(s) /\ Uncounted(s) /\ SessionKept /\ render'[s].phase \notin Serving
    BY <1>5, SaveUncounted DEF Serving
  <2>2. /\ observer' = observer /\ serial' = "none" /\ bindings' = bindings /\ shown' = shown
        /\ render[s].phase \in Serving
    BY <1>5 DEF Save, At, Serving
  <2>3. Held'
    BY <1>1, <2>1, <2>2, HeldReleased, SessionEnables DEF ChainStep
  <2> QED BY <1>1, <2>1, <2>2, <2>3, AssembledUncounted
<1>6. CASE Abort(s)
  <2>1. /\ ChainStep(s) /\ Uncounted(s) /\ SessionKept /\ render'[s].phase \notin Serving
        /\ render[s].phase \in Serving /\ observer' \in ObserverRecords /\ ~observer'.enabled
    BY <1>6, AbortUncounted DEF Serving
  <2>2. serial' = "none" /\ bindings' = bindings /\ shown' = shown
    BY <1>6 DEF Abort, Unlocked
  <2>3. Held'
    BY <1>1, <2>1, <2>2, HeldReleased, SessionEnables DEF ChainStep
  <2> QED BY <1>1, <2>1, <2>2, <2>3, AssembledUncounted
<1>7. CASE PresentOriginal(s) \/ PresentNested(s)
  <2>1. /\ ChainStep(s) /\ Uncounted(s) /\ SessionKept
        /\ render[s].phase \notin Serving /\ render'[s].phase \notin Serving
    BY <1>7, PresentUncounted DEF Serving
  <2>2. observer' = observer /\ serial' = serial /\ bindings' = bindings /\ shown' = shown
    BY <1>7 DEF PresentOriginal, PresentNested
  <2>3. Held'
    BY <1>1, <2>1, <2>2, HeldSame, SessionEnables DEF ChainStep
  <2> QED BY <1>1, <2>1, <2>2, <2>3, AssembledUncounted
<1>8. CASE Complete(s)
  <2>1. /\ Counts' /\ observer' \in ObserverRecords /\ (observer'.enabled => observer.enabled)
        /\ observer'.everStarted = observer.everStarted
    BY <1>8, CompleteCounts
  <2>2. ChainStep(s)
    BY <1>8, CompleteChain DEF PresentInv
  <2>3. /\ serial' = serial /\ bindings' = bindings /\ shown' = shown
        /\ render[s].phase = "complete"
    BY <1>8 DEF Complete, At
  <2>4. render'[s].phase = "game"
    BY <1>8, CompleteDoes, TypesNamed DEF PresentInv
  <2>5. Held'
    BY <1>1, <2>1, <2>2, <2>3, <2>4, HeldSame DEF ChainStep, Serving
  <2>6. ShownIsOwn' /\ shown' \in [Swaps -> ShownRecords]
    BY <2>3, TypesNamed DEF PresentInv, ShownIsOwn
  <2> QED BY <1>1, <2>1, <2>2, <2>3, <2>5, <2>6, Assembled
<1>9. CASE Gpu(s)
  <2>1. ChainStep(s) /\ Counts' /\ shown' \in [Swaps -> ShownRecords] /\ ShownIsOwn'
    BY <1>9, GpuChain, GpuCounts DEF PresentInv
  <2>2. observer' = observer /\ serial' = serial /\ bindings' = bindings /\ render' = render
    BY <1>9 DEF Gpu
  <2>3. Held'
    BY <1>1, <2>2, HeldKept
  <2> QED BY <1>1, <2>1, <2>2, <2>3, Assembled
<1> QED BY <1>2, <1>3, <1>4, <1>5, <1>6, <1>7, <1>8, <1>9 DEF HookStep

LEMMA StutterKeeps ==
    ASSUME PresentInv, UNCHANGED vars
    PROVE  PresentInv'
<1>1. /\ UNCHANGED <<gameVars, surface>> /\ render' = render /\ serial' = serial
      /\ observer' = observer /\ bindings' = bindings
  BY DEF vars, gameVars
<1>2. Chains' /\ ShownIsOwn' /\ Counts' /\ shown' \in [Swaps -> ShownRecords]
  BY <1>1, GameKept, SessionSame
<1>3. Held'
  BY <1>1, HeldKept DEF PresentInv
<1>4. TypeOK'
  BY <1>1, <1>2, TypesNamed, TypesPrime DEF PresentInv, gameVars
<1> QED BY <1>2, <1>3, <1>4 DEF PresentInv

LEMMA PresentStep == PresentInv /\ [Next]_vars => PresentInv'
BY CommandKeeps, WindowKeeps, HookKeeps, StutterKeeps DEF Next
-----------------------------------------------------------------------------
(* The properties follow from the invariant.                                  *)

LEMMA Consequences == PresentInv => TypeOK /\ ShownIsOwn /\ WithinLimit /\ SurfaceRetained
<1> SUFFICES ASSUME PresentInv PROVE WithinLimit /\ SurfaceRetained
  BY DEF PresentInv
<1>1. ASSUME NEW s \in Swaps
      PROVE  /\ shown[s].processed \in Nat /\ shown[s].processed <= Limit
             /\ shown[s].processed > 0 => Touched(s)
             /\ ~Touched(s) => shown[s].processed = 0
  <2>1. /\ shown[s].processed \in Nat /\ Due(s) \in Nat
        /\ Due(s) = shown[s].processed + 1 \/ Due(s) = shown[s].processed
    BY DueIs, TypesNamed DEF PresentInv
  <2>2. Due(s) <= Limit
    BY DEF PresentInv, Counts, CountOf
  <2>3. Limit \in Nat
    BY Limits
  <2> QED BY <2>1, <2>2, <2>3 DEF Touched
<1>2. WithinLimit
  <2>1. \A s \in Swaps : Touched(s) => \A t \in Swaps \ {s} : ~Touched(t)
    BY DEF PresentInv, Counts, CountOf
  <2> QED BY <1>1, <2>1 DEF WithinLimit
<1>3. SurfaceRetained
  <2>1. \A s \in Swaps : Queued(s, "read") \/ Queued(s, "write") =>
            surface[s].state \in {"live", "retained"}
    BY DEF PresentInv, Chains, ChainOf, SurfaceOf
  <2> QED BY <2>1 DEF PresentInv, SurfaceRetained
<1> QED BY <1>2, <1>3

(* The invariant holds in every reachable state, for any number of swap       *)
(* chains, frames and failures.                                               *)
THEOREM Invariance == Spec => []PresentInv
<1>1. Init => PresentInv
  BY PresentInit
<1>2. PresentInv /\ [Next]_vars => PresentInv'
  BY PresentStep
<1> QED BY <1>1, <1>2, PTL DEF Spec

(* Every value keeps its type: the frames of a session never pass the limit.  *)
THEOREM TypeCorrect == Spec => []TypeOK
BY Invariance, Consequences, PTL

(* What a Present shows is the frame of its own call or an empty buffer.       *)
THEOREM OwnFrame == Spec => []ShownIsOwn
BY Invariance, Consequences, PTL

(* One swap chain shows processed frames, `Limit` at most.                    *)
THEOREM Limited == Spec => []WithinLimit
BY Invariance, Consequences, PTL

(* A surface with a list that may still execute is not destroyed.              *)
THEOREM Retained == Spec => []SurfaceRetained
BY Invariance, Consequences, PTL
-----------------------------------------------------------------------------
(* A session that has ended stays so.                                         *)

LEMMA EnabledByConnect ==
    ASSUME PresentInv, Next, observer'.enabled
    PROVE  observer.enabled \/ Connect
<1>1. observer \in ObserverRecords
  BY TypesNamed DEF PresentInv
<1>2. ~Failed(observer).enabled /\ ~Stopped(observer).enabled
  BY <1>1, ObserverUpdates DEF Ended
<1>3. CASE Start \/ Stop
  BY <1>2, <1>3 DEF Start, Stop
<1>4. ASSUME NEW s \in Swaps,
             CreateSwapChain(s) \/ ResizeBuffers(s) \/ SetColorSpace(s) \/ Draw(s) \/ Gpu(s)
      PROVE  observer.enabled
  BY <1>2, <1>4 DEF CreateSwapChain, ResizeBuffers, SetColorSpace, Draw, Gpu
<1>5. ASSUME NEW s \in Swaps, ResizeBuffers1(s) PROVE observer.enabled
  <2>1. PICK chain : observer' = [Stopped(observer) EXCEPT !.selected = chain]
    BY <1>5 DEF ResizeBuffers1
  <2>2. Stopped(observer) \in ObserverRecords
    BY <1>1, ObserverUpdates DEF Ended
  <2>3. observer'.enabled = Stopped(observer).enabled
    BY <2>1, <2>2 DEF ObserverRecords
  <2> QED BY <1>2, <2>3
<1>6. ASSUME NEW s \in Swaps, HookStep(s) PROVE observer.enabled
  <2>1. CASE Enter(s)
    <3>1. Refused(s) \/ Accepted(s)
      BY <2>1, EnterDoes DEF PresentInv
    <3> QED BY <1>1, <1>2, <3>1 DEF Refused, Accepted, Active
  <2>2. CASE Complete(s)
    BY <2>2, CompleteCounts
  <2>3. CASE Abort(s)
    BY <1>2, <2>3 DEF Abort
  <2>4. CASE SubmitRead(s) \/ SubmitWrite(s) \/ AwaitRead(s) \/ AwaitWrite(s) \/ Ask(s) \/ Answer(s)
    BY <2>4, ServingUncounted
  <2>5. CASE Save(s) \/ PresentOriginal(s) \/ PresentNested(s)
    BY <2>5 DEF Save, PresentOriginal, PresentNested
  <2> QED BY <1>6, <2>1, <2>2, <2>3, <2>4, <2>5 DEF HookStep
<1> QED BY <1>3, <1>4, <1>5, <1>6 DEF Next

(* Only an active session takes the mutex for a frame.                        *)
LEMMA TakenByActive ==
    ASSUME PresentInv, Next, NEW s \in Swaps, serial' = s, serial # s
    PROVE  Active
<1>1. s # "none" /\ s # "start"
  BY Limits
<1>2. ~(Start \/ Connect \/ Stop)
  BY <1>1 DEF Start, Connect, Stop
<1>3. ASSUME NEW t \in Swaps,
             CreateSwapChain(t) \/ ResizeBuffers(t) \/ ResizeBuffers1(t) \/ SetColorSpace(t) \/ Draw(t) \/ Gpu(t)
      PROVE  FALSE
  BY <1>3 DEF CreateSwapChain, ResizeBuffers, ResizeBuffers1, Resize, SetColorSpace, Draw, Gpu
<1>4. ASSUME NEW t \in Swaps, HookStep(t) PROVE Active
  <2>1. CASE Enter(t)
    BY <2>1, EnterDoes DEF PresentInv, Refused, Accepted
  <2>2. CASE SubmitRead(t) \/ SubmitWrite(t) \/ AwaitRead(t) \/ AwaitWrite(t) \/ Ask(t) \/ Answer(t)
    BY <2>2, ServingUncounted
  <2>3. CASE Save(t) \/ Abort(t) \/ PresentOriginal(t) \/ PresentNested(t) \/ Complete(t)
    BY <1>1, <2>3 DEF Save, Abort, PresentOriginal, PresentNested, Complete, Unlocked
  <2> QED BY <1>4, <2>1, <2>2, <2>3 DEF HookStep
<1> QED BY <1>2, <1>3, <1>4 DEF Next

(* After a stop, a resize, the limit, the deadline or a failure nothing       *)
(* enables the session again and no later frame enters the critical section.  *)
THEOREM SessionEnds == Spec => EndsForGood
<1> DEFINE Ends == observer.everStarted /\ ~observer.enabled =>
                     ~observer'.enabled /\ \A s \in Swaps : At(s, "hook") => ~(serial' = s)
<1>1. PresentInv /\ [Next]_vars => [Ends]_vars
  <2> SUFFICES ASSUME PresentInv, Next, observer.everStarted, ~observer.enabled
               PROVE  ~observer'.enabled /\ \A s \in Swaps : At(s, "hook") => ~(serial' = s)
    OBVIOUS
  <2>1. ~Connect
    BY DEF Connect, PresentInv, Held
  <2>2. ~observer'.enabled
    BY <2>1, EnabledByConnect
  <2>3. ASSUME NEW s \in Swaps, At(s, "hook"), serial' = s PROVE FALSE
    <3>1. serial # s
      BY <2>3 DEF At, PresentInv, Held, Serving
    <3> QED BY <2>3, <3>1, TakenByActive DEF Active
  <2> QED BY <2>2, <2>3
<1> QED BY <1>1, Invariance, PTL DEF Spec, EndsForGood
=============================================================================
