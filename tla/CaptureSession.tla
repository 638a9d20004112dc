---------------------------- MODULE CaptureSession ----------------------------
(***************************************************************************)
(* The resident mode of the FFX capture session                            *)
(* (tools/ffx_observer/capture_session.cpp with resident_surface.h) inside  *)
(* a game: a recorder thread records the lists that upscale a frame, a      *)
(* submitter executes them, another thread submits to a second queue, a     *)
(* controller starts and stops the session.  The hooks pick the list that   *)
(* ends with the upscaled texture readable, split its batch there, have the *)
(* worker process the texture and forward the rest of the batch.            *)
(*                                                                         *)
(* The worker is an ExchangeService, composed action by action.  A hook has *)
(* a part before or a part after the original call, or both, each under the *)
(* mutex `guard` and an action here; the window test of the second part     *)
(* uses what the first one saw.  There is one window, so it is a Boolean.   *)
(***************************************************************************)
EXTENDS Integers, Sequences, FiniteSets

CONSTANTS
    Lists,      \* command lists of the game
    MaxFrame,   \* bound: frames the game renders
    Plans,      \* which list each frame is recorded in: sequences of lists
    Limit,      \* residentFrameLimit (12 in the code)
    Scenarios   \* sets of what may go wrong in one behaviour, subsets of
                \* {"gpu", "ipc", "odd", "cross", "enhanced"}

ASSUME SessionAssumption ==
    /\ MaxFrame \in Nat \ {0} /\ Limit \in Nat \ {0}
    /\ "none" \notin Lists /\ Plans \subseteq [1 .. MaxFrame -> Lists]
    /\ \A s \in Scenarios : s \subseteq {"gpu", "ipc", "odd", "cross", "enhanced"}

Frames == 0 .. MaxFrame     \* 0 stands for none

VARIABLES
    mayFail,    \* what may go wrong in this behaviour
    plan,       \* the list of each frame
    session,    \* the flags under `guard`; done: frames counted complete;
                \* allowed: how many the stop or the failure leaves
    track,      \* what the hooks know of each list
    resident,   \* residentList and residentGeneration
    surface,    \* residentSurface: its frame (0 for nullptr), its buffers
    recorder,   \* the recorder thread: the frame it records and how far it is
    ready,      \* frames recorded and not yet submitted
    submit,     \* the submitter's Execute
    other,      \* the other thread's Execute, and its work done
    lock,       \* who holds residentSubmitGuard
    queue,      \* work of the submitter's queue, not executed
    target,     \* the upscaled texture
    used,       \* what the consumer of each frame found in it
    asked, waiting, answers, over   \* the exchange with the worker

exchangeVars == <<asked, waiting, answers, over>>
hookVars == <<session, track, resident, surface>>
gpuVars == <<queue, target, used>>
scenario == <<mayFail, plan>>
vars == <<scenario, hookVars, recorder, ready, submit, other, lock, gpuVars, exchangeVars>>

Exchange == INSTANCE ExchangeService

Raw(n) == [frame |-> n, net |-> FALSE]
Net(n) == [frame |-> n, net |-> TRUE]
Pictures == [frame : Frames, net : BOOLEAN]
NoSurface == [frame |-> 0, uncertain |-> FALSE, read |-> Raw(0), upload |-> Raw(0)]
NoList == [list |-> "none", gen |-> 0]
ListOf(n) == plan[n]
NoExecute == [phase |-> "idle", frame |-> 0, readable |-> FALSE, twice |-> FALSE,
              suffix |-> FALSE, locks |-> FALSE, seen |-> FALSE]
Unknown(l) == [track[l] EXCEPT !.reset = FALSE, !.closed = FALSE, !.calls = 0,
                               !.boundary = FALSE]

TypeOK ==
    /\ mayFail \in Scenarios /\ plan \in Plans
    /\ session \in [mode : BOOLEAN, active : BOOLEAN, failed : BOOLEAN, preparing : BOOLEAN,
                    busy : BOOLEAN, opened : BOOLEAN, installed : BOOLEAN,
                    done : SUBSET Frames, allowed : 0 .. Limit]
    /\ track \in [Lists -> [gen : Frames, reset : BOOLEAN, closed : BOOLEAN, calls : 0 .. 2,
                            boundary : BOOLEAN]]
    /\ resident \in [list : Lists \cup {"none"}, gen : Frames]
    /\ surface \in [frame : Frames, uncertain : BOOLEAN, read : Pictures, upload : Pictures]
    /\ recorder \in [phase : {"next", "open", "dispatch", "written", "barrier", "prepare",
                              "readable", "moved"},
                     frame : Frames, seen : BOOLEAN, again : BOOLEAN, readable : BOOLEAN]
    /\ ready \in Seq([frame : Frames, readable : BOOLEAN])
    /\ submit \in [phase : {"idle", "lock", "choose", "split", "reading", "ask", "answer",
                            "write", "writing", "suffix", "retire", "use"},
                   frame : Frames, readable : BOOLEAN, twice : BOOLEAN, suffix : BOOLEAN,
                   locks : BOOLEAN, seen : BOOLEAN]
    /\ other \in [phase : {"idle", "entered"}, locks : BOOLEAN, done : Frames]
    /\ lock \in {"none", "submit"}
    /\ queue \in Seq([op : {"produce", "read", "write", "use"}, frame : Frames,
                      readable : BOOLEAN])
    /\ target \in [picture : Pictures, readable : BOOLEAN]
    /\ used \in [1 .. MaxFrame -> Pictures]

\* The module is attached idle: nothing is tracked before the start command.
Init ==
    /\ mayFail \in Scenarios /\ plan \in Plans
    /\ session = [mode |-> FALSE, active |-> FALSE, failed |-> FALSE, preparing |-> FALSE,
                  busy |-> FALSE, opened |-> FALSE, installed |-> FALSE, done |-> {},
                  allowed |-> Limit]
    /\ track = [l \in Lists |-> [gen |-> 0, reset |-> FALSE, closed |-> FALSE, calls |-> 0,
                                 boundary |-> FALSE]]
    /\ resident = NoList
    /\ surface = NoSurface
    /\ recorder = [phase |-> "next", frame |-> 0, seen |-> FALSE, again |-> FALSE,
                   readable |-> FALSE]
    /\ ready = <<>>
    /\ submit = NoExecute
    /\ other = [phase |-> "idle", locks |-> FALSE, done |-> 0]
    /\ lock = "none"
    /\ queue = <<>>
    /\ target = [picture |-> Raw(0), readable |-> FALSE]
    /\ used = [n \in 1 .. MaxFrame |-> Raw(0)]
    /\ Exchange!Init
-----------------------------------------------------------------------------
(* The session *)

Tracking == session.active
Pending == surface.frame # 0 \/ session.preparing

Completed(s) == Cardinality(s.done)

\* A stop, a failure and an expired window leave the frame in flight, if any.
Ended(s) ==
    [s EXCEPT !.active = FALSE,
              !.allowed = LET left == Completed(s) + (IF s.busy THEN 1 ELSE 0)
                          IN  IF left < @ THEN left ELSE @]
Fail(s) == [Ended(s) EXCEPT !.failed = TRUE]
Off(s) == [Ended(s) EXCEPT !.mode = FALSE]

\* Command 19.  An exchange that cannot be opened leaves everything as it was.
Start ==
    /\ ~session.opened /\ ~Tracking /\ ~session.failed /\ ~Pending
    /\ Exchange!Open
    /\ session' = [session EXCEPT !.mode = TRUE, !.active = TRUE, !.opened = TRUE,
                                  !.installed = TRUE]
    /\ track' = [l \in Lists |-> Unknown(l)]
    /\ UNCHANGED <<scenario, resident, surface, recorder, ready, submit, other, lock, gpuVars>>

SessionEnds(ended) ==
    /\ session' = ended
    /\ UNCHANGED <<scenario, track, resident, surface, recorder, ready, submit, other, lock,
                   gpuVars, exchangeVars>>

\* Command 20.
Stop == session.mode /\ SessionEnds(Off(session))

\* 180 seconds; the mode stays on in a window that no hook acts in any more.
Expire == Tracking /\ SessionEnds(Ended(session))

\* A cap or a query that fails in any hook.
HookRaises == "odd" \in mayFail /\ Tracking /\ SessionEnds(Fail(session))
-----------------------------------------------------------------------------
(* The recorder and the hooks on its list *)

TheList == ListOf(recorder.frame)
Recorded == track[TheList]
Goto(phase) == recorder' = [recorder EXCEPT !.phase = phase]
\* Gone is what the first part of a hook noted for the second.
Leave(phase) == recorder' = [recorder EXCEPT !.phase = phase, !.seen = FALSE]
SameWindow == recorder.seen /\ Tracking
Tracked(t) == track' = [track EXCEPT ![TheList] = t]
RecorderUnchanged ==
    UNCHANGED <<scenario, ready, submit, other, lock, gpuVars, exchangeVars>>

\* The game reuses a list after the Execute that submitted it returned.
InUse(l) ==
    \/ \E i \in DOMAIN ready : ListOf(ready[i].frame) = l
    \/ submit.phase # "idle" /\ ListOf(submit.frame) = l

\* Reset, whose one part follows the original.  A list chosen and never submitted
\* is lost when it is recorded again.
Reset ==
    /\ recorder.phase = "next" /\ recorder.frame < MaxFrame
    /\ ~InUse(ListOf(recorder.frame + 1))
    /\ recorder' = [recorder EXCEPT !.phase = "open", !.frame = @ + 1]
    /\ LET l == ListOf(recorder.frame + 1) IN
       IF Tracking
       THEN /\ session' = IF resident.list = l /\ Pending /\ ~session.busy
                          THEN Fail(session) ELSE session
            /\ track' = [track EXCEPT ![l] = [gen |-> @.gen + 1, reset |-> TRUE,
                              closed |-> FALSE, calls |-> 0, boundary |-> FALSE]]
       ELSE UNCHANGED <<session, track>>
    /\ UNCHANGED <<resident, surface>>
    /\ RecorderUnchanged

\* The upscale writes the texture; the first part of the hook counts the call.
DispatchEnter ==
    /\ \/ recorder.phase = "open"
       \/ recorder.phase = "moved" /\ "odd" \in mayFail /\ ~recorder.again
    /\ IF Tracking
       THEN Tracked([Recorded EXCEPT !.calls = @ + 1, !.boundary = FALSE])
       ELSE UNCHANGED track
    /\ recorder' = [recorder EXCEPT !.phase = "dispatch", !.again = recorder.phase = "moved",
          !.seen = /\ Tracking /\ session.mode /\ ~session.failed
                   /\ Recorded.reset /\ ~Recorded.closed]
    /\ UNCHANGED <<session, resident, surface>>
    /\ RecorderUnchanged

\* The output of the only upscale of a list, after an upscale that succeeded.
DispatchLeave ==
    /\ recorder.phase = "dispatch"
    /\ Leave("written")
    /\ \/ /\ SameWindow /\ Recorded.calls = 1
          /\ Tracked([Recorded EXCEPT !.boundary = TRUE])
       \/ /\ (SameWindow /\ Recorded.calls = 1) => "odd" \in mayFail
          /\ UNCHANGED track
    /\ UNCHANGED <<session, resident, surface>>
    /\ RecorderUnchanged

\* Mutation: only a pending Surface is asked for, not its list.
LaterAnywhere == session.mode /\ Pending

\* Mutation: a chosen list stays chosen.
NeverLater == FALSE

\* A later transition or alias invalidates the end-of-producer state.
LaterTransition == session.mode /\ resident.list = TheList /\ Pending

\* The transition of the output to readable consumes the boundary before it is
\* forwarded: a callback inside the original cannot choose the list twice.
\* In a list chosen before, it is a later transition.
BarrierEnter ==
    /\ recorder.phase = "written"
    /\ recorder' = [recorder EXCEPT !.phase = "barrier",
                                    !.seen = Tracking /\ Recorded.boundary]
    /\ IF Tracking THEN Tracked([Recorded EXCEPT !.boundary = FALSE]) ELSE UNCHANGED track
    /\ session' = IF Tracking /\ LaterTransition THEN Fail(session) ELSE session
    /\ UNCHANGED <<resident, surface>>
    /\ RecorderUnchanged

\* Whether the list that ends here can be the resident producer.
Chooses ==
    /\ SameWindow
    /\ session.mode /\ ~session.failed
    /\ Recorded.reset /\ ~Recorded.closed /\ Recorded.calls = 1
    /\ ~session.preparing /\ ~session.busy /\ surface.frame = 0
    /\ Completed(session) < Limit

BarrierLeave ==
    /\ recorder.phase = "barrier"
    /\ IF Chooses
       THEN /\ session' = [session EXCEPT !.preparing = TRUE]
            /\ resident' = [list |-> TheList, gen |-> Recorded.gen]
            /\ recorder' = [recorder EXCEPT !.phase = "prepare", !.seen = FALSE, !.readable = TRUE]
       ELSE /\ recorder' = [recorder EXCEPT !.phase = "readable", !.seen = FALSE, !.readable = TRUE]
            /\ UNCHANGED <<session, resident>>
    /\ UNCHANGED <<track, surface>>
    /\ RecorderUnchanged

\* The Surface is made without the mutex: a stop may come before it is in place.
Prepare ==
    /\ recorder.phase = "prepare"
    /\ Goto("readable")
    /\ \/ /\ surface' = [NoSurface EXCEPT !.frame = recorder.frame]
          /\ session' = [session EXCEPT !.preparing = FALSE]
       \/ /\ "odd" \in mayFail
          /\ session' = [Fail(session) EXCEPT !.preparing = FALSE]
          /\ UNCHANGED surface
    /\ UNCHANGED <<track, resident>>
    /\ RecorderUnchanged

\* A barrier that moves the texture on, or aliases it.
LaterBarrier ==
    /\ "odd" \in mayFail
    /\ recorder.phase = "readable"
    /\ recorder' = [recorder EXCEPT !.phase = "moved", !.readable = FALSE]
    /\ session' = IF Tracking /\ LaterTransition THEN Fail(session) ELSE session
    /\ UNCHANGED <<track, resident, surface>>
    /\ RecorderUnchanged

\* The same by an enhanced barrier, which only makes the tracked state unknown.
Enhanced ==
    /\ "enhanced" \in mayFail
    /\ recorder.phase = "readable"
    /\ recorder' = [recorder EXCEPT !.phase = "moved", !.readable = FALSE]
    /\ IF Tracking THEN Tracked([Recorded EXCEPT !.boundary = FALSE]) ELSE UNCHANGED track
    /\ UNCHANGED <<session, resident, surface>>
    /\ RecorderUnchanged

\* Close, whose one part follows the original.
Close ==
    /\ recorder.phase \in {"readable", "moved"}
    /\ recorder' = [recorder EXCEPT !.phase = "next", !.again = FALSE, !.readable = FALSE]
    /\ IF Tracking
       THEN Tracked([Recorded EXCEPT !.closed = TRUE, !.boundary = FALSE])
       ELSE UNCHANGED track
    /\ ready' = Append(ready, [frame |-> recorder.frame, readable |-> recorder.readable])
    /\ UNCHANGED <<scenario, session, resident, surface, submit, other, lock, gpuVars,
                   exchangeVars>>

\* The game gives a recorded frame up.
Drop ==
    /\ "odd" \in mayFail
    /\ ready # <<>>
    /\ ready' = Tail(ready)
    /\ UNCHANGED <<scenario, hookVars, recorder, submit, other, lock, gpuVars, exchangeVars>>

RecorderStep ==
    \/ DispatchEnter \/ DispatchLeave \/ BarrierEnter \/ BarrierLeave \/ Prepare \/ Close
-----------------------------------------------------------------------------
(* The submitter: Execute *)

At(phase) == submit.phase = phase
Move(phase) == submit' = [submit EXCEPT !.phase = phase]
Put(ops) ==
    queue' = queue \o [i \in DOMAIN ops |->
                [op |-> ops[i], frame |-> submit.frame, readable |-> submit.readable]]
SubmitUnchanged == UNCHANGED <<scenario, track, recorder, ready, other, lock>>
\* The exception handlers of the split path.
GivesUp ==
    /\ session' = [Fail(session) EXCEPT !.mode = FALSE]
    /\ Move("suffix")

\* The game submits the list alone or with the consumer behind it, and may by
\* mistake name it twice.  Execute first tests whether it takes the lock.
Submit ==
    /\ At("idle")
    /\ ready # <<>>
    /\ \E twice, suffix \in BOOLEAN :
          /\ twice => "odd" \in mayFail
          /\ submit' = [phase |-> "lock", frame |-> Head(ready).frame,
                        readable |-> Head(ready).readable, twice |-> twice,
                        suffix |-> suffix, locks |-> session.installed, seen |-> FALSE]
    /\ ready' = Tail(ready)
    /\ UNCHANGED <<scenario, hookVars, recorder, other, lock, gpuVars, exchangeVars>>

Acquire ==
    /\ At("lock")
    /\ lock' = IF submit.locks THEN "submit" ELSE lock
    /\ submit' = [submit EXCEPT !.phase = "choose", !.seen = Tracking]
    /\ UNCHANGED <<scenario, hookVars, recorder, ready, other, gpuVars, exchangeVars>>

\* Mutation: the Surface alone decides, not the mode and the window.
MatchesAlways ==
    surface.frame # 0 /\ ~session.busy /\ ~session.failed
                     /\ ListOf(submit.frame) = resident.list

\* Mutation: the producer must not end the batch.
MatchesInside ==
    /\ submit.seen /\ Tracking /\ submit.suffix
    /\ session.mode /\ surface.frame # 0 /\ ~session.busy /\ ~session.failed
    /\ ListOf(submit.frame) = resident.list

\* Whether the batch holds the resident producer, and in good order.
Matches ==
    /\ submit.seen /\ Tracking
    /\ session.mode /\ surface.frame # 0 /\ ~session.busy /\ ~session.failed
    /\ ListOf(submit.frame) = resident.list
InOrder ==
    LET t == track[resident.list]
    IN  ~submit.twice /\ t.reset /\ t.gen = resident.gen /\ t.closed

Batch ==
    (IF submit.twice THEN <<"produce", "produce">> ELSE <<"produce">>)
    \o (IF submit.suffix THEN <<"use">> ELSE <<>>)

Choose ==
    /\ At("choose")
    /\ IF Matches /\ InOrder
       THEN /\ session' = [session EXCEPT !.busy = TRUE]
            /\ submit' = [submit EXCEPT !.phase = "split", !.seen = FALSE]
            /\ UNCHANGED queue
       ELSE /\ session' = IF Matches THEN Fail(session) ELSE session
            /\ Put(Batch)
            /\ submit' = [submit EXCEPT !.phase = "use", !.seen = FALSE, !.twice = FALSE]
    /\ UNCHANGED <<resident, surface, target, used, exchangeVars>>
    /\ SubmitUnchanged

\* Mutation: the whole batch is forwarded with the producer.
SubmitReadLate ==
    /\ At("split")
    /\ Put(Batch \o <<"read">>)
    /\ surface' = [surface EXCEPT !.uncertain = TRUE]
    /\ submit' = [submit EXCEPT !.phase = "reading", !.suffix = FALSE]
    /\ UNCHANGED <<session, resident, target, used, exchangeVars>>
    /\ SubmitUnchanged

\* The prefix up to the producer, and the reader behind it; another queue or
\* device than the texture's makes Run throw before the reader is submitted.
SubmitRead ==
    /\ At("split")
    /\ \/ /\ Put(<<"produce", "read">>)
          /\ surface' = [surface EXCEPT !.uncertain = TRUE]
          /\ Move("reading")
          /\ UNCHANGED session
       \/ /\ "odd" \in mayFail
          /\ Put(<<"produce">>)
          /\ GivesUp
          /\ UNCHANGED surface
    /\ UNCHANGED <<resident, target, used, exchangeVars>>
    /\ SubmitUnchanged

Queued(op) == \E i \in DOMAIN queue : queue[i].op = op

\* WaitSubmitted: the fence of the reader, or of the writer.
ReadDone ==
    /\ At("reading")
    /\ ~Queued("read")
    /\ surface' = [surface EXCEPT !.uncertain = FALSE]
    /\ Move("ask")
    /\ UNCHANGED <<session, resident, gpuVars, exchangeVars>>
    /\ SubmitUnchanged

\* Work of the first queue may wait for work the game submits to the second one.
Blocked == queue # <<>> /\ Head(queue).op = "produce" /\ "cross" \in mayFail
                        /\ other.done < Head(queue).frame

\* Mutation: the fence is waited for without a deadline.
TimeOutNever == FALSE

\* Two seconds: certain when the queue waits for a submission that waits for us.
TimeOut ==
    /\ submit.phase \in {"reading", "writing"}
    /\ "gpu" \in mayFail \/ Blocked
    /\ GivesUp
    /\ UNCHANGED <<resident, surface, gpuVars, exchangeVars>>
    /\ SubmitUnchanged

Ask ==
    /\ At("ask")
    /\ Exchange!Ask
    /\ over' => "ipc" \in mayFail
    /\ IF over' THEN GivesUp ELSE Move("answer") /\ UNCHANGED session
    /\ UNCHANGED <<resident, surface, gpuVars>>
    /\ SubmitUnchanged

Answer ==
    /\ At("answer")
    /\ \/ /\ Exchange!Answer
          /\ surface' = [surface EXCEPT !.upload = Net(surface.read.frame)]
          /\ Move("write")
          /\ UNCHANGED session
       \/ /\ "ipc" \in mayFail
          /\ Exchange!GiveUp
          /\ GivesUp
          /\ UNCHANGED surface
    /\ UNCHANGED <<resident, gpuVars>>
    /\ SubmitUnchanged

SubmitWrite ==
    /\ At("write")
    /\ Put(<<"write">>)
    /\ surface' = [surface EXCEPT !.uncertain = TRUE]
    /\ Move("writing")
    /\ UNCHANGED <<session, resident, target, used, exchangeVars>>
    /\ SubmitUnchanged

\* The frame is counted; the readback or the audit file may be wrong instead.
WriteDone ==
    /\ At("writing")
    /\ ~Queued("write")
    /\ surface' = [surface EXCEPT !.uncertain = FALSE]
    /\ LET counted == [session EXCEPT !.done = @ \cup {submit.frame}]
       IN  \/ /\ session' = IF Completed(counted) >= Limit
                            THEN [counted EXCEPT !.mode = FALSE, !.active = FALSE]
                            ELSE counted
              /\ Move("suffix")
           \/ "odd" \in mayFail /\ GivesUp
    /\ UNCHANGED <<resident, gpuVars, exchangeVars>>
    /\ SubmitUnchanged

\* The rest of the batch is forwarded whatever happened.
Suffix ==
    /\ At("suffix")
    /\ Put(IF submit.suffix THEN <<"use">> ELSE <<>>)
    /\ Move("retire")
    /\ UNCHANGED <<session, resident, surface, target, used, exchangeVars>>
    /\ SubmitUnchanged

\* Mutation: the Surface is deleted whatever the GPU does with it.
Destroyed == NoSurface

\* A Surface whose reader or writer may still run is retained for good.
Retired == IF surface.uncertain THEN surface ELSE NoSurface

Retire ==
    /\ At("retire")
    /\ surface' = Retired
    /\ session' = [session EXCEPT !.busy = FALSE]
    /\ resident' = NoList
    /\ Move("use")
    /\ UNCHANGED <<gpuVars, exchangeVars>>
    /\ SubmitUnchanged

\* Execute returns; a consumer that was not in the batch is submitted by itself.
Return ==
    /\ At("use")
    /\ Put(IF submit.suffix THEN <<>> ELSE <<"use">>)
    /\ submit' = NoExecute
    /\ lock' = IF submit.locks THEN "none" ELSE lock
    /\ UNCHANGED <<scenario, hookVars, recorder, ready, other, target, used, exchangeVars>>

SubmitStep ==
    \/ Acquire \/ Choose \/ SubmitRead \/ ReadDone \/ TimeOut \/ Ask \/ Answer
    \/ SubmitWrite \/ WriteDone \/ Suffix \/ Retire \/ Return
-----------------------------------------------------------------------------
(* The other thread and the GPU *)

\* Execute of another thread takes the same lock, if it was installed in time.
OtherEnters ==
    /\ "cross" \in mayFail
    /\ other.phase = "idle" /\ other.done < MaxFrame
    /\ other' = [other EXCEPT !.phase = "entered", !.locks = session.installed]
    /\ UNCHANGED <<scenario, hookVars, recorder, ready, submit, lock, gpuVars, exchangeVars>>

OtherSubmits ==
    /\ other.phase = "entered"
    /\ other.locks => lock = "none"
    /\ other' = [other EXCEPT !.phase = "idle", !.done = @ + 1]
    /\ UNCHANGED <<scenario, hookVars, recorder, ready, submit, lock, gpuVars, exchangeVars>>

GpuStep ==
    /\ queue # <<>> /\ ~Blocked
    /\ queue' = Tail(queue)
    /\ LET n == Head(queue).frame IN
       CASE Head(queue).op = "produce" ->
              /\ target' = [picture |-> Raw(n), readable |-> Head(queue).readable]
              /\ UNCHANGED <<surface, used>>
         [] Head(queue).op = "read" ->
              /\ surface' = [surface EXCEPT !.read = target.picture]
              /\ UNCHANGED <<target, used>>
         [] Head(queue).op = "write" ->
              /\ target' = [target EXCEPT !.picture = surface.upload]
              /\ UNCHANGED <<surface, used>>
         [] Head(queue).op = "use" ->
              /\ used' = [used EXCEPT ![n] = target.picture]
              /\ UNCHANGED <<surface, target>>
    /\ UNCHANGED <<scenario, session, track, resident, recorder, ready, submit, other, lock,
                   exchangeVars>>

Next ==
    \/ Start \/ Stop \/ Expire \/ HookRaises
    \/ Reset \/ RecorderStep \/ LaterBarrier \/ Enhanced \/ Drop
    \/ Submit \/ SubmitStep \/ OtherEnters \/ OtherSubmits \/ GpuStep

Spec == Init /\ [][Next]_vars

\* The game finishes what it records and submits it, its threads and the worker
\* go on; the GPU does too where it does not hang.
FairSpec ==
    /\ Spec
    /\ WF_vars(RecorderStep) /\ WF_vars(Submit) /\ WF_vars(SubmitStep)
    /\ WF_vars(OtherEnters) /\ WF_vars(OtherSubmits)
    /\ WF_vars("gpu" \notin mayFail /\ GpuStep)
-----------------------------------------------------------------------------
(* Properties *)

\* The consumer of a frame finds that frame in the texture, and the network's
\* image of it when the frame was counted complete ("same_submission_frame":
\* the prefix, the reader, the writer and the suffix stay in order on the queue).
ConsumerFindsOwn ==
    \A n \in 1 .. MaxFrame :
        used[n] # Raw(0) => /\ used[n].frame = n
                            /\ n \in session.done => used[n].net

\* A Surface is not deleted or replaced while its reader or writer may still run
\* (resident_surface.h:79 terminates the game otherwise).
SurfaceOutlivesWork ==
    /\ TypeOK
    /\ \A i \in DOMAIN queue :
        queue[i].op \in {"read", "write"} =>
            surface.frame = queue[i].frame /\ surface.uncertain

\* The reader and the writer find the texture in the state their barriers name: no
\* list is chosen, or stays chosen, that leaves it in another one ("A later target
\* transition/alias invalidates the end-of-producer state").  That is so of the
\* legacy barriers: a chosen list that an enhanced one moves on stays chosen.
ReaderFindsReadable ==
    "enhanced" \notin mayFail =>
        (queue # <<>> /\ Head(queue).op \in {"read", "write"} => target.readable)

\* A stop, a failure or the end of the window lets at most the frame in flight
\* complete, and the limit lets no other begin, wherever the threads are
\* ("Stop can allow one in-flight request to finish").
WindowBounds == Completed(session) <= session.allowed

\* Execute returns to the game's thread, also when the worker does not answer, the
\* GPU hangs, or the queue waits for work that the other thread can only submit
\* after this Execute.
ExecuteReturns == (submit.phase # "idle") ~> (submit.phase = "idle")

\* Where the game makes no mistake and the worker answers, a chosen frame is
\* processed, unless the window ends before it is submitted; the session does not
\* fail on it.
ChosenCompletes ==
    \A n \in 1 .. MaxFrame :
        (mayFail = {} /\ surface.frame = n)
            ~> (n \in session.done \/ (~Tracking /\ ~session.failed))
=============================================================================
