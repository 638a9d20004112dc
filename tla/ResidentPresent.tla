--------------------------- MODULE ResidentPresent ---------------------------
(***************************************************************************)
(* The present observer (tools/ffx_observer/resident_present.cpp with       *)
(* present_surface.h) inside a game: a render thread per swap chain calls   *)
(* the hooked Present, a window thread resizes, a controller starts and     *)
(* stops the session, and each swap chain's queue executes in order.  The   *)
(* observer reads the frame about to be presented, has the worker process   *)
(* it, writes it back into the same buffer and lets the call go on.         *)
(*                                                                         *)
(* The worker is an ExchangeService, composed action by action; the mutex   *)
(* `serial` is modelled, commands and the completion of a Present run       *)
(* without it.                                                              *)
(***************************************************************************)
EXTENDS Integers, Sequences

CONSTANTS
    Swaps,      \* swap chains of the game, each with its render thread
    Frames,     \* bound: frames each render thread presents
    Limit,      \* frames of a session (12 in the code)
    MayFail     \* what may go wrong: subset of {"gpu", "ipc", "resize", "odd"}

ASSUME PresentAssumption ==
    /\ Frames \in [Swaps -> Nat \ {0}] /\ Limit \in Nat \ {0}
    /\ "none" \notin Swaps /\ "start" \notin Swaps
    /\ MayFail \subseteq {"gpu", "ipc", "resize", "odd"}

VARIABLES
    serial,    \* who holds the recursive mutex
    observer,  \* enabled, failed, frames, everStarted, the deadline, selected
    bindings,  \* swap chains bound to their queue: color space of each
    render,    \* the render thread of each swap chain, inside or outside Present
    queue,     \* work of each swap chain's queue, not executed
    buffer,    \* what the current back buffer holds
    surface,   \* the Surface of the latest processed frame of each swap chain
    shown,     \* what each swap chain shows, for which call, and how many
               \* processed frames it has shown
    asked, waiting, answers, over   \* the exchange with the worker

exchangeVars == <<asked, waiting, answers, over>>
gameVars == <<render, queue, buffer, shown>>
vars == <<serial, observer, bindings, gameVars, surface, exchangeVars>>

Exchange == INSTANCE ExchangeService

\* The pixels of a frame as the game drew them, and as the network made them.
Raw(n) == [frame |-> n, net |-> FALSE]
Net(n) == [frame |-> n, net |-> TRUE]
Nothing == Raw(0)
Numbers == UNION {0 .. Frames[s] : s \in Swaps}
Pictures == [frame : Numbers, net : BOOLEAN]

Phases == {"game", "hook", "read", "reading", "ask", "answer", "write", "writing", "save",
           "present", "nested", "complete"}
Ops == {"read", "write", "present"}
NoSurface == [state |-> "none", uncertain |-> FALSE, read |-> Nothing, upload |-> Nothing]
Deleted == [NoSurface EXCEPT !.state = "deleted"]

TypeOK ==
    /\ serial \in Swaps \cup {"none", "start"}
    /\ observer \in [enabled : BOOLEAN, failed : BOOLEAN, frames : 0 .. Limit,
                     everStarted : BOOLEAN,
                     selected : Swaps \cup {"none"}]
    /\ bindings \in [Swaps -> {"none", "sdr", "hdr"}]
    /\ render \in [Swaps -> [phase : Phases, frame : Numbers, test : BOOLEAN,
                             processed : BOOLEAN]]
    /\ queue \in [Swaps -> Seq([op : Ops, frame : Numbers])]
    /\ buffer \in [Swaps -> Pictures]
    /\ surface \in [Swaps -> [state : {"none", "live", "retained", "deleted"},
                              uncertain : BOOLEAN, read : Pictures, upload : Pictures]]
    /\ shown \in [Swaps -> [content : Pictures, call : Numbers, processed : 0 .. Limit]]

\* The observer is installed before the game creates a swap chain.
Init ==
    /\ serial = "none"
    /\ observer = [enabled |-> FALSE, failed |-> FALSE, frames |-> 0, everStarted |-> FALSE,
                   selected |-> "none"]
    /\ bindings = [s \in Swaps |-> "none"]
    /\ render = [s \in Swaps |-> [phase |-> "game", frame |-> 0, test |-> FALSE,
                                  processed |-> FALSE]]
    /\ queue = [s \in Swaps |-> <<>>]
    /\ buffer = [s \in Swaps |-> Nothing]
    /\ surface = [s \in Swaps |-> NoSurface]
    /\ shown = [s \in Swaps |-> [content |-> Nothing, call |-> 0, processed |-> 0]]
    /\ Exchange!Init
-----------------------------------------------------------------------------
Free == serial = "none"
At(s, phase) == render[s].phase = phase
Goto(s, phase) == render' = [render EXCEPT ![s].phase = phase]
Push(s, op) == queue' = [queue EXCEPT ![s] = Append(@, [op |-> op, frame |-> render[s].frame])]
Queued(s, op) == \E i \in DOMAIN queue[s] : queue[s][i].op = op

Failed(o) == [o EXCEPT !.enabled = FALSE, !.failed = TRUE]
Stopped(o) == [o EXCEPT !.enabled = FALSE]

(* Creation, resize and color space: hooks that hold the mutex around the  *)
(* original call.                                                          *)

\* Bind may refuse the swap chain (another device, a cap, another vtable).
CreateSwapChain(s) ==
    /\ Free
    /\ bindings[s] = "none" /\ render[s].frame = 0 /\ At(s, "game")
    /\ \/ bindings' = [bindings EXCEPT ![s] = "sdr"] /\ UNCHANGED observer
       \/ "odd" \in MayFail /\ ~observer.failed /\ observer' = Failed(observer)
          /\ UNCHANGED bindings
    /\ UNCHANGED <<serial, gameVars, surface, exchangeVars>>

\* A resize replaces the back buffers of a drained queue; the window thread may
\* come in just before the original Present, and never earlier in the hook.
Resize(s) ==
    /\ "resize" \in MayFail
    /\ Free
    /\ queue[s] = <<>> /\ buffer[s] # Nothing
    /\ render[s].phase \in {"game", "present"}
    /\ buffer' = [buffer EXCEPT ![s] = Nothing]
    /\ UNCHANGED <<serial, render, queue, surface, shown, exchangeVars>>

ResizeBuffers(s) ==
    /\ Resize(s)
    /\ observer' = Stopped(observer)
    /\ UNCHANGED bindings

ResizeBuffers1(s) ==
    /\ Resize(s)
    /\ observer' = [Stopped(observer) EXCEPT
                      !.selected = IF @ = s THEN "none" ELSE @]
    /\ bindings' = [bindings EXCEPT ![s] = "none"]

SetColorSpace(s) ==
    /\ "odd" \in MayFail
    /\ Free
    /\ At(s, "game")
    /\ \E color \in {"sdr", "hdr"} :
          /\ bindings[s] \notin {"none", color}
          /\ bindings' = [bindings EXCEPT ![s] = color]
          /\ observer' = IF color = "hdr" THEN Stopped(observer) ELSE observer
    /\ UNCHANGED <<serial, gameVars, surface, exchangeVars>>
-----------------------------------------------------------------------------
(* Commands *)

\* Command 19, up to the connection with the worker.
Start ==
    /\ Free
    /\ ~observer.everStarted /\ ~observer.failed /\ ~observer.enabled
    /\ \E s \in Swaps : bindings[s] # "none"
    /\ serial' = "start"
    /\ UNCHANGED <<observer, bindings, gameVars, surface, exchangeVars>>

\* The rest of it: a worker that is gone or used makes the constructor throw.
Connect ==
    /\ serial = "start"
    /\ serial' = "none"
    /\ \/ /\ Exchange!Open
          /\ observer' = [observer EXCEPT !.everStarted = TRUE, !.frames = 0, !.enabled = TRUE]
       \/ /\ "ipc" \in MayFail
          /\ observer' = Failed(observer)
          /\ UNCHANGED exchangeVars
    /\ UNCHANGED <<bindings, gameVars, surface>>

\* Command 20 takes no lock: it is answered while a frame is being processed.
Stop ==
    /\ observer.enabled
    /\ observer' = Stopped(observer)
    /\ UNCHANGED <<serial, bindings, gameVars, surface, exchangeVars>>
-----------------------------------------------------------------------------
(* Present and PresentEx *)

\* The game draws the next frame and presents it, or tests whether it could; its
\* drawing precedes on the queue whatever the hook adds.
Draw(s) ==
    /\ At(s, "game") /\ render[s].frame < Frames[s]
    /\ queue[s] = <<>>
    /\ \E test \in BOOLEAN :
          /\ test => "odd" \in MayFail
          /\ render' = [render EXCEPT ![s] = [phase |-> "hook", frame |-> @.frame + 1,
                                              test |-> test, processed |-> FALSE]]
    /\ buffer' = [buffer EXCEPT ![s] = Raw(render[s].frame + 1)]
    /\ UNCHANGED <<serial, observer, bindings, queue, surface, shown, exchangeVars>>

\* Mutation: a second swap chain is served too.
UnsuitableButOther(s) == bindings[s] # "sdr"

\* Conditions of Process that end the session.
Unsuitable(s) ==
    \/ bindings[s] # "sdr"
    \/ observer.selected \notin {"none", s}

\* Mutation: a stopped session still processes.
ActiveUnlessFailed == ~observer.failed

Active == observer.enabled /\ ~observer.failed

\* Process up to the new Surface, in one critical section.
Enter(s) ==
    /\ At(s, "hook") /\ Free
    /\ IF ~Active
       THEN Goto(s, "present") /\ UNCHANGED <<serial, observer, surface>>
       ELSE IF observer.frames >= Limit
       THEN Goto(s, "present") /\ observer' = Stopped(observer) /\ UNCHANGED <<serial, surface>>
       ELSE IF render[s].test
       THEN Goto(s, "present") /\ UNCHANGED <<serial, observer, surface>>
       ELSE \/ /\ Goto(s, "present")            \* the 180 s are over
               /\ observer' = Stopped(observer) /\ UNCHANGED <<serial, surface>>
            \/ /\ Unsuitable(s) \/ "odd" \in MayFail
               /\ Goto(s, "present") /\ observer' = Failed(observer)
               /\ UNCHANGED <<serial, surface>>
            \/ /\ "odd" \in MayFail          \* the window is hidden
               /\ Goto(s, "present") /\ UNCHANGED <<serial, observer, surface>>
            \/ /\ ~Unsuitable(s)
               /\ serial' = s
               /\ observer' = [observer EXCEPT !.selected = s]
               /\ surface' = [surface EXCEPT ![s] = [NoSurface EXCEPT !.state = "live"]]
               /\ Goto(s, "read")
    /\ UNCHANGED <<bindings, queue, buffer, shown, exchangeVars>>

\* Surface::Submit up to the wait.
Submit(s, from, op, next) ==
    /\ At(s, from)
    /\ Push(s, op)
    /\ surface' = [surface EXCEPT ![s].uncertain = TRUE]
    /\ Goto(s, next)
    /\ UNCHANGED <<serial, observer, bindings, buffer, shown, exchangeVars>>

SubmitRead(s) == Submit(s, "read", "read", "reading")
SubmitWrite(s) == Submit(s, "write", "write", "writing")

\* Mutation: the fence is not waited for.
ExecutedUnchecked(s, op) == TRUE

\* The fence of the list was reached.
Executed(s, op) == ~Queued(s, op)

Await(s, at, op, next) ==
    /\ At(s, at)
    /\ Executed(s, op)
    /\ Goto(s, next)
    /\ UNCHANGED <<serial, observer, bindings, queue, buffer, shown, exchangeVars>>

AwaitRead(s) ==
    /\ Await(s, "reading", "read", "ask")
    /\ surface' = [surface EXCEPT ![s].uncertain = FALSE]

\* After the second wait the buffer is read back and compared, then the
\* surface is destroyed.
AwaitWrite(s) ==
    /\ Await(s, "writing", "write", "save")
    /\ surface' = [surface EXCEPT ![s] = Deleted]

Ask(s) ==
    /\ At(s, "ask")
    /\ Exchange!Ask /\ waiting'
    /\ Goto(s, "answer")
    /\ UNCHANGED <<serial, observer, bindings, queue, buffer, surface, shown>>

\* The answer is the network's image of what was read, encoded for upload.
Answer(s) ==
    /\ At(s, "answer")
    /\ Exchange!Answer
    /\ surface' = [surface EXCEPT ![s].upload = Net(surface[s].read.frame)]
    /\ Goto(s, "write")
    /\ UNCHANGED <<serial, observer, bindings, queue, buffer, shown>>

\* The audit files of a frame that has been written back.
Save(s) ==
    /\ At(s, "save")
    /\ render' = [render EXCEPT ![s].phase = "present", ![s].processed = TRUE]
    /\ serial' = "none"
    /\ UNCHANGED <<observer, bindings, queue, buffer, surface, shown, exchangeVars>>

\* Mutations of the handler: an uncertain surface is destroyed; the mutex stays
\* locked.
Destroyed(s) == [surface EXCEPT ![s] = Deleted]
StillLocked == serial

SurfaceAfterFailure(s) ==
    [surface EXCEPT ![s] =
       IF @.state # "live" THEN @ ELSE IF @.uncertain THEN [@ EXCEPT !.state = "retained"] ELSE Deleted]
Unlocked == "none"

\* An exception of the reader, the exchange, the writer or the files: Present
\* catches it, fails the session and goes on with the original call.
Abort(s) ==
    /\ \/ "gpu" \in MayFail /\ render[s].phase \in {"read", "reading", "write", "writing"}
       \/ "ipc" \in MayFail /\ render[s].phase \in {"ask", "answer", "save"}
    /\ IF render[s].phase \in {"ask", "answer"}
       THEN Exchange!GiveUp ELSE UNCHANGED exchangeVars
    /\ surface' = SurfaceAfterFailure(s)
    /\ observer' = Failed(observer)
    /\ serial' = Unlocked
    /\ Goto(s, "present")
    /\ UNCHANGED <<bindings, queue, buffer, shown>>

\* DXGI's Present, after the mutex was released; it may come back through the
\* hook of the other entry point, which passes it on.
PresentOriginal(s) ==
    /\ \/ At(s, "present")
       \/ At(s, "nested") /\ Free
    /\ IF render[s].test THEN UNCHANGED queue ELSE Push(s, "present")
    /\ Goto(s, "complete")
    /\ UNCHANGED <<serial, observer, bindings, buffer, surface, shown, exchangeVars>>

PresentNested(s) ==
    /\ At(s, "present")
    /\ Goto(s, "nested")
    /\ UNCHANGED <<serial, observer, bindings, queue, buffer, surface, shown,
                   exchangeVars>>

\* Complete, without the mutex: the frame is counted, or a Present that did not
\* accept it fails the session.
Complete(s) ==
    /\ At(s, "complete")
    /\ render' = [render EXCEPT ![s].phase = "game", ![s].test = FALSE, ![s].processed = FALSE]
    /\ IF ~render[s].processed
       THEN UNCHANGED observer
       ELSE \/ observer' = LET o == [observer EXCEPT !.frames = @ + 1]
                           IN  IF o.frames >= Limit THEN Stopped(o) ELSE o
            \/ "odd" \in MayFail /\ observer' = Failed(observer)
    /\ UNCHANGED <<serial, bindings, queue, buffer, surface, shown, exchangeVars>>
-----------------------------------------------------------------------------
(* The queues, in order, and the composition *)

Gpu(s) ==
    /\ queue[s] # <<>>
    /\ queue' = [queue EXCEPT ![s] = Tail(@)]
    /\ LET op == Head(queue[s]).op
           n == Head(queue[s]).frame
       IN  /\ buffer' = IF op = "write" THEN [buffer EXCEPT ![s] = surface[s].upload] ELSE buffer
           /\ surface' = IF op = "read" THEN [surface EXCEPT ![s].read = buffer[s]] ELSE surface
           /\ shown' = IF op = "present"
                       THEN [shown EXCEPT ![s] = [content |-> buffer[s], call |-> n,
                                                  processed |-> IF buffer[s].net THEN @.processed + 1
                                                                ELSE @.processed]]
                       ELSE shown
    /\ UNCHANGED <<serial, observer, bindings, render, exchangeVars>>

HookStep(s) ==
    \/ Enter(s) \/ SubmitRead(s) \/ AwaitRead(s) \/ Ask(s) \/ Answer(s)
    \/ SubmitWrite(s) \/ AwaitWrite(s) \/ Save(s) \/ Abort(s)
    \/ PresentOriginal(s) \/ PresentNested(s) \/ Complete(s)

Next ==
    \/ Start \/ Connect \/ Stop
    \/ \E s \in Swaps :
          \/ CreateSwapChain(s) \/ ResizeBuffers(s) \/ ResizeBuffers1(s) \/ SetColorSpace(s)
          \/ Draw(s) \/ HookStep(s) \/ Gpu(s)

Spec == Init /\ [][Next]_vars

\* Inside a call every thread goes on, each gets the mutex in the end, the
\* queues execute; the exchange answers or gives up (RunReturns of
\* ResidentExchange).
FairSpec ==
    /\ Spec
    /\ WF_vars(Connect)
    /\ \A s \in Swaps : SF_vars(HookStep(s)) /\ WF_vars(Gpu(s))
-----------------------------------------------------------------------------
(* Properties *)

\* What a Present call shows is the frame of that call, as drawn or as the
\* network made it, or an empty buffer after a resize: "There is no stale-frame
\* overlay" (RESIDENT_PRESENT_DEBUG.md), also when the session fails, stops or
\* times out with its lists still queued.
ShownIsOwn ==
    \A s \in Swaps : shown[s].content = Nothing \/ shown[s].content.frame = shown[s].call

\* "Limits: 12 frames": frames are counted after Present without the mutex, yet
\* no interleaving of two swap chains shows one processed frame too many: one of
\* them shows all there are.
WithinLimit ==
    \A s \in Swaps :
        /\ shown[s].processed <= Limit
        /\ shown[s].processed > 0 => \A t \in Swaps \ {s} : shown[t].processed = 0

\* A session ends once: after a stop, a resize, the limit, the deadline or a
\* failure nothing enables it again and no later frame is read, although the
\* frame under way may still be processed and counted.
EndsForGood ==
    [][observer.everStarted /\ ~observer.enabled =>
         ~observer'.enabled /\ \A s \in Swaps : At(s, "hook") => ~(serial' = s)]_vars

\* A surface whose lists may still execute is never destroyed; "Uncertain native
\* resources are retained until process exit".
SurfaceRetained ==
    /\ TypeOK
    /\ \A s \in Swaps :
        surface[s].state = "deleted" => ~Queued(s, "read") /\ ~Queued(s, "write")

\* Every Present returns to its render thread: none waits for ever for the mutex,
\* the worker or the queue.
PresentReturns == \A s \in Swaps : ~At(s, "game") ~> At(s, "game")
=============================================================================
