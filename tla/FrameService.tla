---------------------------- MODULE FrameService ----------------------------
(***************************************************************************)
(* What a plan promises to the application that submits frames to it: the  *)
(* frames it accepted come out once each, in the order of acceptance, never *)
(* before their own input was ready, and what comes out under the name of   *)
(* a frame is that frame's image, then and for ever after.  Once the plan   *)
(* is destroyed nothing more is accepted or comes out.  Nothing is said of  *)
(* how: no stream, no parameter block, no event.  NRPlanSubmit implements   *)
(* this.                                                                    *)
(***************************************************************************)
EXTENDS Naturals, Sequences

CONSTANT MaxFrames          \* bound: frames the application ever submits

Frame == 1 .. MaxFrames

VARIABLES
    accepted,       \* frames whose submission succeeded, oldest first
    inputReady,     \* frames whose input the producer has finished
    delivered,      \* the image announced for accepted[i], as the frame it shows
    open            \* the plan has not been destroyed

vars == <<accepted, inputReady, delivered, open>>

Init ==
    /\ accepted = <<>>
    /\ inputReady = {}
    /\ delivered = <<>>
    /\ open = TRUE

\* A submission succeeds; frames are submitted in increasing order.
Accept(f) ==
    /\ open
    /\ \A i \in DOMAIN accepted : accepted[i] < f
    /\ accepted' = Append(accepted, f)
    /\ UNCHANGED <<inputReady, delivered, open>>

\* The producer finishes the input of a frame, whether submitted yet or not.
Provide(f) ==
    /\ f \notin inputReady
    /\ inputReady' = inputReady \cup {f}
    /\ UNCHANGED <<accepted, delivered, open>>

\* The oldest undelivered frame comes out, showing itself.
Deliver ==
    /\ open
    /\ Len(delivered) < Len(accepted)
    /\ LET f == accepted[Len(delivered) + 1] IN
          /\ f \in inputReady
          /\ delivered' = Append(delivered, f)
    /\ UNCHANGED <<accepted, inputReady, open>>

\* The plan is destroyed; what has not come out by then need not.
Close ==
    /\ open
    /\ open' = FALSE
    /\ UNCHANGED <<accepted, inputReady, delivered>>

Next ==
    \/ \E f \in Frame : Accept(f) \/ Provide(f)
    \/ Deliver \/ Close

Spec == Init /\ [][Next]_vars

\* While the plan lives, an accepted frame whose input is ready is not kept
\* waiting for ever.
FairSpec == Spec /\ WF_vars(Deliver)
=============================================================================
