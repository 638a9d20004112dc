--------------------------- MODULE PreviewService ---------------------------
(***************************************************************************)
(* What the native preview promises to the player: every presented frame is *)
(* that frame, as the game drew it or as the network made it, never another *)
(* frame's image and never one frame twice; the network's frames number at  *)
(* most Limit, and once the preview has stopped there are no more of them.  *)
(* NativePreview implements this.                                           *)
(***************************************************************************)
EXTENDS Naturals, Sequences

CONSTANT Limit              \* NR_PREVIEW_FRAMES, processed frames of a session

Raw(n) == [frame |-> n, net |-> FALSE]
Net(n) == [frame |-> n, net |-> TRUE]

VARIABLES
    presented,      \* images on screen, oldest first
    budget,         \* frames the network may still replace
    stopped         \* the session failed or finished

vars == <<presented, budget, stopped>>

Init ==
    /\ presented = <<>>
    /\ budget = Limit
    /\ stopped = FALSE

PresentOriginal ==
    /\ presented' = Append(presented, Raw(Len(presented) + 1))
    /\ UNCHANGED <<budget, stopped>>

\* The frame on its way when the session stops may still be the network's.
PresentProcessed ==
    /\ ~stopped
    /\ budget > 0
    /\ presented' = Append(presented, Net(Len(presented) + 1))
    /\ budget' = budget - 1
    /\ stopped' \in BOOLEAN

Stop == ~stopped /\ stopped' = TRUE /\ UNCHANGED <<presented, budget>>

Next == PresentOriginal \/ PresentProcessed \/ Stop

Spec == Init /\ [][Next]_vars
=============================================================================
