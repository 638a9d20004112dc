--------------------------- MODULE ExchangeService ---------------------------
(***************************************************************************)
(* What the resident exchange promises to the game hook that uses it: a    *)
(* surface asked for is answered by the network's image of that surface,   *)
(* whole, or the session is given up and answers nothing again.            *)
(***************************************************************************)
EXTENDS Naturals, Sequences

VARIABLES
    asked,    \* surfaces asked for so far
    waiting,  \* the latest is neither answered nor given up
    answers,  \* surfaces whose image was returned, in order
    over      \* the session was given up, or its process is gone

vars == <<asked, waiting, answers, over>>

Init ==
    /\ asked = 0
    /\ waiting = FALSE
    /\ answers = <<>>
    /\ over = TRUE

\* A session opens on a worker that has never answered.
Open ==
    /\ over
    /\ answers = <<>>
    /\ over' = FALSE
    /\ UNCHANGED <<asked, waiting, answers>>

\* A request may be refused at once.
Ask ==
    /\ ~over /\ ~waiting
    /\ asked' = asked + 1
    /\ over' \in BOOLEAN
    /\ waiting' = ~over'
    /\ UNCHANGED answers

Answer ==
    /\ waiting
    /\ answers' = Append(answers, asked)
    /\ waiting' = FALSE
    /\ UNCHANGED <<asked, over>>

GiveUp ==
    /\ over' = TRUE
    /\ waiting' = FALSE
    /\ UNCHANGED <<asked, answers>>

Next == Open \/ Ask \/ Answer \/ GiveUp

Spec == Init /\ [][Next]_vars
=============================================================================
