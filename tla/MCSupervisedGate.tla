------------------------- MODULE MCSupervisedGate -------------------------
(* SupervisedGate for TLC: every script beside another one, with one output *)
(* directory and with two.  Nothing goes wrong; checks fail, memory stays   *)
(* allocated or a result holds a NaN; the GPU work raises or the child dies. *)
EXTENDS SupervisedGate

CONSTANTS l1, l2, d1, d2

MCCommandLines ==
    {[l \in {l1, l2} |-> IF l = l1 THEN [script |-> a, output |-> d1]
                                   ELSE [script |-> b, output |-> d]] :
        <<a, b, d>> \in {<<"native", "transition", d1>>, <<"native", "transition", d2>>,
                         <<"native", "probe", d1>>}}
MCScenarios == {{}, {"numeric", "leak", "nan"}, {"raise", "crash"}}
MCNan == {{"nan"}}
=============================================================================
