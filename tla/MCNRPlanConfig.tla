--------------------------- MODULE MCNRPlanConfig ---------------------------
(* NRPlanConfig for TLC: the production record lists, one partial list of   *)
(* each kind (the stage list also names records of the other families), a   *)
(* stage list of the production size without record 2, and a launch failure *)
(* in the middle of the network.  Of the debug records two are anchors of   *)
(* the network and two are not.                                             *)
EXTENDS NRPlanConfig

CONSTANTS WholeOnly   \* BOOLEAN: only the production lists

MCStageLists ==
    {WideRecords} \cup
    IF WholeOnly THEN {} ELSE {(5 .. 14) \cup (56 .. 65) \cup {22, 23, 31},
                               (WideRecords \ {2}) \cup {39}}
MCSplitLists == {SplitRecords} \cup IF WholeOnly THEN {} ELSE {23 .. 30}
MCDebugAnchors == IF WholeOnly THEN {} ELSE {8, 10, 59, 62}
MCFaults == {Block(34)}
=============================================================================
