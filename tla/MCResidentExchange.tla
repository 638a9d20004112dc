------------------------- MODULE MCResidentExchange -------------------------
(* ResidentExchange for TLC: a surface smaller than a tile and one that    *)
(* needs three tiles, two of them cut off at an edge.                      *)
EXTENDS ResidentExchange

MCSizes == {<<1, 1>>, <<3, 2>>}
MCTile == <<2, 2>>
MCScenarios == {{}, {"slow", "worker", "event", "data", "kill", "crash"}}
=============================================================================
