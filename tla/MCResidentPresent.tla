-------------------------- MODULE MCResidentPresent --------------------------
(* ResidentPresent for TLC: the game's swap chain presents two frames, a    *)
(* second one a single frame at any time.                                  *)
EXTENDS ResidentPresent

MCFrames == [game |-> 2, tool |-> 1]
=============================================================================
