--------------------------- MODULE MCCaptureSession ---------------------------
(* CaptureSession for TLC: two frames recorded in the same list, or each in *)
(* a list of its own so that one is recorded while the other is processed.  *)
EXTENDS CaptureSession

MCLists == {"A", "B"}
MCPlans == {<<"A", "A">>, <<"A", "B">>}
MCScenarios == {{}, {"cross"}, {"gpu", "ipc", "odd"}, {"enhanced"}}
=============================================================================
