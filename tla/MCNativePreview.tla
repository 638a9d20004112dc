--------------------------- MODULE MCNativePreview ---------------------------
(* NativePreview for TLC: few frames, one session: nothing fails, everything *)
(* but a timeout may fail, or everything may.                              *)
EXTENDS NativePreview

MCScenarios == {{}, {"d3d", "worker"}, FailureKinds}
=============================================================================
