--------------------------- MODULE MCNRPlanSubmit ---------------------------
(***************************************************************************)
(* Model checking of NRPlanSubmit: the model, its properties and its        *)
(* inductive invariant under the bounds of the submit_*.cfg configurations. *)
(***************************************************************************)
EXTENDS NRPlanSubmitInv
=============================================================================
