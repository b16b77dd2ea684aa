---------------------------- MODULE PlanScreenMC ----------------------------
(***************************************************************************)
(* One plan in the library, rounds kept two at a time.                     *)
(***************************************************************************)
EXTENDS PlanScreen
=============================================================================
