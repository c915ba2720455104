-------------------------- MODULE MCRepeaterTools --------------------------
(* The instance of RepeaterTools that TLC checks. *)
EXTENDS RepeaterTools

MCSpec == Spec /\ Fairness
=============================================================================
