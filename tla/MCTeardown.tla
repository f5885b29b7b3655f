----------------------------- MODULE MCTeardown -----------------------------
(***************************************************************************)
(* The removal procedure on its own, with the fairness its callers give it.*)
(***************************************************************************)
EXTENDS Teardown

FairRemovalSpec == RemovalSpec /\ RemovalFairness
=============================================================================
