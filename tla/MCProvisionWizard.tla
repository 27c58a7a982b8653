-------------------------- MODULE MCProvisionWizard --------------------------
(* Three runs: two that are interrupted and resumed, or discarded, and the   *)
(* one that ends; or a run, an update and a resumed run.                      *)
EXTENDS ProvisionWizard
=============================================================================
