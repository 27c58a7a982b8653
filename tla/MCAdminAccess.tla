---------------------------- MODULE MCAdminAccess ----------------------------
(* Two browsers, one backup code per set, one attempt per window of two      *)
(* ticks.  The browsers are alike and every property is an invariant.         *)
EXTENDS AdminAccess, TLC

Symmetry == Permutations(Browsers)
=============================================================================
