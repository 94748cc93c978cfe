---------------------------- MODULE MCLiveRecipes ----------------------------
(* LiveRecipes for TLC.  Calls, interrupts and recipes are interchangeable; *)
(* the symmetry is for the runs that check no liveness.                     *)
EXTENDS LiveRecipes, TLC

Symmetry ==
  Permutations(Calls) \cup Permutations(Aborts) \cup Permutations(Presences)
=============================================================================
