--------------------------- MODULE MCEngagementArc ---------------------------
(* EngagementArc for TLC: leaf identities and session references are        *)
(* interchangeable, run ids too.                                            *)
EXTENDS EngagementArc, TLC

Symmetry ==
  Permutations(Runs) \cup Permutations(Leaves) \cup Permutations(Sessions)

=============================================================================
