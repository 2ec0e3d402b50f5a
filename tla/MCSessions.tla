----------------------------- MODULE MCSessions -----------------------------
(* Model checking of Sessions: symmetry of the ids a row or family may get. *)
EXTENDS Sessions, TLC

Symmetry == Permutations(SessionIds) \cup Permutations(Families) \cup Permutations(Requests)
=============================================================================
