------------------------- MODULE MCReadinessClocks --------------------------
(* Model checking ReadinessClocks: versions and charts are alike.          *)
EXTENDS ReadinessClocks, TLC

Symmetry == Permutations(Versions) \cup Permutations(Charts)
=============================================================================
