--------------------------- MODULE MCHelmRelease ---------------------------
(* Model checking of HelmRelease on small instances. *)
EXTENDS HelmRelease, TLC

\* The tags, the charts behind them and the values are interchangeable.
Symmetry == Permutations(Tags) \cup Permutations(Values)
=============================================================================
