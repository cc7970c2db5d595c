------------------------- MODULE MCExtensionInstall -------------------------
(* Model checking ExtensionInstall: names are alike.                       *)
EXTENDS ExtensionInstall, TLC

Symmetry == Permutations(Names)
=============================================================================
