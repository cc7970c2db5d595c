----------------------- MODULE MCBlueprintComponents -----------------------
(* Model checking BlueprintComponents.                                     *)
EXTENDS BlueprintComponents, TLC

\* A family whose versions differ by a component: one that adds or removes it.
\* They are all alike, one of them will do.
OneApart == {CHOOSE b \in [Versions -> SUBSET Components] :
               {Cardinality(b[v]) : v \in Versions} =
                   {Cardinality(Components) - 1, Cardinality(Components)}}
=============================================================================
