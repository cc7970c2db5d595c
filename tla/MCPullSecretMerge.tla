------------------------- MODULE MCPullSecretMerge -------------------------
(* Model checking PullSecretMerge: the accounts a chart creates are model  *)
(* values, "default" is the module's own.                                  *)
EXTENDS PullSecretMerge, TLC
=============================================================================
