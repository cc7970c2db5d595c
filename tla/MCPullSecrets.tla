---------------------------- MODULE MCPullSecrets ----------------------------
(* Model checking PullSecrets.                                             *)
EXTENDS PullSecrets, TLC

CONSTANTS w1, w2

\* Two pairs of workloads between them have every kind and both vendors.
TwoPairs ==
    { w1 :> [kind |-> "helm", vendor |-> "suse"]
          @@ w2 :> [kind |-> "blueprint", vendor |-> "nvidia"],
      w1 :> [kind |-> "fleet", vendor |-> "nvidia"]
          @@ w2 :> [kind |-> "gitops", vendor |-> "suse"] }
\* One App deployed with Helm.
OneApp == { w1 :> [kind |-> "helm", vendor |-> "suse"] }
=============================================================================
