-------------------------- MODULE ComponentRollout --------------------------
(***************************************************************************)
(* What the AIWorkload controller promises about the objects it deploys    *)
(* for a blueprint.  A pass works for one table of what is wanted, the one *)
(* of the moment it begins: it deploys from that table only and withdraws  *)
(* only what is not in it.  The status calls a pass reconciled only if its *)
(* table is still what is wanted, all of it is deployed, and nothing else  *)
(* is but what lasts.  A deletion waits for the pass to end and leaves     *)
(* nothing of what is recorded.  No API calls, no queue, no Fleet and no   *)
(* crashes.                                                                *)
(***************************************************************************)
CONSTANTS
    Keys,      \* places of objects
    Digests,   \* what an object may be rendered from
    Phases,    \* what may be reported of an object
    None       \* no object, no report

VARIABLES
    wanted,    \* the object wanted at each key
    deployed,  \* the object that is there
    lasting,   \* keys whose object only a deletion removes
    busy,      \* a pass is running
    plan,      \* its table
    reported,  \* the phases of the pass last reported as reconciled
    recorded,  \* keys whose objects a deletion removes
    leaving,   \* a deletion was requested
    gone

objects  == <<wanted, deployed, lasting>>
pass     == <<busy, plan, reported>>
deletion == <<recorded, leaving, gone>>
vars     == <<objects, pass, deletion>>

Tables  == [Keys -> Digests \cup {None}]
Nothing == [k \in Keys |-> None]
In(t)   == {k \in Keys : t[k] # None}

Init ==
    /\ wanted \in Tables /\ deployed = Nothing /\ lasting \subseteq Keys
    /\ busy = FALSE /\ plan = Nothing /\ reported = None
    /\ recorded = {} /\ leaving = FALSE /\ gone = FALSE

\* The user wants something else.
Want ==
    /\ ~leaving /\ wanted' \in Tables
    /\ UNCHANGED <<deployed, lasting, pass, deletion>>

\* What a deletion will have to remove is recorded once, before the first pass.
Record ==
    /\ recorded = {} /\ ~busy /\ ~leaving /\ recorded' \subseteq Keys
    /\ UNCHANGED <<objects, pass, leaving, gone>>

Begin ==
    /\ ~busy /\ ~leaving /\ recorded # {}
    /\ busy' = TRUE /\ plan' = wanted
    /\ UNCHANGED <<objects, reported, deletion>>

\* Some objects of the plan are made or brought up to date.
Deploy ==
    /\ busy
    /\ \E S \in SUBSET In(plan) :
         deployed' = [k \in Keys |-> IF k \in S THEN plan[k] ELSE deployed[k]]
    /\ UNCHANGED <<wanted, lasting, pass, deletion>>

\* One object that is not in the plan is removed.
Withdraw ==
    /\ busy
    /\ \E k \in Keys \ (In(plan) \cup lasting) : deployed' = [deployed EXCEPT ![k] = None]
    /\ UNCHANGED <<wanted, lasting, pass, deletion>>

\* The plan is carried out.
Complete ==
    /\ \A k \in In(plan) : deployed[k] = plan[k]
    /\ \A k \in Keys \ In(plan) : deployed[k] = None \/ k \in lasting

EndPass == busy /\ busy' = FALSE /\ plan' = Nothing

Report ==
    /\ EndPass /\ plan = wanted /\ Complete
    /\ reported' \in [In(wanted) -> Phases]
    /\ UNCHANGED <<objects, deletion>>

\* The pass ends without success, and may say so.
Abandon ==
    /\ EndPass /\ reported' \in {reported, None}
    /\ UNCHANGED <<objects, deletion>>

\* There is nothing to begin a pass for.
Retract ==
    /\ ~busy /\ reported' = None
    /\ UNCHANGED <<objects, busy, plan, deletion>>

RequestDeletion ==
    /\ ~leaving /\ leaving' = TRUE
    /\ UNCHANGED <<objects, pass, recorded, gone>>

Remove ==
    /\ leaving /\ ~busy /\ ~gone
    /\ \E S \in SUBSET recorded :
         deployed' = [k \in Keys |-> IF k \in S THEN None ELSE deployed[k]]
    /\ UNCHANGED <<wanted, lasting, pass, deletion>>

Leave ==
    /\ leaving /\ ~busy /\ \A k \in recorded : deployed[k] = None
    /\ gone' = TRUE
    /\ UNCHANGED <<objects, pass, recorded, leaving>>

Next ==
    \/ Want \/ Record \/ Begin \/ Deploy \/ Withdraw \/ Report \/ Abandon \/ Retract
    \/ RequestDeletion \/ Remove \/ Leave

Spec == Init /\ [][Next]_vars
=============================================================================
