----------------------------- MODULE MCSettings -----------------------------
(* Model checking Settings.                                                *)
EXTENDS Settings

Start(fleet, catalog, mirrored) ==
    [git      |-> [g \in Sites |-> IF g = Fleet THEN fleet ELSE catalog],
     ref      |-> [r \in Auth |-> None],
     mirrored |-> mirrored, token |-> TRUE, pinned |-> FALSE]

\* Everything with credentials, and connected.
Starts == {Start("cred", "cred", FALSE)}
=============================================================================
