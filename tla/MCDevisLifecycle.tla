-------------------------- MODULE MCDevisLifecycle --------------------------
(* Instances of DevisLifecycle for TLC: how many requests run each         *)
(* operation at the same time.                                             *)
EXTENDS DevisLifecycle, TLC

Symmetry == Permutations(Requests) \union Permutations(Contents)

Only(counts) == [op \in Operations |-> IF op \in DOMAIN counts THEN counts[op] ELSE 0]

\* Any two requests run any two operations, but for two edits, deletes or dashboards.
AnyTwo == Only([update |-> 1, send |-> 2, public |-> 2, dashboard |-> 1, delete |-> 1, convert |-> 2])

\* One request at a time sends, and one signs; nobody edits or deletes.
Orderly == Only([send |-> 1, public |-> 1, dashboard |-> 1, convert |-> 2])
=============================================================================
