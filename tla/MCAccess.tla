------------------------------ MODULE MCAccess ------------------------------
(* Webhooks, visits, pages and attempts are the same two values: no        *)
(* behaviour changes two parts, so one permutation serves them all.        *)
EXTENDS Access, TLC

Symmetry == Permutations(Handlers)
=============================================================================
