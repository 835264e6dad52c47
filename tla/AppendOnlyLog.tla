--------------------------- MODULE AppendOnlyLog ---------------------------
(***************************************************************************)
(* What the audit journal of a workspace promises: a sequence of events    *)
(* that grows at its end, one event at a time, and never changes otherwise.*)
(***************************************************************************)
EXTENDS Sequences

CONSTANT Events

VARIABLE log

Init == log = << >>

Append1(e) == log' = Append(log, e)

Next == \E e \in Events: Append1(e)

Spec == Init /\ [][Next]_log
=============================================================================
