---------------------------- MODULE AuditTamper ----------------------------
(***************************************************************************)
(* The audit journal when somebody with access to the database changes it  *)
(* (the trigger is lifted by app.audit_maintenance): what verifyAuditChain *)
(* then detects.  A change may recompute the hash of the rows it changes.  *)
(***************************************************************************)
EXTENDS AuditChain

CONSTANT MaxChanges   \* bound on the changes

VARIABLES
    before,    \* the entries inserted before any change, with the hashes of
               \* those that preceded them
    changes

tvars == <<entries, lock, call, before, changes>>

TInit == Init /\ before = {} /\ changes = 0

Append1 ==
    /\ Next
    /\ before' = IF changes > 0 THEN before
                 ELSE before \union {<<e, {d.entryHash : d \in entries}>> : e \in entries' \ entries}
    /\ UNCHANGED changes

Replace(old, new) ==
    /\ changes < MaxChanges /\ changes' = changes + 1
    /\ entries' = (entries \ old) \union new
    /\ \A d, e \in entries': d.seq = e.seq => d = e
    /\ UNCHANGED <<lock, call, before>>

\* Changes what an entry says or what it links to, as it is or rehashed.
Modify ==
    \E e \in entries, event \in Events,
       link \in {d.entryHash : d \in entries} \union {Null}:
      \E hash \in {e.entryHash, ComputeAuditEntryHash(e.seq, link, event)}:
        Replace({e}, {[seq |-> e.seq, prevHash |-> link, event |-> event, entryHash |-> hash]})

Delete == \E e \in entries: Replace({e}, {})

\* Deletes an entry and closes the gap.
Splice ==
    \E e \in entries: LET later == {d \in entries: d.seq > e.seq} IN
        Replace({e} \union later, {[d EXCEPT !.seq = @ - 1] : d \in later})

Reorder ==
    \E d, e \in entries:
        d # e /\ Replace({d, e}, {[d EXCEPT !.seq = e.seq], [e EXCEPT !.seq = d.seq]})

TNext == Append1 \/ Modify \/ Delete \/ Splice \/ Reorder

TSpec == TInit /\ [][TNext]_tvars

-----------------------------------------------------------------------------
\* "Modifying, deleting or reordering an entry breaks all those that follow": as
\* long as the chain verifies, an entry inserted before the changes and itself unchanged
\* follows the same entries as then.  (The end of the chain can be cut or rewritten without a trace.)
DetectsChanges ==
    Verifies(entries) =>
        \A e \in entries, hashes \in {b[2] : b \in before}:
            <<e, hashes>> \in before =>
                hashes = {d.entryHash : d \in {r \in entries: r.seq < e.seq}}
=============================================================================
