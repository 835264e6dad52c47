----------------------------- MODULE AuditChain -----------------------------
(***************************************************************************)
(* The audit journal of one workspace: logAudit appends entries chained by *)
(* hash, from concurrent calls (src/src/lib/audit.ts), and                 *)
(* verifyAuditChain reads the chain back.  The table keeps a unique index  *)
(* on (userId, seq) and a trigger that forbids changes.                    *)
(***************************************************************************)
EXTENDS Naturals, FiniteSets

CONSTANTS
    Events,    \* what an entry says: action, entity, metadata, context
    Writers,   \* the concurrent calls of logAudit
    MaxSeq,    \* bound on the length of the journal
    Null       \* SQL NULL, no call

ASSUME MaxSeqAssumption == MaxSeq \in Nat
ASSUME NullAssumption == Null \notin Writers

VARIABLES
    entries,   \* the rows of AuditLog with a seq
    lock,      \* holder of pg_advisory_xact_lock('audit:user')
    call       \* the calls in progress

vars == <<entries, lock, call>>

-----------------------------------------------------------------------------
\* computeAuditEntryHash covers seq, the previous hash and every field; the mutant's
\* leaves the previous hash out.
HashAlone(seq, prevHash, event) == <<seq, event>>
ComputeAuditEntryHash(seq, prevHash, event) == <<seq, prevHash, event>>

\* The mutant hashes before it knows the previous entry.
EntryUnlinked(seq, prevHash, event) ==
    [seq |-> seq, prevHash |-> prevHash, event |-> event,
     entryHash |-> ComputeAuditEntryHash(seq, Null, event)]
Entry(seq, prevHash, event) ==
    [seq |-> seq, prevHash |-> prevHash, event |-> event,
     entryHash |-> ComputeAuditEntryHash(seq, prevHash, event)]

\* findFirst(orderBy seq desc)
IsLast(e) == e \in entries /\ \A d \in entries: d.seq <= e.seq

\* The unique index on (userId, seq).
SeqFree(seq) == \A e \in entries: e.seq # seq

\* The advisory lock; the mutant takes none.
NoLock(w) == TRUE
LockFree(w) == lock = Null

Idle == [pc |-> "idle", event |-> Null, seq |-> 0, prevHash |-> Null]
At(w, pc) == call[w].pc = pc

-----------------------------------------------------------------------------
Init ==
    /\ entries = {}
    /\ lock = Null
    /\ call = [w \in Writers |-> Idle]

\* A handler calls logAudit after what it reports has happened.
Begin(w, event) ==
    /\ At(w, "idle")
    /\ Cardinality(entries) + Cardinality({v \in Writers: ~At(v, "idle")}) < MaxSeq
    /\ call' = [call EXCEPT ![w] = [Idle EXCEPT !.pc = "awaitLock", !.event = event]]
    /\ UNCHANGED <<entries, lock>>

\* The link to the last entry: its seq plus one, its hash.
LinkTo(w, seq, prevHash) ==
    call' = [call EXCEPT ![w] = [pc |-> "insert", event |-> @.event, seq |-> seq + 1,
                                 prevHash |-> prevHash]]

\* Takes the lock, then reads the last entry.
LockAndRead(w) ==
    /\ At(w, "awaitLock")
    /\ LockFree(w)
    /\ lock' = w
    /\ \/ entries = {} /\ LinkTo(w, 0, Null)
       \/ \E e \in entries: IsLast(e) /\ LinkTo(w, e.seq, e.entryHash)
    /\ UNCHANGED entries

\* The end of the transaction frees the lock; the mutant takes a session lock.
KeepLock(w) == UNCHANGED lock
ReleaseLock(w) == lock' = IF lock = w THEN Null ELSE lock

\* Inserts the entry and commits.
Insert(w) ==
    /\ At(w, "insert")
    /\ SeqFree(call[w].seq)
    /\ entries' = entries \union {Entry(call[w].seq, call[w].prevHash, call[w].event)}
    /\ ReleaseLock(w)
    /\ call' = [call EXCEPT ![w] = Idle]

\* The mutant deletes the last entry to undo a call that failed.
FailUndoing(w) ==
    /\ ~At(w, "idle")
    /\ ReleaseLock(w)
    /\ call' = [call EXCEPT ![w] = Idle]
    /\ entries' = {e \in entries: ~IsLast(e)}

\* The index rejects the entry, the transaction times out, or the process stops.
Fail(w) ==
    /\ ~At(w, "idle")
    /\ ReleaseLock(w)
    /\ call' = [call EXCEPT ![w] = Idle]
    /\ UNCHANGED entries

Next ==
    \E w \in Writers:
        \/ \E event \in Events: Begin(w, event)
        \/ LockAndRead(w) \/ Insert(w) \/ Fail(w)

Spec == Init /\ [][Next]_vars

\* PostgreSQL grants the lock in the order of the requests; the holder goes on.
\* Failures may happen but nothing relies on them.
Fairness == \A w \in Writers: SF_vars(LockAndRead(w)) /\ WF_vars(Insert(w))
FairSpec == Spec /\ Fairness

-----------------------------------------------------------------------------
(* Verification                                                            *)

\* verifyAuditChain walks the entries by seq: the i-th must have seq i, the hash
\* of the one before it, and the hash of its own fields.
EntryAt(rows, i) == CHOOSE e \in rows: e.seq = i
PreviousHash(rows, i) == IF i = 1 THEN Null ELSE EntryAt(rows, i - 1).entryHash
Verifies(rows) ==
    \A i \in 1..Cardinality(rows):
        \E e \in rows:
            /\ e.seq = i
            /\ e.prevHash = PreviousHash(rows, i)
            /\ e.entryHash = ComputeAuditEntryHash(e.seq, e.prevHash, e.event)

-----------------------------------------------------------------------------
(* Properties                                                              *)

Call == [pc: {"idle", "awaitLock", "insert"}, event: Events \union {Null}, seq: Nat,
         prevHash: {e.entryHash : e \in entries} \union {Null}]

\* Types, and the fact that only a hash of the journal is ever linked to.
TypeOK ==
    /\ \A e \in entries: /\ e.seq \in Nat \ {0} /\ e.event \in Events
                         /\ e = Entry(e.seq, e.prevHash, e.event)
    /\ lock \in Writers \union {Null}
    /\ call \in [Writers -> Call]
    /\ \A w \in Writers: ~At(w, "idle") => call[w].event \in Events

\* The chain is a line without a gap: the seqs are 1, 2, 3..., each used once, and
\* every entry but the first carries the hash of the entry with the seq before.
Linked ==
    /\ IsFiniteSet(entries)
    /\ {e.seq : e \in entries} = 1..Cardinality(entries)
    /\ \A d, e \in entries: d.seq = e.seq => d = e
    /\ \A e \in entries:
          \/ e.seq = 1 /\ e.prevHash = Null
          \/ \E d \in entries: e.seq = d.seq + 1 /\ e.prevHash = d.entryHash

\* verifyWorkspaceAuditChain, whenever it reads, finds a valid chain.
AlwaysVerifies == Verifies(entries)

\* The lock makes the unique index idle: who is about to insert has the next seq.
NoConflict == \A w \in Writers: At(w, "insert") => SeqFree(call[w].seq)

LockInv == \A w \in Writers: At(w, "insert") <=> lock = w

\* What the lock holder read is still the end of the chain.
ReadInv ==
    \A w \in Writers: At(w, "insert") =>
        \/ entries = {} /\ call[w].seq = 1 /\ call[w].prevHash = Null
        \/ \E e \in entries: /\ IsLast(e)
                             /\ call[w].seq = e.seq + 1 /\ call[w].prevHash = e.entryHash

\* The inductive invariant behind the theorems.
IInv == TypeOK /\ LockInv /\ ReadInv /\ Linked

\* Whatever the calls in progress do, the journal is a line without a gap that verifies
\* whenever it is read, and who holds the lock has read its end.
JournalInv == IInv /\ AlwaysVerifies

\* A call of logAudit ends, by an entry or by an error.
CallsEnd == \A w \in Writers: ~At(w, "idle") ~> At(w, "idle")

\* The journal read as a sequence implements the abstract log.
LogOf(rows) == [i \in 1..Cardinality(rows) |-> EntryAt(rows, i).event]
Log == INSTANCE AppendOnlyLog WITH log <- LogOf(entries)
ImplementsLog == Log!Spec
=============================================================================
