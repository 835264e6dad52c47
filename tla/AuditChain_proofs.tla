-------------------------- MODULE AuditChain_proofs --------------------------
(***************************************************************************)
(* The audit journal is a line without a gap, always verifies, never meets *)
(* its unique index, and implements the abstract append-only log, for any  *)
(* number of writers, events and entries.                                  *)
(***************************************************************************)
EXTENDS AuditTamper, FiniteSetTheorems, SequenceTheorems, WellFoundedInduction, TLAPS

USE DEF At

LEMMA InvInit == Init => IInv
  BY NullAssumption, FS_EmptySet DEF Init, Idle, IInv, TypeOK, Call, LockInv, ReadInv, Linked

\* The last entry of a chain without a gap has as many entries as its seq.
LEMMA LastSeq ==
  ASSUME Linked, NEW e \in entries, IsLast(e), TypeOK
  PROVE  e.seq = Cardinality(entries)
<1>1. Cardinality(entries) \in Nat
  BY FS_CardinalityType DEF Linked
<1>2. e.seq \in 1..Cardinality(entries)
  BY DEF Linked
<1>3. Cardinality(entries) \in {d.seq : d \in entries}
  BY <1>1, <1>2 DEF Linked
<1>4. PICK d \in entries: d.seq = Cardinality(entries)
  BY <1>3
<1> QED
  BY <1>1, <1>2, <1>4 DEF IsLast

\* The steps that add no entry keep the chain.
LEMMA SameEntries ==
  ASSUME IInv, UNCHANGED entries
  PROVE  Linked'
  BY DEF IInv, Linked

LEMMA BeginKeeps ==
  ASSUME IInv, NEW w \in Writers, NEW event \in Events, Begin(w, event)
  PROVE  IInv'
<1> DEFINE c == [Idle EXCEPT !.pc = "awaitLock", !.event = event]
<1>1. /\ UNCHANGED <<entries, lock>> /\ call[w].pc = "idle"
      /\ call' = [call EXCEPT ![w] = c]
      /\ c.pc = "awaitLock" /\ c.event = event /\ c \in Call
  BY DEF Begin, Idle, Call
<1>2. TypeOK'
  BY <1>1 DEF IInv, TypeOK, Call
<1>3. LockInv' /\ ReadInv'
  BY <1>1 DEF IInv, TypeOK, LockInv, ReadInv, IsLast
<1> QED
  BY <1>1, <1>2, <1>3, SameEntries DEF IInv

LEMMA FailKeeps ==
  ASSUME IInv, NEW w \in Writers, Fail(w)
  PROVE  IInv'
<1>1. UNCHANGED entries /\ call' = [call EXCEPT ![w] = Idle] /\ Idle \in Call /\ Idle.pc = "idle"
  BY DEF Fail, Idle, Call
<1>2. TypeOK'
  BY <1>1 DEF IInv, TypeOK, Call, Fail, ReleaseLock
<1>3. LockInv' /\ ReadInv'
  BY <1>1, NullAssumption DEF IInv, TypeOK, LockInv, ReadInv, IsLast, Fail, ReleaseLock
<1> QED
  BY <1>1, <1>2, <1>3, SameEntries DEF IInv

LEMMA LockAndReadKeeps ==
  ASSUME IInv, NEW w \in Writers, LockAndRead(w)
  PROVE  IInv'
<1>1. /\ UNCHANGED entries /\ lock = Null /\ lock' = w
      /\ \A v \in Writers: call[v].pc # "insert"
  BY NullAssumption DEF LockAndRead, LockFree, IInv, LockInv
<1>2. PICK n \in Nat, h \in {e.entryHash : e \in entries} \union {Null}:
         /\ LinkTo(w, n, h)
         /\ \/ entries = {} /\ n = 0 /\ h = Null
            \/ \E e \in entries: IsLast(e) /\ n = e.seq /\ h = e.entryHash
  BY DEF LockAndRead, IInv, TypeOK
<1>3. PICK c: c = [pc |-> "insert", event |-> call[w].event, seq |-> n + 1,
                  prevHash |-> h]
  OBVIOUS
<1>4. call[w] \in Call /\ call \in [Writers -> Call] /\ call[w].event \in Events
  BY DEF LockAndRead, IInv, TypeOK
<1>5. /\ c.pc = "insert" /\ c.seq = n + 1 /\ c.prevHash = h /\ c.event = call[w].event
      /\ c \in Call
  BY <1>2, <1>3, <1>4 DEF Call
<1>6. call' = [call EXCEPT ![w] = c]
  BY <1>2, <1>3, <1>4 DEF LinkTo
<1>7. TypeOK'
  BY <1>1, <1>4, <1>5, <1>6 DEF IInv, TypeOK, Call
<1>8. LockInv'
  BY <1>1, <1>4, <1>5, <1>6, NullAssumption DEF LockInv
<1>9. ReadInv'
  <2>1. \A v \in Writers: call'[v].pc = "insert" => v = w
    BY <1>1, <1>4, <1>6
  <2>2. call'[w] = c
    BY <1>4, <1>6
  <2>3. \/ entries = {} /\ c.seq = 1 /\ c.prevHash = Null
        \/ \E e \in entries: IsLast(e) /\ c.seq = e.seq + 1 /\ c.prevHash = e.entryHash
    BY <1>2, <1>5
  <2> QED
    BY <1>1, <2>1, <2>2, <2>3 DEF ReadInv, IsLast
<1> QED
  BY <1>1, <1>7, <1>8, <1>9, SameEntries DEF IInv

\* What Insert adds: the next seq, linked to the last entry.
LEMMA NextEntry ==
  ASSUME IInv, NEW w \in Writers, Insert(w)
  PROVE  LET x == Entry(call[w].seq, call[w].prevHash, call[w].event) IN
         /\ entries' = entries \union {x} /\ x \notin entries
         /\ x.seq = Cardinality(entries) + 1 /\ x.prevHash = call[w].prevHash
         /\ x.event \in Events /\ x = Entry(x.seq, x.prevHash, x.event)
         /\ \/ x.seq = 1 /\ x.prevHash = Null
            \/ \E d \in entries: x.seq = d.seq + 1 /\ x.prevHash = d.entryHash
<1> DEFINE x == Entry(call[w].seq, call[w].prevHash, call[w].event)
<1>1. /\ x.seq = call[w].seq /\ x.prevHash = call[w].prevHash /\ x.event = call[w].event
      /\ x = Entry(x.seq, x.prevHash, x.event)
  BY DEF Entry
<1>2. entries' = entries \union {x} /\ SeqFree(x.seq) /\ call[w].event \in Events
  BY <1>1 DEF Insert, IInv, TypeOK
<1>3. x \notin entries
  BY <1>2 DEF SeqFree
<1>4. /\ x.seq = Cardinality(entries) + 1
      /\ \/ x.seq = 1 /\ x.prevHash = Null
         \/ \E d \in entries: x.seq = d.seq + 1 /\ x.prevHash = d.entryHash
  <2>1. CASE entries = {} /\ call[w].seq = 1 /\ call[w].prevHash = Null
    BY <1>1, <2>1, FS_EmptySet
  <2>2. ASSUME NEW e \in entries, IsLast(e), call[w].seq = e.seq + 1, call[w].prevHash = e.entryHash
        PROVE  x.seq = Cardinality(entries) + 1 /\ x.seq = e.seq + 1 /\ x.prevHash = e.entryHash
    BY <1>1, <2>2, LastSeq DEF IInv
  <2> QED
    BY <2>1, <2>2 DEF Insert, IInv, ReadInv
<1> QED
  BY <1>1, <1>2, <1>3, <1>4

LEMMA InsertKeeps ==
  ASSUME IInv, NEW w \in Writers, Insert(w)
  PROVE  IInv'
<1> DEFINE x == Entry(call[w].seq, call[w].prevHash, call[w].event)
           n == Cardinality(entries)
<1>1. PICK y: /\ y = x /\ entries' = entries \union {y} /\ y \notin entries
              /\ y.seq = n + 1 /\ y.event \in Events /\ y = Entry(y.seq, y.prevHash, y.event)
              /\ \/ y.seq = 1 /\ y.prevHash = Null
                 \/ \E d \in entries: y.seq = d.seq + 1 /\ y.prevHash = d.entryHash
  BY NextEntry
<1>2. IsFiniteSet(entries) /\ n \in Nat
  BY FS_CardinalityType DEF IInv, Linked
<1>3. IsFiniteSet(entries') /\ Cardinality(entries') = n + 1
  BY <1>1, <1>2, FS_AddElement
<1>4. call' = [call EXCEPT ![w] = Idle] /\ Idle.pc = "idle" /\ Idle.prevHash = Null /\ Idle \in Call'
  BY DEF Insert, Idle, Call
<1>5. TypeOK'
  <2>1. \A e \in entries': e.seq \in Nat \ {0} /\ e.event \in Events /\ e = Entry(e.seq, e.prevHash, e.event)
    BY <1>1, <1>2 DEF IInv, TypeOK
  <2>2. lock' \in Writers \union {Null}
    BY DEF Insert, ReleaseLock, IInv, TypeOK
  <2>3. call' \in [Writers -> Call']
    BY <1>1, <1>4 DEF IInv, TypeOK, Call
  <2>4. \A v \in Writers: call'[v].pc # "idle" => call'[v].event \in Events
    BY <1>4 DEF IInv, TypeOK
  <2> QED
    BY <2>1, <2>2, <2>3, <2>4 DEF TypeOK
<1>6. LockInv' /\ ReadInv'
  BY <1>4, NullAssumption DEF Insert, ReleaseLock, IInv, TypeOK, LockInv, ReadInv
<1>7. Linked'
  <2>1. {e.seq : e \in entries'} = 1..(n + 1)
    <3>1. {e.seq : e \in entries} = 1..n
      BY DEF IInv, Linked
    <3>2. {e.seq : e \in entries'} = {e.seq : e \in entries} \union {n + 1}
      BY <1>1
    <3>3. 1..(n + 1) = 1..n \union {n + 1}
      BY <1>2
    <3> QED
      BY <3>1, <3>2, <3>3
  <2>2. \A e \in entries: e.seq \in 1..n
    BY DEF IInv, Linked
  <2>3. \A d, e \in entries': d.seq = e.seq => d = e
    BY <1>1, <1>2, <2>2 DEF IInv, Linked
  <2>4. \A e \in entries': \/ e.seq = 1 /\ e.prevHash = Null
                           \/ \E d \in entries': e.seq = d.seq + 1 /\ e.prevHash = d.entryHash
    BY <1>1 DEF IInv, Linked
  <2> QED
    BY <1>3, <2>1, <2>3, <2>4 DEF Linked
<1> QED
  BY <1>5, <1>6, <1>7 DEF IInv

LEMMA InvNext == IInv /\ [Next]_vars => IInv'
<1>1. ASSUME IInv, UNCHANGED vars PROVE IInv'
  BY <1>1 DEF vars, IInv, TypeOK, Call, LockInv, ReadInv, IsLast, Linked
<1> QED
  BY <1>1, BeginKeeps, FailKeeps, LockAndReadKeeps, InsertKeeps DEF Next

\* The inductive invariant holds in every reachable state; Linked is part of it.
THEOREM Invariance == Spec => []IInv
  BY InvInit, InvNext, PTL DEF Spec

\* The journal is a line without a gap.
THEOREM JournalIsALine == Spec => []Linked
<1>1. IInv => Linked
  BY DEF IInv
<1> QED
  BY <1>1, Invariance, PTL

\* The unique index never rejects an entry: the lock suffices.
THEOREM IndexIsIdle == Spec => []NoConflict
<1>1. IInv => NoConflict
  <2> SUFFICES ASSUME IInv, NEW w \in Writers, At(w, "insert"), NEW d \in entries
               PROVE  d.seq # call[w].seq
    BY DEF NoConflict, SeqFree
  <2> QED
    BY DEF IInv, ReadInv, IsLast, TypeOK
<1> QED
  BY <1>1, Invariance, PTL

\* However calls interleave and fail, the journal is a line without a gap, and
\* verifyWorkspaceAuditChain finds it valid whenever it reads it.
THEOREM JournalVerifies == Spec => []JournalInv
<1>1. IInv => AlwaysVerifies
  <2> SUFFICES ASSUME IInv, NEW i \in 1..Cardinality(entries)
               PROVE  \E e \in entries: /\ e.seq = i
                                        /\ e.prevHash = PreviousHash(entries, i)
                                        /\ e.entryHash = ComputeAuditEntryHash(e.seq, e.prevHash, e.event)
    BY DEF AlwaysVerifies, Verifies
  <2>1. i \in Nat /\ i >= 1
    BY FS_CardinalityType DEF IInv, Linked
  <2>2. PICK e \in entries: e.seq = i
    BY DEF IInv, Linked
  <2>3. e.entryHash = ComputeAuditEntryHash(e.seq, e.prevHash, e.event)
    <3>1. e = Entry(e.seq, e.prevHash, e.event)
      BY DEF IInv, TypeOK
    <3> QED
      BY <3>1 DEF Entry
  <2>4. CASE e.seq = 1 /\ e.prevHash = Null
    BY <2>2, <2>3, <2>4 DEF PreviousHash
  <2>5. ASSUME NEW d \in entries, e.seq = d.seq + 1, e.prevHash = d.entryHash
        PROVE  e.prevHash = PreviousHash(entries, i)
    <3>1. d.seq = i - 1 /\ i # 1
      BY <2>1, <2>2, <2>5 DEF IInv, TypeOK
    <3>2. EntryAt(entries, i - 1) = d
      BY <3>1 DEF EntryAt, IInv, Linked
    <3> QED
      BY <2>5, <3>1, <3>2 DEF PreviousHash
  <2> QED
    BY <2>2, <2>3, <2>4, <2>5 DEF IInv, Linked
<1>2. IInv => JournalInv
  BY <1>1 DEF JournalInv
<1> QED
  BY <1>2, Invariance, PTL

\* An insertion appends its event to the log.
LEMMA InsertAppends ==
  ASSUME IInv, NEW w \in Writers, Insert(w)
  PROVE  LogOf(entries') = Append(LogOf(entries), call[w].event) /\ call[w].event \in Events
<1> DEFINE n == Cardinality(entries)
<1>1. PICK x: /\ x = Entry(call[w].seq, call[w].prevHash, call[w].event)
              /\ entries' = entries \union {x} /\ x \notin entries /\ x.seq = n + 1
              /\ x.event \in Events
  BY NextEntry
<1>2. IsFiniteSet(entries) /\ n \in Nat /\ Cardinality(entries') = n + 1
  BY <1>1, FS_CardinalityType, FS_AddElement DEF IInv, Linked
<1>3. x.event = call[w].event
  BY <1>1 DEF Entry
<1>4. \A e \in entries: e.seq \in 1..n
  BY DEF IInv, Linked
<1>5. EntryAt(entries', n + 1) = x
  BY <1>1, <1>2, <1>4 DEF EntryAt
<1>6. ASSUME NEW i \in 1..n PROVE EntryAt(entries', i) = EntryAt(entries, i)
  <2>1. PICK e \in entries: e.seq = i
    BY DEF IInv, Linked
  <2>2. EntryAt(entries, i) = e
    BY <2>1 DEF EntryAt, IInv, Linked
  <2>3. \A d \in entries': d.seq = i => d = e
    BY <1>1, <1>2, <2>1 DEF IInv, Linked
  <2>4. EntryAt(entries', i) = e
    BY <1>1, <2>1, <2>3 DEF EntryAt
  <2> QED
    BY <2>2, <2>4
<1>7. LogOf(entries) = [i \in 1..n |-> EntryAt(entries, i).event]
  BY DEF LogOf
<1>8. LogOf(entries') = [i \in 1..(n + 1) |-> EntryAt(entries', i).event]
  BY <1>2 DEF LogOf
<1>9. LogOf(entries') = [i \in 1..(n + 1) |-> IF i = n + 1 THEN x.event ELSE LogOf(entries)[i]]
  BY <1>2, <1>5, <1>6, <1>7, <1>8
<1>10. LogOf(entries) \in Seq(Events) /\ Len(LogOf(entries)) = n
  <2>1. ASSUME NEW i \in 1..n PROVE EntryAt(entries, i).event \in Events
    <3>1. PICK e \in entries: e.seq = i
      BY DEF IInv, Linked
    <3>2. EntryAt(entries, i) = e
      BY <3>1 DEF EntryAt, IInv, Linked
    <3> QED
      BY <3>2 DEF IInv, TypeOK
  <2> QED
    BY <1>2, <1>7, <2>1
<1>11. Append(LogOf(entries), x.event) = [i \in 1..(n + 1) |-> IF i = n + 1 THEN x.event ELSE LogOf(entries)[i]]
  BY <1>1, <1>2, <1>10
<1> QED
  BY <1>1, <1>3, <1>9, <1>11

\* The journal read in the order of seq implements the abstract append-only log: an
\* insertion appends one event, and no other step of any call changes the sequence.
THEOREM Refinement == Spec => ImplementsLog
<1>1. Init => Log!Init
  <2>1. entries = {} => LogOf(entries) = << >>
    BY FS_EmptySet DEF LogOf
  <2> QED
    BY <2>1 DEF Init, Log!Init
<1>2. IInv /\ [Next]_vars => [Log!Next]_(LogOf(entries))
  <2>1. ASSUME UNCHANGED entries PROVE LogOf(entries') = LogOf(entries)
    BY <2>1
  <2>2. ASSUME IInv, NEW w \in Writers, Insert(w) PROVE Log!Next
    BY <2>2, InsertAppends DEF Log!Next, Log!Append1
  <2>3. ASSUME Next, ~\E w \in Writers: Insert(w) PROVE UNCHANGED entries
    BY <2>3 DEF Next, Begin, LockAndRead, Fail
  <2> QED
    BY <2>1, <2>2, <2>3 DEF vars
<1> QED
  BY <1>1, <1>2, Invariance, PTL DEF Spec, ImplementsLog, Log!Spec

-----------------------------------------------------------------------------
(* Changes made in the database.  The hash of an entry holds the hash of   *)
(* the one before it, so what a row says of those before it is fixed by    *)
(* its own hash, as long as the chain verifies.                            *)

Rows == {b[1] : b \in before}

\* What was inserted before the changes is a line of hashed entries.
RowsLinked ==
    /\ \A e \in Rows: e.seq \in Nat \ {0} /\ e = Entry(e.seq, e.prevHash, e.event)
    /\ \A d, e \in Rows: d.seq = e.seq => d = e
    /\ \A e \in Rows: \/ e.seq = 1 /\ e.prevHash = Null
                      \/ \E d \in Rows: e.seq = d.seq + 1 /\ e.prevHash = d.entryHash

\* Each row is remembered with the hashes of those before it.
RowsKnown ==
    \A b \in before: b = <<b[1], b[2]>> /\ b[2] = {d.entryHash : d \in {r \in Rows: r.seq < b[1].seq}}

TamperInv ==
    /\ changes \in Nat /\ IsFiniteSet(entries)
    /\ \A d, e \in entries: d.seq = e.seq => d = e
    /\ RowsLinked /\ RowsKnown
    /\ changes = 0 => IInv /\ Rows = entries

LEMMA TamperFirst == TInit => TamperInv
<1> SUFFICES ASSUME TInit PROVE TamperInv
  OBVIOUS
<1>1. IInv /\ Rows = {} /\ entries = {} /\ before = {}
  BY InvInit DEF TInit, Init, Rows
<1> QED BY <1>1, FS_EmptySet DEF TInit, TamperInv, RowsLinked, RowsKnown

\* While nothing was changed, an entry that is inserted comes last.
LEMMA InsertRemembered ==
  ASSUME TamperInv, changes = 0, NEW w \in Writers, Insert(w),
         before' = before \union {<<e, {d.entryHash : d \in entries}>> : e \in entries' \ entries},
         changes' = 0
  PROVE  TamperInv'
<1>0. IInv /\ Rows = entries /\ RowsKnown /\ IInv'
  BY InsertKeeps DEF TamperInv
<1>1. PICK x: entries' = entries \union {x} /\ x \notin entries /\ x.seq = Cardinality(entries) + 1
  BY <1>0, NextEntry
<1>2. PICK hashes: hashes = {d.entryHash : d \in entries}
  OBVIOUS
<1>3. before' = before \union {<<x, hashes>>}
  BY <1>1, <1>2
<1>4. Rows' = entries'
  <2>1. \A b: b \in before' <=> b \in before \/ b = <<x, hashes>>
    BY <1>3
  <2>2. <<x, hashes>>[1] = x
    OBVIOUS
  <2>3. Rows' = Rows \union {x}
    BY <2>1, <2>2 DEF Rows
  <2> QED BY <1>0, <1>1, <2>3
<1>5. RowsLinked'
  BY <1>0, <1>4 DEF RowsLinked, IInv, TypeOK, Linked
<1>6. \A e \in entries: e.seq \in Nat /\ e.seq < x.seq
  <2>1. Cardinality(entries) \in Nat /\ \A e \in entries: e.seq \in 1 .. Cardinality(entries)
    BY <1>0, FS_CardinalityType DEF IInv, Linked
  <2> QED BY <1>1, <2>1
<1>7. RowsKnown'
  <2> SUFFICES ASSUME NEW b \in before'
               PROVE  b = <<b[1], b[2]>> /\ b[2] = {d.entryHash : d \in {r \in entries': r.seq < b[1].seq}}
    BY <1>4 DEF RowsKnown
  <2>1. CASE b \in before
    <3>1. b[1] \in entries /\ b = <<b[1], b[2]>> /\ b[2] = {d.entryHash : d \in {r \in entries: r.seq < b[1].seq}}
      BY <1>0, <2>1 DEF Rows, RowsKnown
    <3>2. {r \in entries': r.seq < b[1].seq} = {r \in entries: r.seq < b[1].seq}
      <4>1. b[1].seq < x.seq /\ b[1].seq \in Nat /\ x.seq \in Nat
        BY <1>1, <1>6, <3>1, <1>0, FS_CardinalityType DEF IInv, Linked
      <4>2. ~(x.seq < b[1].seq)
        BY <4>1
      <4> QED BY <1>1, <4>2
    <3> QED BY <3>1, <3>2
  <2>2. CASE b = <<x, hashes>>
    <3>1. b[1] = x /\ b[2] = hashes
      BY <2>2
    <3>2. {r \in entries': r.seq < x.seq} = entries
      <4>1. x.seq \in Nat
        BY <1>1, <1>0, FS_CardinalityType DEF IInv, Linked
      <4>2. ~(x.seq < x.seq)
        BY <4>1
      <4> QED BY <1>1, <1>6, <4>2
    <3> QED BY <1>2, <2>2, <3>1, <3>2
  <2> QED BY <1>3, <2>1, <2>2
<1>8. IsFiniteSet(entries') /\ \A d, e \in entries': d.seq = e.seq => d = e
  BY <1>0 DEF IInv, Linked
<1> QED BY <1>0, <1>4, <1>5, <1>7, <1>8 DEF TamperInv

\* After a change, the calls go on.
LEMMA InsertAfter ==
  ASSUME TamperInv, changes > 0, NEW w \in Writers, Insert(w), UNCHANGED <<before, changes>>
  PROVE  TamperInv'
<1>1. PICK x: entries' = entries \union {x} /\ \A e \in entries: e.seq # x.seq
  <2>1. Entry(call[w].seq, call[w].prevHash, call[w].event).seq = call[w].seq
    BY DEF Entry
  <2> QED BY <2>1 DEF Insert, SeqFree
<1>2. IsFiniteSet(entries')
  BY <1>1, FS_AddElement DEF TamperInv
<1>3. Rows' = Rows
  BY DEF Rows
<1>4. RowsLinked' /\ RowsKnown'
  BY <1>3 DEF TamperInv, RowsLinked, RowsKnown
<1>5. \A d, e \in entries': d.seq = e.seq => d = e
  BY <1>1 DEF TamperInv
<1> QED BY <1>2, <1>4, <1>5 DEF TamperInv

LEMMA AppendKeeps == TamperInv /\ Append1 => TamperInv'
<1> SUFFICES ASSUME TamperInv, Append1 PROVE TamperInv'
  OBVIOUS
<1>1. \/ \E w \in Writers: Insert(w)
      \/ UNCHANGED entries
  BY DEF Append1, Next, Begin, LockAndRead, Fail
<1>2. ASSUME NEW w \in Writers, Insert(w) PROVE TamperInv'
  <2>1. CASE changes = 0
    BY <1>2, <2>1, InsertRemembered DEF Append1
  <2>2. CASE changes > 0
    BY <1>2, <2>2, InsertAfter DEF Append1
  <2> QED BY <2>1, <2>2 DEF TamperInv
<1>3. CASE UNCHANGED entries
  <2>1. before' = before
    BY <1>3 DEF Append1
  <2>2. Rows' = Rows
    BY <2>1 DEF Rows
  <2>3. RowsLinked' /\ RowsKnown'
    BY <2>1, <2>2 DEF TamperInv, RowsLinked, RowsKnown
  <2>4. changes = 0 => IInv'
    BY InvNext DEF TamperInv, Append1
  <2> QED BY <1>3, <2>2, <2>3, <2>4 DEF TamperInv, Append1
<1> QED BY <1>1, <1>2, <1>3

LEMMA ReplaceKeeps ==
  ASSUME TamperInv, NEW old, NEW new, IsFiniteSet(new), Replace(old, new)
  PROVE  TamperInv'
<1>1. IsFiniteSet(entries')
  <2>1. IsFiniteSet(entries \ old)
    BY FS_Subset DEF TamperInv
  <2> QED BY <2>1, FS_Union DEF Replace
<1>2. changes' \in Nat /\ changes' # 0 /\ before' = before
  BY DEF Replace, TamperInv
<1>3. Rows' = Rows
  BY <1>2 DEF Rows
<1>4. RowsLinked' /\ RowsKnown'
  BY <1>2, <1>3 DEF TamperInv, RowsLinked, RowsKnown
<1>5. \A d, e \in entries': d.seq = e.seq => d = e
  BY DEF Replace
<1> QED BY <1>1, <1>2, <1>4, <1>5 DEF TamperInv

\* The rows that are moved up are as many as they were.
LEMMA MovedUp ==
  ASSUME NEW later, IsFiniteSet(later)
  PROVE  IsFiniteSet({[d EXCEPT !.seq = @ - 1] : d \in later})
<1> DEFINE moved == {[d EXCEPT !.seq = @ - 1] : d \in later}
           f == [d \in later |-> [d EXCEPT !.seq = @ - 1]]
<1>1. f \in [later -> moved] /\ \A m \in moved: \E d \in later: f[d] = m
  OBVIOUS
<1> HIDE DEF f, moved
<1>2. f \in Surjection(later, moved)
  BY <1>1 DEF Surjection
<1>3. IsFiniteSet(moved)
  BY <1>2, FS_Surjection
<1> QED BY <1>3 DEF moved

LEMMA ChangesKeep == TamperInv /\ (Modify \/ Delete \/ Splice \/ Reorder) => TamperInv'
<1> SUFFICES ASSUME TamperInv, Modify \/ Delete \/ Splice \/ Reorder PROVE TamperInv'
  OBVIOUS
<1>1. \A x: IsFiniteSet({x})
  BY FS_Singleton
<1>2. ASSUME Modify PROVE TamperInv'
  BY <1>1, <1>2, ReplaceKeeps DEF Modify
<1>3. ASSUME Delete PROVE TamperInv'
  BY <1>3, FS_EmptySet, ReplaceKeeps DEF Delete
<1>4. ASSUME Splice PROVE TamperInv'
  <2>1. PICK e \in entries: LET later == {d \in entries: d.seq > e.seq} IN
                              Replace({e} \union later, {[d EXCEPT !.seq = @ - 1] : d \in later})
    BY <1>4 DEF Splice
  <2>2. PICK later: later = {d \in entries: d.seq > e.seq}
    OBVIOUS
  <2>3. IsFiniteSet(later)
    BY <2>2, FS_Subset DEF TamperInv
  <2>4. PICK moved: moved = {[d EXCEPT !.seq = @ - 1] : d \in later}
    OBVIOUS
  <2>5. IsFiniteSet(moved)
    BY <2>3, <2>4, MovedUp
  <2>6. Replace({e} \union later, moved)
    BY <2>1, <2>2, <2>4
  <2> QED BY <2>5, <2>6, ReplaceKeeps
<1>5. ASSUME Reorder PROVE TamperInv'
  <2>1. PICK d \in entries, e \in entries:
            Replace({d, e}, {[d EXCEPT !.seq = e.seq], [e EXCEPT !.seq = d.seq]})
    BY <1>5 DEF Reorder
  <2>2. PICK x, y: x = [d EXCEPT !.seq = e.seq] /\ y = [e EXCEPT !.seq = d.seq]
    OBVIOUS
  <2>3. IsFiniteSet({x, y}) /\ Replace({d, e}, {x, y})
    <3>1. IsFiniteSet({x} \union {y}) /\ {x} \union {y} = {x, y}
      BY <1>1, FS_Union
    <3> QED BY <2>1, <2>2, <3>1
  <2> QED BY <2>3, ReplaceKeeps
<1> QED BY <1>2, <1>3, <1>4, <1>5

LEMMA TamperStep == TamperInv /\ [TNext]_tvars => TamperInv'
<1>1. ASSUME TamperInv, UNCHANGED tvars PROVE TamperInv'
  <2>1. changes = 0 => IInv'
    BY <1>1, InvNext DEF tvars, TamperInv, vars
  <2>2. Rows' = Rows
    BY <1>1 DEF tvars, Rows
  <2>3. RowsLinked' /\ RowsKnown'
    BY <1>1, <2>2 DEF tvars, TamperInv, RowsLinked, RowsKnown
  <2> QED BY <1>1, <2>1, <2>2, <2>3 DEF tvars, TamperInv
<1> QED BY <1>1, AppendKeeps, ChangesKeep DEF TNext

\* A set of numbers has a least one.
LEMMA Least ==
  ASSUME NEW T \in SUBSET Nat, T # {}
  PROVE  \E x \in T: \A y \in T: x <= y
<1>1. PICK x \in T: \A y \in T: ~(<<y, x>> \in OpToRel(<, Nat))
  BY NatLessThanWellFounded, WFMin
<1>2. \A y \in T: ~(y < x)
  BY <1>1 DEF OpToRel
<1>3. x \in Nat /\ \A y \in T: y \in Nat
  OBVIOUS
<1>4. \A y \in T: x <= y
  <2> SUFFICES ASSUME NEW y \in T PROVE x <= y
    OBVIOUS
  <2>1. x \in Nat /\ y \in Nat /\ ~(y < x)
    BY <1>2, <1>3
  <2> QED BY <2>1
<1> QED BY <1>4

\* A chain that verifies has the seqs 1, 2, 3..., each once, and every link is the hash of
\* the entry before.
LEMMA VerifiedChain ==
  ASSUME IsFiniteSet(entries), \A d, e \in entries: d.seq = e.seq => d = e, Verifies(entries)
  PROVE  /\ Cardinality(entries) \in Nat
         /\ \A e \in entries: e.seq \in 1 .. Cardinality(entries)
         /\ \A i \in 1 .. Cardinality(entries): \E e \in entries: e.seq = i
         /\ \A e \in entries: e.entryHash = ComputeAuditEntryHash(e.seq, e.prevHash, e.event)
         /\ \A d, e \in entries: e.seq = d.seq + 1 => e.prevHash = d.entryHash
<1>1. PICK n \in Nat: n = Cardinality(entries)
  BY FS_CardinalityType
<1>2. ASSUME NEW i \in 1 .. n
      PROVE  \E e \in entries: /\ e.seq = i /\ e.prevHash = PreviousHash(entries, i)
                               /\ e.entryHash = ComputeAuditEntryHash(e.seq, e.prevHash, e.event)
  BY <1>1 DEF Verifies
<1>3. {e.seq : e \in entries} = 1 .. n
  <2>1. PICK seqs: seqs = {e.seq : e \in entries}
    OBVIOUS
  <2>2. PICK f: f = [e \in entries |-> e.seq]
    OBVIOUS
  <2>3. f \in Surjection(entries, seqs)
    BY <2>1, <2>2 DEF Surjection
  <2>4. IsFiniteSet(seqs) /\ Cardinality(seqs) <= n
    BY <1>1, <2>3, FS_Surjection
  <2>5. 1 .. n \in SUBSET seqs
    BY <1>2, <2>1
  <2>6. Cardinality(1 .. n) = n
    BY <1>1, FS_Interval
  <2>7. Cardinality(seqs) \in Nat /\ n <= Cardinality(seqs)
    BY <2>4, <2>5, <2>6, FS_Subset, FS_CardinalityType
  <2>8. seqs = 1 .. n
    BY <2>4, <2>5, <2>6, <2>7, FS_Subset
  <2> QED BY <2>1, <2>8
<1>4. \A e \in entries: e.seq \in 1 .. n
  BY <1>3
<1>5. \A e \in entries: /\ e.prevHash = PreviousHash(entries, e.seq)
                        /\ e.entryHash = ComputeAuditEntryHash(e.seq, e.prevHash, e.event)
  BY <1>2, <1>4
<1>6. ASSUME NEW d \in entries, NEW e \in entries, e.seq = d.seq + 1
      PROVE  e.prevHash = d.entryHash
  <2>1. d.seq \in Nat /\ d.seq >= 1 /\ e.seq # 1 /\ e.seq - 1 = d.seq
    BY <1>1, <1>4, <1>6
  <2>2. EntryAt(entries, d.seq) = d
    BY DEF EntryAt
  <2> QED BY <1>5, <2>1, <2>2 DEF PreviousHash
<1> QED BY <1>1, <1>2, <1>4, <1>5, <1>6

\* At the seqs up to that of a row left alone, the hashes are those of the rows.
LEMMA SameHashes ==
  ASSUME TamperInv, Verifies(entries), NEW e \in entries, e \in Rows
  PROVE  \A i \in 1 .. e.seq: \E x \in entries, r \in Rows:
             x.seq = i /\ r.seq = i /\ x.entryHash = r.entryHash
<1> DEFINE Same(i) == \E x \in entries, r \in Rows: x.seq = i /\ r.seq = i /\ x.entryHash = r.entryHash
           T == {t \in Nat: t < e.seq /\ ~Same(e.seq - t)}
<1>0. /\ IsFiniteSet(entries) /\ (\A c, d \in entries: c.seq = d.seq => c = d) /\ RowsLinked
  BY DEF TamperInv
<1>1. PICK n \in Nat: /\ n = Cardinality(entries)
                      /\ \A d \in entries: d.seq \in 1 .. n
                      /\ \A i \in 1 .. n: \E d \in entries: d.seq = i
                      /\ \A d \in entries: d.entryHash = ComputeAuditEntryHash(d.seq, d.prevHash, d.event)
                      /\ \A c, d \in entries: d.seq = c.seq + 1 => d.prevHash = c.entryHash
  BY <1>0, VerifiedChain
<1>2. e.seq \in 1 .. n /\ Same(e.seq)
  BY <1>1
<1>3. ASSUME NEW i \in 1 .. (e.seq - 1), Same(i + 1) PROVE Same(i)
  <2>1. PICK x \in entries, r \in Rows: x.seq = i + 1 /\ r.seq = i + 1 /\ x.entryHash = r.entryHash
    BY <1>3
  <2>2. i \in Nat /\ i >= 1 /\ i \in 1 .. n
    BY <1>2
  <2>3. PICK y \in entries: y.seq = i
    BY <1>1, <2>2
  <2>4. PICK s \in Rows: r.seq = s.seq + 1 /\ r.prevHash = s.entryHash
    BY <1>0, <2>1, <2>2 DEF RowsLinked
  <2>5. s.seq = i
    BY <1>0, <2>1, <2>2, <2>4 DEF RowsLinked
  <2>6. x.entryHash = <<x.seq, x.prevHash, x.event>> /\ r.entryHash = <<r.seq, r.prevHash, r.event>>
    BY <1>0, <1>1 DEF RowsLinked, Entry, ComputeAuditEntryHash
  <2>7. x.prevHash = r.prevHash
    <3>1. x.entryHash[2] = x.prevHash /\ r.entryHash[2] = r.prevHash
      BY <2>6
    <3> QED BY <2>1, <3>1
  <2>8. x.prevHash = y.entryHash
    BY <1>1, <2>1, <2>3
  <2> QED BY <2>3, <2>4, <2>5, <2>7, <2>8
<1>4. ASSUME T # {} PROVE FALSE
  <2> HIDE DEF Same
  <2>1. T \in SUBSET Nat
    OBVIOUS
  <2>2. PICK t \in T: \A u \in T: t <= u
    BY <1>4, <2>1, Least
  <2>3. t \in Nat /\ t < e.seq /\ ~Same(e.seq - t) /\ e.seq \in Nat
    BY <1>2, <2>2
  <2>4. CASE t = 0
    <3>1. e.seq - t = e.seq
      BY <2>3, <2>4
    <3> QED BY <1>2, <2>3, <3>1
  <2>5. CASE t # 0
    <3>1. t - 1 \in Nat /\ t - 1 < e.seq /\ ~(t <= t - 1)
      BY <2>3, <2>5
    <3>2. Same(e.seq - (t - 1))
      BY <2>2, <3>1
    <3>3. e.seq - t \in 1 .. (e.seq - 1) /\ e.seq - (t - 1) = (e.seq - t) + 1
      BY <2>3, <2>5
    <3> QED BY <1>3, <2>3, <3>2, <3>3
  <2> QED BY <2>4, <2>5
<1> HIDE DEF Same
<1>5. ASSUME NEW i \in 1 .. e.seq PROVE Same(i)
  <2>1. e.seq - i \in Nat /\ e.seq - i < e.seq /\ e.seq - (e.seq - i) = i
    BY <1>2
  <2>2. ~Same(i) => e.seq - i \in T
    BY <2>1
  <2> QED BY <1>4, <2>2
<1> QED BY <1>5 DEF Same

\* What verifyAuditChain accepts after changes in the database is faithful up to the last
\* row that was left alone: it follows the entries that it followed (audit.ts).
LEMMA TamperShows == TamperInv => DetectsChanges
<1> SUFFICES ASSUME TamperInv, Verifies(entries), NEW e \in entries, NEW hashes, <<e, hashes>> \in before
             PROVE  hashes = {d.entryHash : d \in {r \in entries: r.seq < e.seq}}
  BY DEF DetectsChanges
<1>1. /\ IsFiniteSet(entries) /\ (\A c, d \in entries: c.seq = d.seq => c = d) /\ RowsLinked /\ RowsKnown
  BY DEF TamperInv
<1>2. e \in Rows
  <2>1. <<e, hashes>>[1] = e
    OBVIOUS
  <2> QED BY <2>1 DEF Rows
<1>3. hashes = {d.entryHash : d \in {r \in Rows: r.seq < e.seq}}
  <2>1. PICK b \in before: b = <<e, hashes>>
    OBVIOUS
  <2>2. b[1] = e /\ b[2] = hashes
    BY <2>1
  <2> QED BY <1>1, <2>2 DEF RowsKnown
<1>4. /\ \A d \in entries: d.seq \in Nat \ {0}
      /\ \A d \in Rows: d.seq \in Nat \ {0}
  BY <1>1, VerifiedChain DEF RowsLinked
<1>5. ASSUME NEW i \in Nat \ {0}, i < e.seq
      PROVE  \E x \in entries, r \in Rows: x.seq = i /\ r.seq = i /\ x.entryHash = r.entryHash
  <2>1. i \in 1 .. e.seq
    BY <1>4, <1>5
  <2> QED BY <1>2, <2>1, SameHashes
<1>6. ASSUME NEW d \in entries, d.seq < e.seq PROVE \E r \in Rows: r.seq < e.seq /\ r.entryHash = d.entryHash
  BY <1>1, <1>4, <1>5, <1>6
<1>7. ASSUME NEW r \in Rows, r.seq < e.seq PROVE \E d \in entries: d.seq < e.seq /\ d.entryHash = r.entryHash
  BY <1>1, <1>4, <1>5, <1>7 DEF RowsLinked
<1> QED BY <1>3, <1>6, <1>7

\* Whatever is changed in the database, as long as the chain verifies, a row that was left
\* alone follows the entries that it followed.
THEOREM ChangesShow == TSpec => []DetectsChanges
  BY TamperFirst, TamperStep, TamperShows, PTL DEF TSpec
=============================================================================
