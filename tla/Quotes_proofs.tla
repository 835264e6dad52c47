--------------------------- MODULE Quotes_proofs ---------------------------
(***************************************************************************)
(* How a quote comes to be, for any number of concurrent requests, keys,   *)
(* documents and tokens, any quota and horizon, any lines and papers.  The *)
(* numbers have no gap and no double, a key makes one quote that it        *)
(* remembers, the free plan keeps its quota, the quote has the amounts     *)
(* that the form showed, its paper has no overprint, and a link that was   *)
(* given out leads to its document.                                        *)
(***************************************************************************)
EXTENDS Quotes, FiniteSetTheorems, SequenceTheorems, WellFoundedInduction, TLAPS

USE DEF At, MayAdd

LEMMA YearsAreNumbers == Years \subseteq Nat /\ 0 \in Years /\ \A m \in Months: YearOf(m) \in Years
<1>1. \A m \in Nat: m \div MonthsPerYear \in Nat
  BY BoundsAssumption
<1>2. 0 \in Months /\ 0 \div MonthsPerYear = 0
  BY BoundsAssumption DEF Months
<1> QED
  BY <1>1, <1>2 DEF Years, YearOf, Months

LEMMA NullIsApart == Null \notin Requests /\ Null \notin Keys /\ Null \notin Sources /\ Null \notin Ids
  BY NullAssumption, YearsAreNumbers DEF Ids

LEMMA IdleTyped == Idle \in Progress /\ Lost \in Progress
  BY YearsAreNumbers DEF Idle, Lost, Progress, Pcs

LEMMA InitKeeps == ServerInit => CreationInv
<1> SUFFICES ASSUME ServerInit PROVE CreationInv
  OBVIOUS
<1>1. 0 \in Months
  BY BoundsAssumption DEF Months
<1>2. ServerTypeOK
  BY <1>1, IdleTyped DEF ServerInit, ServerTypeOK
<1>3. LockInv
  BY NullIsApart DEF ServerInit, LockInv, RequestLocks, RowLocks, KeyLocks, Idle
<1>4. GaplessNumbers /\ KeyInv
  BY NullIsApart DEF ServerInit, GaplessNumbers, KeyInv, RecordsTrue, MadeOnce, Remembered, Idle
<1> QED
  BY <1>2, <1>3, <1>4 DEF CreationInv

-----------------------------------------------------------------------------
(* What each step makes of its request                                     *)

LEMMA MovedTyped ==
  ASSUME ServerTypeOK, NEW r \in Requests, NEW pc \in Pcs, NEW label \in Years, NEW year \in Years,
         NEW seq \in Nat, NEW answer \in {"none", "created", "refused", "error", "lost"},
         NEW quote \in Ids \union {Null}
  PROVE  Moved(r, pc, label, year, seq, answer, quote) \in Progress
<1>1. req[r] \in Progress
  BY DEF ServerTypeOK
<1> QED
  BY <1>1 DEF Moved, Progress

\* A request that becomes q of the right type, alone.
LEMMA Becoming ==
  ASSUME ServerTypeOK, NEW r \in Requests, NEW q \in Progress, Becomes(r, q)
  PROVE  /\ req' \in [Requests -> Progress] /\ req'[r] = q
         /\ \A v \in Requests: v # r => req'[v] = req[v]
  BY DEF ServerTypeOK, Becomes

LEMMA FieldsTyped ==
  ASSUME ServerTypeOK, NEW r \in Requests
  PROVE  /\ req[r].pc \in Pcs /\ req[r].key \in Keys \union {Null} /\ req[r].src \in Sources \union {Null}
         /\ req[r].claim \in BOOLEAN /\ req[r].label \in Years /\ req[r].year \in Years
         /\ req[r].seq \in Nat /\ req[r].answer \in {"none", "created", "refused", "error", "lost"}
         /\ req[r].made \in Ids \union {Null}
<1>1. req[r] \in Progress
  BY DEF ServerTypeOK
<1> QED
  BY <1>1 DEF Progress

LEMMA AtStepTyped ==
  ASSUME ServerTypeOK, NEW r \in Requests
  PROVE  /\ \A pc \in Pcs: AtStep(r, pc) \in Progress
         /\ \A answer \in {"created", "refused", "error"}, quote \in Ids \union {Null}:
               Answered(r, answer, quote) \in Progress
  BY FieldsTyped, MovedTyped DEF AtStep, Answered, Pcs

LEMMA LocksTyped ==
  ASSUME ServerTypeOK, NEW r \in Requests
  PROVE  /\ Freed(rowLock, r) \in [Years -> Requests \union {Null}]
         /\ Freed(keyLock, r) \in [Keys -> Requests \union {Null}]
  BY DEF ServerTypeOK, Freed

LEMMA TypeStep == ServerTypeOK /\ LockInv /\ [ServerNext]_serverVars => ServerTypeOK'
<1> SUFFICES ASSUME ServerTypeOK, LockInv, ServerNext PROVE ServerTypeOK'
  BY DEF ServerTypeOK, serverVars, locks, company
<1> USE DEF locks, company
<1>1. ASSUME NEW r \in Requests, NEW key \in Keys \union {Null}, NEW src \in Sources,
             NEW claim \in BOOLEAN, Submit(r, key, src, claim)
      PROVE  ServerTypeOK'
  <2>1. [pc |-> Arrival(key, claim), key |-> key, src |-> src, claim |-> claim,
         label |-> 0, year |-> 0, seq |-> 0, answer |-> "none", made |-> Null] \in Progress
    BY YearsAreNumbers DEF Progress, Arrival, Pcs
  <2> QED
    BY <1>1, <2>1, Becoming DEF Submit, ServerTypeOK
<1>2. ASSUME NEW r \in Requests, TurnAway(r) PROVE ServerTypeOK'
  BY <1>2, LocksTyped, AtStepTyped, FieldsTyped, Becoming DEF TurnAway, Answer, ServerTypeOK
<1>3. ASSUME NEW r \in Requests, ClaimClient(r) PROVE ServerTypeOK'
  BY <1>3, AtStepTyped, FieldsTyped, Becoming DEF ClaimClient, To, Pcs, LockInv, RequestLocks, ServerTypeOK
<1>4. ASSUME NEW r \in Requests, LockKey(r) PROVE ServerTypeOK'
  <2>1. req[r].key \in Keys /\ recorded[req[r].key] \in Ids \union {Null}
    BY <1>4, FieldsTyped DEF LockKey, LockInv, RequestLocks, ServerTypeOK
  <2>2. CASE recorded[req[r].key] # Null
    BY <1>4, <2>1, <2>2, AtStepTyped, Becoming DEF LockKey, ServerTypeOK
  <2>3. CASE recorded[req[r].key] = Null
    BY <1>4, <2>1, <2>3, AtStepTyped, Becoming DEF LockKey, To, Pcs, ServerTypeOK
  <2> QED
    BY <2>2, <2>3
<1>5. ASSUME NEW r \in Requests, Check(r) PROVE ServerTypeOK'
  <2>1. CASE Answer(r, "refused")
    BY <1>5, <2>1, LocksTyped, AtStepTyped, FieldsTyped, Becoming DEF Check, Answer, ServerTypeOK
  <2>2. CASE UNCHANGED keyLock /\ \E pc \in {"quota", "year"}: To(r, pc)
    BY <1>5, <2>2, AtStepTyped, Becoming DEF Check, To, Pcs, ServerTypeOK
  <2> QED
    BY <1>5, <2>1, <2>2 DEF Check
<1>6. ASSUME NEW r \in Requests, LockQuota(r) PROVE ServerTypeOK'
  BY <1>6, AtStepTyped, FieldsTyped, Becoming DEF LockQuota, To, Pcs, ServerTypeOK
<1>7. ASSUME NEW r \in Requests, CountQuota(r) PROVE ServerTypeOK'
  BY <1>7, LocksTyped, AtStepTyped, FieldsTyped, Becoming
  DEF CountQuota, Answer, EndTransaction, To, Pcs, ServerTypeOK
<1>8. ASSUME NEW r \in Requests, ReadYears(r) PROVE ServerTypeOK'
  <2>1. PICK tick \in {0, 1}:
          /\ clock + tick \in Months /\ clock' = clock + tick
          /\ Becomes(r, Moved(r, "number", YearOf(clock), YearOf(clock + tick), req[r].seq,
                              req[r].answer, req[r].made))
    BY <1>8 DEF ReadYears
  <2>2. YearOf(clock) \in Years /\ YearOf(clock + tick) \in Years
    BY <2>1, YearsAreNumbers DEF ServerTypeOK
  <2>3. Moved(r, "number", YearOf(clock), YearOf(clock + tick), req[r].seq, req[r].answer,
              req[r].made) \in Progress
    BY <2>2, FieldsTyped, MovedTyped DEF Pcs
  <2> QED
    BY <1>8, <2>1, <2>3, Becoming DEF ReadYears, ServerTypeOK
<1>9. ASSUME NEW r \in Requests, NextSequence(r) PROVE ServerTypeOK'
  <2>1. counter[req[r].year] + 1 \in Nat
    BY FieldsTyped DEF ServerTypeOK
  <2>2. Moved(r, "insert", req[r].label, req[r].year, counter[req[r].year] + 1, req[r].answer,
              req[r].made) \in Progress
    BY <2>1, FieldsTyped, MovedTyped DEF Pcs
  <2> QED
    BY <1>9, <2>2, FieldsTyped, Becoming DEF NextSequence, ServerTypeOK
<1>10. ASSUME NEW r \in Requests, Insert(r) PROVE ServerTypeOK'
  <2>1. <<req[r].year, req[r].seq>> \in Ids
    BY FieldsTyped DEF Ids
  <2>2. Moved(r, "audit", req[r].label, req[r].year, req[r].seq, req[r].answer,
              <<req[r].year, req[r].seq>>) \in Progress
    BY <2>1, FieldsTyped, MovedTyped DEF Pcs
  <2>3. req' \in [Requests -> Progress]
    BY <1>10, <2>2, Becoming DEF Insert
  <2>4. Row(r) \in Rows
    BY <1>10, FieldsTyped, NullIsApart DEF Row, Rows, Insert, LockInv, RequestLocks, ServerTypeOK
  <2> QED
    BY <1>10, <2>1, <2>3, <2>4, FieldsTyped, LocksTyped DEF Insert, EndTransaction, ServerTypeOK
<1>11. ASSUME NEW r \in Requests, RollBack(r) PROVE ServerTypeOK'
  BY <1>11, LocksTyped, AtStepTyped, FieldsTyped, Becoming
  DEF RollBack, NumberGivenBack, Answer, EndTransaction, ServerTypeOK
<1>12. ASSUME NEW r \in Requests, Audit(r) PROVE ServerTypeOK'
  BY <1>12, LocksTyped, AtStepTyped, FieldsTyped, Becoming DEF Audit, Answer, To, Pcs, ServerTypeOK
<1>13. ASSUME NEW r \in Requests, AuditFails(r) PROVE ServerTypeOK'
  BY <1>13, LocksTyped, AtStepTyped, FieldsTyped, Becoming DEF AuditFails, Answer, Outlive, ServerTypeOK
<1>14. ASSUME NEW r \in Requests, Record(r) PROVE ServerTypeOK'
  BY <1>14, LocksTyped, AtStepTyped, FieldsTyped, Becoming DEF Record, Answer, ServerTypeOK
<1>15. ASSUME NEW r \in Requests, KeyTimeout(r) PROVE ServerTypeOK'
  BY <1>15, LocksTyped, FieldsTyped DEF KeyTimeout, Outlive, ServerTypeOK
<1>16. ASSUME NEW r \in Requests, Die(r) PROVE ServerTypeOK'
  BY <1>16, LocksTyped, IdleTyped, FieldsTyped, Becoming DEF Die, EndTransaction, Outlive, ServerTypeOK
<1>17. ASSUME NEW r \in Requests, Reply(r) PROVE ServerTypeOK'
  BY <1>17, IdleTyped, Becoming DEF Reply, ServerTypeOK
<1>18. ASSUME NEW k \in Keys, Expire(k) PROVE ServerTypeOK'
  BY <1>18 DEF Expire, ServerTypeOK
<1>19. ASSUME NEW d \in devis, SoftDelete(d) PROVE ServerTypeOK'
  <2>1. [d EXCEPT !.deleted = TRUE] \in Rows
    BY DEF ServerTypeOK, Rows
  <2> QED
    BY <1>19, <2>1 DEF SoftDelete, ServerTypeOK
<1>20. ASSUME NextMonth PROVE ServerTypeOK'
  BY <1>20 DEF NextMonth, ServerTypeOK
<1> QED
  BY <1>1, <1>2, <1>3, <1>4, <1>5, <1>6, <1>7, <1>8, <1>9, <1>10, <1>11, <1>12, <1>13, <1>14,
     <1>15, <1>16, <1>17, <1>18, <1>19, <1>20, NullIsApart DEF ServerNext, Handle, Surroundings

-----------------------------------------------------------------------------
(* Locks, numbers and keys                                                 *)

\* What a step of r does to its request, and that it leaves the others alone.
OnlyBecomes(r, q) == /\ req' \in [Requests -> Progress] /\ req'[r] = q
                     /\ \A v \in Requests: v # r => req'[v] = req[v]

LEMMA ToBecomes ==
  ASSUME ServerTypeOK, NEW r \in Requests, NEW pc \in Pcs, To(r, pc)
  PROVE  OnlyBecomes(r, AtStep(r, pc))
  BY AtStepTyped, Becoming DEF To, OnlyBecomes

LEMMA AnswerBecomes ==
  ASSUME ServerTypeOK, NEW r \in Requests, NEW answer \in {"created", "refused", "error"},
         Answer(r, answer)
  PROVE  OnlyBecomes(r, Answered(r, answer, req[r].made)) /\ keyLock' = Freed(keyLock, r)
  BY AtStepTyped, FieldsTyped, Becoming DEF Answer, OnlyBecomes

LEMMA FreedLocks ==
  ASSUME ServerTypeOK, NEW r \in Requests
  PROVE  /\ \A year \in Years: Freed(rowLock, r)[year] = IF rowLock[year] = r THEN Null ELSE rowLock[year]
         /\ \A k \in Keys: Freed(keyLock, r)[k] = IF keyLock[k] = r THEN Null ELSE keyLock[k]
  BY DEF ServerTypeOK, Freed

\* A step that ends the work of r: its locks are free, and a quote it made under a
\* key that it still held is known to be without a record.
LEMMA EndingKeeps ==
  ASSUME CreationInv, NEW r \in Requests, NEW q \in Progress, OnlyBecomes(r, q), q.pc = "reply",
         keyLock' = Freed(keyLock, r),
         EndTransaction(r) \/ (UNCHANGED <<rowLock, quotaLock>> /\ ~At(r, "insert")),
         UNCHANGED <<devis, counter, recorded>>,
         outlived \subseteq outlived',
         HoldsKey(r) /\ req[r].made # Null => req[r].made \in outlived'
  PROVE  LockInv' /\ GaplessNumbers' /\ KeyInv'
<1>1. ServerTypeOK /\ LockInv /\ GaplessNumbers /\ KeyInv
  BY DEF CreationInv
<1>2. /\ req'[r] = q /\ \A v \in Requests: v # r => req'[v] = req[v]
  BY DEF OnlyBecomes
<1>3. ASSUME NEW v \in Requests PROVE RequestLocks(v)'
  <2>1. CASE v = r
    BY <1>2, <2>1 DEF RequestLocks
  <2>2. CASE v # r
    BY <1>1, <1>2, <2>2, FreedLocks, FieldsTyped
    DEF LockInv, RequestLocks, EndTransaction, Limited
  <2> QED
    BY <2>1, <2>2
<1>4. RowLocks'
  BY <1>1, <1>2, FreedLocks DEF LockInv, RowLocks, EndTransaction, ServerTypeOK
<1>5. KeyLocks'
  BY <1>1, <1>2, FreedLocks DEF LockInv, KeyLocks, ServerTypeOK
<1>6. GaplessNumbers'
  BY <1>1, <1>2 DEF GaplessNumbers
<1>7. RecordsTrue'
  BY <1>1, FreedLocks DEF KeyInv, RecordsTrue
<1>8. ASSUME NEW v \in Requests PROVE MadeOnce(v)'
  BY <1>1, <1>2 DEF KeyInv, MadeOnce
<1>9. ASSUME NEW d \in devis PROVE Remembered(d)'
  <2> SUFFICES ASSUME d.key # Null, Id(d) \notin outlived'
               PROVE  \/ recorded[d.key] = Id(d)
                      \/ keyLock'[d.key] # Null /\ req'[keyLock'[d.key]].made = Id(d)
    BY DEF Remembered, Id
  <2>1. d.key \in Keys /\ Id(d) # Null
    BY <1>1, NullIsApart DEF ServerTypeOK, Rows, Id, Ids
  <2>2. CASE keyLock[d.key] = r
    BY <1>1, <2>1, <2>2, NullIsApart DEF KeyInv, Remembered, LockInv, KeyLocks, HoldsKey
  <2>3. CASE keyLock[d.key] # r
    BY <1>1, <1>2, <2>1, <2>3, FreedLocks DEF KeyInv, Remembered, ServerTypeOK
  <2> QED
    BY <2>2, <2>3
<1> QED
  BY <1>3, <1>4, <1>5, <1>6, <1>7, <1>8, <1>9 DEF LockInv, KeyInv

\* A step of r that goes on with the creation, perhaps with the lock of its key or
\* of the quota.
LEMMA GoingOnKeeps ==
  ASSUME CreationInv, NEW r \in Requests, NEW q \in Progress, OnlyBecomes(r, q),
         req[r].pc \notin {"idle", "insert", "reply"},
         q.pc \in {"check", "quota", "count", "year", "number", "record"},
         req[r].pc = "audit" \/ q.pc # "record",
         req[r].pc # "audit" \/ q.pc = "record",
         req[r].pc # "record",
         q.key = req[r].key, q.made = req[r].made, q.src = req[r].src,
         q.pc = "record" => q.key # Null,
         \/ UNCHANGED keyLock /\ req[r].pc # "key"
         \/ /\ req[r].key \in Keys /\ KeyLockFree(req[r].key) /\ recorded[req[r].key] = Null
            /\ keyLock' = [keyLock EXCEPT ![req[r].key] = r],
         UNCHANGED quotaLock \/ (quotaLock = Null /\ quotaLock' = r),
         q.pc = "count" => quotaLock' = r,
         q.pc \in {"year", "number"} /\ Limited(r)' => quotaLock' = r,
         UNCHANGED <<devis, counter, recorded, outlived, rowLock>>
  PROVE  LockInv' /\ GaplessNumbers' /\ KeyInv'
<1>1. ServerTypeOK /\ LockInv /\ GaplessNumbers /\ KeyInv
  BY DEF CreationInv
<1>2. /\ req'[r] = q /\ \A v \in Requests: v # r => req'[v] = req[v]
  BY DEF OnlyBecomes
<1>3. ASSUME NEW v \in Requests PROVE RequestLocks(v)'
  <2>1. CASE v = r
    BY <1>1, <1>2, <2>1 DEF LockInv, RequestLocks
  <2>2. CASE v # r
    BY <1>1, <1>2, <2>2, NullIsApart DEF LockInv, RequestLocks, Limited
  <2> QED
    BY <2>1, <2>2
<1>4. RowLocks'
  BY <1>1, <1>2 DEF LockInv, RowLocks, ServerTypeOK
<1>5. KeyLocks'
  BY <1>1, <1>2 DEF LockInv, KeyLocks, ServerTypeOK
<1>6. GaplessNumbers'
  BY <1>1, <1>2 DEF GaplessNumbers
<1>7. RecordsTrue'
  BY <1>1 DEF KeyInv, RecordsTrue, ServerTypeOK
<1>8. ASSUME NEW v \in Requests PROVE MadeOnce(v)'
  BY <1>1, <1>2 DEF KeyInv, MadeOnce
<1>9. ASSUME NEW d \in devis PROVE Remembered(d)'
  <2> SUFFICES ASSUME d.key # Null, Id(d) \notin outlived
               PROVE  \/ recorded[d.key] = Id(d)
                      \/ keyLock'[d.key] # Null /\ req'[keyLock'[d.key]].made = Id(d)
    BY DEF Remembered, Id
  <2>1. d.key \in Keys
    BY <1>1 DEF ServerTypeOK, Rows
  <2>2. CASE recorded[d.key] = Id(d)
    BY <2>2
  <2>3. CASE keyLock[d.key] # Null /\ req[keyLock[d.key]].made = Id(d)
    BY <1>1, <1>2, <2>1, <2>3 DEF ServerTypeOK, KeyLockFree
  <2> QED
    BY <1>1, <2>2, <2>3 DEF KeyInv, Remembered
<1> QED
  BY <1>3, <1>4, <1>5, <1>6, <1>7, <1>8, <1>9 DEF LockInv, KeyInv

LEMMA AtOnce == ServerTypeOK /\ LockInv /\ GaplessNumbers /\ KeyInv <=> CreationInv
  BY DEF CreationInv

LEMMA SubmitKeeps ==
  ASSUME CreationInv, NEW r \in Requests, NEW key \in Keys \union {Null}, NEW src \in Sources,
         NEW claim \in BOOLEAN, key = Null \/ ~claim, Submit(r, key, src, claim)
  PROVE  LockInv' /\ GaplessNumbers' /\ KeyInv'
<1> DEFINE q == [pc |-> Arrival(key, claim), key |-> key, src |-> src, claim |-> claim,
                 label |-> 0, year |-> 0, seq |-> 0, answer |-> "none", made |-> Null]
<1>1. ServerTypeOK /\ LockInv /\ GaplessNumbers /\ KeyInv
  BY AtOnce
<1>2. q \in Progress
  BY YearsAreNumbers DEF Progress, Arrival, Pcs
<1>3. /\ req'[r] = q /\ \A v \in Requests: v # r => req'[v] = req[v]
  BY <1>1, <1>2, Becoming DEF Submit
<1>4. /\ q.pc \in {"client", "key", "check"} /\ q.src # Null /\ q.made = Null
      /\ q.pc = "key" => q.key # Null
  BY NullIsApart DEF Arrival
<1> HIDE DEF q
<1>5. UNCHANGED <<devis, counter, locks, recorded, outlived>> /\ At(r, "idle")
  BY DEF Submit
<1>6. LockInv'
  BY <1>1, <1>3, <1>4, <1>5 DEF LockInv, RequestLocks, RowLocks, KeyLocks, Limited, locks, ServerTypeOK
<1>7. GaplessNumbers'
  BY <1>1, <1>3, <1>4, <1>5 DEF GaplessNumbers
<1>8. RecordsTrue' /\ \A v \in Requests: MadeOnce(v)'
  BY <1>1, <1>3, <1>4, <1>5 DEF KeyInv, RecordsTrue, MadeOnce, locks
<1>9. ASSUME NEW d \in devis PROVE Remembered(d)'
  BY <1>1, <1>3, <1>5 DEF KeyInv, Remembered, LockInv, KeyLocks, locks, ServerTypeOK, Rows, Id
<1> QED
  BY <1>5, <1>6, <1>7, <1>8, <1>9 DEF KeyInv

LEMMA LockKeyKeeps ==
  ASSUME CreationInv, NEW r \in Requests, LockKey(r)
  PROVE  LockInv' /\ GaplessNumbers' /\ KeyInv'
<1>1. ServerTypeOK /\ LockInv /\ GaplessNumbers /\ KeyInv
  BY AtOnce
<1>2. req[r].key \in Keys /\ recorded[req[r].key] \in Ids \union {Null} /\ At(r, "key")
  BY <1>1, FieldsTyped DEF LockKey, LockInv, RequestLocks, ServerTypeOK
<1>3. CASE recorded[req[r].key] # Null
  <2> DEFINE q == Answered(r, "created", recorded[req[r].key])
  <2>1. q \in Progress /\ OnlyBecomes(r, q)
    BY <1>1, <1>2, <1>3, AtStepTyped, Becoming DEF LockKey, OnlyBecomes
  <2>2. q.pc = "reply"
    BY DEF Answered, Moved
  <2>3. keyLock' = Freed(keyLock, r)
    <3>1. \A k \in Keys: keyLock[k] # r
      BY <1>1, <1>2, NullIsApart DEF LockInv, KeyLocks
    <3> QED
      BY <1>1, <1>2, <1>3, <3>1 DEF LockKey, Freed, ServerTypeOK
  <2>4. ~HoldsKey(r)
    BY <1>1, <1>2, NullIsApart DEF HoldsKey, LockInv, KeyLocks
  <2> QED
    BY <1>2, <2>1, <2>2, <2>3, <2>4, EndingKeeps DEF LockKey
<1>4. CASE recorded[req[r].key] = Null
  <2> DEFINE q == AtStep(r, "check")
  <2>1. q \in Progress /\ OnlyBecomes(r, q)
    BY <1>1, <1>4, AtStepTyped, ToBecomes DEF LockKey, Pcs
  <2>2. q.pc = "check" /\ q.key = req[r].key /\ q.made = req[r].made /\ q.src = req[r].src
    BY DEF AtStep, Moved
  <2> QED
    BY <1>2, <1>4, <2>1, <2>2, GoingOnKeeps DEF LockKey
<1> QED
  BY <1>3, <1>4

\* The steps that only end or go on.
LEMMA EarlyStepsKeep ==
  ASSUME CreationInv, NEW r \in Requests,
         TurnAway(r) \/ ClaimClient(r) \/ Check(r) \/ LockQuota(r) \/ CountQuota(r) \/ ReadYears(r)
  PROVE  LockInv' /\ GaplessNumbers' /\ KeyInv'
<1>1. ServerTypeOK /\ LockInv /\ GaplessNumbers /\ KeyInv
  BY AtOnce
<1>2. ASSUME NEW answer \in {"created", "refused", "error"}, Answer(r, answer),
             req[r].pc \in {"client", "key", "check", "count"},
             EndTransaction(r) \/ UNCHANGED <<rowLock, quotaLock>>,
             UNCHANGED <<devis, counter, recorded, outlived>>
      PROVE  LockInv' /\ GaplessNumbers' /\ KeyInv'
  <2> DEFINE q == Answered(r, answer, req[r].made)
  <2>1. q \in Progress /\ OnlyBecomes(r, q) /\ keyLock' = Freed(keyLock, r)
    BY <1>1, <1>2, AtStepTyped, FieldsTyped, AnswerBecomes
  <2>2. q.pc = "reply"
    BY DEF Answered, Moved
  <2>3. req[r].made = Null
    BY <1>1, <1>2 DEF KeyInv, MadeOnce
  <2> QED
    BY <1>2, <2>1, <2>2, <2>3, EndingKeeps
<1>3. ASSUME NEW pc \in {"check", "quota", "count", "year"}, To(r, pc), UNCHANGED <<keyLock, rowLock>>,
             req[r].pc \in {"client", "check", "quota", "count"},
             UNCHANGED quotaLock \/ (quotaLock = Null /\ quotaLock' = r),
             pc = "count" => quotaLock' = r,
             pc = "year" /\ Limited(r) => quotaLock' = r,
             UNCHANGED <<devis, counter, recorded, outlived>>
      PROVE  LockInv' /\ GaplessNumbers' /\ KeyInv'
  <2> DEFINE q == AtStep(r, pc)
  <2>1. q \in Progress /\ OnlyBecomes(r, q)
    BY <1>1, <1>3, AtStepTyped, ToBecomes DEF Pcs
  <2>2. /\ q.pc = pc /\ q.key = req[r].key /\ q.made = req[r].made /\ q.src = req[r].src
        /\ q.claim = req[r].claim
    BY DEF AtStep, Moved
  <2>3. Limited(r)' => Limited(r)
    BY <2>1, <2>2 DEF Limited, OnlyBecomes
  <2> QED
    BY <1>3, <2>1, <2>2, <2>3, GoingOnKeeps
<1>4. CASE TurnAway(r)
  BY <1>2, <1>4 DEF TurnAway
<1>5. CASE ClaimClient(r)
  BY <1>3, <1>5 DEF ClaimClient, locks
<1>6. CASE Check(r)
  BY <1>2, <1>3, <1>6 DEF Check
<1>7. CASE LockQuota(r)
  BY <1>3, <1>7 DEF LockQuota, QuotaLockFree
<1>8. CASE CountQuota(r)
  <2>1. quotaLock = r
    BY <1>1, <1>8 DEF CountQuota, LockInv, RequestLocks
  <2>2. At(r, "count") /\ UNCHANGED <<devis, counter, recorded, outlived>>
    BY <1>8 DEF CountQuota
  <2>3. CASE CountThisMonth >= Quota
    BY <1>2, <1>8, <2>2, <2>3 DEF CountQuota
  <2>4. CASE ~(CountThisMonth >= Quota)
    BY <1>3, <1>8, <2>1, <2>2, <2>4 DEF CountQuota, locks
  <2> QED
    BY <2>3, <2>4
<1>9. CASE ReadYears(r)
  <2>1. PICK year \in Years:
          /\ YearOf(clock) \in Years
          /\ Becomes(r, Moved(r, "number", YearOf(clock), year, req[r].seq, req[r].answer, req[r].made))
    BY <1>1, <1>9, YearsAreNumbers DEF ReadYears, ServerTypeOK
  <2> DEFINE q == Moved(r, "number", YearOf(clock), year, req[r].seq, req[r].answer, req[r].made)
  <2>2. q \in Progress /\ OnlyBecomes(r, q)
    <3>1. q \in Progress
      BY <1>1, <2>1, FieldsTyped, MovedTyped DEF Pcs
    <3> HIDE DEF q
    <3> QED
      BY <1>1, <2>1, <3>1, Becoming DEF OnlyBecomes, q
  <2>3. /\ q.pc = "number" /\ q.key = req[r].key /\ q.made = req[r].made /\ q.src = req[r].src
        /\ q.claim = req[r].claim
    BY DEF Moved
  <2>4. Limited(r)' => quotaLock = r
    BY <1>1, <1>9, <2>2, <2>3 DEF Limited, OnlyBecomes, LockInv, RequestLocks, ReadYears
  <2> QED
    BY <1>9, <2>2, <2>3, <2>4, GoingOnKeeps DEF ReadYears, locks
<1> QED
  BY <1>4, <1>5, <1>6, <1>7, <1>8, <1>9

LEMMA NextSequenceKeeps ==
  ASSUME CreationInv, NEW r \in Requests, NextSequence(r)
  PROVE  LockInv' /\ GaplessNumbers' /\ KeyInv'
<1> DEFINE q == Moved(r, "insert", req[r].label, req[r].year, counter[req[r].year] + 1,
                      req[r].answer, req[r].made)
<1>1. ServerTypeOK /\ LockInv /\ GaplessNumbers /\ KeyInv
  BY AtOnce
<1>2. req[r].year \in Years /\ counter[req[r].year] + 1 \in Nat
  BY <1>1, FieldsTyped DEF ServerTypeOK
<1>3. /\ req'[r] = q /\ \A v \in Requests: v # r => req'[v] = req[v]
  BY <1>1, <1>2, FieldsTyped, MovedTyped, Becoming DEF NextSequence, Pcs
<1>4. /\ q.pc = "insert" /\ q.key = req[r].key /\ q.made = req[r].made /\ q.src = req[r].src
      /\ q.claim = req[r].claim /\ q.year = req[r].year /\ q.seq = counter[req[r].year] + 1
  BY DEF Moved
<1> HIDE DEF q
<1>5. /\ At(r, "number") /\ rowLock[req[r].year] = Null
      /\ rowLock' = [rowLock EXCEPT ![req[r].year] = r]
      /\ UNCHANGED <<devis, counter, quotaLock, keyLock, recorded, outlived>>
  BY DEF NextSequence, RowLockFree
<1>6. ASSUME NEW v \in Requests PROVE RequestLocks(v)'
  <2>1. CASE v = r
    BY <1>1, <1>2, <1>3, <1>4, <1>5, <2>1 DEF LockInv, RequestLocks, Limited, ServerTypeOK
  <2>2. CASE v # r
    <3>1. req[v].year \in Years
      BY <1>1, FieldsTyped
    <3> QED
      BY <1>1, <1>2, <1>3, <1>5, <2>2, <3>1, NullIsApart DEF LockInv, RequestLocks, Limited, ServerTypeOK
  <2> QED
    BY <2>1, <2>2
<1>7. RowLocks' /\ KeyLocks'
  BY <1>1, <1>2, <1>3, <1>4, <1>5 DEF LockInv, RowLocks, KeyLocks, ServerTypeOK
<1>8. GaplessNumbers'
  BY <1>1, <1>3, <1>4, <1>5 DEF GaplessNumbers
<1>9. KeyInv'
  <2>1. RecordsTrue' /\ \A v \in Requests: MadeOnce(v)'
    BY <1>1, <1>3, <1>4, <1>5 DEF KeyInv, RecordsTrue, MadeOnce
  <2>2. ASSUME NEW d \in devis PROVE Remembered(d)'
    BY <1>1, <1>3, <1>4, <1>5 DEF KeyInv, Remembered, ServerTypeOK, Rows, Id
  <2> QED
    BY <1>5, <2>1, <2>2 DEF KeyInv
<1> QED
  BY <1>6, <1>7, <1>8, <1>9 DEF LockInv

LEMMA InsertKeeps ==
  ASSUME CreationInv, NEW r \in Requests, Insert(r)
  PROVE  LockInv' /\ GaplessNumbers' /\ KeyInv'
<1> DEFINE yr == req[r].year
           n == req[r].seq
           q == Moved(r, "audit", req[r].label, yr, n, req[r].answer, <<yr, n>>)
<1>1. ServerTypeOK /\ LockInv /\ GaplessNumbers /\ KeyInv
  BY AtOnce
<1>2. yr \in Years /\ n \in Nat /\ <<yr, n>> \in Ids /\ req[r].key \in Keys \union {Null}
  BY <1>1, FieldsTyped DEF Ids
<1>3. /\ req'[r] = q /\ \A v \in Requests: v # r => req'[v] = req[v]
  BY <1>1, <1>2, FieldsTyped, MovedTyped, Becoming DEF Insert, Pcs
<1>4. /\ q.pc = "audit" /\ q.key = req[r].key /\ q.made = <<yr, n>> /\ q.src = req[r].src
  BY DEF Moved
<1>5. /\ At(r, "insert") /\ devis' = devis \union {Row(r)}
      /\ counter' = [counter EXCEPT ![yr] = n]
      /\ quotaLock' = (IF quotaLock = r THEN Null ELSE quotaLock)
      /\ rowLock' = Freed(rowLock, r)
      /\ outlived' = (IF req[r].key = Null \/ HoldsKey(r) THEN outlived ELSE outlived \union {<<yr, n>>})
      /\ UNCHANGED <<clock, keyLock, recorded>>
  BY DEF Insert, EndTransaction
<1>6. n = counter[yr] + 1 /\ rowLock[yr] = r /\ counter[yr] \in Nat
  BY <1>1, <1>2, <1>5 DEF GaplessNumbers, LockInv, RequestLocks, ServerTypeOK
<1>7. /\ Row(r).year = yr /\ Row(r).seq = n /\ Row(r).key = req[r].key
      /\ Id(Row(r)) = <<yr, n>>
  BY DEF Row, Id
<1> HIDE DEF q
<1>8. ASSUME NEW v \in Requests PROVE RequestLocks(v)'
  <2>1. CASE v = r
    BY <1>1, <1>3, <1>4, <1>5, <2>1 DEF LockInv, RequestLocks
  <2>2. CASE v # r
    <3>1. req[v].year \in Years
      BY <1>1, FieldsTyped
    <3> QED
      BY <1>1, <1>3, <1>5, <2>2, <3>1, FreedLocks DEF LockInv, RequestLocks, Limited
  <2> QED
    BY <2>1, <2>2
<1>9. RowLocks' /\ KeyLocks'
  <2>1. RowLocks'
    BY <1>1, <1>3, <1>5, FreedLocks DEF LockInv, RowLocks, ServerTypeOK
  <2>2. KeyLocks'
    BY <1>1, <1>3, <1>4, <1>5 DEF LockInv, KeyLocks, ServerTypeOK
  <2> QED
    BY <2>1, <2>2
<1>10. GaplessNumbers'
  <2>1. /\ counter'[yr] = n /\ \A z \in Years: z # yr => counter'[z] = counter[z]
        /\ \A z \in Years: counter[z] \in Nat
    BY <1>1, <1>2, <1>5 DEF ServerTypeOK
  <2>2. \A d \in devis: d.year \in Years /\ d.seq \in Nat /\ Id(d) = <<d.year, d.seq>>
    BY <1>1 DEF ServerTypeOK, Rows, Id
  <2>3. \A d \in devis': d.seq \in 1 .. counter'[d.year]
    <3>1. ASSUME NEW d \in devis PROVE d.seq \in 1 .. counter'[d.year]
      <4>1. d.seq \in 1 .. counter[d.year]
        BY <1>1 DEF GaplessNumbers
      <4> QED
        BY <1>6, <2>1, <2>2, <4>1
    <3>2. n \in 1 .. counter'[yr]
      BY <1>2, <1>6, <2>1
    <3> QED
      BY <1>5, <1>7, <3>1, <3>2
  <2>4. ASSUME NEW z \in Years, NEW m \in 1 .. counter'[z] PROVE \E d \in devis': Id(d) = <<z, m>>
    <3>1. CASE z = yr /\ m = n
      BY <1>5, <1>7, <3>1
    <3>2. CASE ~(z = yr /\ m = n)
      <4>1. m \in 1 .. counter[z]
        BY <1>2, <1>6, <2>1, <2>4, <3>2
      <4> QED
        BY <1>1, <1>5, <4>1 DEF GaplessNumbers
    <3> QED
      BY <3>1, <3>2
  <2>5. \A d \in devis: Id(d) # <<yr, n>>
    BY <1>1, <1>2, <1>6, <2>2 DEF GaplessNumbers
  <2>6. \A d, e \in devis': Id(d) = Id(e) => d = e
    BY <1>1, <1>5, <1>7, <2>5 DEF GaplessNumbers
  <2>7. ASSUME NEW v \in Requests, req'[v].pc = "insert" PROVE req'[v].seq = counter'[req'[v].year] + 1
    <3>1. v # r /\ req'[v] = req[v] /\ req[v].year \in Years
      BY <1>1, <1>3, <1>4, <2>7, FieldsTyped
    <3>2. req[v].year # yr
      BY <1>1, <1>6, <2>7, <3>1 DEF LockInv, RequestLocks
    <3> QED
      BY <1>1, <2>1, <2>7, <3>1, <3>2 DEF GaplessNumbers
  <2> QED
    BY <2>3, <2>4, <2>6, <2>7 DEF GaplessNumbers, Id
<1>11. RecordsTrue'
  BY <1>1, <1>5 DEF KeyInv, RecordsTrue, Id
<1>12. ASSUME NEW v \in Requests PROVE MadeOnce(v)'
  BY <1>1, <1>3, <1>4, <1>5, <1>7 DEF KeyInv, MadeOnce, Id
<1>13. ASSUME NEW d \in devis' PROVE Remembered(d)'
  <2> SUFFICES ASSUME d.key # Null, Id(d) \notin outlived'
               PROVE  \/ recorded[d.key] = Id(d)
                      \/ keyLock[d.key] # Null /\ req'[keyLock[d.key]].made = Id(d)
    BY <1>5 DEF Remembered, Id
  <2>1. CASE d = Row(r)
    BY <1>2, <1>3, <1>4, <1>5, <1>7, <2>1, NullIsApart DEF HoldsKey
  <2>2. CASE d \in devis
    <3>1. d.key \in Keys /\ Id(d) # Null
      BY <1>1, <2>2, NullIsApart DEF ServerTypeOK, Rows, Id, Ids
    <3>2. req[r].made = Null
      BY <1>1, <1>5 DEF KeyInv, MadeOnce
    <3>3. Id(d) \notin outlived
      BY <1>5
    <3> QED
      BY <1>1, <1>3, <2>2, <3>1, <3>2, <3>3 DEF KeyInv, Remembered, ServerTypeOK
  <2> QED
    BY <1>5, <2>1, <2>2
<1> QED
  BY <1>8, <1>9, <1>10, <1>11, <1>12, <1>13 DEF LockInv, KeyInv

LEMMA LateStepsKeep ==
  ASSUME CreationInv, NEW r \in Requests,
         RollBack(r) \/ Audit(r) \/ AuditFails(r) \/ Record(r) \/ KeyTimeout(r) \/ Die(r)
  PROVE  LockInv' /\ GaplessNumbers' /\ KeyInv'
<1>1. ServerTypeOK /\ LockInv /\ GaplessNumbers /\ KeyInv
  BY AtOnce
<1>2. ASSUME NEW answer \in {"created", "error"}, Answer(r, answer),
             EndTransaction(r) \/ (UNCHANGED <<rowLock, quotaLock>> /\ ~At(r, "insert")),
             UNCHANGED <<devis, counter, recorded>>,
             outlived \subseteq outlived',
             HoldsKey(r) /\ req[r].made # Null => req[r].made \in outlived'
      PROVE  LockInv' /\ GaplessNumbers' /\ KeyInv'
  <2> DEFINE q == Answered(r, answer, req[r].made)
  <2>1. q \in Progress /\ OnlyBecomes(r, q) /\ keyLock' = Freed(keyLock, r)
    BY <1>1, <1>2, AtStepTyped, FieldsTyped, AnswerBecomes
  <2>2. q.pc = "reply"
    BY DEF Answered, Moved
  <2> QED
    BY <1>2, <2>1, <2>2, EndingKeeps
<1>3. CASE RollBack(r)
  <2>1. req[r].made = Null /\ UNCHANGED counter
    BY <1>1, <1>3 DEF RollBack, NumberGivenBack, KeyInv, MadeOnce
  <2> QED
    BY <1>2, <1>3, <2>1 DEF RollBack
<1>4. CASE Audit(r)
  <2>1. CASE req[r].key = Null
    BY <1>2, <1>4, <2>1 DEF Audit, HoldsKey
  <2>2. CASE req[r].key # Null
    <3> DEFINE q == AtStep(r, "record")
    <3>1. q \in Progress /\ OnlyBecomes(r, q)
      BY <1>1, <1>4, <2>2, AtStepTyped, ToBecomes DEF Audit, Pcs
    <3>2. q.pc = "record" /\ q.key = req[r].key /\ q.made = req[r].made /\ q.src = req[r].src
      BY DEF AtStep, Moved
    <3> QED
      BY <1>4, <2>2, <3>1, <3>2, GoingOnKeeps DEF Audit
  <2> QED
    BY <2>1, <2>2
<1>5. CASE AuditFails(r)
  BY <1>2, <1>5 DEF AuditFails, Outlive, HoldsKey
<1>6. CASE Record(r) /\ ~HoldsKey(r)
  BY <1>2, <1>6 DEF Record
<1>7. CASE Record(r) /\ HoldsKey(r)
  <2> DEFINE k == req[r].key
             q == Answered(r, "created", req[r].made)
  <2>1. PICK d \in devis: Id(d) = req[r].made /\ d.key = k
    BY <1>1, <1>7 DEF Record, KeyInv, MadeOnce
  <2>2. /\ k \in Keys /\ keyLock[k] = r /\ recorded[k] = Null /\ At(r, "record")
        /\ \A j \in Keys: keyLock[j] = r => j = k
    BY <1>1, <1>7, FieldsTyped, NullIsApart DEF HoldsKey, Record, KeyInv, RecordsTrue, LockInv, KeyLocks
  <2>3. /\ recorded' = [recorded EXCEPT ![k] = req[r].made]
        /\ UNCHANGED <<clock, devis, counter, rowLock, quotaLock, outlived>>
    BY <1>7 DEF Record
  <2>4. OnlyBecomes(r, q) /\ keyLock' = Freed(keyLock, r)
    BY <1>1, <1>7, AnswerBecomes DEF Record
  <2>5. q.pc = "reply"
    BY DEF Answered, Moved
  <2>6. /\ req'[r] = q /\ \A v \in Requests: v # r => req'[v] = req[v]
    BY <2>4 DEF OnlyBecomes
  <2>7. /\ keyLock'[k] = Null /\ \A j \in Keys: j # k => keyLock'[j] = keyLock[j]
        /\ recorded'[k] = Id(d) /\ \A j \in Keys: j # k => recorded'[j] = recorded[j]
    BY <1>1, <2>1, <2>2, <2>3, <2>4, FreedLocks DEF ServerTypeOK
  <2> HIDE DEF q, k
  <2>8. LockInv'
    BY <1>1, <2>2, <2>3, <2>5, <2>6, <2>7
    DEF LockInv, RequestLocks, RowLocks, KeyLocks, Limited, ServerTypeOK
  <2>9. GaplessNumbers'
    BY <1>1, <2>3, <2>5, <2>6 DEF GaplessNumbers
  <2>10. RecordsTrue'
    BY <1>1, <2>1, <2>3, <2>7 DEF KeyInv, RecordsTrue, Id
  <2>11. ASSUME NEW v \in Requests PROVE MadeOnce(v)'
    BY <1>1, <2>3, <2>5, <2>6 DEF KeyInv, MadeOnce, Id
  <2>12. ASSUME NEW e \in devis PROVE Remembered(e)'
    <3> SUFFICES ASSUME e.key # Null, Id(e) \notin outlived
                 PROVE  \/ recorded'[e.key] = Id(e)
                        \/ keyLock'[e.key] # Null /\ req'[keyLock'[e.key]].made = Id(e)
      BY <2>3 DEF Remembered, Id
    <3>1. e.key \in Keys /\ Id(e) # Null
      BY <1>1, NullIsApart DEF ServerTypeOK, Rows, Id, Ids
    <3>2. CASE e.key = k
      BY <1>1, <2>1, <2>2, <2>7, <3>1, <3>2 DEF KeyInv, Remembered
    <3>3. CASE e.key # k
      BY <1>1, <2>2, <2>6, <2>7, <3>1, <3>3 DEF KeyInv, Remembered, ServerTypeOK
    <3> QED
      BY <3>2, <3>3
  <2> QED
    BY <2>3, <2>8, <2>9, <2>10, <2>11, <2>12 DEF KeyInv
<1>8. CASE KeyTimeout(r)
  <2>1. /\ HoldsKey(r) /\ keyLock' = Freed(keyLock, r)
        /\ UNCHANGED <<clock, devis, counter, rowLock, quotaLock, recorded, req>>
        /\ outlived \subseteq outlived'
        /\ req[r].made # Null => req[r].made \in outlived'
    BY <1>8 DEF KeyTimeout, Outlive, HoldsKey
  <2>2. LockInv'
    BY <1>1, <2>1, FreedLocks DEF LockInv, RequestLocks, RowLocks, KeyLocks, Limited
  <2>3. GaplessNumbers' /\ RecordsTrue' /\ \A v \in Requests: MadeOnce(v)'
    BY <1>1, <2>1, FreedLocks DEF GaplessNumbers, KeyInv, RecordsTrue, MadeOnce
  <2>4. ASSUME NEW d \in devis PROVE Remembered(d)'
    <3> SUFFICES ASSUME d.key # Null, Id(d) \notin outlived'
                 PROVE  \/ recorded[d.key] = Id(d)
                        \/ keyLock'[d.key] # Null /\ req[keyLock'[d.key]].made = Id(d)
      BY <2>1 DEF Remembered, Id
    <3>1. d.key \in Keys /\ Id(d) # Null /\ Id(d) \notin outlived
      BY <1>1, <2>1, NullIsApart DEF ServerTypeOK, Rows, Id, Ids
    <3>2. \/ recorded[d.key] = Id(d)
          \/ keyLock[d.key] # Null /\ req[keyLock[d.key]].made = Id(d)
      BY <1>1, <3>1 DEF KeyInv, Remembered
    <3>3. CASE keyLock[d.key] = r
      BY <2>1, <3>1, <3>2, <3>3
    <3>4. CASE keyLock[d.key] # r
      <4>1. keyLock'[d.key] = keyLock[d.key]
        BY <1>1, <2>1, <3>1, <3>4 DEF Freed, ServerTypeOK
      <4> QED
        BY <3>2, <4>1
    <3> QED
      BY <3>3, <3>4
  <2> QED
    BY <2>1, <2>2, <2>3, <2>4 DEF KeyInv
<1>9. CASE Die(r)
  <2>1. Lost \in Progress /\ OnlyBecomes(r, Lost)
    BY <1>1, <1>9, IdleTyped, Becoming DEF Die, OnlyBecomes
  <2> QED
    BY <1>9, <2>1, EndingKeeps DEF Die, Outlive, Lost, HoldsKey
<1> QED
  BY <1>3, <1>4, <1>5, <1>6, <1>7, <1>8, <1>9

LEMMA RestKeeps ==
  ASSUME CreationInv,
         \/ \E r \in Requests: Reply(r)
         \/ \E k \in Keys: Expire(k)
         \/ \E d \in devis: SoftDelete(d)
         \/ NextMonth
         \/ UNCHANGED serverVars
  PROVE  LockInv' /\ GaplessNumbers' /\ KeyInv'
<1>1. ServerTypeOK /\ LockInv /\ GaplessNumbers /\ KeyInv
  BY AtOnce
<1>2. ASSUME NEW r \in Requests, Reply(r) PROVE LockInv' /\ GaplessNumbers' /\ KeyInv'
  <2>1. /\ req'[r] = Idle /\ \A v \in Requests: v # r => req'[v] = req[v]
    BY <1>1, <1>2, IdleTyped, Becoming DEF Reply
  <2>2. /\ Idle.pc = "idle" /\ Idle.made = Null /\ At(r, "reply")
        /\ UNCHANGED <<devis, counter, rowLock, quotaLock, keyLock, recorded, outlived>>
    BY <1>2 DEF Idle, Reply, locks
  <2>3. LockInv'
    BY <1>1, <2>1, <2>2 DEF LockInv, RequestLocks, RowLocks, KeyLocks, Limited, ServerTypeOK
  <2>4. GaplessNumbers' /\ RecordsTrue' /\ \A v \in Requests: MadeOnce(v)'
    BY <1>1, <2>1, <2>2 DEF GaplessNumbers, KeyInv, RecordsTrue, MadeOnce
  <2>5. ASSUME NEW d \in devis PROVE Remembered(d)'
    BY <1>1, <2>1, <2>2 DEF KeyInv, Remembered, LockInv, KeyLocks, ServerTypeOK, Rows, Id
  <2> QED
    BY <2>2, <2>3, <2>4, <2>5 DEF KeyInv
<1>3. ASSUME NEW k \in Keys, Expire(k) PROVE LockInv' /\ GaplessNumbers' /\ KeyInv'
  <2>1. /\ recorded' = [recorded EXCEPT ![k] = Null] /\ outlived' = outlived \union {recorded[k]}
        /\ UNCHANGED <<devis, counter, rowLock, quotaLock, keyLock, req>>
    BY <1>3 DEF Expire, locks
  <2>2. LockInv' /\ GaplessNumbers'
    BY <1>1, <2>1 DEF LockInv, RequestLocks, RowLocks, KeyLocks, Limited, GaplessNumbers
  <2>3. KeyInv'
    BY <1>1, <2>1 DEF KeyInv, RecordsTrue, MadeOnce, Remembered, Id, ServerTypeOK, Rows
  <2> QED
    BY <2>2, <2>3
<1>4. ASSUME NEW c \in devis, SoftDelete(c) PROVE LockInv' /\ GaplessNumbers' /\ KeyInv'
  <2> DEFINE gone == [c EXCEPT !.deleted = TRUE]
  <2>1. /\ devis' = (devis \ {c}) \union {gone}
        /\ UNCHANGED <<counter, rowLock, quotaLock, keyLock, recorded, outlived, req>>
    BY <1>4 DEF SoftDelete, locks
  <2>2. /\ gone.year = c.year /\ gone.seq = c.seq /\ gone.key = c.key /\ Id(gone) = Id(c)
    BY <1>1 DEF ServerTypeOK, Rows, Id
  <2> HIDE DEF gone
  <2>3. LockInv'
    BY <1>1, <2>1 DEF LockInv, RequestLocks, RowLocks, KeyLocks, Limited
  <2>4. GaplessNumbers'
    BY <1>1, <2>1, <2>2 DEF GaplessNumbers, Id
  <2>5. RecordsTrue' /\ \A v \in Requests: MadeOnce(v)'
    BY <1>1, <2>1, <2>2 DEF KeyInv, RecordsTrue, MadeOnce, Id
  <2>6. ASSUME NEW d \in devis' PROVE Remembered(d)'
    BY <1>1, <2>1, <2>2 DEF KeyInv, Remembered, Id
  <2> QED
    BY <2>3, <2>4, <2>5, <2>6 DEF KeyInv
<1>5. ASSUME NextMonth \/ UNCHANGED serverVars PROVE LockInv' /\ GaplessNumbers' /\ KeyInv'
  <2>1. UNCHANGED <<devis, counter, rowLock, quotaLock, keyLock, recorded, outlived, req>>
    BY <1>5 DEF NextMonth, serverVars, locks
  <2>2. LockInv' /\ GaplessNumbers'
    BY <1>1, <2>1 DEF LockInv, RequestLocks, RowLocks, KeyLocks, Limited, GaplessNumbers
  <2>3. KeyInv'
    BY <1>1, <2>1 DEF KeyInv, RecordsTrue, MadeOnce, Remembered, Id
  <2> QED
    BY <2>2, <2>3
<1> QED
  BY <1>2, <1>3, <1>4, <1>5

LEMMA NextKeeps == CreationInv /\ [ServerNext]_serverVars => CreationInv'
<1> SUFFICES ASSUME CreationInv, [ServerNext]_serverVars PROVE CreationInv'
  OBVIOUS
<1>1. ServerTypeOK'
  BY AtOnce, TypeStep
<1>2. LockInv' /\ GaplessNumbers' /\ KeyInv'
  <2>1. ASSUME NEW r \in Requests, NEW key \in Keys \union {Null}, NEW src \in Sources,
               Submit(r, key, src, FALSE)
        PROVE  LockInv' /\ GaplessNumbers' /\ KeyInv'
    BY <2>1, SubmitKeeps
  <2>2. ASSUME NEW r \in Requests, NEW src \in Sources, Submit(r, Null, src, TRUE)
        PROVE  LockInv' /\ GaplessNumbers' /\ KeyInv'
    BY <2>2, SubmitKeeps
  <2>3. ASSUME NEW r \in Requests, Handle(r) PROVE LockInv' /\ GaplessNumbers' /\ KeyInv'
    BY <2>3, LockKeyKeeps, EarlyStepsKeep, NextSequenceKeeps, InsertKeeps, LateStepsKeep DEF Handle
  <2>4. CASE (\E r \in Requests: Reply(r)) \/ Surroundings \/ UNCHANGED serverVars
    BY <2>4, RestKeeps DEF Surroundings
  <2> QED
    BY <2>1, <2>2, <2>3, <2>4 DEF ServerNext
<1> QED
  BY <1>1, <1>2 DEF CreationInv

\* For any number of requests: the numbers of a year have no gap and no double, the
\* locks are where the code holds them, and a keyed quote is remembered.
THEOREM Creation == ServerSpec => []CreationInv
  BY InitKeeps, NextKeeps, PTL DEF ServerSpec

\* Under one key there is at most one quote that its record tells of, or is about to.
THEOREM KeyMakesOne == ServerSpec => []OncePerKey
<1>1. CreationInv => OncePerKey
  <2> SUFFICES ASSUME CreationInv, NEW d \in devis, NEW e \in devis, d.key # Null, d.key = e.key,
                      Id(d) \notin outlived, Id(e) \notin outlived
               PROVE  d = e
    BY DEF OncePerKey
  <2>1. d.key \in Keys /\ Id(d) # Null /\ Id(e) # Null
    BY NullIsApart DEF CreationInv, ServerTypeOK, Rows, Id, Ids
  <2>2. Id(d) = Id(e)
    BY <2>1 DEF CreationInv, KeyInv, RecordsTrue, Remembered
  <2> QED
    BY <2>2 DEF CreationInv, GaplessNumbers
<1> QED
  BY <1>1, Creation, PTL

-----------------------------------------------------------------------------
(* The quota                                                               *)

\* Fewer quotes, or none of a month that has only begun.
LEMMA FewerCounted ==
  ASSUME QuotaInv, devis' \subseteq devis, NEW m, NEW n \in Nat, Cardinality(Counted(m)) <= n
  PROVE  Cardinality(Counted(m)') <= n
<1>1. IsFiniteSet(Counted(m)) /\ Counted(m)' \subseteq Counted(m)
  BY FS_Subset DEF QuotaInv, Counted
<1> QED
  BY <1>1, FS_Subset, FS_CardinalityType

LEMMA CountedTyped ==
  ASSUME QuotaInv, NEW m
  PROVE  IsFiniteSet(Counted(m)) /\ Cardinality(Counted(m)) \in Nat
<1>1. Counted(m) \in SUBSET devis
  BY DEF Counted
<1> QED
  BY <1>1, FS_Subset, FS_CardinalityType DEF QuotaInv

LEMMA InitCounts == ServerInit => QuotaInv
<1> SUFFICES ASSUME ServerInit PROVE QuotaInv
  OBVIOUS
<1>1. IsFiniteSet({}) /\ Cardinality({}) = 0
  BY FS_EmptySet
<1>2. \A m \in Months: Counted(m) = {}
  BY DEF ServerInit, Counted
<1> QED
  BY <1>1, <1>2, BoundsAssumption DEF ServerInit, QuotaInv, Idle

\* A step that leaves the quotes and the clock alone, and lets no request in.
LEMMA NoneLetIn ==
  ASSUME QuotaInv, UNCHANGED <<devis, clock>>,
         \A r \in Requests: MayAdd(r)' => MayAdd(r)
  PROVE  QuotaInv'
<1>1. \A m: Counted(m)' = Counted(m)
  BY DEF Counted
<1> QED
  BY <1>1 DEF QuotaInv

\* The clock moves on: the month that begins has no quote yet.
LEMMA ClockMoves ==
  ASSUME CreationInv, QuotaInv, UNCHANGED devis, clock' \in {clock, clock + 1}, clock' \in Months,
         \A r \in Requests: MayAdd(r)' => MayAdd(r)
  PROVE  QuotaInv'
<1>1. clock \in Nat /\ \A d \in devis: d.month \in Nat
  BY DEF CreationInv, ServerTypeOK, Rows, Months
<1>2. \A m: Counted(m)' = Counted(m)
  BY DEF Counted
<1>3. CASE clock' = clock + 1
  <2>1. Counted(clock)' = {}
    BY <1>1, <1>3 DEF QuotaInv, Counted
  <2>2. Cardinality(Counted(clock)') < Quota
    BY <2>1, FS_EmptySet, BoundsAssumption
  <2>3. \A d \in devis': d.month <= clock'
    BY <1>1, <1>3 DEF QuotaInv
  <2> QED
    BY <1>2, <2>2, <2>3 DEF QuotaInv
<1>4. CASE clock' = clock
  BY <1>2, <1>4 DEF QuotaInv
<1> QED
  BY <1>3, <1>4

LEMMA InsertCounts ==
  ASSUME CreationInv, QuotaInv, NEW r \in Requests, Insert(r)
  PROVE  QuotaInv'
<1> DEFINE added == Row(r)
<1>1. /\ devis' = devis \union {added} /\ clock' = clock /\ clock \in Nat /\ clock \in Months
      /\ added.month = clock /\ added.claim = req[r].claim
      /\ At(r, "insert") /\ \A v \in Requests: MayAdd(v)' => MayAdd(v) /\ v # r
  <2>1. Moved(r, "audit", req[r].label, req[r].year, req[r].seq, req[r].answer,
              <<req[r].year, req[r].seq>>) \in Progress
    BY FieldsTyped, MovedTyped DEF CreationInv, Pcs, Ids
  <2>2. /\ req'[r].pc = "audit" /\ \A v \in Requests: v # r => req'[v] = req[v]
    BY <2>1, Becoming DEF Insert, CreationInv, Moved
  <2> QED
    BY <2>2 DEF Insert, Row, CreationInv, ServerTypeOK, Months, Limited
<1> HIDE DEF added
<1>2. IsFiniteSet(devis') /\ \A d \in devis': d.month <= clock'
  BY <1>1, FS_AddElement DEF QuotaInv
<1>3. ASSUME NEW m \in Months, m # clock \/ req[r].claim
      PROVE  Counted(m)' \subseteq Counted(m)
  BY <1>1, <1>3 DEF Counted
<1>4. ASSUME NEW m \in Months
      PROVE  Counted(m)' \subseteq Counted(m) \union {added}
  BY <1>1 DEF Counted
<1>5. CASE req[r].claim \/ Plan # "FREE"
  <2>1. ASSUME NEW m \in Months, Plan = "FREE"
        PROVE  Cardinality(Counted(m)') <= Cardinality(Counted(m))
    BY <1>3, <1>5, <2>1, CountedTyped, FS_Subset
  <2>2. \A m \in Months: Cardinality(Counted(m)) \in Nat
    BY CountedTyped
  <2>3. \A m \in Months: Plan = "FREE" => Cardinality(Counted(m)') \in Nat
    <3> SUFFICES ASSUME NEW m \in Months, Plan = "FREE" PROVE Cardinality(Counted(m)') \in Nat
      OBVIOUS
    <3> QED
      BY <1>3, <1>5, CountedTyped, FS_Subset, FS_CardinalityType
  <2> QED
    BY <1>1, <1>2, <2>1, <2>2, <2>3, BoundsAssumption DEF QuotaInv, Limited
<1>6. CASE ~req[r].claim /\ Plan = "FREE"
  <2>1. MayAdd(r) /\ Cardinality(Counted(clock)) < Quota
    BY <1>1, <1>6 DEF QuotaInv, Limited, At
  <2>2. \A v \in Requests: ~MayAdd(v)'
    BY <1>1, <2>1 DEF CreationInv, LockInv, RequestLocks
  <2>3. ASSUME NEW m \in Months PROVE Cardinality(Counted(m)') <= Quota
    <3>1. IsFiniteSet(Counted(m)) /\ Cardinality(Counted(m)) \in Nat /\ Cardinality(Counted(m)) <= Quota
      BY <1>6, CountedTyped DEF QuotaInv
    <3>2. CASE m # clock
      <4>1. Counted(m)' \in SUBSET Counted(m)
        BY <1>3, <3>2
      <4> QED
        BY <3>1, <4>1, FS_Subset, FS_CardinalityType, BoundsAssumption
    <3>3. CASE m = clock
      <4>1. Counted(m)' \in SUBSET (Counted(m) \union {added})
        BY <1>4
      <4>2. /\ IsFiniteSet(Counted(m) \union {added})
            /\ Cardinality(Counted(m) \union {added}) <= Cardinality(Counted(m)) + 1
        <5>1. /\ IsFiniteSet(Counted(m) \union {added})
              /\ Cardinality(Counted(m) \union {added}) =
                    IF added \in Counted(m) THEN Cardinality(Counted(m)) ELSE Cardinality(Counted(m)) + 1
          BY <3>1, FS_AddElement, Zenon
        <5> QED
          BY <3>1, <5>1
      <4>3. Cardinality(Counted(m)') <= Cardinality(Counted(m) \union {added})
        BY <4>1, <4>2, FS_Subset
      <4>4. Cardinality(Counted(m)') \in Nat /\ Cardinality(Counted(m) \union {added}) \in Nat
        BY <4>1, <4>2, FS_Subset, FS_CardinalityType
      <4> QED
        BY <2>1, <3>1, <3>3, <4>2, <4>3, <4>4, BoundsAssumption
    <3> QED
      BY <3>2, <3>3
  <2> QED
    BY <1>2, <2>2, <2>3 DEF QuotaInv
<1> QED
  BY <1>5, <1>6

LEMMA DeleteCounts ==
  ASSUME CreationInv, QuotaInv, NEW c \in devis, SoftDelete(c)
  PROVE  QuotaInv'
<1> DEFINE gone == [c EXCEPT !.deleted = TRUE]
<1>1. /\ devis' = (devis \ {c}) \union {gone} /\ UNCHANGED <<clock, req>>
      /\ gone.deleted /\ gone.month = c.month
  BY DEF SoftDelete, CreationInv, ServerTypeOK, Rows
<1> HIDE DEF gone
<1>2. IsFiniteSet(devis') /\ \A d \in devis': d.month <= clock'
  BY <1>1, FS_AddElement, FS_RemoveElement DEF QuotaInv
<1>3. ASSUME NEW m \in Months
      PROVE  /\ Cardinality(Counted(m)') <= Cardinality(Counted(m))
             /\ Cardinality(Counted(m)') \in Nat /\ Cardinality(Counted(m)) \in Nat
  <2>1. Counted(m)' \in SUBSET Counted(m)
    BY <1>1 DEF Counted
  <2> QED
    BY <2>1, CountedTyped, FS_Subset, FS_CardinalityType
<1> QED
  BY <1>1, <1>2, <1>3, BoundsAssumption DEF QuotaInv, Limited, CreationInv, ServerTypeOK


\* A request that only changes its own step, to one where it may not add or from
\* one where it already might.
LEMMA StepCounts ==
  ASSUME CreationInv, QuotaInv, NEW r \in Requests, NEW q \in Progress, OnlyBecomes(r, q),
         UNCHANGED devis, clock' \in {clock, clock + 1}, clock' \in Months,
         \/ q.pc \notin {"year", "number", "insert"}
         \/ Plan # "FREE" \/ q.claim
         \/ MayAdd(r)
  PROVE  QuotaInv'
<1>1. \A v \in Requests: MayAdd(v)' => MayAdd(v)
  BY DEF OnlyBecomes, Limited
<1> QED
  BY <1>1, ClockMoves

LEMMA HandleCounts ==
  ASSUME CreationInv, QuotaInv, NEW r \in Requests, Handle(r)
  PROVE  QuotaInv'
<1>1. ServerTypeOK /\ clock \in Months
  BY DEF CreationInv, ServerTypeOK
<1>2. /\ \A pc \in Pcs: AtStep(r, pc) \in Progress /\ AtStep(r, pc).pc = pc
                        /\ AtStep(r, pc).claim = req[r].claim
      /\ \A answer \in {"created", "refused", "error"}, quote \in Ids \union {Null}:
            Answered(r, answer, quote) \in Progress /\ Answered(r, answer, quote).pc = "reply"
  BY <1>1, AtStepTyped DEF AtStep, Answered, Moved
<1>3. ASSUME NEW q \in Progress, Becomes(r, q) PROVE OnlyBecomes(r, q)
  BY <1>1, <1>3, Becoming DEF OnlyBecomes
<1>4. ASSUME NEW pc \in Pcs \ {"year", "number", "insert"}, To(r, pc), UNCHANGED <<devis, clock>>
      PROVE  QuotaInv'
  BY <1>1, <1>2, <1>3, <1>4, StepCounts DEF To
<1>5. ASSUME NEW answer \in {"created", "refused", "error"}, NEW quote \in Ids \union {Null},
             Becomes(r, Answered(r, answer, quote)), UNCHANGED <<devis, clock>>
      PROVE  QuotaInv'
  BY <1>1, <1>2, <1>3, <1>5, StepCounts
<1>6. req[r].made \in Ids \union {Null}
  BY <1>1, FieldsTyped
<1>7. ASSUME NEW answer \in {"created", "refused", "error"}, Answer(r, answer), UNCHANGED <<devis, clock>>
      PROVE  QuotaInv'
  BY <1>5, <1>6, <1>7 DEF Answer
<1>8. CASE TurnAway(r) \/ RollBack(r) \/ AuditFails(r)
  BY <1>7, <1>8 DEF TurnAway, RollBack, AuditFails
<1>9. CASE ClaimClient(r)
  BY <1>4, <1>9 DEF ClaimClient, Pcs
<1>10. CASE LockKey(r)
  <2>1. req[r].key \in Keys /\ recorded[req[r].key] \in Ids \union {Null}
    BY <1>1, <1>10, FieldsTyped DEF LockKey, CreationInv, LockInv, RequestLocks, ServerTypeOK
  <2> QED
    BY <1>4, <1>5, <1>10, <2>1 DEF LockKey, Pcs
<1>11. CASE Check(r)
  <2>1. CASE Answer(r, "refused")
    BY <1>7, <1>11, <2>1 DEF Check
  <2>2. CASE Limited(r) /\ To(r, "quota")
    BY <1>4, <1>11, <2>2 DEF Check, Pcs
  <2>3. CASE ~Limited(r) /\ To(r, "year")
    <3>1. "year" \in Pcs /\ AtStep(r, "year") \in Progress /\ AtStep(r, "year").claim = req[r].claim
      BY <1>2 DEF Pcs
    <3> QED
      BY <1>1, <1>3, <1>11, <2>3, <3>1, StepCounts DEF To, Check, Limited
  <2> QED
    BY <1>11, <2>1, <2>2, <2>3 DEF Check
<1>12. CASE LockQuota(r)
  BY <1>4, <1>12 DEF LockQuota, Pcs
<1>13. CASE CountQuota(r)
  <2>1. CASE CountThisMonth >= Quota
    BY <1>7, <1>13, <2>1 DEF CountQuota
  <2>2. CASE ~(CountThisMonth >= Quota)
    <3>1. Cardinality(Counted(clock)) < Quota
      <4> DEFINE present == {d \in devis: ~d.deleted /\ d.month = clock}
      <4>1. present \in SUBSET devis /\ Counted(clock) \in SUBSET present
        BY DEF Counted
      <4>2. IsFiniteSet(present) /\ Cardinality(present) \in Nat
        BY <4>1, FS_Subset, FS_CardinalityType DEF QuotaInv
      <4>3. Cardinality(present) < Quota
        BY <2>2, <4>2, BoundsAssumption DEF CountThisMonth
      <4>4. Cardinality(Counted(clock)) <= Cardinality(present) /\ Cardinality(Counted(clock)) \in Nat
        BY <4>1, <4>2, CountedTyped, FS_Subset
      <4> QED
        BY <4>2, <4>3, <4>4, BoundsAssumption
    <3>2. /\ \A m: Counted(m)' = Counted(m)
          /\ UNCHANGED <<clock, devis>> /\ \A v \in Requests: v # r => (MayAdd(v)' => MayAdd(v))
      <4>1. OnlyBecomes(r, AtStep(r, "year"))
        BY <1>2, <1>3, <1>13, <2>2 DEF CountQuota, To, Pcs
      <4> QED
        BY <1>13, <4>1 DEF CountQuota, Counted, OnlyBecomes, Limited
    <3> QED
      BY <3>1, <3>2 DEF QuotaInv
  <2> QED
    BY <2>1, <2>2
<1>14. CASE ReadYears(r)
  <2>1. PICK tick \in {0, 1}:
          /\ clock + tick \in Months /\ clock' = clock + tick
          /\ Becomes(r, Moved(r, "number", YearOf(clock), YearOf(clock + tick), req[r].seq,
                              req[r].answer, req[r].made))
    BY <1>14 DEF ReadYears
  <2>2. YearOf(clock) \in Years /\ YearOf(clock + tick) \in Years /\ clock \in Nat
    BY <1>1, <2>1, YearsAreNumbers DEF Months
  <2> DEFINE q == Moved(r, "number", YearOf(clock), YearOf(clock + tick), req[r].seq,
                        req[r].answer, req[r].made)
  <2>3. q \in Progress /\ q.claim = req[r].claim
    BY <1>1, <2>2, FieldsTyped, MovedTyped DEF Pcs, Moved
  <2>4. OnlyBecomes(r, q)
    BY <1>3, <2>1, <2>3
  <2>5. (Plan # "FREE" \/ q.claim \/ MayAdd(r)) /\ clock' \in {clock, clock + 1} /\ clock' \in Months
    BY <1>14, <2>1, <2>2, <2>3 DEF ReadYears, Limited
  <2> HIDE DEF q
  <2> QED
    BY <1>14, <2>3, <2>4, <2>5, StepCounts DEF ReadYears
<1>15. CASE NextSequence(r)
  <2> DEFINE q == Moved(r, "insert", req[r].label, req[r].year, counter[req[r].year] + 1,
                        req[r].answer, req[r].made)
  <2>1. counter[req[r].year] + 1 \in Nat
    BY <1>1, FieldsTyped DEF ServerTypeOK
  <2>2. q \in Progress /\ q.claim = req[r].claim
    BY <1>1, <2>1, FieldsTyped, MovedTyped DEF Pcs, Moved
  <2>3. OnlyBecomes(r, q) /\ (Plan # "FREE" \/ q.claim \/ MayAdd(r))
    BY <1>3, <1>15, <2>2 DEF NextSequence, Limited
  <2> HIDE DEF q
  <2> QED
    BY <1>1, <1>15, <2>2, <2>3, StepCounts DEF NextSequence
<1>16. CASE Insert(r)
  BY <1>16, InsertCounts
<1>17. CASE Audit(r)
  BY <1>4, <1>7, <1>17 DEF Audit, Pcs
<1>18. CASE Record(r)
  BY <1>7, <1>18 DEF Record
<1>19. CASE KeyTimeout(r)
  BY <1>19, NoneLetIn DEF KeyTimeout, Limited
<1>20. CASE Die(r)
  BY <1>1, <1>3, <1>20, IdleTyped, StepCounts DEF Die, Lost
<1> QED
  BY <1>8, <1>9, <1>10, <1>11, <1>12, <1>13, <1>14, <1>15, <1>16, <1>17, <1>18, <1>19, <1>20
  DEF Handle

LEMMA NextCounts == CreationInv /\ QuotaInv /\ [ServerNext]_serverVars => QuotaInv'
<1> SUFFICES ASSUME CreationInv, QuotaInv, [ServerNext]_serverVars PROVE QuotaInv'
  OBVIOUS
<1>1. ServerTypeOK /\ clock \in Months
  BY DEF CreationInv, ServerTypeOK
<1>2. ASSUME NEW r \in Requests, NEW key \in Keys \union {Null}, NEW src \in Sources,
             NEW claim \in BOOLEAN, Submit(r, key, src, claim)
      PROVE  QuotaInv'
  <2> DEFINE q == [pc |-> Arrival(key, claim), key |-> key, src |-> src, claim |-> claim,
                   label |-> 0, year |-> 0, seq |-> 0, answer |-> "none", made |-> Null]
  <2>1. q \in Progress /\ q.pc \notin {"year", "number", "insert"}
    BY YearsAreNumbers DEF Progress, Arrival, Pcs
  <2>2. OnlyBecomes(r, q)
    BY <1>1, <1>2, <2>1, Becoming DEF Submit, OnlyBecomes
  <2> HIDE DEF q
  <2> QED
    BY <1>1, <1>2, <2>1, <2>2, StepCounts DEF Submit
<1>3. ASSUME NEW r \in Requests, Reply(r) PROVE QuotaInv'
  <2>1. OnlyBecomes(r, Idle) /\ Idle.pc = "idle" /\ Idle \in Progress
    BY <1>1, <1>3, IdleTyped, Becoming DEF Reply, OnlyBecomes, Idle
  <2> QED
    BY <1>1, <1>3, <2>1, StepCounts DEF Reply
<1>4. CASE (\E k \in Keys: Expire(k)) \/ UNCHANGED serverVars
  BY <1>4, NoneLetIn DEF Expire, serverVars, Limited
<1>5. CASE NextMonth
  BY <1>5, ClockMoves DEF NextMonth, Limited
<1>6. CASE \E d \in devis: SoftDelete(d)
  BY <1>6, DeleteCounts
<1>7. CASE \E r \in Requests: Handle(r)
  BY <1>7, HandleCounts
<1> QED
  BY <1>2, <1>3, <1>4, <1>5, <1>6, <1>7 DEF ServerNext, Surroundings

\* The inductive invariant, whole.
THEOREM Server == ServerSpec => []ServerInv
<1>1. ServerInit => ServerInv
  BY InitKeeps, InitCounts DEF ServerInv
<1>2. ServerInv /\ [ServerNext]_serverVars => ServerInv'
  BY NextKeeps, NextCounts DEF ServerInv
<1> QED
  BY <1>1, <1>2, PTL DEF ServerSpec

\* The free plan keeps its quota, whatever creations and deletions overlap.
THEOREM QuotaHolds == ServerSpec => []QuotaKept
<1>1. ServerInv => QuotaKept
  BY DEF ServerInv, QuotaInv, QuotaKept
<1> QED
  BY <1>1, Server, PTL

-----------------------------------------------------------------------------
(* The links.  No lock covers the search for a slug: what saves a request  *)
(* that found it free is that its guarded update meets the unique index,   *)
(* so SlugsInv holds whatever the others did meanwhile.                    *)

\* What ensureUniqueShareSlug tries is a slug.
LEMMA SlugTried ==
    ASSUME NEW d \in Docs, NEW t \in Tokens, NEW n \in 0..TokenLength
    PROVE  Suffixed(d, t, n) \in Slugs
BY DEF Slugs

\* So is what a request is about to write.
LEMMA SlugOfSender ==
    ASSUME SendersInv, NEW s \in Senders, ~Sends(s, "idle")
    PROVE  Slug(s) \in Slugs
BY SlugTried DEF Slug, SendersInv

\* The links of before the slugs are the only ones that lead by a token.
LEMMA Start == LinksInit => LinksInv
<1> SUFFICES ASSUME LinksInit PROVE LinksInv OBVIOUS
<1> USE LinksAssumption
<1>1. \A s \in Senders: Sends(s, "idle")
  BY DEF LinksInit, Sends, NotSending
<1>2. sending \in [Senders -> [pc : {"idle", "search", "lock", "answer"}, doc : Docs \union {NoLink},
                               token : Tokens \union {NoLink}, attempt : Nat]]
  BY DEF LinksInit, NotSending
<1>3. SendersInv
  BY <1>1 DEF SendersInv
<1>4. CASE AllDrafts
  <2>1. LinksTypeOK
    BY <1>2, <1>4 DEF LinksTypeOK, AllDrafts, Draft
  <2>2. SlugsInv /\ GivenInv
    BY <1>4 DEF SlugsInv, GivenInv, AllDrafts, Draft
  <2> QED BY <1>3, <2>1, <2>2 DEF LinksInv
<1>5. CASE \E old \in Docs, token \in Tokens:
             /\ row = [d \in Docs |-> IF d = old THEN SentBefore(d, token) ELSE Draft]
             /\ given = {[link |-> [path |-> Path(old), ref |-> token], doc |-> old]}
  <2> PICK old \in Docs, token \in Tokens:
             /\ row = [d \in Docs |-> IF d = old THEN SentBefore(d, token) ELSE Draft]
             /\ given = {[link |-> [path |-> Path(old), ref |-> token], doc |-> old]}
    BY <1>5
  <2>2. Suffixed(old, token, 0) \in Slugs
    BY SlugTried
  <2>3. LinksTypeOK
    BY <1>2, <2>2 DEF LinksTypeOK, SentBefore, Draft, Path
  <2>4. SlugsInv
    BY <2>2 DEF SlugsInv, SentBefore, Draft
  <2>5. TokenIsOf(token, old)
    BY <1>1, LinksAssumption DEF TokenIsOf, SentBefore, Draft
  <2>6. GivenInv
    BY <2>5 DEF GivenInv, SentBefore
  <2> QED BY <1>3, <2>3, <2>4, <2>6 DEF LinksInv
<1> QED BY <1>4, <1>5 DEF LinksInit

\* A request that begins has drawn a token that no link given out needs.
LEMMA Begins ==
    ASSUME LinksInv, NEW s \in Senders, NEW d \in Docs, BeginSend(s, d)
    PROVE  LinksInv'
<1> USE DEF Sends
<1>1. PICK token \in Tokens:
        /\ Fresh(token)
        /\ sending' = [sending EXCEPT ![s] =
              [pc |-> "search", doc |-> d, token |-> token, attempt |-> 0]]
  BY DEF BeginSend
<1>2. LinksTypeOK'
  BY <1>1 DEF BeginSend, LinksInv, LinksTypeOK
<1>3. SendersInv'
  BY <1>1, LinksAssumption DEF BeginSend, LinksInv, LinksTypeOK, SendersInv, Slug
<1>4. SlugsInv'
  BY DEF BeginSend, LinksInv, SlugsInv
<1>5. ASSUME NEW ref \in Tokens, NEW e \in Docs, TokenIsOf(ref, e)
      PROVE  TokenIsOf(ref, e)'
  BY <1>1, <1>5 DEF BeginSend, Fresh, LinksInv, LinksTypeOK, TokenIsOf
<1>6. GivenInv'
  BY <1>5 DEF BeginSend, LinksInv, LinksTypeOK, GivenInv
<1> QED BY <1>2, <1>3, <1>4, <1>6 DEF LinksInv

\* A request that goes on without writing keeps what it sends.
LEMMA GoesOn ==
    ASSUME LinksInv, NEW s \in Senders, SearchSlug(s)
    PROVE  LinksInv'
<1> USE DEF Sends, SendAt
<1>1. /\ sending'[s].doc = sending[s].doc /\ sending'[s].token = sending[s].token
      /\ sending'[s].attempt \in 0..TokenLength /\ sending'[s].pc \in {"search", "lock"}
      /\ \A r \in Senders \ {s}: sending'[r] = sending[r]
      /\ UNCHANGED <<row, given>>
  BY LinksAssumption DEF SearchSlug, LinksInv, LinksTypeOK, SendersInv
<1>2. LinksTypeOK'
  BY DEF SearchSlug, LinksInv, LinksTypeOK
<1>3. SendersInv'
  BY <1>1 DEF SearchSlug, LinksInv, SendersInv, Slug
<1>4. SlugsInv'
  BY <1>1 DEF LinksInv, SlugsInv
<1>5. ASSUME NEW ref \in Tokens, NEW e \in Docs, TokenIsOf(ref, e)
      PROVE  TokenIsOf(ref, e)'
  BY <1>1, <1>5 DEF SearchSlug, TokenIsOf
<1>6. GivenInv'
  BY <1>1, <1>5 DEF LinksInv, LinksTypeOK, GivenInv
<1> QED BY <1>2, <1>3, <1>4, <1>6 DEF LinksInv

\* The end of a request changes nothing that anybody relies on.
LEMMA Ends ==
    ASSUME LinksInv, NEW s \in Senders, SendEnds(s), UNCHANGED row
    PROVE  /\ (UNCHANGED given) => LinksTypeOK'
           /\ SendersInv' /\ SlugsInv'
           /\ \A ref \in Tokens, e \in Docs: TokenIsOf(ref, e) => TokenIsOf(ref, e)'
<1> USE DEF Sends, SendEnds, NotSending
<1>1. ASSUME UNCHANGED given PROVE LinksTypeOK'
  BY <1>1 DEF LinksInv, LinksTypeOK
<1>2. SendersInv'
  BY DEF LinksInv, LinksTypeOK, SendersInv, Slug
<1>3. SlugsInv'
  BY DEF LinksInv, SlugsInv
<1>4. ASSUME NEW ref \in Tokens, NEW e \in Docs, TokenIsOf(ref, e)
      PROVE  TokenIsOf(ref, e)'
  BY <1>4 DEF LinksInv, LinksTypeOK, TokenIsOf
<1> QED BY <1>1, <1>2, <1>3, <1>4

LEMMA Fails ==
    ASSUME LinksInv, NEW s \in Senders, SendEnds(s), UNCHANGED <<row, given>>
    PROVE  LinksInv'
<1>1. LinksTypeOK' /\ SendersInv' /\ SlugsInv'
  BY Ends
<1>2. GivenInv'
  BY Ends DEF LinksInv, LinksTypeOK, GivenInv
<1> QED BY <1>1, <1>2 DEF LinksInv

\* The link in the answer is the one the row has had since the update.
LEMMA Answers ==
    ASSUME LinksInv, NEW s \in Senders, AnswerSend(s)
    PROVE  LinksInv'
<1> DEFINE d == sending[s].doc
           new == [link |-> [path |-> Path(d), ref |-> Slug(s)], doc |-> d]
<1>1. /\ Sends(s, "answer") /\ ~Sends(s, "idle") /\ SendEnds(s) /\ UNCHANGED row
      /\ given' = given \union {new}
  BY DEF AnswerSend, Given, Sends
<1>2. d \in Docs /\ row[d].sent /\ row[d].slug = Slug(s)
  BY <1>1 DEF LinksInv, SendersInv
<1>3. Slug(s) \in Slugs
  BY <1>1, SlugOfSender DEF LinksInv
<1>4. SendersInv' /\ SlugsInv'
  BY <1>1, Ends
<1>5. new \in [link : [path : {"devis", "facture"}, ref : Slugs \union Tokens], doc : Docs]
  BY <1>2, <1>3 DEF Path
<1>6. new.doc = d /\ new.link.path = Path(d) /\ new.link.ref = Slug(s)
  OBVIOUS
<1> HIDE DEF new
<1>7. LinksTypeOK'
  BY <1>1, <1>5 DEF LinksInv, LinksTypeOK, SendEnds, NotSending
<1>8. GivenInv'
  <2> SUFFICES ASSUME NEW g \in given'
               PROVE  /\ row[g.doc].sent /\ g.link.path = Path(g.doc)
                      /\ \/ g.link.ref = row[g.doc].slug
                         \/ g.link.ref \in Tokens /\ TokenIsOf(g.link.ref, g.doc)'
    BY <1>1 DEF GivenInv
  <2>1. CASE g = new
    BY <1>2, <1>6, <2>1
  <2>2. CASE g \in given
    BY <1>1, <2>2, Ends DEF LinksInv, LinksTypeOK, GivenInv
  <2> QED BY <1>1, <2>1, <2>2
<1> QED BY <1>4, <1>7, <1>8 DEF LinksInv

\* Whoever shows the link again shows the slug of the row.
LEMMA Shows ==
    ASSUME LinksInv, NEW d \in Docs, ShowLink(d)
    PROVE  LinksInv'
<1> DEFINE new == [link |-> [path |-> Path(d), ref |-> row[d].slug], doc |-> d]
<1>1. /\ row[d].sent /\ given' = given \union {new} /\ UNCHANGED <<row, sending>>
  BY DEF ShowLink, Given, ResolvePublicShareRef
<1>2. row[d].slug \in Slugs
  BY <1>1 DEF LinksInv, SlugsInv
<1>3. SendersInv' /\ SlugsInv'
  BY <1>1 DEF LinksInv, SendersInv, SlugsInv, Sends, Slug
<1>4. new \in [link : [path : {"devis", "facture"}, ref : Slugs \union Tokens], doc : Docs]
  BY <1>2 DEF Path
<1>5. new.doc = d /\ new.link.path = Path(d) /\ new.link.ref = row[d].slug
  OBVIOUS
<1> HIDE DEF new
<1>6. LinksTypeOK'
  BY <1>1, <1>4 DEF LinksInv, LinksTypeOK
<1>7. \A ref \in Tokens, e \in Docs: TokenIsOf(ref, e) => TokenIsOf(ref, e)'
  BY <1>1 DEF TokenIsOf, Sends
<1>8. GivenInv'
  <2> SUFFICES ASSUME NEW g \in given'
               PROVE  /\ row[g.doc].sent /\ g.link.path = Path(g.doc)
                      /\ \/ g.link.ref = row[g.doc].slug
                         \/ g.link.ref \in Tokens /\ TokenIsOf(g.link.ref, g.doc)'
    BY <1>1 DEF GivenInv
  <2>1. CASE g = new
    BY <1>1, <1>5, <2>1
  <2>2. CASE g \in given
    BY <1>1, <1>7, <2>2 DEF LinksInv, LinksTypeOK, GivenInv
  <2> QED BY <1>1, <2>1, <2>2
<1> QED BY <1>3, <1>6, <1>8 DEF LinksInv

\* A deletion leaves the slug and the token taken.
LEMMA Deletes ==
    ASSUME LinksInv, NEW d \in Docs, SoftDeleteDevis(d)
    PROVE  LinksInv'
<1>1. /\ row' \in [Docs -> [sent : BOOLEAN, deleted : BOOLEAN, slug : Slugs \union {NoLink},
                     hash : {HashShareToken(t) : t \in Tokens} \union Tokens \union {NoLink}]]
      /\ \A e \in Docs: /\ row'[e].sent = row[e].sent /\ row'[e].slug = row[e].slug
                        /\ row'[e].hash = row[e].hash
      /\ UNCHANGED <<sending, given>>
  BY DEF SoftDeleteDevis, LinksInv, LinksTypeOK
<1>2. LinksTypeOK'
  BY <1>1 DEF LinksInv, LinksTypeOK
<1>3. SendersInv'
  BY <1>1 DEF LinksInv, SendersInv, Sends, Slug
<1>4. SlugsInv'
  BY <1>1 DEF LinksInv, SlugsInv
<1>5. ASSUME NEW ref \in Tokens, NEW e \in Docs, TokenIsOf(ref, e)
      PROVE  TokenIsOf(ref, e)'
  BY <1>1, <1>5 DEF TokenIsOf, Sends
<1>6. GivenInv'
  BY <1>1, <1>5 DEF LinksInv, LinksTypeOK, GivenInv
<1> QED BY <1>2, <1>3, <1>4, <1>6 DEF LinksInv

\* The guarded update writes only to a draft, and only what the indexes allow.
LEMMA Locks ==
    ASSUME LinksInv, NEW s \in Senders, LockDocument(s)
    PROVE  LinksInv'
<1> DEFINE d == sending[s].doc
           new == [sent |-> TRUE, deleted |-> row[d].deleted, slug |-> Slug(s),
                   hash |-> HashShareToken(sending[s].token)]
<1>1. Sends(s, "lock") /\ ~Sends(s, "idle") /\ UNCHANGED given
  BY DEF LockDocument, Sends
<1>2. CASE IsDraft(d) /\ Unique(d, new)
  <2>1. row' = [row EXCEPT ![d] = new] /\ SendAt(s, "answer")
    BY <1>2 DEF LockDocument
  <2>2. d \in Docs /\ sending[s].token \in Tokens /\ ~row[d].sent
    BY <1>1, <1>2 DEF LinksInv, SendersInv, IsDraft
  <2>3. Slug(s) \in Slugs
    BY <1>1, SlugOfSender DEF LinksInv
  <2>4. new \in [sent : BOOLEAN, deleted : BOOLEAN, slug : Slugs \union {NoLink},
                 hash : {HashShareToken(t) : t \in Tokens} \union Tokens \union {NoLink}]
    BY <2>2, <2>3 DEF LinksInv, LinksTypeOK
  <2>5. new.sent /\ new.slug = Slug(s) /\ new.hash = HashShareToken(sending[s].token)
    OBVIOUS
  <2>6. \A e \in Docs \ {d}: Path(e) = Path(d) => row[e].slug # new.slug
    BY <1>2 DEF Unique
  <2> HIDE DEF new
  <2>7. row'[d] = new /\ \A e \in Docs \ {d}: row'[e] = row[e]
    BY <2>1, <2>2 DEF LinksInv, LinksTypeOK
  <2>8. /\ \A r \in Senders \ {s}: sending'[r] = sending[r]
        /\ sending'[s].doc = d /\ sending'[s].token = sending[s].token
        /\ sending'[s].attempt = sending[s].attempt /\ sending'[s].pc = "answer"
    BY <2>1 DEF SendAt, LinksInv, LinksTypeOK
  <2>9. LinksTypeOK'
    BY <1>1, <2>1, <2>4 DEF SendAt, LinksInv, LinksTypeOK
  <2>10. SendersInv'
    <3> SUFFICES ASSUME NEW r \in Senders, ~Sends(r, "idle")'
                 PROVE  /\ sending'[r].doc \in Docs /\ sending'[r].token \in Tokens
                        /\ sending'[r].attempt \in 0..TokenLength
                        /\ Sends(r, "answer")' =>
                              row'[sending'[r].doc].sent /\ row'[sending'[r].doc].slug = Slug(r)'
      BY DEF SendersInv
    <3>1. CASE r = s
      BY <1>1, <2>2, <2>5, <2>7, <2>8, <3>1 DEF LinksInv, SendersInv, Slug
    <3>2. CASE r # s
      BY <2>2, <2>7, <2>8, <3>2 DEF LinksInv, SendersInv, Sends, Slug
    <3> QED BY <3>1, <3>2
  <2>11. SlugsInv'
    BY <2>2, <2>3, <2>5, <2>6, <2>7 DEF LinksInv, SlugsInv
  <2>12. ASSUME NEW ref \in Tokens, NEW e \in Docs, row[e].sent, TokenIsOf(ref, e)
         PROVE  TokenIsOf(ref, e)'
    <3>1. sending[s].token # ref
      BY <1>1, <2>12 DEF TokenIsOf
    <3>2. new.hash # ref /\ new.hash # HashShareToken(ref)
      BY <2>2, <2>5, <3>1, LinksAssumption DEF HashShareToken
    <3> QED BY <1>1, <2>2, <2>7, <2>8, <2>12, <3>1, <3>2 DEF TokenIsOf, Sends
  <2>13. GivenInv'
    BY <1>1, <2>2, <2>7, <2>12 DEF LinksInv, LinksTypeOK, GivenInv
  <2> QED BY <2>9, <2>10, <2>11, <2>13 DEF LinksInv
<1>3. CASE ~(IsDraft(d) /\ Unique(d, new))
  <2>1. SendEnds(s) /\ UNCHANGED <<row, given>>
    BY <1>3 DEF LockDocument
  <2> QED BY <2>1, Fails
<1> QED BY <1>2, <1>3

\* LinksInv is inductive.
LEMMA Inductive == LinksInv /\ [LinksNext]_linksVars => LinksInv'
<1> SUFFICES ASSUME LinksInv, [LinksNext]_linksVars PROVE LinksInv' OBVIOUS
<1>1. CASE UNCHANGED linksVars
  BY <1>1 DEF linksVars, LinksInv, LinksTypeOK, SendersInv, SlugsInv, GivenInv, TokenIsOf, Sends, Slug
<1>2. ASSUME NEW s \in Senders, NEW d \in Docs, BeginSend(s, d) PROVE LinksInv'
  BY <1>2, Begins
<1>3. ASSUME NEW s \in Senders, SearchSlug(s) PROVE LinksInv'
  BY <1>3, GoesOn
<1>4. ASSUME NEW s \in Senders, LockDocument(s) PROVE LinksInv'
  BY <1>4, Locks
<1>5. ASSUME NEW s \in Senders, AnswerSend(s) PROVE LinksInv'
  BY <1>5, Answers
<1>6. ASSUME NEW s \in Senders, SendFails(s) PROVE LinksInv'
  BY <1>6, Fails DEF SendFails
<1>7. ASSUME NEW d \in Docs, ShowLink(d) PROVE LinksInv'
  BY <1>7, Shows
<1>8. ASSUME NEW d \in Docs, SoftDeleteDevis(d) PROVE LinksInv'
  BY <1>8, Deletes
<1> QED BY <1>1, <1>2, <1>3, <1>4, <1>5, <1>6, <1>7, <1>8 DEF LinksNext

\* What LinksInv says of a link is enough to find the document again.
LEMMA FoundAgain == LinksInv => LinkLeadsHome
<1> SUFFICES ASSUME LinksInv, NEW g \in given
             PROVE  Found(g.link) = IF row[g.doc].deleted THEN {} ELSE {g.doc}
  BY DEF LinkLeadsHome
<1>1. /\ g.doc \in Docs /\ row[g.doc].sent /\ g.link.path = Path(g.doc)
  BY DEF LinksInv, LinksTypeOK, GivenInv
<1>2. CASE g.link.ref = row[g.doc].slug
  <2>1. g.link.ref \notin Tokens
    BY <1>1, <1>2, LinksAssumption DEF LinksInv, SlugsInv
  <2>2. \A d \in Docs: row[d].sent /\ Path(d) = g.link.path
                       => (PublicShareLookupWhere(d, g.link.ref) <=> d = g.doc)
    BY <1>1, <1>2, <2>1 DEF LinksInv, SlugsInv, PublicShareLookupWhere
  <2> QED BY <1>1, <2>2 DEF Found, LinksInv, LinksTypeOK
<1>3. CASE g.link.ref \in Tokens /\ TokenIsOf(g.link.ref, g.doc)
  <2>1. \A d \in Docs: PublicShareLookupWhere(d, g.link.ref) <=> d = g.doc
    BY <1>1, <1>3 DEF PublicShareLookupWhere, ShareTokenLookupWhere, TokenIsOf
  <2> QED BY <1>1, <2>1 DEF Found, LinksInv, LinksTypeOK
<1> QED BY <1>2, <1>3 DEF LinksInv, GivenInv

\* Types, what the requests know, and that slugs and tokens identify their documents, for
\* any number of sends, deletions and failures in any order.
THEOREM LinksInvariance == LinksSpec => []LinksInv
<1>1. LinksInit => LinksInv
  BY Start
<1>2. LinksInv /\ [LinksNext]_linksVars => LinksInv'
  BY Inductive
<1> QED BY <1>1, <1>2, PTL DEF LinksSpec

\* A link that was given out leads to its document and to no other, whoever searched for
\* the same slug at the same time (ensureUniqueShareSlug, publicShareLookupWhere).
THEOREM LinksLeadHome == LinksSpec => []LinkLeadsHome
BY LinksInvariance, FoundAgain, PTL

-----------------------------------------------------------------------------
(* The amounts of the form.  A fold is a function that is chosen by its    *)
(* equation: it exists, and what it gives is shown number by number, by    *)
(* the least counterexample.                                               *)

LEMMA Least ==
  ASSUME NEW T \in SUBSET Nat, T # {}
  PROVE  \E x \in T: \A z \in T: x <= z
<1>1. PICK x \in T: \A z \in T: ~(<<z, x>> \in OpToRel(<, Nat))
  BY NatLessThanWellFounded, WFMin
<1>2. \A z \in T: ~(z < x)
  BY <1>1 DEF OpToRel
<1>3. x \in Nat /\ \A z \in T: z \in Nat
  OBVIOUS
<1>4. \A z \in T: x <= z
  <2> SUFFICES ASSUME NEW z \in T PROVE x <= z
    OBVIOUS
  <2>1. x \in Nat /\ z \in Nat /\ ~(z < x)
    BY <1>2, <1>3
  <2> QED BY <2>1
<1> QED BY <1>4

\* Induction over a set of numbers.
LEMMA Induct ==
  ASSUME NEW T, NEW n \in Nat, 0 \in T, \A k \in 0 .. n - 1: k \in T => k + 1 \in T
  PROVE  0 .. n \subseteq T
<1> SUFFICES ASSUME (0 .. n) \ T # {} PROVE FALSE
  OBVIOUS
<1>1. PICK x \in (0 .. n) \ T: \A z \in (0 .. n) \ T: x <= z
  <2>1. (0 .. n) \ T \in SUBSET Nat
    OBVIOUS
  <2> QED BY <2>1, Least
<1>2. x \in 1 .. n /\ x - 1 \in 0 .. n - 1 /\ ~(x <= x - 1)
  <2>1. x # 0 /\ x \in 0 .. n
    BY <1>1
  <2> QED BY <2>1
<1>3. x - 1 \in 0 .. n /\ x - 1 + 1 = x
  BY <1>2
<1>4. x - 1 \in T
  BY <1>1, <1>2, <1>3
<1> QED BY <1>1, <1>2, <1>3, <1>4

LEMMA OneLess ==
  ASSUME NEW k \in Nat, NEW t \in SUBSET (1 .. k + 1), k + 1 \notin t
  PROVE  t \in SUBSET (1 .. k)
<1> SUFFICES ASSUME NEW j \in t PROVE j \in 1 .. k
  OBVIOUS
<1>1. j \in 1 .. k + 1 /\ j # k + 1
  OBVIOUS
<1> QED BY <1>1

LEMMA MaxTop ==
  ASSUME NEW k \in Nat, NEW t \in SUBSET (1 .. k + 1), k + 1 \in t
  PROVE  Max(t) = k + 1 /\ t \ {k + 1} \in SUBSET (1 .. k)
<1>1. \A z \in t: z \in Int /\ k + 1 >= z
  OBVIOUS
<1>2. \A x \in t: (\A z \in t: x >= z) => x = k + 1
  <2> SUFFICES ASSUME NEW x \in t, \A z \in t: x >= z PROVE x = k + 1
    OBVIOUS
  <2>1. x \in 1 .. k + 1 /\ x >= k + 1
    OBVIOUS
  <2> QED BY <2>1
<1>3. Max(t) = k + 1
  BY <1>1, <1>2 DEF Max
<1> QED BY <1>3

\* The function that a fold defines by its own equation exists.
Folds(h, Acc, base, step, k) ==
  /\ h \in [SUBSET (1 .. k) -> Acc]
  /\ \A t \in SUBSET (1 .. k):
        h[t] = IF t = {} THEN base ELSE step[<<h[t \ {Max(t)}], Max(t)>>]

LEMMA FoldExists ==
  ASSUME NEW Acc, NEW base \in Acc, NEW n \in Nat, NEW step \in [Acc \X (1 .. n) -> Acc]
  PROVE  \E h: Folds(h, Acc, base, step, n)
<1> DEFINE T == {k \in 0 .. n: \E h: Folds(h, Acc, base, step, k)}
<1>1. 0 \in T
  <2> DEFINE h0 == [t \in SUBSET (1 .. 0) |-> base]
  <2>1. SUBSET (1 .. 0) = {{}}
    OBVIOUS
  <2>2. Folds(h0, Acc, base, step, 0)
    BY <2>1 DEF Folds
  <2> QED BY <2>2
<1>2. ASSUME NEW k \in 0 .. n - 1, k \in T PROVE k + 1 \in T
  <2>1. PICK h: Folds(h, Acc, base, step, k)
    BY <1>2
  <2> DEFINE more(t) == IF k + 1 \in t THEN step[<<h[t \ {k + 1}], k + 1>>] ELSE h[t]
             g == [t \in SUBSET (1 .. k + 1) |-> more(t)]
  <2>2. ASSUME NEW t \in SUBSET (1 .. k + 1)
        PROVE  more(t) \in Acc /\ more(t) = IF t = {} THEN base ELSE step[<<g[t \ {Max(t)}], Max(t)>>]
    <3>1. CASE k + 1 \in t
      <4>1. Max(t) = k + 1 /\ t \ {k + 1} \in SUBSET (1 .. k) /\ t # {}
        BY <3>1, MaxTop
      <4>2. h[t \ {k + 1}] \in Acc
        BY <2>1, <4>1 DEF Folds
      <4>3. k + 1 \in 1 .. n
        OBVIOUS
      <4>4. t \ {k + 1} \in SUBSET (1 .. k + 1) /\ k + 1 \notin t \ {k + 1}
        OBVIOUS
      <4>5. g[t \ {k + 1}] = h[t \ {k + 1}]
        BY <4>4
      <4>6. more(t) = step[<<h[t \ {k + 1}], k + 1>>]
        BY <3>1
      <4> HIDE DEF g, more
      <4> QED BY <4>1, <4>2, <4>5, <4>6, <4>3
    <3>2. CASE k + 1 \notin t
      <4>1. t \in SUBSET (1 .. k)
        BY <3>2, OneLess
      <4>2. more(t) = h[t] /\ h[t] \in Acc
        BY <2>1, <3>2, <4>1 DEF Folds
      <4>3. h[t] = IF t = {} THEN base ELSE step[<<h[t \ {Max(t)}], Max(t)>>]
        BY <2>1, <4>1 DEF Folds
      <4>4. t \ {Max(t)} \in SUBSET (1 .. k + 1) /\ k + 1 \notin t \ {Max(t)}
        BY <3>2
      <4>5. g[t \ {Max(t)}] = h[t \ {Max(t)}]
        BY <4>4
      <4> HIDE DEF g, more
      <4> QED BY <4>2, <4>3, <4>5
    <3> QED BY <3>1, <3>2
  <2>3. Folds(g, Acc, base, step, k + 1)
    <3>1. g \in [SUBSET (1 .. k + 1) -> Acc]
      BY <2>2
    <3>2. \A t \in SUBSET (1 .. k + 1): g[t] = more(t)
      OBVIOUS
    <3> HIDE DEF g, more
    <3> QED BY <2>2, <3>1, <3>2 DEF Folds
  <2>4. k + 1 \in 0 .. n
    OBVIOUS
  <2> HIDE DEF g
  <2> QED BY <2>3, <2>4
<1>3. 0 .. n \subseteq T
  <2> HIDE DEF T
  <2> QED BY <1>1, <1>2, Induct
<1>4. n \in 0 .. n
  OBVIOUS
<1> QED BY <1>3, <1>4


LEMMA MaxIsIn ==
  ASSUME NEW n \in Nat, NEW t \in SUBSET (1 .. n), t # {}
  PROVE  Max(t) \in t
<1> DEFINE T == {k \in 0 .. n: \A u \in SUBSET (1 .. k): u # {} => Max(u) \in u}
<1>1. 0 \in T
  <2>1. 1 .. 0 = {} /\ 0 \in 0 .. n
    OBVIOUS
  <2> QED BY <2>1
<1>2. ASSUME NEW k \in 0 .. n - 1, k \in T PROVE k + 1 \in T
  <2>1. ASSUME NEW u \in SUBSET (1 .. k + 1), u # {} PROVE Max(u) \in u
    <3>1. CASE k + 1 \in u
      BY <3>1, MaxTop
    <3>2. CASE k + 1 \notin u
      <4>1. u \in SUBSET (1 .. k)
        BY <3>2, OneLess
      <4> QED BY <1>2, <2>1, <4>1
    <3> QED BY <3>1, <3>2
  <2>2. k + 1 \in 0 .. n
    OBVIOUS
  <2> QED BY <2>1, <2>2
<1>3. n \in T
  <2>1. n \in 0 .. n
    OBVIOUS
  <2> HIDE DEF T
  <2> QED BY <1>1, <1>2, <2>1, Induct
<1> QED BY <1>3

LEMMA UpTo ==
  ASSUME NEW n \in Nat, NEW k \in 1 .. n
  PROVE  /\ 1 .. k \in SUBSET (1 .. n) /\ 1 .. k # {} /\ 1 .. k - 1 \in SUBSET (1 .. n)
         /\ Max(1 .. k) = k /\ (1 .. k) \ {Max(1 .. k)} = 1 .. k - 1
<1>1. k - 1 \in Nat /\ k - 1 + 1 = k /\ 1 .. k \in SUBSET (1 .. k - 1 + 1) /\ k \in 1 .. k
  OBVIOUS
<1>2. Max(1 .. k) = k
  BY <1>1, MaxTop
<1>3. (1 .. k) \ {k} = 1 .. k - 1 /\ 1 .. k # {} /\ 1 .. k \in SUBSET (1 .. n)
  OBVIOUS
<1>4. 1 .. k - 1 \in SUBSET (1 .. n)
  OBVIOUS
<1> QED BY <1>2, <1>3, <1>4

Sums(s) ==
  CHOOSE g: g = [t \in SUBSET DOMAIN s |-> IF t = {} THEN 0 ELSE Plus(g[t \ {Max(t)}], s[Max(t)])]

\* A sum is the last of the running sums.
LEMMA SumRuns ==
  ASSUME NEW s \in Seq(Int)
  PROVE  \E g: /\ g \in [0 .. Len(s) -> Int] /\ g[0] = 0 /\ SumOf(s) = g[Len(s)]
               /\ \A k \in 1 .. Len(s): g[k] = g[k - 1] + s[k]
<1> DEFINE n == Len(s)
<1>1. n \in Nat /\ DOMAIN s = 1 .. n /\ \A i \in 1 .. n: s[i] \in Int
  OBVIOUS
<1> HIDE DEF n
<1> DEFINE step == [p \in Int \X (1 .. n) |-> p[1] + s[p[2]]]
<1>2. step \in [Int \X (1 .. n) -> Int]
  BY <1>1
<1>3. \A a \in Int, i \in 1 .. n: step[<<a, i>>] = Plus(a, s[i])
  BY DEF Plus
<1> HIDE DEF step
<1>4. PICK h: Folds(h, Int, 0, step, n)
  <2>1. 0 \in Int /\ n \in Nat
    BY <1>1
  <2> QED BY <1>2, <2>1, FoldExists, Zenon
<1>5. h = [t \in SUBSET DOMAIN s |-> IF t = {} THEN 0 ELSE Plus(h[t \ {Max(t)}], s[Max(t)])]
  <2>1. ASSUME NEW t \in SUBSET (1 .. n), t # {} PROVE h[t] = Plus(h[t \ {Max(t)}], s[Max(t)])
    <3>1. Max(t) \in 1 .. n
      BY <1>1, <2>1, MaxIsIn
    <3>2. h[t \ {Max(t)}] \in Int
      BY <1>4 DEF Folds
    <3>3. h[t] = step[<<h[t \ {Max(t)}], Max(t)>>]
      BY <1>4, <2>1 DEF Folds
    <3> QED BY <1>3, <3>1, <3>2, <3>3
  <2>2. h[{}] = 0 /\ {} \in SUBSET (1 .. n)
    BY <1>4 DEF Folds
  <2>3. h = [t \in SUBSET (1 .. n) |-> h[t]]
    BY <1>4 DEF Folds
  <2> QED BY <1>1, <2>1, <2>2, <2>3
<1>6. Sums(s) = [t \in SUBSET DOMAIN s |-> IF t = {} THEN 0 ELSE Plus(Sums(s)[t \ {Max(t)}], s[Max(t)])]
  BY <1>5, Zenon DEF Sums
<1>7. \A t \in SUBSET (1 .. n):
         Sums(s)[t] = IF t = {} THEN 0 ELSE Plus(Sums(s)[t \ {Max(t)}], s[Max(t)])
  BY <1>1, <1>6, Zenon
<1>8. Sums(s)[1 .. 0] = 0
  <2>1. 1 .. 0 = {} /\ {} \in SUBSET (1 .. n)
    OBVIOUS
  <2> QED BY <1>7, <2>1
<1>9. ASSUME NEW k \in 1 .. n PROVE Sums(s)[1 .. k] = Sums(s)[1 .. k - 1] + s[k]
  BY <1>1, <1>7, UpTo DEF Plus
<1> DEFINE g == [k \in 0 .. n |-> Sums(s)[1 .. k]]
<1>10. \A k \in 1 .. n: g[k] = g[k - 1] + s[k]
  BY <1>1, <1>9
<1>11. g[0] = 0 /\ g[n] = Sums(s)[1 .. n]
  BY <1>1, <1>8
<1>12. SumOf(s) = Sums(s)[DOMAIN s]
  BY DEF SumOf, FoldLeft, MapThenFoldSet, Sums
<1>13. g \in [0 .. n -> Int]
  <2> DEFINE T == {k \in 0 .. n: g[k] \in Int}
  <2>1. 0 \in T
    BY <1>1, <1>11
  <2>2. ASSUME NEW k \in 0 .. n - 1, k \in T PROVE k + 1 \in T
    <3>1. k + 1 \in 1 .. n /\ k + 1 - 1 = k /\ k + 1 \in 0 .. n
      BY <1>1
    <3> HIDE DEF g
    <3>2. g[k + 1] = g[k] + s[k + 1]
      BY <1>10, <3>1
    <3> QED BY <1>1, <2>2, <3>1, <3>2
  <2>3. 0 .. n \subseteq T
    <3> HIDE DEF T
    <3> QED BY <1>1, <2>1, <2>2, Induct
  <2>4. \A k \in 0 .. n: g[k] \in Int
    BY <2>3
  <2> QED BY <2>4
<1> HIDE DEF g
<1>14. SumOf(s) = g[n]
  BY <1>1, <1>11, <1>12
<1>15. /\ g \in [0 .. Len(s) -> Int] /\ g[0] = 0 /\ SumOf(s) = g[Len(s)]
       /\ \A k \in 1 .. Len(s): g[k] = g[k - 1] + s[k]
  BY <1>10, <1>11, <1>13, <1>14 DEF n
<1> QED BY <1>15, Zenon

LEMMA SumEmpty == SumOf(<< >>) = 0
<1>1. << >> \in Seq(Int) /\ Len(<< >>) = 0
  OBVIOUS
<1> QED BY <1>1, SumRuns

LEMMA SumTyped == ASSUME NEW s \in Seq(Int) PROVE SumOf(s) \in Int
<1>1. Len(s) \in 0 .. Len(s)
  OBVIOUS
<1> QED BY <1>1, SumRuns

LEMMA SumAppend ==
  ASSUME NEW s \in Seq(Int), NEW x \in Int
  PROVE  SumOf(Append(s, x)) = SumOf(s) + x
<1> DEFINE n == Len(s)
<1>1. PICK t: t = Append(s, x)
  OBVIOUS
<1>2. n \in Nat /\ t \in Seq(Int) /\ Len(t) = n + 1 /\ t[n + 1] = x /\ \A i \in 1 .. n: t[i] = s[i]
  BY <1>1
<1>3. PICK g: /\ g \in [0 .. n -> Int] /\ g[0] = 0 /\ SumOf(s) = g[n]
              /\ \A k \in 1 .. n: g[k] = g[k - 1] + s[k]
  BY SumRuns
<1>4. PICK h: /\ h \in [0 .. Len(t) -> Int] /\ h[0] = 0 /\ SumOf(t) = h[Len(t)]
             /\ \A k \in 1 .. Len(t): h[k] = h[k - 1] + t[k]
  BY <1>2, SumRuns
<1> HIDE DEF n
<1>5. /\ h \in [0 .. n + 1 -> Int] /\ h[0] = 0 /\ SumOf(t) = h[n + 1]
      /\ \A k \in 1 .. n + 1: h[k] = h[k - 1] + t[k]
  BY <1>2, <1>4
<1> DEFINE T == {k \in 0 .. n: g[k] = h[k]}
<1>6. 0 \in T
  BY <1>2, <1>3, <1>5
<1>7. ASSUME NEW k \in 0 .. n - 1, k \in T PROVE k + 1 \in T
  <2>1. k + 1 \in 1 .. n /\ k + 1 \in 1 .. n + 1 /\ k + 1 - 1 = k /\ k + 1 \in 0 .. n
    BY <1>2
  <2>2. g[k + 1] = g[k] + s[k + 1] /\ h[k + 1] = h[k] + t[k + 1]
    BY <1>3, <1>5, <2>1
  <2> QED BY <1>2, <1>7, <2>1, <2>2
<1>8. g[n] = h[n]
  <2>1. n \in 0 .. n
    BY <1>2
  <2>2. 0 .. n \subseteq T
    <3> HIDE DEF T
    <3> QED BY <1>2, <1>6, <1>7, Induct
  <2> QED BY <2>1, <2>2
<1>9. h[n + 1] = h[n] + x
  <2>1. n + 1 \in 1 .. n + 1 /\ n + 1 - 1 = n
    BY <1>2
  <2> QED BY <1>2, <1>5, <2>1
<1> QED BY <1>1, <1>3, <1>5, <1>8, <1>9

LineRows == [qty : Nat, price : Nat, tva : Nat]

Picks(s) ==
  CHOOSE g: g = [t \in SUBSET DOMAIN s |->
                    IF t = {} THEN << >> ELSE AddFilled(g[t \ {Max(t)}], s[Max(t)])]

\* The lines that are kept, one line at a time.
LEMMA PickRuns ==
  ASSUME NEW s \in Seq(LineRows)
  PROVE  \E g: /\ g \in [0 .. Len(s) -> Seq(LineRows)] /\ g[0] = << >>
               /\ FoldLeft(AddFilled, << >>, s) = g[Len(s)]
               /\ \A k \in 1 .. Len(s): g[k] = AddFilled(g[k - 1], s[k])
<1> DEFINE n == Len(s)  Kepts == Seq(LineRows)
<1>1. n \in Nat /\ DOMAIN s = 1 .. n /\ \A i \in 1 .. n: s[i] \in LineRows
  OBVIOUS
<1>2. << >> \in Kepts /\ \A a \in Kepts, l \in LineRows: AddFilled(a, l) \in Kepts
  BY DEF AddFilled
<1> HIDE DEF n, Kepts
<1> DEFINE step == [p \in Kepts \X (1 .. n) |-> AddFilled(p[1], s[p[2]])]
<1>3. step \in [Kepts \X (1 .. n) -> Kepts]
  BY <1>1, <1>2
<1>4. \A a \in Kepts, i \in 1 .. n: step[<<a, i>>] = AddFilled(a, s[i])
  OBVIOUS
<1> HIDE DEF step
<1>5. PICK h: Folds(h, Kepts, << >>, step, n)
  BY <1>1, <1>2, <1>3, FoldExists, Zenon
<1>6. h = [t \in SUBSET DOMAIN s |-> IF t = {} THEN << >> ELSE AddFilled(h[t \ {Max(t)}], s[Max(t)])]
  <2>1. ASSUME NEW t \in SUBSET (1 .. n), t # {} PROVE h[t] = AddFilled(h[t \ {Max(t)}], s[Max(t)])
    <3>1. Max(t) \in 1 .. n
      BY <1>1, <2>1, MaxIsIn
    <3>2. h[t \ {Max(t)}] \in Kepts
      BY <1>5 DEF Folds
    <3>3. h[t] = step[<<h[t \ {Max(t)}], Max(t)>>]
      BY <1>5, <2>1 DEF Folds
    <3> QED BY <1>4, <3>1, <3>2, <3>3
  <2>2. h[{}] = << >> /\ {} \in SUBSET (1 .. n)
    BY <1>5 DEF Folds
  <2>3. h = [t \in SUBSET (1 .. n) |-> h[t]]
    BY <1>5 DEF Folds
  <2> QED BY <1>1, <2>1, <2>2, <2>3
<1>7. Picks(s) = [t \in SUBSET DOMAIN s |->
                    IF t = {} THEN << >> ELSE AddFilled(Picks(s)[t \ {Max(t)}], s[Max(t)])]
  BY <1>6, Zenon DEF Picks
<1>8. \A t \in SUBSET (1 .. n):
         Picks(s)[t] = IF t = {} THEN << >> ELSE AddFilled(Picks(s)[t \ {Max(t)}], s[Max(t)])
  BY <1>1, <1>7, Zenon
<1>9. Picks(s)[1 .. 0] = << >>
  <2>1. 1 .. 0 = {} /\ {} \in SUBSET (1 .. n)
    OBVIOUS
  <2> QED BY <1>8, <2>1
<1>10. ASSUME NEW k \in 1 .. n PROVE Picks(s)[1 .. k] = AddFilled(Picks(s)[1 .. k - 1], s[k])
  BY <1>1, <1>8, UpTo
<1> DEFINE g == [k \in 0 .. n |-> Picks(s)[1 .. k]]
<1>11. \A k \in 1 .. n: g[k] = AddFilled(g[k - 1], s[k])
  BY <1>1, <1>10
<1>12. g[0] = << >> /\ g[n] = Picks(s)[1 .. n]
  BY <1>1, <1>9
<1>13. FoldLeft(AddFilled, << >>, s) = Picks(s)[DOMAIN s]
  BY DEF FoldLeft, MapThenFoldSet, Picks
<1>14. g \in [0 .. n -> Kepts]
  <2> DEFINE T == {k \in 0 .. n: g[k] \in Kepts}
  <2>1. 0 \in T
    BY <1>1, <1>2, <1>12
  <2>2. ASSUME NEW k \in 0 .. n - 1, k \in T PROVE k + 1 \in T
    <3>1. k + 1 \in 1 .. n /\ k + 1 - 1 = k /\ k + 1 \in 0 .. n
      BY <1>1
    <3> HIDE DEF g
    <3>2. g[k + 1] = AddFilled(g[k], s[k + 1])
      BY <1>11, <3>1
    <3> QED BY <1>1, <1>2, <2>2, <3>1, <3>2
  <2>3. 0 .. n \subseteq T
    <3> HIDE DEF T
    <3> QED BY <1>1, <2>1, <2>2, Induct
  <2>4. \A k \in 0 .. n: g[k] \in Kepts
    BY <2>3
  <2> QED BY <2>4
<1> HIDE DEF g
<1>15. FoldLeft(AddFilled, << >>, s) = g[n]
  BY <1>1, <1>12, <1>13
<1>16. /\ g \in [0 .. Len(s) -> Seq(LineRows)] /\ g[0] = << >>
       /\ FoldLeft(AddFilled, << >>, s) = g[Len(s)]
       /\ \A k \in 1 .. Len(s): g[k] = AddFilled(g[k - 1], s[k])
  BY <1>11, <1>12, <1>14, <1>15 DEF n, Kepts
<1> QED BY <1>16, Zenon

Measured(f, s) == [i \in DOMAIN s |-> f[s[i]]]

LEMMA MeasuredSeq ==
  ASSUME NEW f \in [LineRows -> Int], NEW s \in Seq(LineRows)
  PROVE  Measured(f, s) \in Seq(Int) /\ Len(Measured(f, s)) = Len(s)
<1>1. DOMAIN s = 1 .. Len(s) /\ Len(s) \in Nat /\ \A i \in 1 .. Len(s): f[s[i]] \in Int
  OBVIOUS
<1>2. Measured(f, s) \in [1 .. Len(s) -> Int]
  BY <1>1 DEF Measured
<1> QED BY <1>1, <1>2

\* Lines that count for nothing may be left out.
LEMMA DroppedForNothing ==
  ASSUME NEW f \in [LineRows -> Int], \A l \in LineRows: ~Filled(l) => f[l] = 0,
         NEW s \in Seq(LineRows)
  PROVE  /\ FoldLeft(AddFilled, << >>, s) \in Seq(LineRows)
         /\ SumOf(Measured(f, FoldLeft(AddFilled, << >>, s))) = SumOf(Measured(f, s))
<1> DEFINE n == Len(s)
<1>1. n \in Nat /\ \A i \in 1 .. n: s[i] \in LineRows /\ i \in DOMAIN s
  OBVIOUS
<1>2. PICK g: /\ g \in [0 .. n -> Seq(LineRows)] /\ g[0] = << >>
              /\ FoldLeft(AddFilled, << >>, s) = g[n]
              /\ \A k \in 1 .. n: g[k] = AddFilled(g[k - 1], s[k])
  BY PickRuns
<1>3. PICK h: /\ h \in [0 .. n -> Int] /\ h[0] = 0 /\ SumOf(Measured(f, s)) = h[n]
              /\ \A k \in 1 .. n: h[k] = h[k - 1] + Measured(f, s)[k]
  <2>1. Measured(f, s) \in Seq(Int) /\ Len(Measured(f, s)) = n
    BY MeasuredSeq
  <2> HIDE DEF n
  <2>2. PICK h: /\ h \in [0 .. Len(Measured(f, s)) -> Int] /\ h[0] = 0
                /\ SumOf(Measured(f, s)) = h[Len(Measured(f, s))]
                /\ \A k \in 1 .. Len(Measured(f, s)): h[k] = h[k - 1] + Measured(f, s)[k]
    BY <2>1, SumRuns
  <2> QED BY <2>1, <2>2
<1>4. \A k \in 1 .. n: Measured(f, s)[k] = f[s[k]]
  BY <1>1 DEF Measured
<1> HIDE DEF n
<1> DEFINE T == {k \in 0 .. n: SumOf(Measured(f, g[k])) = h[k]}
<1>5. 0 \in T
  <2>1. Measured(f, << >>) = << >>
    BY DEF Measured
  <2> QED BY <1>1, <1>2, <1>3, <2>1, SumEmpty
<1>6. ASSUME NEW k \in 0 .. n - 1, k \in T PROVE k + 1 \in T
  <2>1. k + 1 \in 1 .. n /\ k + 1 - 1 = k /\ k + 1 \in 0 .. n /\ k \in 0 .. n
    BY <1>1
  <2>2. PICK l \in LineRows: l = s[k + 1]
    BY <1>1, <2>1
  <2>3. PICK a \in Seq(LineRows): a = g[k]
    BY <1>2, <2>1
  <2>4. g[k + 1] = AddFilled(a, l) /\ h[k + 1] = h[k] + f[l] /\ SumOf(Measured(f, a)) = h[k]
    BY <1>2, <1>3, <1>4, <1>6, <2>1, <2>2, <2>3
  <2>5. h[k] \in Int
    BY <1>3, <2>1
  <2>6. CASE Filled(l)
    <3>1. PICK b: b = Append(a, l)
      OBVIOUS
    <3>2. g[k + 1] = b
      BY <2>4, <2>6, <3>1 DEF AddFilled
    <3>3. Measured(f, a) \in Seq(Int) /\ f[l] \in Int
      BY MeasuredSeq
    <3>4. Measured(f, b) = Append(Measured(f, a), f[l])
      <4>1. /\ DOMAIN a = 1 .. Len(a) /\ DOMAIN b = 1 .. Len(a) + 1 /\ Len(a) \in Nat
            /\ b[Len(a) + 1] = l /\ \A i \in 1 .. Len(a): b[i] = a[i]
        BY <3>1
      <4>2. Len(Measured(f, a)) = Len(a) /\ \A i \in 1 .. Len(a): Measured(f, a)[i] = f[a[i]]
        BY <4>1, MeasuredSeq DEF Measured
      <4>3. PICK m: m = Append(Measured(f, a), f[l])
        OBVIOUS
      <4>4. /\ m \in Seq(Int) /\ DOMAIN m = 1 .. Len(a) + 1 /\ m[Len(a) + 1] = f[l]
            /\ \A i \in 1 .. Len(a): m[i] = Measured(f, a)[i]
        BY <3>3, <4>1, <4>2, <4>3
      <4>5. m = [i \in 1 .. Len(a) + 1 |-> m[i]]
        BY <4>4
      <4>6. ASSUME NEW i \in 1 .. Len(a) + 1 PROVE m[i] = f[b[i]]
        <5>1. CASE i = Len(a) + 1
          BY <4>1, <4>4, <5>1
        <5>2. CASE i \in 1 .. Len(a)
          BY <4>1, <4>2, <4>4, <5>2
        <5> QED BY <4>1, <5>1, <5>2
      <4>7. Measured(f, b) = [i \in 1 .. Len(a) + 1 |-> f[b[i]]]
        BY <4>1 DEF Measured
      <4> QED BY <4>3, <4>5, <4>6, <4>7
    <3>5. SumOf(Measured(f, b)) = h[k] + f[l]
      BY <2>4, <3>3, <3>4, SumAppend
    <3> QED BY <2>1, <2>4, <3>2, <3>5
  <2>7. CASE ~Filled(l)
    <3>1. g[k + 1] = a /\ f[l] = 0
      BY <2>4, <2>7 DEF AddFilled
    <3> QED BY <2>1, <2>4, <2>5, <3>1
  <2> QED BY <2>6, <2>7
<1>7. n \in T
  <2>1. n \in 0 .. n
    BY <1>1
  <2> HIDE DEF T
  <2> QED BY <1>1, <1>5, <1>6, <2>1, Induct
<1>8. n \in 0 .. n
  BY <1>1
<1> QED BY <1>2, <1>3, <1>7, <1>8

-----------------------------------------------------------------------------
(* The form                                                                *)

FormTypeOK ==
    /\ visitor \in BOOLEAN /\ up \in BOOLEAN /\ regime \in BOOLEAN
    /\ vat \in BOOLEAN /\ simple \in BOOLEAN /\ price \in Nat
    /\ lines \in Seq(LineRows) /\ lines # << >>
    /\ notes \in {"none", "typed", "mention"}

\* What a draft says of the form it was kept from.
DraftTrue(d) ==
    /\ d.lines \in Seq(LineRows) /\ d.lines # << >> /\ d.vat \in BOOLEAN /\ d.typed \in Nat
    /\ d.notes \in {"none", "typed", "mention"}
    /\ d.exact => d.seen = computeTotals(d.lines, d.vat)
    /\ d.typed > 0 => d.vat /\ d.lines = <<Line(100, 5 * d.typed, 200)>>

FormInv ==
    /\ FormTypeOK
    /\ draft # NoQuote => DraftTrue(draft)
    /\ QuoteAgrees

LEMMA SameTotals == \A s, b: computeDraftTotals(s, b) = computeTotals(s, b)
  BY DEF computeDraftTotals, computeTotals

LEMMA HalfTyped ==
  ASSUME up \in BOOLEAN, NEW m \in Nat
  PROVE  /\ Half(m, 600) \in Int /\ Half(m, 1000) \in Int /\ Half(0, 600) = 0 /\ Half(0, 1000) = 0
         /\ Half(m, 600) \in Nat
<1>1. /\ (2 * m + 600) \div 1200 \in Nat /\ (2 * m + 599) \div 1200 \in Nat
      /\ (2 * m + 1000) \div 2000 \in Nat /\ (2 * m + 999) \div 2000 \in Nat
      /\ 600 \div 1200 = 0 /\ 599 \div 1200 = 0 /\ 1000 \div 2000 = 0 /\ 999 \div 2000 = 0
  OBVIOUS
<1> QED BY <1>1 DEF Half

LEMMA LineTyped ==
  ASSUME up \in BOOLEAN, NEW l \in LineRows, NEW b \in BOOLEAN
  PROVE  /\ computeLineTotalHT(l) \in Nat /\ LineTax(l, b) \in Int
         /\ ~Filled(l) => computeLineTotalHT(l) = 0 /\ LineTax(l, b) = 0
<1>1. l.qty \in Nat /\ l.price \in Nat /\ l.tva \in Nat
  BY DEF LineRows
<1>2. l.qty * l.price \in Nat /\ (l.price = 0 => l.qty * l.price = 0)
  BY <1>1
<1>3. computeLineTotalHT(l) \in Nat
  BY <1>2, HalfTyped DEF computeLineTotalHT
<1>4. PICK ht \in Nat: ht = computeLineTotalHT(l)
  BY <1>3
<1>5. PICK r \in Nat: r = resolveLineTva(l.tva, b)
  BY <1>1 DEF resolveLineTva
<1>6. ht * r \in Nat /\ (ht = 0 => ht * r = 0)
  OBVIOUS
<1>7. LineTax(l, b) = Half(ht * r, 1000)
  BY <1>4, <1>5 DEF LineTax
<1>8. LineTax(l, b) \in Int
  BY <1>6, <1>7, HalfTyped
<1>9. ASSUME ~Filled(l) PROVE ht = 0 /\ LineTax(l, b) = 0
  <2>1. l.price = 0
    BY <1>1, <1>9 DEF Filled
  <2>2. ht = Half(0, 600)
    BY <1>2, <1>4, <2>1 DEF computeLineTotalHT
  <2>3. ht = 0
    BY <2>2, HalfTyped
  <2>4. LineTax(l, b) = Half(0, 1000)
    BY <1>6, <1>7, <2>3
  <2> QED BY <2>3, <2>4, HalfTyped
<1> QED BY <1>3, <1>4, <1>8, <1>9

\* The lines without a price change no total.
LEMMA FilledTotals ==
  ASSUME up \in BOOLEAN, NEW s \in Seq(LineRows), NEW b \in BOOLEAN
  PROVE  /\ FoldLeft(AddFilled, << >>, s) \in Seq(LineRows)
         /\ computeTotals(FoldLeft(AddFilled, << >>, s), b) = computeTotals(s, b)
<1> DEFINE ht == [l \in LineRows |-> computeLineTotalHT(l)]
           tax == [l \in LineRows |-> LineTax(l, b)]
<1>1. ht \in [LineRows -> Int] /\ tax \in [LineRows -> Int]
  BY LineTyped
<1>2. \A l \in LineRows: ~Filled(l) => ht[l] = 0 /\ tax[l] = 0
  BY LineTyped
<1>3. ASSUME NEW a \in Seq(LineRows)
      PROVE  computeTotals(a, b) = Totals(SumOf(Measured(ht, a)), SumOf(Measured(tax, a)))
  <2>1. \A i \in DOMAIN a: a[i] \in LineRows
    OBVIOUS
  <2>2. [i \in DOMAIN a |-> computeLineTotalHT(a[i])] = Measured(ht, a)
    BY <2>1 DEF Measured
  <2>3. [i \in DOMAIN a |-> LineTax(a[i], b)] = Measured(tax, a)
    BY <2>1 DEF Measured
  <2>4. computeTotals(a, b) = Totals(SumOf([i \in DOMAIN a |-> computeLineTotalHT(a[i])]),
                                     SumOf([i \in DOMAIN a |-> LineTax(a[i], b)]))
    BY DEF computeTotals, Each
  <2> HIDE DEF ht, tax
  <2> QED BY <2>2, <2>3, <2>4
<1> HIDE DEF ht, tax
<1>4. FoldLeft(AddFilled, << >>, s) \in Seq(LineRows)
  BY <1>1, <1>2, DroppedForNothing
<1>5. SumOf(Measured(ht, FoldLeft(AddFilled, << >>, s))) = SumOf(Measured(ht, s))
  BY <1>1, <1>2, DroppedForNothing
<1>6. SumOf(Measured(tax, FoldLeft(AddFilled, << >>, s))) = SumOf(Measured(tax, s))
  BY <1>1, <1>2, DroppedForNothing
<1> QED BY <1>3, <1>4, <1>5, <1>6

LEMMA AmountTyped ==
  ASSUME NEW s \in Seq(LineRows), s # << >>
  PROVE  /\ Each(CountedOne, s) \in Seq(LineRows) /\ Each(CountedOne, s) # << >>
         /\ (\A i \in DOMAIN s: s[i].qty > 0) => Each(CountedOne, s) = s
<1>1. DOMAIN s = 1 .. Len(s) /\ Len(s) \in Nat /\ Len(s) # 0 /\ \A i \in 1 .. Len(s): s[i] \in LineRows
  OBVIOUS
<1>2. ASSUME NEW l \in LineRows PROVE CountedOne(l) \in LineRows /\ (l.qty > 0 => CountedOne(l) = l)
  <2>1. l.qty \in Nat /\ [l EXCEPT !.qty = 100] \in LineRows
    BY DEF LineRows
  <2>2. l.qty > 0 => l.qty # 0
    BY <2>1
  <2> QED BY <2>1, <2>2 DEF CountedOne
<1>3. PICK e: e = Each(CountedOne, s)
  OBVIOUS
<1>4. e = [i \in 1 .. Len(s) |-> CountedOne(s[i])]
  BY <1>1, <1>3 DEF Each
<1>5. e \in [1 .. Len(s) -> LineRows]
  BY <1>1, <1>2, <1>4
<1>6. e \in Seq(LineRows) /\ Len(e) = Len(s)
  BY <1>1, <1>5
<1>7. ASSUME \A i \in DOMAIN s: s[i].qty > 0 PROVE e = s
  <2>1. \A i \in 1 .. Len(s): e[i] = s[i]
    BY <1>1, <1>2, <1>4, <1>7
  <2>2. s = [i \in 1 .. Len(s) |-> s[i]]
    BY <1>1
  <2> QED BY <1>4, <2>1, <2>2
<1> QED BY <1>1, <1>3, <1>6, <1>7

LEMMA RowTyped ==
  ASSUME NEW qty \in Nat, NEW sixths \in Nat, NEW tva \in Nat
  PROVE  /\ Line(qty, sixths, tva) \in LineRows /\ <<Line(qty, sixths, tva)>> \in Seq(LineRows)
         /\ <<Line(qty, sixths, tva)>> # << >>
<1>1. Line(qty, sixths, tva) \in LineRows
  BY DEF Line, LineRows
<1> QED BY <1>1

LEMMA ShownTyped ==
  ASSUME FormTypeOK
  PROVE  displayLignes \in Seq(LineRows) /\ displayLignes # << >>
<1>1. (IF vat THEN 5 * price ELSE 6 * price) \in Nat /\ (IF vat THEN 200 ELSE 0) \in Nat
  BY DEF FormTypeOK
<1>2. <<SimpleLine>> \in Seq(LineRows) /\ <<SimpleLine>> # << >>
  BY <1>1, RowTyped DEF SimpleLine
<1> QED BY <1>2 DEF displayLignes, FormTypeOK

\* A draft that is kept with the lines that are shown, or with those of them that have a
\* price, says the truth.
LEMMA KeptTrue ==
  ASSUME FormTypeOK, NEW s \in Seq(LineRows), s # << >>, NEW exact \in BOOLEAN,
         exact => computeTotals(s, vat) = computeTotals(displayLignes, vat),
         simple => s = displayLignes
  PROVE  DraftTrue(Kept(s, exact))
<1> DEFINE d == Kept(s, exact)
<1>1. /\ d.lines = s /\ d.vat = vat /\ d.notes = notes /\ d.seen = Shown /\ d.exact = exact
      /\ d.typed = IF simple /\ vat THEN price ELSE 0
  BY DEF Kept
<1>2. Shown = computeTotals(displayLignes, vat)
  BY SameTotals DEF Shown
<1>3. d.typed \in Nat /\ d.vat \in BOOLEAN /\ d.notes \in {"none", "typed", "mention"}
  BY <1>1 DEF FormTypeOK
<1>4. ASSUME d.typed > 0 PROVE d.vat /\ d.lines = <<Line(100, 5 * d.typed, 200)>>
  <2>1. simple /\ vat /\ d.typed = price
    BY <1>1, <1>4 DEF FormTypeOK
  <2>2. s = <<Line(100, 5 * price, 200)>>
    BY <2>1 DEF displayLignes, SimpleLine
  <2> QED BY <1>1, <2>1, <2>2
<1> HIDE DEF d
<1>5. d.exact => d.seen = computeTotals(d.lines, d.vat)
  BY <1>1, <1>2
<1>6. DraftTrue(d)
  BY <1>1, <1>3, <1>4, <1>5 DEF DraftTrue
<1> QED BY <1>6 DEF d

\* The total of a price with VAT, after its two roundings.
LEMMA PriceKept ==
  ASSUME up \in BOOLEAN, NEW p \in Nat, NEW b \in BOOLEAN, b
  PROVE  Distance(computeTotals(<<Line(100, 5 * p, 200)>>, b).TTC, p) <= 1
<1> DEFINE l == Line(100, 5 * p, 200)
<1>1. l.qty = 100 /\ l.price = 5 * p /\ l.tva = 200 /\ l \in LineRows
  BY DEF Line, LineRows
<1> HIDE DEF l
<1>2. PICK ht \in Nat: ht = computeLineTotalHT(l)
  BY <1>1, LineTyped
<1>3. PICK tax \in Int: tax = LineTax(l, b)
  BY <1>1, LineTyped
<1>4. ht = Half(500 * p, 600)
  BY <1>1, <1>2 DEF computeLineTotalHT
<1>5. 1200 * ht <= 1000 * p + 600 /\ 1000 * p + 599 < 1200 * ht + 1200
  <2>1. ht = (1000 * p + 600) \div 1200 \/ ht = (1000 * p + 599) \div 1200
    BY <1>4 DEF Half
  <2> QED BY <2>1
<1>6. tax = Half(200 * ht, 1000)
  <2>1. resolveLineTva(l.tva, b) = 200
    BY <1>1 DEF resolveLineTva, Rates
  <2>2. tax = Half(ht * 200, 1000)
    <3>1. PICK r: r = resolveLineTva(l.tva, b)
      OBVIOUS
    <3>2. LineTax(l, b) = Half(ht * r, 1000)
      BY <1>2, <3>1, Zenon DEF LineTax
    <3>3. r = 200
      BY <2>1, <3>1, Zenon
    <3>4. tax = Half(ht * r, 1000)
      BY <1>3, <3>2, Zenon
    <3> QED BY <3>3, <3>4
  <2>3. ht * 200 = 200 * ht
    OBVIOUS
  <2> QED BY <2>2, <2>3
<1>7. 2000 * tax <= 400 * ht + 1000 /\ 400 * ht + 999 < 2000 * tax + 2000
  <2>1. tax = (400 * ht + 1000) \div 2000 \/ tax = (400 * ht + 999) \div 2000
    BY <1>6 DEF Half
  <2> QED BY <2>1
<1>8. computeTotals(<<l>>, b).TTC = ht + tax
  <2>1. DOMAIN <<l>> = 1 .. 1 /\ <<l>>[1] = l /\ 1 .. 1 = {1}
    OBVIOUS
  <2>2. [i \in DOMAIN <<l>> |-> computeLineTotalHT(<<l>>[i])] = <<ht>>
    BY <1>2, <2>1
  <2>3. [i \in DOMAIN <<l>> |-> LineTax(<<l>>[i], b)] = <<tax>>
    <3>1. \A i \in DOMAIN <<l>>: LineTax(<<l>>[i], b) = tax
      BY <1>3, <2>1, Zenon
    <3>2. [i \in DOMAIN <<l>> |-> tax] = <<tax>>
      BY <2>1
    <3>3. [i \in DOMAIN <<l>> |-> LineTax(<<l>>[i], b)] = [i \in DOMAIN <<l>> |-> tax]
      BY <3>1, Zenon
    <3> QED BY <3>2, <3>3, Zenon
  <2>4. SumOf(<<ht>>) = ht /\ SumOf(<<tax>>) = tax
    <3>1. ASSUME NEW x \in Int PROVE SumOf(<<x>>) = x
      <4>1. << >> \in Seq(Int) /\ Append(<< >>, x) = <<x>>
        OBVIOUS
      <4>2. SumOf(<<x>>) = 0 + x
        BY <4>1, SumAppend, SumEmpty
      <4> QED BY <4>2
    <3> QED BY <3>1
  <2>5. computeTotals(<<l>>, b) = Totals(SumOf(<<ht>>), SumOf(<<tax>>))
    BY <2>2, <2>3 DEF computeTotals, Each
  <2>6. computeTotals(<<l>>, b) = Totals(ht, tax)
    BY <2>4, <2>5
  <2>7. Totals(ht, tax).TTC = ht + tax
    BY DEF Totals
  <2> QED BY <2>6, <2>7, Zenon
<1>9. ht + tax - p <= 1 /\ p - (ht + tax) <= 1
  BY <1>5, <1>7
<1>10. Distance(ht + tax, p) <= 1
  BY <1>9 DEF Distance
<1> QED BY <1>8, <1>10 DEF l

\* createDevis makes a quote that agrees with a true draft.
LEMMA CreatedAgrees ==
  ASSUME up \in BOOLEAN, NEW d, DraftTrue(d), NEW b \in BOOLEAN
  PROVE  LET q == createDevis(d, b) IN
         /\ q.vat = q.from.vat /\ q.from.exact => q.totals = q.from.seen
         /\ q.vat /\ q.from.typed > 0 => Distance(q.totals.TTC, q.from.typed) <= 1
         /\ q.mention <=> ~q.vat \/ q.from.notes = "mention"
<1> DEFINE q == createDevis(d, b)
<1>1. /\ q.totals = computeTotals(d.lines, b) /\ q.vat = b /\ q.from = d
      /\ q.mention = Mention(d.notes, b)
  BY DEF createDevis
<1> HIDE DEF q
<1>2. ASSUME q.vat = q.from.vat, q.from.exact PROVE q.totals = q.from.seen
  BY <1>1, <1>2 DEF DraftTrue
<1>3. ASSUME q.vat, q.from.typed > 0 PROVE Distance(q.totals.TTC, q.from.typed) <= 1
  <2>1. q.totals = computeTotals(<<Line(100, 5 * d.typed, 200)>>, b) /\ d.typed \in Nat /\ b
    BY <1>1, <1>3 DEF DraftTrue
  <2> QED BY <1>1, <2>1, PriceKept
<1>4. q.mention <=> ~q.vat \/ q.from.notes = "mention"
  BY <1>1 DEF Mention
<1> QED BY <1>2, <1>3, <1>4 DEF q

\* Where a double is rounded to does not change.
LEMMA TotalsStay ==
  ASSUME up' = up, NEW s, NEW b
  PROVE  computeTotals(s, b)' = computeTotals(s, b)
<1>1. ASSUME NEW m, NEW d PROVE Half(m, d)' = Half(m, d)
  BY DEF Half
<1>2. ASSUME NEW l PROVE computeLineTotalHT(l)' = computeLineTotalHT(l)
  BY <1>1 DEF computeLineTotalHT
<1>3. ASSUME NEW l PROVE LineTax(l, b)' = LineTax(l, b)
  BY DEF LineTax, computeLineTotalHT, Half
<1>4. [i \in DOMAIN s |-> computeLineTotalHT(s[i])]' = [i \in DOMAIN s |-> computeLineTotalHT(s[i])]
  BY DEF computeLineTotalHT, Half
<1>5. [i \in DOMAIN s |-> LineTax(s[i], b)]' = [i \in DOMAIN s |-> LineTax(s[i], b)]
  BY DEF LineTax, computeLineTotalHT, Half
<1> QED BY <1>4, <1>5 DEF computeTotals, Each

LEMMA DraftStays ==
  ASSUME up' = up, NEW d, DraftTrue(d)
  PROVE  DraftTrue(d)'
<1>1. computeTotals(d.lines, d.vat)' = computeTotals(d.lines, d.vat)
  BY TotalsStay
<1> QED BY <1>1 DEF DraftTrue, Line

\* The draft of the next state, where it is kept or stays as it is.
LEMMA NextDraft ==
  ASSUME FormInv, up' = up, draft' = draft
  PROVE  (draft # NoQuote => DraftTrue(draft))'
<1>1. PICK d: d = draft
  OBVIOUS
<1>2. d # NoQuote => DraftTrue(d)'
  BY <1>1, DraftStays DEF FormInv
<1> QED BY <1>1, <1>2 DEF DraftTrue

LEMMA NewDraft ==
  ASSUME FormInv, up' = up, NEW d, DraftTrue(d), draft' = d
  PROVE  (draft # NoQuote => DraftTrue(draft))'
<1>1. DraftTrue(d)'
  BY DraftStays
<1> QED BY <1>1 DEF DraftTrue

LEMMA NewQuote ==
  ASSUME up \in BOOLEAN, NEW d, DraftTrue(d), NEW b \in BOOLEAN, made' = createDevis(d, b)
  PROVE  QuoteAgrees'
<1>1. PICK q: q = createDevis(d, b)
  OBVIOUS
<1>2. /\ q.vat = q.from.vat /\ q.from.exact => q.totals = q.from.seen
      /\ q.vat /\ q.from.typed > 0 => Distance(q.totals.TTC, q.from.typed) <= 1
      /\ q.mention <=> ~q.vat \/ q.from.notes = "mention"
  BY <1>1, CreatedAgrees
<1> QED BY <1>1, <1>2 DEF QuoteAgrees

LEMMA FormStarts == QuoteFormInit => FormInv
<1> SUFFICES ASSUME QuoteFormInit PROVE FormInv
  OBVIOUS
<1>1. FormTypeOK
  <2>1. lines \in Seq(LineRows) /\ lines # << >>
    BY RowTyped DEF QuoteFormInit, NewLine
  <2> QED BY <2>1 DEF QuoteFormInit, FormTypeOK
<1> QED BY <1>1 DEF QuoteFormInit, FormInv, QuoteAgrees

\* What is typed keeps the form well formed, and neither the draft nor the quote changes.
LEMMA TypingKeeps ==
  ASSUME FormInv, up' = up, draft' = draft, made' = made, FormTypeOK'
  PROVE  FormInv'
<1>1. QuoteAgrees'
  BY DEF FormInv, QuoteAgrees
<1> QED BY <1>1, NextDraft DEF FormInv

LEMMA EditKeeps ==
  ASSUME FormInv,
         \/ TypePrice \/ AddLine \/ ToggleMode \/ TypeNotes \/ ToggleFranchise
         \/ \E i \in 1 .. MaxItems, item \in Items: TypeLine(i, item)
  PROVE  FormInv'
<1> USE DEF FormInv
<1> SUFFICES FormTypeOK'
  BY TypingKeeps DEF TypePrice, AddLine, ToggleMode, TypeNotes, ToggleFranchise, TypeLine
<1>1. CASE TypePrice
  BY <1>1, FormAssumption DEF TypePrice, FormTypeOK
<1>2. CASE ToggleMode \/ TypeNotes
  BY <1>2 DEF ToggleMode, TypeNotes, FormTypeOK
<1>3. CASE AddLine
  <2>1. lines[1] \in LineRows
    BY DEF FormTypeOK
  <2>2. (IF vat THEN lines[1].tva ELSE 0) \in Nat
    BY <2>1 DEF LineRows
  <2>3. PICK l \in LineRows: lines' = Append(lines, l)
    BY <1>3, <2>2, RowTyped DEF AddLine, NewLine
  <2>4. PICK t: t = Append(lines, l)
    OBVIOUS
  <2>5. t \in Seq(LineRows) /\ t # << >>
    <3>1. t \in Seq(LineRows) /\ Len(t) = Len(lines) + 1 /\ Len(lines) \in Nat
      BY <2>4 DEF FormTypeOK
    <3> QED BY <3>1
  <2> QED BY <1>3, <2>3, <2>4, <2>5 DEF AddLine, FormTypeOK
<1>4. CASE ToggleFranchise
  <2>1. PICK s: s = [i \in DOMAIN lines |-> [lines[i] EXCEPT !.tva = 0]]
    OBVIOUS
  <2>2. s \in Seq(LineRows) /\ s # << >>
    <3>1. /\ DOMAIN lines = 1 .. Len(lines) /\ Len(lines) \in Nat /\ Len(lines) # 0
          /\ \A i \in 1 .. Len(lines): lines[i] \in LineRows
      BY DEF FormTypeOK
    <3>2. \A l \in LineRows: [l EXCEPT !.tva = 0] \in LineRows
      BY DEF LineRows
    <3>3. s \in [1 .. Len(lines) -> LineRows]
      BY <2>1, <3>1, <3>2
    <3>4. s \in Seq(LineRows) /\ Len(s) = Len(lines)
      BY <3>1, <3>3
    <3> QED BY <3>1, <3>4
  <2>3. lines' = IF vat THEN s ELSE lines
    BY <1>4, <2>1 DEF ToggleFranchise
  <2> QED BY <1>4, <2>2, <2>3 DEF ToggleFranchise, FormTypeOK
<1>5. ASSUME NEW i \in 1 .. MaxItems, NEW item \in Items, TypeLine(i, item) PROVE FormTypeOK'
  <2>1. lines \in Seq(LineRows) /\ i \in DOMAIN lines /\ lines[i] \in LineRows
    BY <1>5 DEF TypeLine, FormTypeOK
  <2>2. item.qty \in Nat /\ 6 * item.cents \in Nat /\ (IF vat THEN item.tva ELSE 0) \in Nat
    BY FormAssumption
  <2>3. Typed(item) \in LineRows
    BY <2>2, RowTyped DEF Typed
  <2>4. PICK l \in LineRows: l = [Typed(item) EXCEPT !.tva = IF vat THEN @ ELSE lines[i].tva]
    BY <2>1, <2>3 DEF LineRows
  <2>5. PICK s: s = [lines EXCEPT ![i] = l]
    OBVIOUS
  <2>6. s \in Seq(LineRows) /\ Len(s) = Len(lines)
    BY <2>1, <2>5
  <2>7. lines' = s
    BY <1>5, <2>4, <2>5 DEF TypeLine
  <2>8. s # << >>
    BY <2>1, <2>6
  <2> QED BY <1>5, <2>6, <2>7, <2>8 DEF TypeLine, FormTypeOK
<1> QED BY <1>1, <1>2, <1>3, <1>4, <1>5

LEMMA AutosaveKeeps == ASSUME FormInv, Autosaved PROVE FormInv'
<1>1. FormTypeOK /\ up \in BOOLEAN /\ vat \in BOOLEAN /\ simple \in BOOLEAN
  BY DEF FormInv, FormTypeOK
<1>2. PICK s: s = IF simple THEN displayLignes ELSE FoldLeft(AddFilled, << >>, lines)
  OBVIOUS
<1>3. s # << >> /\ draft' = Kept(Each(CountedOne, s), \A i \in DOMAIN s: s[i].qty > 0)
  BY <1>2 DEF Autosaved
<1>4. s \in Seq(LineRows) /\ computeTotals(s, vat) = computeTotals(displayLignes, vat)
  <2>1. CASE simple
    BY <1>1, <1>2, <2>1, ShownTyped
  <2>2. CASE ~simple
    BY <1>1, <1>2, <2>2, FilledTotals DEF displayLignes, FormTypeOK
  <2> QED BY <2>1, <2>2
<1>5. PICK exact \in BOOLEAN: exact = \A i \in DOMAIN s: s[i].qty > 0
  OBVIOUS
<1>6. PICK e: e = Each(CountedOne, s)
  OBVIOUS
<1>7. e \in Seq(LineRows) /\ e # << >> /\ (exact => e = s)
  BY <1>3, <1>4, <1>5, <1>6, AmountTyped
<1>8. simple => e = displayLignes
  <2> SUFFICES ASSUME simple PROVE exact
    BY <1>2, <1>7
  <2>1. s = <<SimpleLine>> /\ SimpleLine.qty = 100
    BY <1>2 DEF displayLignes, SimpleLine, Line
  <2> QED BY <1>5, <2>1
<1>9. DraftTrue(Kept(e, exact))
  BY <1>1, <1>4, <1>7, <1>8, KeptTrue
<1>10. PICK d: d = Kept(e, exact)
  OBVIOUS
<1>11. draft' = d
  BY <1>3, <1>5, <1>6, <1>10
<1>12. up' = up /\ (draft # NoQuote => DraftTrue(draft))'
  BY <1>9, <1>10, <1>11, NewDraft DEF Autosaved
<1>13. FormTypeOK' /\ QuoteAgrees'
  BY <1>1 DEF Autosaved, entry, FormInv, FormTypeOK, QuoteAgrees
<1> QED BY <1>12, <1>13 DEF FormInv

LEMMA ShownKept == ASSUME FormTypeOK PROVE DraftTrue(Kept(displayLignes, TRUE))
  BY ShownTyped, KeptTrue

LEMMA SubmitGuestKeeps == ASSUME FormInv, SubmitGuest PROVE FormInv'
<1>1. FormTypeOK
  BY DEF FormInv
<1>2. PICK d: d = Kept(displayLignes, TRUE) /\ DraftTrue(d)
  BY <1>1, ShownKept
<1>3. up' = up /\ (draft # NoQuote => DraftTrue(draft))'
  BY <1>2, NewDraft DEF SubmitGuest
<1>4. FormTypeOK' /\ QuoteAgrees'
  BY <1>1 DEF SubmitGuest, entry, FormInv, FormTypeOK, QuoteAgrees
<1> QED BY <1>3, <1>4 DEF FormInv

LEMMA ReopenKeeps == ASSUME FormInv, Reopen PROVE FormInv'
<1>1. FormTypeOK'
  BY DEF Reopen, FormInv, FormTypeOK, DraftTrue
<1> QED BY <1>1, TypingKeeps DEF Reopen

LEMMA SubmitUserKeeps == ASSUME FormInv, SubmitUser PROVE FormInv'
<1>1. FormTypeOK /\ up \in BOOLEAN /\ regime \in BOOLEAN
  BY DEF FormInv, FormTypeOK
<1>2. PICK d: d = Kept(displayLignes, TRUE) /\ DraftTrue(d)
  BY <1>1, ShownKept
<1>3. QuoteAgrees'
  BY <1>1, <1>2, NewQuote DEF SubmitUser
<1>4. FormTypeOK' /\ up' = up /\ draft' = draft
  BY <1>1 DEF SubmitUser, entry, FormTypeOK
<1> QED BY <1>3, <1>4, NextDraft DEF FormInv

LEMMA ClaimKeeps == ASSUME FormInv, Claim PROVE FormInv'
<1>1. FormTypeOK /\ up \in BOOLEAN /\ regime \in BOOLEAN
  BY DEF FormInv, FormTypeOK
<1>2. PICK d: d = draft /\ DraftTrue(d)
  BY DEF Claim, FormInv
<1>3. PICK b \in BOOLEAN: b = (regime /\ d.vat)
  BY <1>1, <1>2 DEF DraftTrue
<1>4. regime' = b /\ made' = createDevis(d, b)
  BY <1>2, <1>3 DEF Claim
<1>5. QuoteAgrees'
  BY <1>1, <1>2, <1>4, NewQuote
<1>6. FormTypeOK' /\ draft' = NoQuote
  BY <1>1, <1>4 DEF Claim, entry, FormTypeOK
<1> QED BY <1>5, <1>6 DEF FormInv

LEMMA RegimeKeeps == ASSUME FormInv, ChangeRegime PROVE FormInv'
<1>1. FormTypeOK'
  BY DEF ChangeRegime, entry, FormInv, FormTypeOK
<1> QED BY <1>1, TypingKeeps DEF ChangeRegime

LEMMA OpenKeeps == ASSUME FormInv, OpenForm PROVE FormInv'
<1>1. (IF visitor \/ regime THEN 200 ELSE 0) \in Nat
  OBVIOUS
<1>2. PICK s: s = <<NewLine(IF visitor \/ regime THEN 200 ELSE 0)>>
  OBVIOUS
<1>3. s \in Seq(LineRows) /\ s # << >> /\ lines' = s
  BY <1>1, <1>2, RowTyped DEF NewLine, OpenForm
<1>4. FormTypeOK'
  BY <1>3 DEF OpenForm, FormInv, FormTypeOK
<1>5. QuoteAgrees' /\ up' = up /\ draft' = draft
  BY DEF OpenForm, QuoteAgrees
<1> QED BY <1>4, <1>5, NextDraft DEF FormInv

LEMMA FormKeeps == FormInv /\ [QuoteFormNext]_quoteFormVars => FormInv'
<1> SUFFICES ASSUME FormInv, [QuoteFormNext]_quoteFormVars PROVE FormInv'
  OBVIOUS
<1>1. CASE UNCHANGED quoteFormVars
  <2>1. FormTypeOK' /\ up' = up /\ draft' = draft /\ made' = made
    BY <1>1 DEF quoteFormVars, entry, FormInv, FormTypeOK
  <2> QED BY <2>1, TypingKeeps
<1> QED BY <1>1, EditKeeps, AutosaveKeeps, SubmitGuestKeeps, ReopenKeeps, SubmitUserKeeps, ClaimKeeps,
           RegimeKeeps, OpenKeeps DEF QuoteFormNext

\* However lines and prices are typed, drafts saved, opened again and claimed, and regimes
\* changed, a quote has the totals that the form showed (DevisForm.tsx, numbers.ts, tva.ts).
THEOREM FormAgrees == Spec => []QuoteAgrees
<1>1. Init => FormInv
  BY FormStarts DEF Init
<1>2. FormInv /\ [Next]_vars => FormInv'
  <2>1. [Next]_vars => [QuoteFormNext]_quoteFormVars
    BY DEF Next, vars, others
  <2> QED BY <2>1, FormKeeps
<1>3. FormInv => QuoteAgrees
  BY DEF FormInv
<1> QED BY <1>1, <1>2, <1>3, PTL DEF Spec

-----------------------------------------------------------------------------
(* The page                                                                *)

Columns == {"left", "right", "boxed"}
TextRows == [cols : SUBSET Columns, top : Nat, size : Nat \ {0}, lines : Nat]
Marks == [page : Nat, cols : SUBSET Columns, from : Nat, to : Nat]
Sheets == [page : Nat, marks : SUBSET Marks]

End(t) == t.top + t.lines * t.size
MarkOf(page, t) == Mark(page, t.cols, t.top, End(t))

LEMMA Division ==
  ASSUME NEW a \in Nat, NEW d \in Nat \ {0}
  PROVE  /\ a \div d \in Nat
         /\ \A k \in Nat: k * d <= a => k <= a \div d
<1>1. PICK q \in Int: q = a \div d /\ d * q <= a /\ a < d * q + d
  <2>1. a \div d \in Int /\ d * (a \div d) <= a /\ a < d * (a \div d) + d
    OBVIOUS
  <2> QED BY <2>1
<1>2. q >= 0
  <2> SUFFICES ASSUME q <= -1 PROVE FALSE
    OBVIOUS
  <2>1. d * (q + 1) <= 0
    OBVIOUS
  <2>2. d * (q + 1) = d * q + d
    OBVIOUS
  <2> QED BY <1>1, <2>1, <2>2
<1>3. ASSUME NEW k \in Nat, k * d <= a PROVE k <= q
  <2> SUFFICES ASSUME q + 1 <= k PROVE FALSE
    OBVIOUS
  <2>1. d * (q + 1) <= k * d
    OBVIOUS
  <2>2. d * (q + 1) = d * q + d /\ d * q \in Int /\ k * d \in Int
    OBVIOUS
  <2> QED BY <1>1, <1>3, <2>1, <2>2
<1> QED BY <1>1, <1>2, <1>3

LEMMA TextTyped ==
  ASSUME NEW t \in TextRows
  PROVE  /\ t.cols \in SUBSET Columns /\ t.top \in Nat /\ t.size \in Nat \ {0} /\ t.lines \in Nat
         /\ t.lines * t.size \in Nat /\ End(t) \in Nat /\ t.top <= End(t)
<1>1. t.cols \in SUBSET Columns /\ t.top \in Nat /\ t.size \in Nat \ {0} /\ t.lines \in Nat
  BY DEF TextRows
<1>2. t.lines * t.size \in Nat
  BY <1>1
<1> QED BY <1>1, <1>2 DEF End

\* Where a text goes: what fits stays on the page.
LEMMA PutTyped ==
  ASSUME NEW s \in Sheets, NEW t \in TextRows
  PROVE  /\ Put(s, t) \in Sheets
         /\ End(t) <= PageBottom =>
              Put(s, t) = [page |-> s.page, marks |-> s.marks \union
                              (IF t.lines = 0 THEN {} ELSE {MarkOf(s.page, t)})]
<1>1. s.page \in Nat /\ s.marks \in SUBSET Marks /\ s = [page |-> s.page, marks |-> s.marks]
  BY DEF Sheets
<1> DEFINE room == IF t.top > PageBottom THEN 0 ELSE (PageBottom - t.top) \div t.size
           here == Smaller(room, t.lines)
           over == t.lines - here
           kept == IF here = 0 THEN {} ELSE {Mark(s.page, t.cols, t.top, t.top + here * t.size)}
<1>2. room \in Nat /\ (End(t) <= PageBottom => t.lines <= room)
  <2>1. CASE t.top > PageBottom
    BY <2>1, TextTyped DEF PageBottom
  <2>2. CASE ~(t.top > PageBottom)
    <3>1. PageBottom - t.top \in Nat
      BY <2>2, TextTyped DEF PageBottom
    <3>2. End(t) <= PageBottom => t.lines * t.size <= PageBottom - t.top
      BY TextTyped DEF End, PageBottom
    <3> QED BY <2>2, <3>1, <3>2, TextTyped, Division
  <2> QED BY <2>1, <2>2
<1> HIDE DEF room
<1>3. here \in Nat /\ here <= t.lines /\ over \in Nat /\ (End(t) <= PageBottom => here = t.lines /\ over = 0)
  BY <1>2, TextTyped DEF Smaller
<1> HIDE DEF here
<1>4. here * t.size \in Nat /\ over * t.size \in Nat
  BY <1>3, TextTyped
<1>5. Put(s, t) = IF over = 0 THEN [s EXCEPT !.marks = @ \union kept]
                  ELSE [page |-> s.page + 1,
                        marks |-> s.marks \union kept
                           \union {Mark(s.page + 1, t.cols, PageTop, PageTop + over * t.size)}]
  BY DEF Put, room, here
<1> HIDE DEF over
<1>6. kept \in SUBSET Marks
  BY <1>1, <1>3, <1>4, TextTyped DEF Mark, Marks
<1>7. Mark(s.page + 1, t.cols, PageTop, PageTop + over * t.size) \in Marks
  BY <1>1, <1>4, TextTyped DEF Mark, Marks, PageTop
<1>8. End(t) <= PageBottom => kept = IF t.lines = 0 THEN {} ELSE {MarkOf(s.page, t)}
  BY <1>3 DEF MarkOf, End
<1> HIDE DEF kept
<1>9. [s EXCEPT !.marks = @ \union kept] = [page |-> s.page, marks |-> s.marks \union kept]
  BY <1>1
<1>10. CASE over = 0
  <2>1. Put(s, t) = [page |-> s.page, marks |-> s.marks \union kept]
    BY <1>5, <1>9, <1>10
  <2>2. Put(s, t) \in Sheets
    BY <1>1, <1>6, <2>1 DEF Sheets
  <2> QED BY <1>8, <2>1, <2>2
<1>11. CASE over # 0
  <2>1. Put(s, t) \in Sheets
    BY <1>1, <1>5, <1>6, <1>7, <1>11 DEF Sheets
  <2> QED BY <1>3, <1>11, <2>1
<1> QED BY <1>10, <1>11

Puts(s0, texts) ==
  CHOOSE g: g = [t \in SUBSET DOMAIN texts |->
                    IF t = {} THEN s0 ELSE Put(g[t \ {Max(t)}], texts[Max(t)])]

\* The sheet after each of the texts.
LEMMA PutRuns ==
  ASSUME NEW s0 \in Sheets, NEW texts \in Seq(TextRows)
  PROVE  \E g: /\ g \in [0 .. Len(texts) -> Sheets] /\ g[0] = s0
               /\ FoldLeft(Put, s0, texts) = g[Len(texts)]
               /\ \A k \in 1 .. Len(texts): g[k] = Put(g[k - 1], texts[k])
<1> DEFINE n == Len(texts)
<1>1. n \in Nat /\ DOMAIN texts = 1 .. n /\ \A i \in 1 .. n: texts[i] \in TextRows
  OBVIOUS
<1>2. s0 \in Sheets /\ \A a \in Sheets, t \in TextRows: Put(a, t) \in Sheets
  BY PutTyped
<1> HIDE DEF n
<1> DEFINE step == [p \in Sheets \X (1 .. n) |-> Put(p[1], texts[p[2]])]
<1>3. step \in [Sheets \X (1 .. n) -> Sheets]
  BY <1>1, <1>2
<1>4. \A a \in Sheets, i \in 1 .. n: step[<<a, i>>] = Put(a, texts[i])
  OBVIOUS
<1> HIDE DEF step
<1>5. PICK h: Folds(h, Sheets, s0, step, n)
  BY <1>1, <1>2, <1>3, FoldExists, Zenon
<1>6. h = [t \in SUBSET DOMAIN texts |-> IF t = {} THEN s0 ELSE Put(h[t \ {Max(t)}], texts[Max(t)])]
  <2>1. ASSUME NEW t \in SUBSET (1 .. n), t # {} PROVE h[t] = Put(h[t \ {Max(t)}], texts[Max(t)])
    <3>1. Max(t) \in 1 .. n
      BY <1>1, <2>1, MaxIsIn
    <3>2. h[t \ {Max(t)}] \in Sheets
      BY <1>5 DEF Folds
    <3>3. h[t] = step[<<h[t \ {Max(t)}], Max(t)>>]
      BY <1>5, <2>1 DEF Folds
    <3> QED BY <1>4, <3>1, <3>2, <3>3
  <2>2. h[{}] = s0 /\ {} \in SUBSET (1 .. n)
    BY <1>5 DEF Folds
  <2>3. h = [t \in SUBSET (1 .. n) |-> h[t]]
    BY <1>5 DEF Folds
  <2> QED BY <1>1, <2>1, <2>2, <2>3
<1>7. Puts(s0, texts) = [t \in SUBSET DOMAIN texts |->
          IF t = {} THEN s0 ELSE Put(Puts(s0, texts)[t \ {Max(t)}], texts[Max(t)])]
  BY <1>6, Zenon DEF Puts
<1>8. \A t \in SUBSET (1 .. n):
         Puts(s0, texts)[t] = IF t = {} THEN s0 ELSE Put(Puts(s0, texts)[t \ {Max(t)}], texts[Max(t)])
  BY <1>1, <1>7, Zenon
<1>9. Puts(s0, texts)[1 .. 0] = s0
  <2>1. 1 .. 0 = {} /\ {} \in SUBSET (1 .. n)
    OBVIOUS
  <2> QED BY <1>8, <2>1
<1>10. ASSUME NEW k \in 1 .. n
       PROVE  Puts(s0, texts)[1 .. k] = Put(Puts(s0, texts)[1 .. k - 1], texts[k])
  BY <1>1, <1>8, UpTo
<1> DEFINE g == [k \in 0 .. n |-> Puts(s0, texts)[1 .. k]]
<1>11. \A k \in 1 .. n: g[k] = Put(g[k - 1], texts[k])
  BY <1>1, <1>10
<1>12. g[0] = s0 /\ g[n] = Puts(s0, texts)[1 .. n]
  BY <1>1, <1>9
<1>13. FoldLeft(Put, s0, texts) = Puts(s0, texts)[DOMAIN texts]
  BY DEF FoldLeft, MapThenFoldSet, Puts
<1>14. g \in [0 .. n -> Sheets]
  <2> DEFINE T == {k \in 0 .. n: g[k] \in Sheets}
  <2>1. 0 \in T
    BY <1>1, <1>2, <1>12
  <2>2. ASSUME NEW k \in 0 .. n - 1, k \in T PROVE k + 1 \in T
    <3>1. k + 1 \in 1 .. n /\ k + 1 - 1 = k /\ k + 1 \in 0 .. n
      BY <1>1
    <3> HIDE DEF g
    <3>2. g[k + 1] = Put(g[k], texts[k + 1])
      BY <1>11, <3>1
    <3> QED BY <1>1, <1>2, <2>2, <3>1, <3>2
  <2>3. 0 .. n \subseteq T
    <3> HIDE DEF T
    <3> QED BY <1>1, <2>1, <2>2, Induct
  <2>4. \A k \in 0 .. n: g[k] \in Sheets
    BY <2>3
  <2> QED BY <2>4
<1> HIDE DEF g
<1>15. FoldLeft(Put, s0, texts) = g[n]
  BY <1>1, <1>12, <1>13
<1>16. /\ g \in [0 .. Len(texts) -> Sheets] /\ g[0] = s0
       /\ FoldLeft(Put, s0, texts) = g[Len(texts)]
       /\ \A k \in 1 .. Len(texts): g[k] = Put(g[k - 1], texts[k])
  BY <1>11, <1>12, <1>14, <1>15 DEF n
<1> QED BY <1>16, Zenon

\* Texts that fit leave the page, and what is on the sheet is what was there and them.
LEMMA Drawn ==
  ASSUME NEW s \in Sheets, NEW texts \in Seq(TextRows), \A t \in Range(texts): End(t) <= PageBottom
  PROVE  /\ FoldLeft(Put, s, texts) \in Sheets /\ FoldLeft(Put, s, texts).page = s.page
         /\ \A m \in FoldLeft(Put, s, texts).marks:
               m \in s.marks \/ \E t \in Range(texts): m = MarkOf(s.page, t)
<1> DEFINE n == Len(texts)
<1>1. n \in Nat /\ \A i \in 1 .. n: texts[i] \in TextRows /\ texts[i] \in Range(texts)
  BY DEF Range
<1>2. PICK g: /\ g \in [0 .. Len(texts) -> Sheets] /\ g[0] = s
              /\ FoldLeft(Put, s, texts) = g[Len(texts)]
              /\ \A k \in 1 .. Len(texts): g[k] = Put(g[k - 1], texts[k])
  BY PutRuns
<1>3. /\ g \in [0 .. n -> Sheets] /\ g[0] = s /\ FoldLeft(Put, s, texts) = g[n]
      /\ \A k \in 1 .. n: g[k] = Put(g[k - 1], texts[k])
  BY <1>2
<1> HIDE DEF n
<1> DEFINE Good(k) == /\ g[k].page = s.page
                      /\ \A m \in g[k].marks:
                            m \in s.marks \/ \E t \in Range(texts): m = MarkOf(s.page, t)
           T == {k \in 0 .. n: Good(k)}
<1>4. 0 \in T
  BY <1>1, <1>3
<1>5. ASSUME NEW k \in 0 .. n - 1, k \in T PROVE k + 1 \in T
  <2>1. k + 1 \in 1 .. n /\ k + 1 - 1 = k /\ k + 1 \in 0 .. n /\ k \in 0 .. n
    BY <1>1
  <2>2. PICK t \in TextRows: t = texts[k + 1] /\ t \in Range(texts) /\ End(t) <= PageBottom
    BY <1>1, <2>1
  <2>3. PICK a \in Sheets: a = g[k]
    BY <1>3, <2>1
  <2>4. g[k + 1] = Put(a, t)
    BY <1>3, <2>1, <2>2, <2>3
  <2>5. g[k + 1] = [page |-> a.page, marks |-> a.marks \union
                       (IF t.lines = 0 THEN {} ELSE {MarkOf(a.page, t)})]
    BY <2>2, <2>4, PutTyped
  <2>6. Good(k) /\ a.page = s.page
    BY <1>5, <2>3
  <2>7. g[k + 1].page = s.page
    BY <2>5, <2>6
  <2>8. ASSUME NEW m \in g[k + 1].marks
        PROVE  m \in s.marks \/ \E u \in Range(texts): m = MarkOf(s.page, u)
    <3>1. m \in a.marks \/ m = MarkOf(s.page, t)
      BY <2>5, <2>6
    <3> QED BY <2>2, <2>3, <2>6, <3>1
  <2> QED BY <2>1, <2>7, <2>8
<1>6. n \in T
  <2>1. n \in 0 .. n
    BY <1>1
  <2> HIDE DEF T
  <2> QED BY <1>1, <1>4, <1>5, <2>1, Induct
<1>7. n \in 0 .. n
  BY <1>1
<1> QED BY <1>3, <1>6, <1>7

\* Nothing on the sheet stands on something else, and the page that is drawn on is
\* used down to a height, in each column.
Above(m, left, right, boxed) ==
    /\ "left" \in m.cols => m.to <= left
    /\ "right" \in m.cols => m.to <= right
    /\ "boxed" \in m.cols => m.to <= boxed

Clear(s, left, right, boxed) ==
    /\ \A m \in s.marks: m.page <= s.page /\ (m.page = s.page => Above(m, left, right, boxed))
    /\ \A m, o \in s.marks: ~Overprint(m, o)

\* A place from top to end in some columns.
Place(cols, top, end) == [cols |-> cols, top |-> top, end |-> end]
Sits(t) == Place(t.cols, t.top, End(t))
Apart(p, q) == p.cols \intersect q.cols = {} \/ p.end <= q.top \/ q.end <= p.top
Beside(s, p) == \A m \in s.marks: m.page = s.page => Apart(Place(m.cols, m.from, m.to), p)
EndsAbove(p, left, right, boxed) ==
    /\ "left" \in p.cols => p.end <= left
    /\ "right" \in p.cols => p.end <= right
    /\ "boxed" \in p.cols => p.end <= boxed

LEMMA Written ==
  ASSUME NEW s \in Sheets, NEW l, NEW r, NEW b, Clear(s, l, r, b),
         NEW texts \in Seq(TextRows),
         \A t \in Range(texts): End(t) <= PageBottom /\ Beside(s, Sits(t)) /\ EndsAbove(Sits(t), l, r, b),
         \A t, u \in Range(texts): t = u \/ Apart(Sits(t), Sits(u))
  PROVE  /\ FoldLeft(Put, s, texts) \in Sheets /\ FoldLeft(Put, s, texts).page = s.page
         /\ Clear(FoldLeft(Put, s, texts), l, r, b)
<1>1. PICK f \in Sheets: f = FoldLeft(Put, s, texts) /\ f.page = s.page
  BY Drawn
<1>2. \A m \in f.marks: m \in s.marks \/ \E t \in Range(texts): m = MarkOf(s.page, t)
  BY <1>1, Drawn
<1>3. \A t \in Range(texts): t \in TextRows
  BY DEF Range
<1>4. s.page \in Nat
  BY DEF Sheets
<1>5. ASSUME NEW t \in TextRows
      PROVE  LET m == MarkOf(s.page, t) IN
             m.page = s.page /\ m.cols = t.cols /\ m.from = t.top /\ m.to = End(t)
  BY DEF MarkOf, Mark
<1>6. ASSUME NEW m \in f.marks
      PROVE  m.page <= f.page /\ (m.page = f.page => Above(m, l, r, b))
  <2>1. CASE m \in s.marks
    BY <1>1, <2>1 DEF Clear
  <2>2. ASSUME NEW t \in Range(texts), m = MarkOf(s.page, t)
        PROVE  m.page <= f.page /\ Above(m, l, r, b)
    <3>1. EndsAbove(Sits(t), l, r, b) /\ t \in TextRows
      BY <1>3
    <3>2. m.page = s.page /\ m.cols = t.cols /\ m.to = End(t)
      BY <1>5, <2>2, <3>1
    <3>3. Above(m, l, r, b)
      BY <3>1, <3>2 DEF Above, EndsAbove, Sits, Place
    <3> QED BY <1>1, <1>4, <3>2, <3>3
  <2> QED BY <1>2, <2>1, <2>2
<1>7. ASSUME NEW m \in s.marks, NEW t \in Range(texts), NEW o, o = MarkOf(s.page, t)
      PROVE  ~Overprint(m, o) /\ ~Overprint(o, m)
  <2>1. o.page = s.page /\ o.cols = t.cols /\ o.from = t.top /\ o.to = End(t)
    BY <1>3, <1>5, <1>7
  <2>2. m.from \in Nat /\ m.to \in Nat
    BY DEF Sheets, Marks
  <2>3. t.top \in Nat /\ End(t) \in Nat
    BY <1>3, TextTyped
  <2>4. CASE m.page # s.page
    BY <2>1, <2>4 DEF Overprint
  <2>5. CASE m.page = s.page
    <3>1. m.cols \intersect t.cols = {} \/ m.to <= t.top \/ End(t) <= m.from
      BY <2>5 DEF Beside, Apart, Sits, Place
    <3> QED BY <2>1, <2>2, <2>3, <3>1 DEF Overprint
  <2> QED BY <2>4, <2>5
<1>8. ASSUME NEW t \in Range(texts), NEW u \in Range(texts), NEW m, m = MarkOf(s.page, t),
             NEW o, o = MarkOf(s.page, u)
      PROVE  ~Overprint(m, o)
  <2>1. CASE t = u
    BY <1>8, <2>1 DEF Overprint
  <2>2. CASE t # u
    <3>1. t.cols \intersect u.cols = {} \/ End(t) <= u.top \/ End(u) <= t.top
      BY <2>2 DEF Apart, Sits, Place
    <3>2. m.cols = t.cols /\ m.from = t.top /\ m.to = End(t)
      BY <1>3, <1>5, <1>8
    <3>3. o.cols = u.cols /\ o.from = u.top /\ o.to = End(u)
      BY <1>3, <1>5, <1>8
    <3>4. t.top \in Nat /\ End(t) \in Nat /\ u.top \in Nat /\ End(u) \in Nat
      BY <1>3, TextTyped
    <3> QED BY <3>1, <3>2, <3>3, <3>4 DEF Overprint
  <2> QED BY <2>1, <2>2
<1>9. \A m, o \in f.marks: ~Overprint(m, o)
  <2> SUFFICES ASSUME NEW m \in f.marks, NEW o \in f.marks PROVE ~Overprint(m, o)
    OBVIOUS
  <2>1. CASE m \in s.marks /\ o \in s.marks
    BY <2>1 DEF Clear
  <2>2. CASE m \in s.marks /\ o \notin s.marks
    BY <1>2, <1>7, <2>2
  <2>3. CASE m \notin s.marks /\ o \in s.marks
    BY <1>2, <1>7, <2>3
  <2>4. CASE m \notin s.marks /\ o \notin s.marks
    BY <1>2, <1>8, <2>4
  <2> QED BY <2>1, <2>2, <2>3, <2>4
<1>10. Clear(f, l, r, b)
  BY <1>6, <1>9 DEF Clear
<1> QED BY <1>1, <1>10

\* The page stays clear below.
LEMMA Lower ==
  ASSUME NEW s \in Sheets, NEW l \in Nat, NEW r \in Nat, NEW b \in Nat, Clear(s, l, r, b),
         NEW l2 \in Nat, NEW r2 \in Nat, NEW b2 \in Nat, l <= l2, r <= r2, b <= b2
  PROVE  Clear(s, l2, r2, b2)
<1>1. \A m \in s.marks: m.to \in Nat
  BY DEF Sheets, Marks
<1> QED BY <1>1 DEF Clear, Above

\* What starts below what is used is beside it.
LEMMA StartsBelow ==
  ASSUME NEW s \in Sheets, NEW l \in Nat, NEW r \in Nat, NEW b \in Nat, Clear(s, l, r, b),
         NEW p, p.top \in Nat, p.cols \in SUBSET Columns,
         "left" \in p.cols => l <= p.top, "right" \in p.cols => r <= p.top,
         "boxed" \in p.cols => b <= p.top
  PROVE  Beside(s, p)
<1> SUFFICES ASSUME NEW m \in s.marks, m.page = s.page, m.cols \intersect p.cols # {}
             PROVE  m.to <= p.top
  BY DEF Beside, Apart, Place
<1>1. m.to \in Nat /\ Above(m, l, r, b)
  BY DEF Clear, Sheets, Marks
<1>2. PICK c \in Columns: c \in m.cols /\ c \in p.cols
  OBVIOUS
<1>3. CASE c = "left"
  BY <1>1, <1>2, <1>3 DEF Above
<1>4. CASE c = "right"
  BY <1>1, <1>2, <1>4 DEF Above
<1>5. CASE c = "boxed"
  BY <1>1, <1>2, <1>5 DEF Above
<1> QED BY <1>2, <1>3, <1>4, <1>5 DEF Columns

\* A frame or an image, beside what is on the page.
LEMMA Framed ==
  ASSUME NEW s \in Sheets, NEW l, NEW r, NEW b, Clear(s, l, r, b),
         NEW cols \in SUBSET Columns, NEW top \in Nat, NEW height \in Nat,
         Beside(s, Place(cols, top, top + height)), EndsAbove(Place(cols, top, top + height), l, r, b)
  PROVE  /\ Frame(s, cols, top, height) \in Sheets /\ Frame(s, cols, top, height).page = s.page
         /\ Clear(Frame(s, cols, top, height), l, r, b)
<1>1. PICK k: k = Mark(s.page, cols, top, top + height)
  OBVIOUS
<1>2. /\ k.page = s.page /\ k.cols = cols /\ k.from = top /\ k.to = top + height
      /\ s.page \in Nat /\ k \in Marks
  BY <1>1 DEF Mark, Marks, Sheets
<1>3. PICK f: f = Frame(s, cols, top, height)
  OBVIOUS
<1>4. f \in Sheets /\ f.page = s.page /\ f.marks = s.marks \union {k}
  BY <1>1, <1>2, <1>3 DEF Frame, Sheets
<1>5. \A m \in f.marks: m.page <= f.page /\ (m.page = f.page => Above(m, l, r, b))
  BY <1>2, <1>4 DEF Clear, Above, EndsAbove, Place
<1>6. ASSUME NEW m \in s.marks PROVE ~Overprint(m, k) /\ ~Overprint(k, m)
  <2>1. m.from \in Nat /\ m.to \in Nat
    BY DEF Sheets, Marks
  <2>2. m.page = s.page => m.cols \intersect cols = {} \/ m.to <= top \/ top + height <= m.from
    BY DEF Beside, Apart, Place
  <2> QED BY <1>2, <2>1, <2>2 DEF Overprint
<1>7. \A m, o \in f.marks: ~Overprint(m, o)
  <2>1. ~Overprint(k, k)
    BY DEF Overprint
  <2> QED BY <1>4, <1>6, <2>1 DEF Clear
<1>8. Clear(f, l, r, b)
  BY <1>5, <1>7 DEF Clear
<1> QED BY <1>3, <1>4, <1>8

\* A new page is clear from its top.
LEMMA PageAdded ==
  ASSUME NEW s \in Sheets, NEW l, NEW r, NEW b, Clear(s, l, r, b)
  PROVE  /\ AddPage(s) \in Sheets /\ AddPage(s).page = s.page + 1 /\ Clear(AddPage(s), 0, 0, 0)
<1>1. PICK f: f = AddPage(s)
  OBVIOUS
<1>2. f \in Sheets /\ f.page = s.page + 1 /\ f.marks = s.marks /\ s.page \in Nat
  BY <1>1 DEF AddPage, Sheets
<1>3. \A m \in f.marks: m.page \in Nat /\ m.page <= s.page
  BY <1>2 DEF Clear, Sheets, Marks
<1>4. \A m \in f.marks: m.page <= f.page /\ m.page # f.page
  BY <1>2, <1>3
<1>5. Clear(f, 0, 0, 0)
  BY <1>2, <1>4 DEF Clear
<1> QED BY <1>1, <1>2, <1>5

\* Where the height stands after each function of a quote.
TableY(d) == HeaderEnd(d) + 116 + 22 * d.rows
NotesY(d) == TableY(d) + 28 * Flag(d.notes > 0)
ValidY(d) == NotesY(d) + 18 * Flag(d.valid)
AssuranceY(d) == ValidY(d) + 36 * Flag(d.decennale)
AccordY(d) == AssuranceY(d) + 122
LegalY(d) == AccordY(d) + 44 + 14 * Flag(d.franchise) + 12 * Flag(d.insured)

LastPage(d) ==
    IF d.kind = "DEVIS" THEN 2 + Flag(d.signed)
    ELSE 1 + Flag(4 + d.register + Flag(d.decennale) + Flag(d.insured) + Flag(d.franchise) > 5)
           + Flag(d.hashed)

Used(s, page, left, right, boxed) == s.page = page /\ Clear(s, left, right, boxed)

\* What each function finds: the height, and what is used of the page.
Stage(name, d, h, s) ==
    /\ name \in {"header", "attestation"} => s = [page |-> 1, marks |-> {}]
    /\ name = "client" => h = HeaderEnd(d) /\ Used(s, 1, h, 96, 0)
    /\ name = "table" => h = HeaderEnd(d) /\ Used(s, 1, h + 30, h + 30, 0)
    /\ name = "notes" => h = TableY(d) /\ Used(s, 1, h, h, 0)
    /\ name = "validUntil" => h = NotesY(d) /\ Used(s, 1, h, h, 0)
    /\ name = "assurance" => h = ValidY(d) /\ Used(s, 1, h, h, 0)
    /\ name = "accord" => h = AssuranceY(d) /\ Used(s, 1, h, h, 0)
    /\ name = "legal" => h = AccordY(d) /\ Used(s, 1, h, h, h)
    /\ name = "integrity" => h = LegalY(d) /\ Used(s, 1, h - 13, h - 13, h - 13)
    /\ name = "retractation" => Used(s, 1, PageBottom, PageBottom, PageBottom)
    /\ name = "certificate" => Used(s, 2, PageBottom, PageBottom, PageBottom)
    /\ name = "dates" => Used(s, 1, 660, 660, 0)
    /\ name = "footer" => Used(s, 1, 740, 740, 0)
    /\ name = "end" => s.page = LastPage(d) /\ \A m, o \in s.marks: ~Overprint(m, o)

\* What is left to draw is the end of the list of the document.
Names == {"header", "client", "table", "notes", "validUntil", "assurance", "accord", "legal",
          "integrity", "retractation", "certificate", "dates", "footer", "attestation"}

OnTrack(d, rest) ==
    /\ rest \in Seq(Names) /\ Len(rest) <= Len(Functions(d))
    /\ \A i \in 1 .. Len(rest): rest[i] = Functions(d)[Len(Functions(d)) - Len(rest) + i]

NextName(rest) == IF rest = << >> THEN "end" ELSE Head(rest)

PaperInv ==
    /\ doc \in Papers /\ OnTrack(doc, todo)
    /\ (doc.kind = "ATTESTATION" \/ Fits(doc)) => sheet \in Sheets /\ Stage(NextName(todo), doc, y, sheet)

LEMMA ColumnFacts ==
  /\ Left \in SUBSET Columns /\ Right \in SUBSET Columns /\ Wide \in SUBSET Columns
  /\ Boxed \in SUBSET Columns
  /\ "left" \in Left /\ "right" \notin Left /\ "boxed" \notin Left
  /\ "left" \notin Right /\ "right" \in Right /\ "boxed" \notin Right
  /\ "left" \in Wide /\ "right" \in Wide /\ "boxed" \notin Wide
  /\ "left" \notin Boxed /\ "right" \notin Boxed /\ "boxed" \in Boxed
  /\ Left \intersect Right = {} /\ Right \intersect Left = {}
  /\ Boxed \intersect Right = {} /\ Right \intersect Boxed = {}
  BY DEF Left, Right, Wide, Boxed, Columns

LEMMA DocTyped ==
  ASSUME NEW d \in Papers
  PROVE  /\ d.kind \in {"DEVIS", "FACTURE", "ATTESTATION"}
         /\ d.logo \in Nat /\ d.issuer \in Nat \ {0} /\ d.contact \in Nat /\ d.rows \in Nat
         /\ d.wraps \in Nat /\ d.notes \in Nat /\ d.register \in Nat
         /\ d.franchise \in BOOLEAN /\ d.valid \in BOOLEAN /\ d.decennale \in BOOLEAN
         /\ d.insured \in BOOLEAN /\ d.signed \in BOOLEAN /\ d.hashed \in BOOLEAN
  BY PapersAssumption

LEMMA FlagTyped == \A c \in BOOLEAN: Flag(c) \in {0, 1} /\ (c => Flag(c) = 1) /\ (~c => Flag(c) = 0)
  BY DEF Flag

LEMMA TextIs ==
  ASSUME NEW cols \in SUBSET Columns, NEW top \in Nat, NEW size \in Nat \ {0}, NEW n \in Nat
  PROVE  LET t == Text(cols, top, size, n) IN
         /\ t \in TextRows /\ t.cols = cols /\ t.top = top /\ End(t) = top + n * size
         /\ Sits(t) = Place(cols, top, top + n * size)
  BY DEF Text, TextRows, End, Sits, Place

\* Texts one below the other, below all that is used.
Between(t, l, r, b, l2, r2, b2) ==
    /\ End(t) <= PageBottom
    /\ "left" \in t.cols => l <= t.top /\ End(t) <= l2
    /\ "right" \in t.cols => r <= t.top /\ End(t) <= r2
    /\ "boxed" \in t.cols => b <= t.top /\ End(t) <= b2
Free(t, u) == t = u \/ t.cols \intersect u.cols = {} \/ End(t) <= u.top \/ End(u) <= t.top

LEMMA Stacked ==
  ASSUME NEW s \in Sheets, NEW l \in Nat, NEW r \in Nat, NEW b \in Nat, Clear(s, l, r, b),
         NEW l2 \in Nat, NEW r2 \in Nat, NEW b2 \in Nat, l <= l2, r <= r2, b <= b2,
         NEW texts \in Seq(TextRows),
         \A t \in Range(texts): Between(t, l, r, b, l2, r2, b2),
         \A t, u \in Range(texts): Free(t, u)
  PROVE  /\ FoldLeft(Put, s, texts) \in Sheets /\ FoldLeft(Put, s, texts).page = s.page
         /\ Clear(FoldLeft(Put, s, texts), l2, r2, b2)
<1>1. Clear(s, l2, r2, b2)
  BY Lower
<1>2. ASSUME NEW t \in Range(texts)
      PROVE  Beside(s, Sits(t)) /\ End(t) <= PageBottom /\ EndsAbove(Sits(t), l2, r2, b2)
  <2>1. t \in TextRows
    BY DEF Range
  <2>2. PICK p: p = Sits(t)
    OBVIOUS
  <2>3. p.top = t.top /\ p.cols = t.cols /\ p.top \in Nat /\ p.cols \in SUBSET Columns /\ p.end = End(t)
    BY <2>1, <2>2, TextTyped DEF Sits, Place
  <2>4. /\ "left" \in p.cols => l <= p.top /\ p.end <= l2
        /\ "right" \in p.cols => r <= p.top /\ p.end <= r2
        /\ "boxed" \in p.cols => b <= p.top /\ p.end <= b2
        /\ End(t) <= PageBottom
    BY <2>3 DEF Between
  <2>5. Beside(s, p)
    BY <2>3, <2>4, StartsBelow
  <2>6. EndsAbove(p, l2, r2, b2)
    BY <2>4 DEF EndsAbove
  <2> QED BY <2>2, <2>4, <2>5, <2>6
<1>3. ASSUME NEW t \in Range(texts), NEW u \in Range(texts) PROVE t = u \/ Apart(Sits(t), Sits(u))
  <2>1. Free(t, u)
    OBVIOUS
  <2> QED BY <2>1 DEF Free, Apart, Sits, Place
<1> QED BY <1>1, <1>2, <1>3, Written

LEMMA RangeOne == ASSUME NEW t \in TextRows
                  PROVE  <<t>> \in Seq(TextRows) /\ Range(<<t>>) = {t}
<1>1. DOMAIN <<t>> = {1} /\ <<t>>[1] = t
  OBVIOUS
<1> QED BY <1>1 DEF Range

LEMMA RangeTwo == ASSUME NEW t \in TextRows, NEW u \in TextRows
                  PROVE  <<t, u>> \in Seq(TextRows) /\ Range(<<t, u>>) = {t, u}
<1>1. DOMAIN <<t, u>> = {1, 2} /\ <<t, u>>[1] = t /\ <<t, u>>[2] = u
  OBVIOUS
<1> QED BY <1>1 DEF Range

LEMMA RangeThree == ASSUME NEW t \in TextRows, NEW u \in TextRows, NEW v \in TextRows
                    PROVE  <<t, u, v>> \in Seq(TextRows) /\ Range(<<t, u, v>>) = {t, u, v}
<1>1. DOMAIN <<t, u, v>> = {1, 2, 3} /\ <<t, u, v>>[1] = t /\ <<t, u, v>>[2] = u /\ <<t, u, v>>[3] = v
  OBVIOUS
<1> QED BY <1>1 DEF Range

LEMMA RangeFour ==
  ASSUME NEW t \in TextRows, NEW u \in TextRows, NEW v \in TextRows, NEW w \in TextRows
  PROVE  <<t, u, v, w>> \in Seq(TextRows) /\ Range(<<t, u, v, w>>) = {t, u, v, w}
<1>1. /\ DOMAIN <<t, u, v, w>> = {1, 2, 3, 4} /\ <<t, u, v, w>>[1] = t /\ <<t, u, v, w>>[2] = u
      /\ <<t, u, v, w>>[3] = v /\ <<t, u, v, w>>[4] = w
  OBVIOUS
<1> QED BY <1>1 DEF Range

LEMMA RangeNone == << >> \in Seq(TextRows) /\ Range(<< >>) = {}
  BY DEF Range

LEMMA RangeConcat ==
  ASSUME NEW a \in Seq(TextRows), NEW c \in Seq(TextRows)
  PROVE  a \o c \in Seq(TextRows) /\ Range(a \o c) \subseteq Range(a) \union Range(c)
<1>1. PICK m \in Seq(TextRows): m = a \o c
  BY ConcatProperties
<1>2. /\ Len(m) = Len(a) + Len(c) /\ Len(a) \in Nat /\ Len(c) \in Nat
      /\ DOMAIN m = 1 .. Len(m) /\ DOMAIN a = 1 .. Len(a) /\ DOMAIN c = 1 .. Len(c)
  BY <1>1
<1>3. ASSUME NEW i \in DOMAIN m PROVE m[i] \in Range(a) \union Range(c)
  <2>1. CASE i <= Len(a)
    <3>1. m[i] = a[i] /\ i \in DOMAIN a
      BY <1>1, <1>2, <2>1
    <3> QED BY <3>1 DEF Range
  <2>2. CASE ~(i <= Len(a))
    <3>1. m[i] = c[i - Len(a)] /\ i - Len(a) \in DOMAIN c
      BY <1>1, <1>2, <2>2
    <3> QED BY <3>1 DEF Range
  <2> QED BY <2>1, <2>2
<1> QED BY <1>1, <1>3 DEF Range

LEMMA PutSteps ==
  ASSUME NEW s \in Sheets, NEW m \in Seq(TextRows)
  PROVE  /\ Len(m) = 1 => FoldLeft(Put, s, m) = Put(s, m[1])
         /\ Len(m) = 2 => FoldLeft(Put, s, m) = Put(Put(s, m[1]), m[2])
<1>1. PICK g: /\ g \in [0 .. Len(m) -> Sheets] /\ g[0] = s
              /\ FoldLeft(Put, s, m) = g[Len(m)]
              /\ \A k \in 1 .. Len(m): g[k] = Put(g[k - 1], m[k])
  BY PutRuns
<1>2. ASSUME Len(m) = 1 PROVE g[1] = Put(g[0], m[1])
  <2>1. 1 \in 1 .. Len(m) /\ 1 - 1 = 0
    BY <1>2
  <2> QED BY <1>1, <2>1
<1>3. ASSUME Len(m) = 2 PROVE g[1] = Put(g[0], m[1]) /\ g[2] = Put(g[1], m[2])
  <2>1. 1 \in 1 .. Len(m) /\ 1 - 1 = 0 /\ 2 \in 1 .. Len(m) /\ 2 - 1 = 1
    BY <1>3
  <2> QED BY <1>1, <2>1
<1> QED BY <1>1, <1>2, <1>3

LEMMA PutOne == ASSUME NEW s \in Sheets, NEW t \in TextRows PROVE FoldLeft(Put, s, <<t>>) = Put(s, t)
<1>1. PICK m \in Seq(TextRows): m = <<t>> /\ Len(m) = 1 /\ m[1] = t
  BY RangeOne
<1>2. FoldLeft(Put, s, m) = Put(s, m[1])
  BY <1>1, PutSteps
<1> QED BY <1>1, <1>2

LEMMA PutTwo ==
  ASSUME NEW s \in Sheets, NEW t \in TextRows, NEW u \in TextRows
  PROVE  FoldLeft(Put, s, <<t, u>>) = Put(Put(s, t), u)
<1>1. PICK m \in Seq(TextRows): m = <<t, u>> /\ Len(m) = 2 /\ m[1] = t /\ m[2] = u
  BY RangeTwo
<1>2. FoldLeft(Put, s, m) = Put(Put(s, m[1]), m[2])
  BY <1>1, PutSteps
<1> QED BY <1>1, <1>2

\* One text, or none.
LEMMA OneText ==
  ASSUME NEW s \in Sheets, NEW l \in Nat, NEW r \in Nat, NEW b \in Nat, Clear(s, l, r, b),
         NEW l2 \in Nat, NEW r2 \in Nat, l <= l2, r <= r2,
         NEW top \in Nat, NEW size \in Nat \ {0}, NEW n \in Nat, l <= top, r <= top,
         top + n * size <= PageBottom, top + n * size <= l2, top + n * size <= r2
  PROVE  /\ Put(s, Text(Wide, top, size, n)) \in Sheets
         /\ Put(s, Text(Wide, top, size, n)).page = s.page
         /\ Clear(Put(s, Text(Wide, top, size, n)), l2, r2, b)
<1>1. PICK t \in TextRows: /\ t = Text(Wide, top, size, n) /\ t.cols = Wide /\ t.top = top
                           /\ End(t) = top + n * size /\ Sits(t) = Place(Wide, top, top + n * size)
  BY TextIs, ColumnFacts
<1>2. b <= b
  OBVIOUS
<1>3. PICK m \in Seq(TextRows): m = <<t>> /\ Range(m) = {t} /\ FoldLeft(Put, s, m) = Put(s, t)
  BY RangeOne, PutOne
<1>4. \A v \in Range(m): Between(v, l, r, b, l2, r2, b)
  BY <1>1, <1>3, ColumnFacts DEF Between
<1>5. \A v, u \in Range(m): Free(v, u)
  BY <1>3 DEF Free
<1>6. /\ FoldLeft(Put, s, m) \in Sheets /\ FoldLeft(Put, s, m).page = s.page
      /\ Clear(FoldLeft(Put, s, m), l2, r2, b)
  BY <1>2, <1>4, <1>5, Stacked
<1> QED BY <1>1, <1>3, <1>6

-----------------------------------------------------------------------------
(* The order of the functions                                              *)

LEMMA FunctionsAre ==
  ASSUME NEW d \in Papers
  PROVE  LET f == Functions(d) IN
         /\ f \in Seq(Names)
         /\ d.kind = "DEVIS" =>
              /\ Len(f) = 10 + Flag(d.signed)
              /\ f[1] = "header" /\ f[2] = "client" /\ f[3] = "table" /\ f[4] = "notes"
              /\ f[5] = "validUntil" /\ f[6] = "assurance" /\ f[7] = "accord" /\ f[8] = "legal"
              /\ f[9] = "integrity" /\ f[10] = "retractation" /\ (d.signed => f[11] = "certificate")
         /\ d.kind = "FACTURE" =>
              /\ Len(f) = 5
              /\ f[1] = "header" /\ f[2] = "client" /\ f[3] = "table" /\ f[4] = "dates" /\ f[5] = "footer"
         /\ d.kind = "ATTESTATION" => Len(f) = 2 /\ f[1] = "attestation" /\ f[2] = "footer"
<1>1. CASE d.kind = "DEVIS"
  <2>1. PICK f: f = <<"header", "client", "table", "notes", "validUntil", "assurance", "accord", "legal",
                      "integrity", "retractation">>
    OBVIOUS
  <2>2. /\ f \in Seq(Names) /\ Len(f) = 10
        /\ f[1] = "header" /\ f[2] = "client" /\ f[3] = "table" /\ f[4] = "notes"
        /\ f[5] = "validUntil" /\ f[6] = "assurance" /\ f[7] = "accord" /\ f[8] = "legal"
        /\ f[9] = "integrity" /\ f[10] = "retractation"
    <3>1. f \in Seq(Names)
      BY <2>1 DEF Names
    <3>2. Len(f) = 10
      BY <2>1
    <3>3. /\ f[1] = "header" /\ f[2] = "client" /\ f[3] = "table" /\ f[4] = "notes"
          /\ f[5] = "validUntil" /\ f[6] = "assurance" /\ f[7] = "accord" /\ f[8] = "legal"
          /\ f[9] = "integrity" /\ f[10] = "retractation"
      BY <2>1
    <3> QED BY <3>1, <3>2, <3>3
  <2>3. CASE d.signed
    <3>1. PICK c: c = <<"certificate">>
      OBVIOUS
    <3>2. c \in Seq(Names)
      BY <3>1 DEF Names
    <3>3. Len(c) = 1 /\ c[1] = "certificate"
      BY <3>1
    <3>4. PICK h: h = f \o c
      OBVIOUS
    <3>5. /\ h \in Seq(Names) /\ Len(h) = Len(f) + Len(c)
          /\ \A i \in 1 .. Len(f) + Len(c): h[i] = IF i <= Len(f) THEN f[i] ELSE c[i - Len(f)]
      BY <2>2, <3>4, <3>2, ConcatProperties
    <3>6. /\ h \in Seq(Names) /\ Len(h) = 11 /\ h[11] = "certificate"
          /\ \A i \in 1 .. 10: h[i] = f[i]
      BY <2>2, <3>3, <3>5
    <3>7. Functions(d) = h
      BY <1>1, <2>1, <2>3, <3>1, <3>4 DEF Functions
    <3> QED BY <1>1, <2>2, <2>3, <3>6, <3>7 DEF Flag
  <2>4. CASE ~d.signed
    <3>1. Functions(d) = f
      BY <1>1, <2>1, <2>2, <2>4, ConcatEmptySeq DEF Functions
    <3> QED BY <1>1, <2>2, <2>4, <3>1 DEF Flag
  <2> QED BY <2>3, <2>4
<1>2. CASE d.kind = "FACTURE"
  <2>1. PICK f: f = <<"header", "client", "table", "dates", "footer">>
    OBVIOUS
  <2>2. f \in Seq(Names)
    BY <2>1 DEF Names
  <2>3. /\ Len(f) = 5
        /\ f[1] = "header" /\ f[2] = "client" /\ f[3] = "table" /\ f[4] = "dates" /\ f[5] = "footer"
    BY <2>1
  <2>4. Functions(d) = f
    BY <1>2, <2>1 DEF Functions
  <2> QED BY <1>2, <2>2, <2>3, <2>4
<1>3. CASE d.kind = "ATTESTATION"
  <2>1. PICK f: f = <<"attestation", "footer">>
    OBVIOUS
  <2>2. f \in Seq(Names)
    BY <2>1 DEF Names
  <2>3. Len(f) = 2 /\ f[1] = "attestation" /\ f[2] = "footer"
    BY <2>1
  <2>4. Functions(d) = f
    BY <1>3, <2>1 DEF Functions
  <2> QED BY <1>3, <2>2, <2>3, <2>4
<1> QED BY <1>1, <1>2, <1>3, DocTyped

After(d, name) ==
    CASE name = "header" -> "client"
      [] name = "client" -> "table"
      [] name = "table" -> (IF d.kind = "DEVIS" THEN "notes" ELSE "dates")
      [] name = "notes" -> "validUntil"
      [] name = "validUntil" -> "assurance"
      [] name = "assurance" -> "accord"
      [] name = "accord" -> "legal"
      [] name = "legal" -> "integrity"
      [] name = "integrity" -> "retractation"
      [] name = "retractation" -> (IF d.signed THEN "certificate" ELSE "end")
      [] name = "dates" -> "footer"
      [] name = "attestation" -> "footer"
      [] OTHER -> "end"

Belongs(d, name) ==
    /\ name \in {"header", "client", "table"} => d.kind \in {"DEVIS", "FACTURE"}
    /\ name \in {"notes", "validUntil", "assurance", "accord", "legal", "integrity",
                 "retractation"} => d.kind = "DEVIS"
    /\ name = "certificate" => d.kind = "DEVIS" /\ d.signed
    /\ name = "dates" => d.kind = "FACTURE"
    /\ name = "footer" => d.kind \in {"FACTURE", "ATTESTATION"}
    /\ name = "attestation" => d.kind = "ATTESTATION"

LEMMA AfterIs ==
  ASSUME NEW d \in Papers
  PROVE  /\ After(d, "header") = "client" /\ After(d, "client") = "table"
         /\ d.kind = "DEVIS" => After(d, "table") = "notes"
         /\ d.kind # "DEVIS" => After(d, "table") = "dates"
         /\ After(d, "notes") = "validUntil" /\ After(d, "validUntil") = "assurance"
         /\ After(d, "assurance") = "accord" /\ After(d, "accord") = "legal"
         /\ After(d, "legal") = "integrity" /\ After(d, "integrity") = "retractation"
         /\ d.signed => After(d, "retractation") = "certificate"
         /\ ~d.signed => After(d, "retractation") = "end"
         /\ After(d, "certificate") = "end" /\ After(d, "dates") = "footer"
         /\ After(d, "attestation") = "footer" /\ After(d, "footer") = "end"
  BY DEF After

LEMMA Belonging ==
  ASSUME NEW d \in Papers, d.kind = "DEVIS"
  PROVE  /\ \A name \in {"header", "client", "table", "notes", "validUntil", "assurance", "accord", "legal",
                         "integrity", "retractation"}: Belongs(d, name)
         /\ d.signed => Belongs(d, "certificate")
  BY DEF Belongs

\* Each function is followed by the next one of its document.
LEMMA Following ==
  ASSUME NEW d \in Papers, NEW rest, OnTrack(d, rest), rest # << >>
  PROVE  /\ OnTrack(d, Tail(rest)) /\ Belongs(d, Head(rest))
         /\ NextName(Tail(rest)) = After(d, Head(rest))
<1>1. PICK f: f = Functions(d) /\ f \in Seq(Names)
  BY FunctionsAre
<1>2. /\ rest \in Seq(Names) /\ Len(rest) <= Len(f) /\ Len(rest) \in Nat \ {0} /\ Len(f) \in Nat
      /\ \A i \in 1 .. Len(rest): rest[i] = f[Len(f) - Len(rest) + i]
  BY <1>1 DEF OnTrack
<1>3. PICK t: t = Tail(rest)
  OBVIOUS
<1>4. /\ t \in Seq(Names) /\ Len(t) = Len(rest) - 1
      /\ \A i \in 1 .. Len(t): t[i] = rest[i + 1]
  BY <1>2, <1>3
<1>5. ASSUME NEW i \in 1 .. Len(t) PROVE t[i] = f[Len(f) - Len(t) + i]
  <2>1. i + 1 \in 1 .. Len(rest) /\ Len(f) - Len(rest) + (i + 1) = Len(f) - Len(t) + i
    BY <1>2, <1>4
  <2> QED BY <1>2, <1>4, <2>1
<1>6. OnTrack(d, t)
  BY <1>1, <1>2, <1>4, <1>5 DEF OnTrack
<1>7. PICK k \in 1 .. Len(f): k = Len(f) - Len(rest) + 1
  BY <1>2
<1>8. Head(rest) = f[k] /\ Len(t) = Len(f) - k
  <2>1. Head(rest) = rest[1] /\ 1 \in 1 .. Len(rest)
    BY <1>2
  <2> QED BY <1>2, <1>4, <1>7, <2>1
<1>9. NextName(t) = IF k = Len(f) THEN "end" ELSE f[k + 1]
  <2>1. CASE k = Len(f)
    <3>1. t = << >>
      BY <1>4, <1>8, <2>1
    <3> QED BY <2>1, <3>1 DEF NextName
  <2>2. CASE k # Len(f)
    <3>1. t # << >> /\ 1 \in 1 .. Len(t) /\ Head(t) = t[1]
      BY <1>2, <1>4, <1>7, <1>8, <2>2
    <3>2. t[1] = f[Len(f) - Len(t) + 1]
      BY <1>5, <3>1
    <3>3. Len(f) - Len(t) + 1 = k + 1
      BY <1>2, <1>7, <1>8
    <3> QED BY <2>2, <3>1, <3>2, <3>3 DEF NextName
  <2> QED BY <2>1, <2>2
<1>10. CASE d.kind = "DEVIS"
  <2>1. /\ Len(f) = 10 + Flag(d.signed)
        /\ f[1] = "header" /\ f[2] = "client" /\ f[3] = "table" /\ f[4] = "notes"
        /\ f[5] = "validUntil" /\ f[6] = "assurance" /\ f[7] = "accord" /\ f[8] = "legal"
        /\ f[9] = "integrity" /\ f[10] = "retractation" /\ (d.signed => f[11] = "certificate")
    BY <1>1, <1>10, FunctionsAre
  <2>2. (d.signed => Len(f) = 11) /\ (~d.signed => Len(f) = 10) /\ d.signed \in BOOLEAN
    BY <2>1, DocTyped DEF Flag
  <2>3. k \in 1 .. 11 /\ (k = 11 => d.signed) /\ (d.signed /\ k = 10 => k # Len(f))
        /\ (~d.signed /\ k = 10 => k = Len(f)) /\ (k = 11 => k = Len(f)) /\ (k < 10 => k # Len(f))
    <3>1. CASE d.signed
      <4>1. k \in 1 .. 11 /\ Len(f) = 11
        BY <2>2, <3>1
      <4>2. (k = 11 => k = Len(f)) /\ (k = 10 => k # Len(f)) /\ (k < 10 => k # Len(f))
        BY <4>1
      <4> QED BY <3>1, <4>1, <4>2
    <3>2. CASE ~d.signed
      <4>1. k \in 1 .. 10 /\ Len(f) = 10
        BY <2>2, <3>2
      <4>2. k # 11 /\ (k = 10 => k = Len(f)) /\ (k < 10 => k # Len(f)) /\ k \in 1 .. 11
        BY <4>1
      <4> QED BY <3>2, <4>1, <4>2
    <3> QED BY <2>2, <3>1, <3>2
  <2>4. CASE k = 1
    BY <1>3, <1>6, <1>8, <1>9, <1>10, <2>1, <2>3, <2>4, AfterIs, Belonging
  <2>5. CASE k = 2
    BY <1>3, <1>6, <1>8, <1>9, <1>10, <2>1, <2>3, <2>5, AfterIs, Belonging
  <2>6. CASE k = 3
    BY <1>3, <1>6, <1>8, <1>9, <1>10, <2>1, <2>3, <2>6, AfterIs, Belonging
  <2>7. CASE k = 4
    BY <1>3, <1>6, <1>8, <1>9, <1>10, <2>1, <2>3, <2>7, AfterIs, Belonging
  <2>8. CASE k = 5
    BY <1>3, <1>6, <1>8, <1>9, <1>10, <2>1, <2>3, <2>8, AfterIs, Belonging
  <2>9. CASE k = 6
    BY <1>3, <1>6, <1>8, <1>9, <1>10, <2>1, <2>3, <2>9, AfterIs, Belonging
  <2>10. CASE k = 7
    BY <1>3, <1>6, <1>8, <1>9, <1>10, <2>1, <2>3, <2>10, AfterIs, Belonging
  <2>11. CASE k = 8
    BY <1>3, <1>6, <1>8, <1>9, <1>10, <2>1, <2>3, <2>11, AfterIs, Belonging
  <2>12. CASE k = 9
    BY <1>3, <1>6, <1>8, <1>9, <1>10, <2>1, <2>3, <2>12, AfterIs, Belonging
  <2>13. CASE k = 10
    BY <1>3, <1>6, <1>8, <1>9, <1>10, <2>1, <2>3, <2>13, AfterIs, Belonging
  <2>14. CASE k = 11
    BY <1>3, <1>6, <1>8, <1>9, <1>10, <2>1, <2>3, <2>14, AfterIs, Belonging
  <2> QED BY <2>3, <2>4, <2>5, <2>6, <2>7, <2>8, <2>9, <2>10, <2>11, <2>12, <2>13, <2>14
<1>11. CASE d.kind = "FACTURE"
  <2>1. /\ Len(f) = 5
        /\ f[1] = "header" /\ f[2] = "client" /\ f[3] = "table" /\ f[4] = "dates" /\ f[5] = "footer"
    BY <1>1, <1>11, FunctionsAre
  <2>2. Belongs(d, f[k]) /\ NextName(t) = After(d, f[k])
    BY <1>9, <1>11, <2>1 DEF Belongs, After
  <2> QED BY <1>3, <1>6, <1>8, <2>2
<1>12. CASE d.kind = "ATTESTATION"
  <2>1. Len(f) = 2 /\ f[1] = "attestation" /\ f[2] = "footer"
    BY <1>1, <1>12, FunctionsAre
  <2>2. Belongs(d, f[k]) /\ NextName(t) = After(d, f[k])
    BY <1>9, <1>12, <2>1 DEF Belongs, After
  <2> QED BY <1>3, <1>6, <1>8, <2>2
<1> QED BY <1>10, <1>11, <1>12, DocTyped

-----------------------------------------------------------------------------
(* What each function leaves                                               *)

LEMMA Heights ==
  ASSUME NEW d \in Papers
  PROVE  /\ HeaderEnd(d) \in Nat /\ 200 <= HeaderEnd(d) /\ TableY(d) \in Nat /\ NotesY(d) \in Nat
         /\ ValidY(d) \in Nat /\ AssuranceY(d) \in Nat /\ AccordY(d) \in Nat /\ LegalY(d) \in Nat
         /\ HeaderEnd(d) <= TableY(d) /\ TableY(d) <= NotesY(d) /\ NotesY(d) <= ValidY(d)
         /\ ValidY(d) <= AssuranceY(d) /\ AssuranceY(d) + 122 = AccordY(d) /\ AccordY(d) + 44 <= LegalY(d)
         /\ LegalY(d) = Height(d)
<1>1. /\ d.issuer \in Nat /\ d.rows \in Nat /\ 22 * d.rows \in Nat /\ 12 * d.issuer \in Nat
      /\ (d.notes > 0) \in BOOLEAN
      /\ Flag(d.franchise) \in {0, 1} /\ Flag(d.notes > 0) \in {0, 1} /\ Flag(d.valid) \in {0, 1}
      /\ Flag(d.decennale) \in {0, 1} /\ Flag(d.insured) \in {0, 1}
  BY DocTyped DEF Flag
<1>2. HeaderEnd(d) \in Nat /\ 200 <= HeaderEnd(d)
  BY <1>1 DEF HeaderEnd, Larger
<1>3. TableY(d) \in Nat /\ HeaderEnd(d) <= TableY(d)
  BY <1>1, <1>2 DEF TableY
<1>4. NotesY(d) \in Nat /\ TableY(d) <= NotesY(d)
  BY <1>1, <1>3 DEF NotesY
<1>5. ValidY(d) \in Nat /\ NotesY(d) <= ValidY(d)
  BY <1>1, <1>4 DEF ValidY
<1>6. AssuranceY(d) \in Nat /\ ValidY(d) <= AssuranceY(d)
  BY <1>1, <1>5 DEF AssuranceY
<1>7. AccordY(d) \in Nat /\ AssuranceY(d) + 122 = AccordY(d)
  BY <1>6 DEF AccordY
<1>8. LegalY(d) \in Nat /\ AccordY(d) + 44 <= LegalY(d)
  BY <1>1, <1>7 DEF LegalY
<1>9. LegalY(d) = Height(d)
  <2> DEFINE n == Flag(d.notes > 0)
  <2>1. n \in {0, 1}
    BY <1>1
  <2> HIDE DEF n
  <2>2. /\ LegalY(d) = HeaderEnd(d) + 116 + 22 * d.rows + 28 * n + 18 * Flag(d.valid)
                       + 36 * Flag(d.decennale) + 122 + 44 + 14 * Flag(d.franchise) + 12 * Flag(d.insured)
        /\ Height(d) = HeaderEnd(d) + 116 + 22 * d.rows + 28 * n + 18 * Flag(d.valid)
                       + 36 * Flag(d.decennale) + 166 + 14 * Flag(d.franchise) + 12 * Flag(d.insured)
    BY DEF TableY, NotesY, ValidY, AssuranceY, AccordY, LegalY, Height, n
  <2> QED BY <1>1, <1>2, <2>1, <2>2
<1> QED BY <1>2, <1>3, <1>4, <1>5, <1>6, <1>7, <1>8, <1>9

LEMMA NotesDrawn ==
  ASSUME NEW d \in Papers, d.kind = "DEVIS", Fits(d), NEW h, NEW s \in Sheets, Stage("notes", d, h, s)
  PROVE  LET drawn == IF d.notes > 0 THEN Put(s, Text(Wide, h, 9, d.notes)) ELSE s IN
         drawn \in Sheets /\ Stage("validUntil", d, h + 28 * Flag(d.notes > 0), drawn)
<1>1. h = TableY(d) /\ s.page = 1 /\ Clear(s, h, h, 0) /\ h \in Nat
  BY Heights DEF Stage, Used
<1>2. PICK z \in Nat: z = h + 28 * Flag(d.notes > 0) /\ z = NotesY(d)
  BY <1>1, Heights DEF NotesY
<1>3. CASE d.notes > 0
  <2>1. z = h + 28 /\ d.notes <= 3 /\ d.notes \in Nat /\ h + 28 <= 791
    BY <1>1, <1>2, <1>3, DocTyped, Heights DEF Flag, Fits
  <2>2. PICK k \in Sheets: k = Put(s, Text(Wide, h, 9, d.notes)) /\ k.page = s.page /\ Clear(k, z, z, 0)
    BY <1>1, <2>1, OneText DEF PageBottom
  <2> QED BY <1>1, <1>2, <1>3, <2>2 DEF Stage, Used
<1>4. CASE ~(d.notes > 0)
  <2>1. z = h
    BY <1>1, <1>2, <1>4 DEF Flag
  <2> QED BY <1>1, <1>2, <1>4, <2>1 DEF Stage, Used
<1> QED BY <1>3, <1>4

LEMMA ValidUntilDrawn ==
  ASSUME NEW d \in Papers, d.kind = "DEVIS", Fits(d), NEW h, NEW s \in Sheets, Stage("validUntil", d, h, s)
  PROVE  LET drawn == IF d.valid THEN Put(s, Text(Wide, h, 9, 1)) ELSE s IN
         drawn \in Sheets /\ Stage("assurance", d, h + 18 * Flag(d.valid), drawn)
<1>1. h = NotesY(d) /\ s.page = 1 /\ Clear(s, h, h, 0) /\ h \in Nat
  BY Heights DEF Stage, Used
<1>2. PICK z \in Nat: z = h + 18 * Flag(d.valid) /\ z = ValidY(d)
  BY <1>1, Heights DEF ValidY
<1>3. CASE d.valid
  <2>1. z = h + 18 /\ h + 18 <= 791
    BY <1>1, <1>2, <1>3, DocTyped, Heights DEF Flag, Fits
  <2>2. PICK k \in Sheets: k = Put(s, Text(Wide, h, 9, 1)) /\ k.page = s.page /\ Clear(k, z, z, 0)
    BY <1>1, <2>1, OneText DEF PageBottom
  <2> QED BY <1>1, <1>2, <1>3, <2>2 DEF Stage, Used
<1>4. CASE ~d.valid
  <2>1. z = h
    BY <1>1, <1>2, <1>4 DEF Flag
  <2> QED BY <1>1, <1>2, <1>4, <2>1 DEF Stage, Used
<1> QED BY <1>3, <1>4

LEMMA AssuranceDrawn ==
  ASSUME NEW d \in Papers, d.kind = "DEVIS", Fits(d), NEW h, NEW s \in Sheets, Stage("assurance", d, h, s)
  PROVE  LET drawn == IF d.decennale
                      THEN FoldLeft(Put, s, <<Text(Wide, h, 8, 1), Text(Wide, h + 12, 7, 1)>>) ELSE s IN
         drawn \in Sheets /\ Stage("accord", d, h + 36 * Flag(d.decennale), drawn)
<1>1. h = ValidY(d) /\ s.page = 1 /\ Clear(s, h, h, 0) /\ h \in Nat
  BY Heights DEF Stage, Used
<1>2. PICK z \in Nat: z = h + 36 * Flag(d.decennale) /\ z = AssuranceY(d)
  BY <1>1, Heights DEF AssuranceY
<1>3. CASE d.decennale
  <2>1. z = h + 36 /\ h + 36 <= 791
    BY <1>1, <1>2, <1>3, DocTyped, Heights DEF Flag, Fits
  <2>2. PICK t \in TextRows: t = Text(Wide, h, 8, 1) /\ t.cols = Wide /\ t.top = h /\ End(t) = h + 8
    <3>1. h + 1 * 8 = h + 8
      BY <1>1
    <3> QED BY <1>1, <3>1, TextIs, ColumnFacts
  <2>3. PICK u \in TextRows: u = Text(Wide, h + 12, 7, 1) /\ u.cols = Wide /\ u.top = h + 12 /\ End(u) = h + 19
    <3>1. h + 12 + 1 * 7 = h + 19 /\ h + 12 \in Nat
      BY <1>1
    <3> QED BY <1>1, <3>1, TextIs, ColumnFacts
  <2>4. PICK m \in Seq(TextRows): m = <<t, u>> /\ Range(m) = {t, u}
    BY RangeTwo
  <2>5. \A v \in Range(m): Between(v, h, h, 0, z, z, 0)
    BY <1>1, <2>1, <2>2, <2>3, <2>4, ColumnFacts DEF Between, PageBottom
  <2>6. \A v, w \in Range(m): Free(v, w)
    BY <1>1, <2>2, <2>3, <2>4 DEF Free
  <2>7. PICK k \in Sheets: k = FoldLeft(Put, s, m) /\ k.page = s.page /\ Clear(k, z, z, 0)
    BY <1>1, <2>1, <2>5, <2>6, Stacked
  <2>8. Stage("accord", d, z, k)
    BY <1>1, <1>2, <2>7 DEF Stage, Used
  <2>9. m = <<Text(Wide, h, 8, 1), Text(Wide, h + 12, 7, 1)>>
    BY <2>2, <2>3, <2>4
  <2> QED BY <1>2, <1>3, <2>7, <2>8, <2>9
<1>4. CASE ~d.decennale
  <2>1. z = h
    BY <1>1, <1>2, <1>4 DEF Flag
  <2> QED BY <1>1, <1>2, <1>4, <2>1 DEF Stage, Used
<1> QED BY <1>3, <1>4

LEMMA TextAt ==
  ASSUME NEW cols \in SUBSET Columns, NEW top \in Nat, NEW size \in Nat \ {0}, NEW n \in Nat,
         NEW end, end = top + n * size
  PROVE  \E t \in TextRows: /\ t = Text(cols, top, size, n)
                            /\ t.cols = cols /\ t.top = top /\ End(t) = end
  BY TextIs

LEMMA AccordDrawn ==
  ASSUME NEW d \in Papers, d.kind = "DEVIS", Fits(d), NEW h, NEW s \in Sheets, Stage("accord", d, h, s)
  PROVE  LET drawn == FoldLeft(Put, Frame(s, Right, h, 110),
                         <<Text(Boxed, h + 10, 7, 1), Text(Boxed, h + 28, 7, 1), Text(Boxed, h + 82, 9, 1)>>
                         \o (IF d.signed THEN <<Text(Boxed, h + 97, 6, 1)>> ELSE << >>)) IN
         drawn \in Sheets /\ Stage("legal", d, h + 122, drawn)
<1>1. h = AssuranceY(d) /\ s.page = 1 /\ Clear(s, h, h, 0) /\ h \in Nat
  BY Heights DEF Stage, Used
<1>2. PICK z \in Nat: z = h + 122 /\ z = AccordY(d) /\ z <= 728
  BY <1>1, Heights DEF Fits
<1>3. PICK f \in Sheets: f = Frame(s, Right, h, 110) /\ f.page = 1 /\ Clear(f, z, z, 0)
  <2>1. Clear(s, z, z, 0)
    BY <1>1, <1>2, Lower
  <2>2. PICK p: p = Place(Right, h, h + 110)
    OBVIOUS
  <2>3. p.top = h /\ p.cols = Right /\ p.end = h + 110
    BY <2>2 DEF Place
  <2>4. Beside(s, p)
    <3>1. 0 \in Nat /\ 0 <= h /\ p.top = h
      BY <1>1, <2>3
    <3>2. p.cols \in SUBSET Columns /\ "boxed" \notin p.cols
      BY <2>3, ColumnFacts
    <3> QED BY <1>1, <3>1, <3>2, StartsBelow
  <2>5. EndsAbove(p, z, z, 0)
    BY <1>1, <1>2, <2>3, ColumnFacts DEF EndsAbove
  <2>6. Right \in SUBSET Columns /\ h \in Nat /\ 110 \in Nat
    BY <1>1, ColumnFacts
  <2> QED BY <1>1, <2>1, <2>2, <2>4, <2>5, <2>6, Framed
<1>4. PICK t \in TextRows: t = Text(Boxed, h + 10, 7, 1) /\ t.cols = Boxed /\ t.top = h + 10 /\ End(t) = h + 17
  <2>1. h + 17 = h + 10 + 1 * 7 /\ h + 10 \in Nat
    BY <1>1
  <2> QED BY <2>1, TextAt, ColumnFacts
<1>5. PICK u \in TextRows: u = Text(Boxed, h + 28, 7, 1) /\ u.cols = Boxed /\ u.top = h + 28 /\ End(u) = h + 35
  <2>1. h + 35 = h + 28 + 1 * 7 /\ h + 28 \in Nat
    BY <1>1
  <2> QED BY <2>1, TextAt, ColumnFacts
<1>6. PICK v \in TextRows: v = Text(Boxed, h + 82, 9, 1) /\ v.cols = Boxed /\ v.top = h + 82 /\ End(v) = h + 91
  <2>1. h + 91 = h + 82 + 1 * 9 /\ h + 82 \in Nat
    BY <1>1
  <2> QED BY <2>1, TextAt, ColumnFacts
<1>7. PICK w \in TextRows: w = Text(Boxed, h + 97, 6, 1) /\ w.cols = Boxed /\ w.top = h + 97 /\ End(w) = h + 103
  <2>1. h + 103 = h + 97 + 1 * 6 /\ h + 97 \in Nat
    BY <1>1
  <2> QED BY <2>1, TextAt, ColumnFacts
<1>8. PICK m \in Seq(TextRows): /\ m = <<t, u, v>> \o (IF d.signed THEN <<w>> ELSE << >>)
                                /\ Range(m) \subseteq {t, u, v, w}
  <2>1. PICK a \in Seq(TextRows): a = <<t, u, v>> /\ Range(a) = {t, u, v}
    BY RangeThree
  <2>2. PICK c \in Seq(TextRows): c = (IF d.signed THEN <<w>> ELSE << >>) /\ Range(c) \subseteq {w}
    BY RangeOne, RangeNone
  <2>3. a \o c \in Seq(TextRows) /\ Range(a \o c) \subseteq Range(a) \union Range(c)
    BY RangeConcat
  <2> QED BY <2>1, <2>2, <2>3
<1>9. \A x \in Range(m): Between(x, z, z, 0, z, z, z)
  <2>1. /\ Between(t, z, z, 0, z, z, z) /\ Between(u, z, z, 0, z, z, z)
        /\ Between(v, z, z, 0, z, z, z) /\ Between(w, z, z, 0, z, z, z)
    <3>1. ASSUME NEW x \in TextRows, NEW top, NEW bottom, x.cols = Boxed, x.top = top, End(x) = bottom,
                 0 <= top, bottom <= z, bottom <= 791
          PROVE  Between(x, z, z, 0, z, z, z)
      BY <3>1, ColumnFacts DEF Between, PageBottom
    <3>2. /\ h + 17 <= z /\ h + 35 <= z /\ h + 91 <= z /\ h + 103 <= z
          /\ h + 17 <= 791 /\ h + 35 <= 791 /\ h + 91 <= 791 /\ h + 103 <= 791
      BY <1>1, <1>2
    <3>3. 0 <= h + 10 /\ 0 <= h + 28 /\ 0 <= h + 82 /\ 0 <= h + 97
      BY <1>1
    <3>4. Between(t, z, z, 0, z, z, z)
      BY <1>4, <3>1, <3>2, <3>3
    <3>5. Between(u, z, z, 0, z, z, z)
      BY <1>5, <3>1, <3>2, <3>3
    <3>6. Between(v, z, z, 0, z, z, z)
      BY <1>6, <3>1, <3>2, <3>3
    <3>7. Between(w, z, z, 0, z, z, z)
      BY <1>7, <3>1, <3>2, <3>3
    <3> QED BY <3>4, <3>5, <3>6, <3>7
  <2> QED BY <1>8, <2>1
<1>10. \A x, o \in Range(m): Free(x, o)
  <2>1. h + 17 <= h + 28 /\ h + 35 <= h + 82 /\ h + 91 <= h + 97
        /\ h + 17 <= h + 82 /\ h + 17 <= h + 97 /\ h + 35 <= h + 97
    BY <1>1
  <2>2. Free(t, u) /\ Free(t, v) /\ Free(t, w) /\ Free(u, v) /\ Free(u, w) /\ Free(v, w)
    BY <1>4, <1>5, <1>6, <1>7, <2>1, Zenon DEF Free
  <2>3. \A x, o: (Free(x, o) => Free(o, x)) /\ Free(x, x)
    BY Zenon DEF Free
  <2> QED BY <1>8, <2>2, <2>3
<1>11. PICK k \in Sheets: k = FoldLeft(Put, f, m) /\ k.page = 1 /\ Clear(k, z, z, z)
  BY <1>2, <1>3, <1>9, <1>10, Stacked
<1>12. Stage("legal", d, z, k)
  BY <1>2, <1>11 DEF Stage, Used
<1> QED BY <1>2, <1>3, <1>4, <1>5, <1>6, <1>7, <1>8, <1>11, <1>12

LEMMA LegalDrawn ==
  ASSUME NEW d \in Papers, d.kind = "DEVIS", Fits(d), NEW h, NEW s \in Sheets, Stage("legal", d, h, s)
  PROVE  LET bold == Flag(d.franchise)
             first == [i \in 1 .. 3 + bold |-> Text(Wide, h + 12 * (i - 1), 7, 1)]
             end == h + 36 + 14 * bold
             drawn == FoldLeft(Put, s, first \o (IF d.insured THEN <<Text(Wide, end, 7, 1)>> ELSE << >>)) IN
         drawn \in Sheets /\ Stage("integrity", d, end + 12 * Flag(d.insured) + 8, drawn)
<1>1. h = AccordY(d) /\ s.page = 1 /\ Clear(s, h, h, h) /\ h \in Nat
  BY Heights DEF Stage, Used
<1>2. PICK bold \in {0, 1}: bold = Flag(d.franchise)
  BY DocTyped DEF Flag
<1>3. PICK ins \in {0, 1}: ins = Flag(d.insured) /\ (d.insured => ins = 1)
  BY DocTyped DEF Flag
<1>4. PICK end \in Nat: end = h + 36 + 14 * bold
  BY <1>1
<1>5. PICK z \in Nat: z = end + 12 * ins + 8 /\ z = LegalY(d) /\ z <= 772
  <2>1. LegalY(d) = h + 44 + 14 * bold + 12 * ins
    BY <1>1, <1>2, <1>3 DEF LegalY
  <2>2. LegalY(d) \in Nat /\ LegalY(d) <= 772
    BY Heights DEF Fits
  <2> QED BY <1>1, <1>4, <2>1, <2>2
<1>6. PICK q \in Nat: q = z - 13 /\ h <= q
  BY <1>1, <1>4, <1>5
<1>7. h + 31 + 12 * bold <= end /\ h + 31 + 12 * bold <= q /\ h + 31 + 12 * bold <= 791
  <2>1. h + 31 + 12 * bold <= end
    BY <1>1, <1>2, <1>4
  <2>2. h + 31 + 12 * bold <= q
    <3>1. q = h + 31 + 14 * bold + 12 * ins
      BY <1>1, <1>4, <1>5, <1>6
    <3> QED BY <1>1, <3>1
  <2>3. q <= 791
    BY <1>5, <1>6
  <2>4. h + 31 + 12 * bold <= 791
    BY <1>1, <2>2, <2>3
  <2> QED BY <2>1, <2>2, <2>4
<1>8. h <= end /\ end + 7 <= 791 /\ (ins = 1 => end + 7 <= q)
  <2>1. h <= end
    BY <1>1, <1>4
  <2>2. end + 7 <= 791
    BY <1>5
  <2>3. ASSUME ins = 1 PROVE end + 7 <= q
    BY <1>5, <1>6, <2>3
  <2> QED BY <2>1, <2>2, <2>3
<1>9. PICK first \in Seq(TextRows):
         /\ first = [i \in 1 .. 3 + bold |-> Text(Wide, h + 12 * (i - 1), 7, 1)]
         /\ \A x \in Range(first): \E i \in 1 .. 3 + bold:
               x.cols = Wide /\ x.top = h + 12 * (i - 1) /\ End(x) = h + 12 * (i - 1) + 7
                /\ x = Text(Wide, h + 12 * (i - 1), 7, 1)
  <2>1. ASSUME NEW i \in 1 .. 3 + bold
        PROVE  /\ Text(Wide, h + 12 * (i - 1), 7, 1) \in TextRows
               /\ LET x == Text(Wide, h + 12 * (i - 1), 7, 1) IN
                  x.cols = Wide /\ x.top = h + 12 * (i - 1) /\ End(x) = h + 12 * (i - 1) + 7
    <3>1. PICK top \in Nat: top = h + 12 * (i - 1)
      BY <1>1
    <3>2. top + 7 = top + 1 * 7
      OBVIOUS
    <3>3. PICK x \in TextRows: x = Text(Wide, top, 7, 1) /\ x.cols = Wide /\ x.top = top /\ End(x) = top + 7
      BY <3>2, TextAt, ColumnFacts
    <3> QED BY <3>1, <3>3
  <2>2. PICK first: first = [i \in 1 .. 3 + bold |-> Text(Wide, h + 12 * (i - 1), 7, 1)]
    OBVIOUS
  <2>3. first \in Seq(TextRows) /\ DOMAIN first = 1 .. 3 + bold
    <3>1. first \in [1 .. 3 + bold -> TextRows] /\ 3 + bold \in Nat
      BY <2>1, <2>2
    <3> QED BY <3>1
  <2>4. \A x \in Range(first): \E i \in 1 .. 3 + bold: x = Text(Wide, h + 12 * (i - 1), 7, 1)
    BY <2>2, <2>3 DEF Range
  <2> QED BY <2>1, <2>2, <2>3, <2>4
<1>10. PICK t \in TextRows: t = Text(Wide, end, 7, 1) /\ t.cols = Wide /\ t.top = end /\ End(t) = end + 7
  <2>1. end + 7 = end + 1 * 7
    BY <1>4
  <2> QED BY <2>1, TextAt, ColumnFacts
<1>11. PICK c \in Seq(TextRows): /\ c = (IF d.insured THEN <<t>> ELSE << >>)
                                 /\ Range(c) \subseteq {t} /\ (Range(c) # {} => ins = 1)
  BY <1>3, RangeOne, RangeNone
<1>12. PICK m \in Seq(TextRows): m = first \o c /\ Range(m) \subseteq Range(first) \union Range(c)
  BY RangeConcat
<1>13. ASSUME NEW x \in Range(first) PROVE Between(x, h, h, h, q, q, q) /\ Free(x, t) /\ Free(t, x)
  <2>1. PICK i \in 1 .. 3 + bold: x.cols = Wide /\ x.top = h + 12 * (i - 1) /\ End(x) = h + 12 * (i - 1) + 7
    BY <1>9
  <2>2. 12 * (i - 1) \in Nat /\ 12 * (i - 1) <= 24 + 12 * bold
    OBVIOUS
  <2>3. PICK top \in Nat: top = h + 12 * (i - 1) /\ h <= top /\ top + 7 <= h + 31 + 12 * bold
    BY <1>1, <2>2
  <2>4. x.top = top /\ End(x) = top + 7
    BY <2>1, <2>3
  <2>5. PICK low \in Nat: low = h + 31 + 12 * bold
    BY <1>1
  <2>6. top + 7 <= low /\ low <= q /\ low <= 791 /\ low <= end
    BY <1>7, <2>3, <2>5
  <2>7. h <= top /\ top + 7 <= q /\ top + 7 <= 791 /\ top + 7 <= end
    <3>1. top + 7 <= q
      BY <2>6
    <3>2. top + 7 <= 791
      BY <2>6
    <3>3. top + 7 <= end
      BY <2>6
    <3> QED BY <2>3, <3>1, <3>2, <3>3
  <2>8. Between(x, h, h, h, q, q, q)
    BY <2>1, <2>4, <2>7, ColumnFacts DEF Between, PageBottom
  <2>9. Free(x, t) /\ Free(t, x)
    BY <1>10, <2>4, <2>7, Zenon DEF Free
  <2> QED BY <2>8, <2>9
<1>14. ASSUME ins = 1 PROVE Between(t, h, h, h, q, q, q)
  <2>1. h <= end /\ end + 7 <= 791 /\ end + 7 <= q
    BY <1>14, <1>8
  <2> QED BY <1>10, <2>1, ColumnFacts DEF Between, PageBottom
<1>15. ASSUME NEW x \in Range(first), NEW o \in Range(first) PROVE Free(x, o)
  <2>1. PICK i \in 1 .. 3 + bold: x.top = h + 12 * (i - 1) /\ End(x) = h + 12 * (i - 1) + 7
                                  /\ x = Text(Wide, h + 12 * (i - 1), 7, 1)
    BY <1>9
  <2>2. PICK j \in 1 .. 3 + bold: o.top = h + 12 * (j - 1) /\ End(o) = h + 12 * (j - 1) + 7
                                  /\ o = Text(Wide, h + 12 * (j - 1), 7, 1)
    BY <1>9
  <2>3. CASE i = j
    BY <2>1, <2>2, <2>3 DEF Free
  <2>4. CASE i < j
    BY <1>1, <2>1, <2>2, <2>4 DEF Free
  <2>5. CASE j < i
    BY <1>1, <2>1, <2>2, <2>5 DEF Free
  <2> QED BY <2>3, <2>4, <2>5
<1>16. \A x \in Range(m): Between(x, h, h, h, q, q, q)
  BY <1>11, <1>12, <1>13, <1>14
<1>17. \A x, o \in Range(m): Free(x, o)
  <2>1. Free(t, t)
    BY DEF Free
  <2> QED BY <1>11, <1>12, <1>13, <1>15, <2>1
<1>18. PICK k \in Sheets: k = FoldLeft(Put, s, m) /\ k.page = 1 /\ Clear(k, q, q, q)
  BY <1>1, <1>6, <1>16, <1>17, Stacked
<1>19. Stage("integrity", d, z, k)
  BY <1>5, <1>6, <1>18 DEF Stage, Used
<1> QED BY <1>2, <1>3, <1>4, <1>5, <1>9, <1>10, <1>11, <1>12, <1>18, <1>19

LEMMA IntegrityDrawn ==
  ASSUME NEW d \in Papers, d.kind = "DEVIS", Fits(d), NEW h, NEW s \in Sheets, Stage("integrity", d, h, s)
  PROVE  LET footer == Smaller(Larger(h, 720), 760)
             drawn == FoldLeft(Put, s, <<Text(Wide, footer, 6, 1)>>
                         \o (IF d.hashed THEN <<Text(Wide, footer + 10, 6, 1)>> ELSE << >>)) IN
         drawn \in Sheets /\ Stage("retractation", d, h, drawn)
<1>1. /\ h = LegalY(d) /\ s.page = 1 /\ Clear(s, h - 13, h - 13, h - 13) /\ h \in Nat /\ h <= 772
      /\ h - 13 \in Nat
  BY Heights DEF Stage, Used, Fits
<1>2. PICK footer \in Nat: footer = Smaller(Larger(h, 720), 760) /\ h - 13 <= footer /\ footer <= 760
  BY <1>1 DEF Smaller, Larger
<1>3. PICK t \in TextRows: t = Text(Wide, footer, 6, 1) /\ t.cols = Wide /\ t.top = footer /\ End(t) = footer + 6
  <2>1. footer + 6 = footer + 1 * 6
    OBVIOUS
  <2> QED BY <2>1, TextAt, ColumnFacts
<1>4. PICK u \in TextRows: /\ u = Text(Wide, footer + 10, 6, 1)
                           /\ u.cols = Wide /\ u.top = footer + 10 /\ End(u) = footer + 16
  <2>1. footer + 16 = footer + 10 + 1 * 6 /\ footer + 10 \in Nat
    OBVIOUS
  <2> QED BY <2>1, TextAt, ColumnFacts
<1>5. PICK m \in Seq(TextRows): /\ m = <<t>> \o (IF d.hashed THEN <<u>> ELSE << >>)
                                /\ Range(m) \subseteq {t, u}
  <2>1. PICK a \in Seq(TextRows): a = <<t>> /\ Range(a) = {t}
    BY RangeOne
  <2>2. PICK c \in Seq(TextRows): c = (IF d.hashed THEN <<u>> ELSE << >>) /\ Range(c) \subseteq {u}
    BY RangeOne, RangeNone
  <2>3. a \o c \in Seq(TextRows) /\ Range(a \o c) \subseteq Range(a) \union Range(c)
    BY RangeConcat
  <2> QED BY <2>1, <2>2, <2>3
<1>6. PICK z \in Nat: z = h - 13 /\ z <= 791
  BY <1>1
<1>7. \A x \in Range(m): Between(x, z, z, z, 791, 791, 791)
  <2>1. z <= footer /\ z <= footer + 10 /\ footer + 6 <= 791 /\ footer + 16 <= 791
    BY <1>2, <1>6
  <2>2. ASSUME NEW x \in TextRows, x.cols = Wide, z <= x.top, End(x) <= 791
        PROVE  Between(x, z, z, z, 791, 791, 791)
    BY <2>2, ColumnFacts DEF Between, PageBottom
  <2>3. Between(t, z, z, z, 791, 791, 791) /\ Between(u, z, z, z, 791, 791, 791)
    BY <1>3, <1>4, <2>1, <2>2
  <2> QED BY <1>5, <2>3
<1>8. \A x, o \in Range(m): Free(x, o)
  <2>1. footer + 6 <= footer + 10
    OBVIOUS
  <2>2. Free(t, u)
    BY <1>3, <1>4, <2>1, Zenon DEF Free
  <2>3. \A x, o: (Free(x, o) => Free(o, x)) /\ Free(x, x)
    BY Zenon DEF Free
  <2> QED BY <1>5, <2>2, <2>3
<1>9. PICK k \in Sheets: k = FoldLeft(Put, s, m) /\ k.page = 1 /\ Clear(k, 791, 791, 791)
  BY <1>1, <1>6, <1>7, <1>8, Stacked
<1>10. Stage("retractation", d, h, k)
  BY <1>9 DEF Stage, Used, PageBottom
<1> QED BY <1>2, <1>3, <1>4, <1>5, <1>9, <1>10

LEMMA WideBetween ==
  ASSUME NEW t \in TextRows, NEW top, NEW end, t.cols = Wide, t.top = top, End(t) = end,
         NEW l, NEW r, NEW b, NEW l2, NEW r2, NEW b2, l <= top, r <= top, end <= l2, end <= r2, end <= 791
  PROVE  Between(t, l, r, b, l2, r2, b2)
  BY ColumnFacts DEF Between, PageBottom

LEMMA LeftBetween ==
  ASSUME NEW t \in TextRows, NEW top, NEW end, t.cols = Left, t.top = top, End(t) = end,
         NEW l, NEW r, NEW b, NEW l2, NEW r2, NEW b2, l <= top, end <= l2, end <= 791
  PROVE  Between(t, l, r, b, l2, r2, b2)
  BY ColumnFacts DEF Between, PageBottom

LEMMA RightBetween ==
  ASSUME NEW t \in TextRows, NEW top, NEW end, t.cols = Right, t.top = top, End(t) = end,
         NEW l, NEW r, NEW b, NEW l2, NEW r2, NEW b2, r <= top, end <= r2, end <= 791
  PROVE  Between(t, l, r, b, l2, r2, b2)
  BY ColumnFacts DEF Between, PageBottom

LEMMA FreeBoth == \A x, o: (Free(x, o) => Free(o, x)) /\ Free(x, x)
  BY Zenon DEF Free

LEMMA RangeRows ==
  ASSUME NEW n \in Nat, NEW f \in [1 .. n -> TextRows]
  PROVE  f \in Seq(TextRows) /\ \A x \in Range(f): \E i \in 1 .. n: x = f[i]
<1>1. f \in Seq(TextRows) /\ DOMAIN f = 1 .. n
  OBVIOUS
<1> QED BY <1>1 DEF Range

\* What is beside a sheet and apart from a frame is beside both.
LEMMA FrameBeside ==
  ASSUME NEW s \in Sheets, NEW cols, NEW top, NEW height, NEW p,
         Beside(s, p), Apart(Place(cols, top, top + height), p)
  PROVE  Beside(Frame(s, cols, top, height), p)
<1>1. PICK k: k = Mark(s.page, cols, top, top + height)
  OBVIOUS
<1>2. k.cols = cols /\ k.from = top /\ k.to = top + height
  BY <1>1 DEF Mark
<1>3. PICK f: f = Frame(s, cols, top, height)
  OBVIOUS
<1>4. f.page = s.page /\ f.marks = s.marks \union {k}
  BY <1>1, <1>3 DEF Frame, Sheets
<1>5. Apart(Place(k.cols, k.from, k.to), p)
  BY <1>2
<1>6. Beside(f, p)
  BY <1>4, <1>5 DEF Beside
<1> QED BY <1>3, <1>6

LEMMA RetractationDrawn ==
  ASSUME NEW d \in Papers, d.kind = "DEVIS", NEW h, NEW s \in Sheets, Stage("retractation", d, h, s)
  PROVE  LET drawn == Put(AddPage(s), Text(Wide, PageTop, 9, 45)) IN
         drawn \in Sheets /\ Stage(After(d, "retractation"), d, h, drawn)
<1>1. s.page = 1 /\ Clear(s, 791, 791, 791)
  BY DEF Stage, Used, PageBottom
<1>2. PICK f \in Sheets: f = AddPage(s) /\ f.page = 2 /\ Clear(f, 0, 0, 0)
  BY <1>1, PageAdded
<1>3. PICK k \in Sheets: k = Put(f, Text(Wide, 50, 9, 45)) /\ k.page = 2 /\ Clear(k, 791, 791, 0)
  <2>1. /\ Put(f, Text(Wide, 50, 9, 45)) \in Sheets
        /\ Put(f, Text(Wide, 50, 9, 45)).page = f.page
        /\ Clear(Put(f, Text(Wide, 50, 9, 45)), 791, 791, 0)
    <3>1. PICK top \in Nat, size \in Nat \ {0}, n \in Nat, low \in Nat:
             /\ top = 50 /\ size = 9 /\ n = 45 /\ low = 791 /\ 0 <= top /\ 0 <= low
             /\ top + n * size <= PageBottom /\ top + n * size <= low
      BY DEF PageBottom
    <3>2. /\ Put(f, Text(Wide, top, size, n)) \in Sheets
          /\ Put(f, Text(Wide, top, size, n)).page = f.page
          /\ Clear(Put(f, Text(Wide, top, size, n)), low, low, 0)
      BY <1>2, <3>1, OneText
    <3> QED BY <3>1, <3>2
  <2> QED BY <1>2, <2>1
<1>4. Clear(k, 791, 791, 791)
  BY <1>3, Lower
<1>5. k = Put(AddPage(s), Text(Wide, PageTop, 9, 45))
  BY <1>2, <1>3 DEF PageTop
<1>6. CASE d.signed
  <2>1. Stage("certificate", d, h, k)
    BY <1>3, <1>4 DEF Stage, Used, PageBottom
  <2> QED BY <1>5, <1>6, <2>1, AfterIs
<1>7. CASE ~d.signed
  <2>1. LastPage(d) = 2
    BY <1>7 DEF LastPage, Flag
  <2>2. Stage("end", d, h, k)
    BY <1>3, <2>1 DEF Stage, Clear
  <2> QED BY <1>5, <1>7, <2>2, AfterIs
<1> QED BY <1>6, <1>7

LEMMA DatesDrawn ==
  ASSUME NEW d \in Papers, d.kind = "FACTURE", Fits(d), NEW h, NEW s \in Sheets, Stage("dates", d, h, s)
  PROVE  LET drawn == FoldLeft(Put, s, (IF d.valid THEN <<Text(Wide, 660, 9, 1)>> ELSE << >>)
                          \o (IF d.notes > 0 THEN <<Text(Wide, 675, 9, d.notes)>> ELSE << >>)) IN
         drawn \in Sheets /\ Stage("footer", d, h, drawn)
<1>1. s.page = 1 /\ Clear(s, 660, 660, 0)
  BY DEF Stage, Used
<1>2. PICK n \in Nat: n = d.notes /\ n <= 7
  BY DocTyped DEF Fits
<1>3. PICK t \in TextRows: t = Text(Wide, 660, 9, 1) /\ t.cols = Wide /\ t.top = 660 /\ End(t) = 669
  BY TextAt, ColumnFacts
<1>4. PICK e \in Nat: e = 675 + n * 9 /\ e <= 740
  BY <1>2
<1>5. PICK u \in TextRows: u = Text(Wide, 675, 9, n) /\ u.cols = Wide /\ u.top = 675 /\ End(u) = e
  BY <1>4, TextAt, ColumnFacts
<1>6. PICK m \in Seq(TextRows): /\ m = (IF d.valid THEN <<t>> ELSE << >>)
                                       \o (IF d.notes > 0 THEN <<u>> ELSE << >>)
                                /\ Range(m) \subseteq {t, u}
  <2>1. PICK a \in Seq(TextRows): a = (IF d.valid THEN <<t>> ELSE << >>) /\ Range(a) \subseteq {t}
    BY RangeOne, RangeNone
  <2>2. PICK c \in Seq(TextRows): c = (IF d.notes > 0 THEN <<u>> ELSE << >>) /\ Range(c) \subseteq {u}
    BY RangeOne, RangeNone
  <2>3. a \o c \in Seq(TextRows) /\ Range(a \o c) \subseteq Range(a) \union Range(c)
    BY RangeConcat
  <2> QED BY <2>1, <2>2, <2>3
<1>7. \A x \in Range(m): Between(x, 660, 660, 0, 740, 740, 0)
  <2>1. Between(t, 660, 660, 0, 740, 740, 0)
    BY <1>3, WideBetween
  <2>2. Between(u, 660, 660, 0, 740, 740, 0)
    <3>1. e <= 791
      BY <1>4
    <3> QED BY <1>4, <1>5, <3>1, WideBetween
  <2> QED BY <1>6, <2>1, <2>2
<1>8. \A x, o \in Range(m): Free(x, o)
  <2>1. Free(t, u)
    BY <1>3, <1>5 DEF Free
  <2> QED BY <1>6, <2>1, FreeBoth
<1>9. PICK k \in Sheets: k = FoldLeft(Put, s, m) /\ k.page = 1 /\ Clear(k, 740, 740, 0)
  BY <1>1, <1>7, <1>8, Stacked
<1>10. Stage("footer", d, h, k)
  BY <1>9 DEF Stage, Used
<1> QED BY <1>2, <1>3, <1>5, <1>6, <1>9, <1>10

LEMMA Blanks == [page |-> 1, marks |-> {}] \in Sheets /\ Clear([page |-> 1, marks |-> {}], 0, 0, 0)
  BY DEF Sheets, Clear

LEMMA AttestationDrawn ==
  ASSUME NEW d \in Papers, NEW h, NEW s \in Sheets, Stage("attestation", d, h, s)
  PROVE  LET drawn == FoldLeft(Put, s, <<Text(Wide, 50, 18, 1), Text(Wide, 78, 10, 1),
                                         Text(Wide, 110, 11, 4), Text(Wide, 170, 11, 2)>>) IN
         drawn \in Sheets /\ Stage("footer", d, h, drawn)
<1>1. s.page = 1 /\ Clear(s, 0, 0, 0)
  BY Blanks DEF Stage
<1>2. PICK t \in TextRows: t = Text(Wide, 50, 18, 1) /\ t.cols = Wide /\ t.top = 50 /\ End(t) = 68
  BY TextAt, ColumnFacts
<1>3. PICK u \in TextRows: u = Text(Wide, 78, 10, 1) /\ u.cols = Wide /\ u.top = 78 /\ End(u) = 88
  BY TextAt, ColumnFacts
<1>4. PICK v \in TextRows: v = Text(Wide, 110, 11, 4) /\ v.cols = Wide /\ v.top = 110 /\ End(v) = 154
  BY TextAt, ColumnFacts
<1>5. PICK w \in TextRows: w = Text(Wide, 170, 11, 2) /\ w.cols = Wide /\ w.top = 170 /\ End(w) = 192
  BY TextAt, ColumnFacts
<1>6. PICK m \in Seq(TextRows): m = <<t, u, v, w>> /\ Range(m) = {t, u, v, w}
  <2>1. <<t, u, v, w>> \in Seq(TextRows) /\ Range(<<t, u, v, w>>) = {t, u, v, w}
    BY RangeFour
  <2> QED BY <2>1, Zenon
<1>7. \A x \in Range(m): Between(x, 0, 0, 0, 740, 740, 0)
  <2>1. Between(t, 0, 0, 0, 740, 740, 0)
    BY <1>2, WideBetween
  <2>2. Between(u, 0, 0, 0, 740, 740, 0)
    BY <1>3, WideBetween
  <2>3. Between(v, 0, 0, 0, 740, 740, 0)
    BY <1>4, WideBetween
  <2>4. Between(w, 0, 0, 0, 740, 740, 0)
    BY <1>5, WideBetween
  <2> QED BY <1>6, <2>1, <2>2, <2>3, <2>4
<1>8. \A x, o \in Range(m): Free(x, o)
  <2>1. Free(t, u) /\ Free(t, v) /\ Free(t, w) /\ Free(u, v) /\ Free(u, w) /\ Free(v, w)
    BY <1>2, <1>3, <1>4, <1>5 DEF Free
  <2> QED BY <1>6, <2>1, FreeBoth
<1>9. PICK k \in Sheets: k = FoldLeft(Put, s, m) /\ k.page = 1 /\ Clear(k, 740, 740, 0)
  BY <1>1, <1>7, <1>8, Stacked
<1>10. Stage("footer", d, h, k)
  BY <1>9 DEF Stage, Used
<1> QED BY <1>2, <1>3, <1>4, <1>5, <1>6, <1>9, <1>10

LEMMA CertificateDrawn ==
  ASSUME NEW d \in Papers, d.kind = "DEVIS", d.signed, NEW h, NEW s \in Sheets,
         Stage("certificate", d, h, s)
  PROVE  LET values == [i \in 1 .. 14 |-> Text(Wide, 112 + 16 * (i - 1) + (IF i > 11 THEN 16 ELSE 0), 8,
                                               IF i = 11 THEN 3 ELSE 1)]
             end == 112 + 16 * 15 + 8
             drawn == FoldLeft(Put, Frame(FoldLeft(Put, AddPage(s), values), Left, end + 12, 70),
                               <<Text(Left, end, 8, 1), Text(Wide, end + 96, 7, 3)>>) IN
         drawn \in Sheets /\ Stage("end", d, h, drawn)
<1>1. s.page = 2 /\ Clear(s, 791, 791, 791)
  BY DEF Stage, Used, PageBottom
<1>2. PICK f \in Sheets: f = AddPage(s) /\ f.page = 3 /\ Clear(f, 0, 0, 0)
  BY <1>1, PageAdded
<1>3. ASSUME NEW m \in Seq(TextRows), \A x \in Range(m): Between(x, 0, 0, 0, 360, 360, 0),
             \A x, o \in Range(m): Free(x, o)
      PROVE  /\ FoldLeft(Put, f, m) \in Sheets /\ FoldLeft(Put, f, m).page = 3
             /\ Clear(FoldLeft(Put, f, m), 360, 360, 0)
  BY <1>2, <1>3, Stacked
<1>4. ASSUME NEW i \in 1 .. 14
      PROVE  \E top \in Nat, n \in Nat, e \in Nat:
                /\ top = 112 + 16 * (i - 1) + (IF i > 11 THEN 16 ELSE 0) /\ n = (IF i = 11 THEN 3 ELSE 1)
                /\ e = top + n * 8 /\ e <= 344 /\ e <= 112 + 16 * i + (IF i + 1 > 11 THEN 16 ELSE 0)
  <2>1. CASE i < 11
    BY <2>1
  <2>2. CASE i = 11
    BY <2>2
  <2>3. CASE i > 11
    BY <2>3
  <2> QED BY <2>1, <2>2, <2>3
<1>5. PICK values \in [1 .. 14 -> TextRows]:
         /\ values = [i \in 1 .. 14 |-> Text(Wide, 112 + 16 * (i - 1) + (IF i > 11 THEN 16 ELSE 0), 8,
                                             IF i = 11 THEN 3 ELSE 1)]
         /\ \A i \in 1 .. 14:
               /\ values[i].cols = Wide
               /\ values[i].top = 112 + 16 * (i - 1) + (IF i > 11 THEN 16 ELSE 0)
               /\ End(values[i]) \in Nat /\ End(values[i]) <= 344
               /\ End(values[i]) <= 112 + 16 * i + (IF i + 1 > 11 THEN 16 ELSE 0)
  <2>1. PICK values: values = [i \in 1 .. 14 |->
                                 Text(Wide, 112 + 16 * (i - 1) + (IF i > 11 THEN 16 ELSE 0), 8,
                                      IF i = 11 THEN 3 ELSE 1)]
    OBVIOUS
  <2>2. ASSUME NEW i \in 1 .. 14
        PROVE  /\ values[i] \in TextRows /\ values[i].cols = Wide
               /\ values[i].top = 112 + 16 * (i - 1) + (IF i > 11 THEN 16 ELSE 0)
               /\ End(values[i]) \in Nat /\ End(values[i]) <= 344
               /\ End(values[i]) <= 112 + 16 * i + (IF i + 1 > 11 THEN 16 ELSE 0)
    <3>1. PICK top \in Nat, n \in Nat, e \in Nat:
             /\ top = 112 + 16 * (i - 1) + (IF i > 11 THEN 16 ELSE 0) /\ n = (IF i = 11 THEN 3 ELSE 1)
             /\ e = top + n * 8 /\ e <= 344 /\ e <= 112 + 16 * i + (IF i + 1 > 11 THEN 16 ELSE 0)
      BY <1>4
    <3>2. 8 \in Nat \ {0} /\ Wide \in SUBSET Columns
      BY ColumnFacts
    <3>3. PICK x \in TextRows: x = Text(Wide, top, 8, n) /\ x.cols = Wide /\ x.top = top /\ End(x) = e
      BY <3>1, <3>2, TextAt
    <3>4. values[i] = x
      BY <2>1, <3>1, <3>3
    <3> QED BY <3>1, <3>3, <3>4
  <2>3. values \in [1 .. 14 -> TextRows]
    BY <2>1, <2>2
  <2> QED BY <2>1, <2>2, <2>3
<1>6. values \in Seq(TextRows) /\ \A x \in Range(values): \E i \in 1 .. 14: x = values[i]
  <2>1. 14 \in Nat
    OBVIOUS
  <2> QED BY <2>1, RangeRows
<1>7. ASSUME NEW x \in Range(values) PROVE Between(x, 0, 0, 0, 360, 360, 0)
  <2>1. PICK i \in 1 .. 14: x = values[i]
    BY <1>6
  <2>2. PICK top \in Nat, e \in Nat: x.top = top /\ End(x) = e /\ e <= 360 /\ e <= 791 /\ 0 <= top
    <3>1. x.top \in Nat /\ End(x) \in Nat /\ End(x) <= 344
      BY <1>5, <2>1, TextTyped
    <3> QED BY <3>1
  <2>3. x \in TextRows /\ x.cols = Wide
    BY <1>5, <2>1
  <2> QED BY <2>2, <2>3, WideBetween
<1>8. ASSUME NEW i \in 1 .. 14, NEW j \in 1 .. 14, i < j PROVE Free(values[i], values[j])
  <2>1. 112 + 16 * i + (IF i + 1 > 11 THEN 16 ELSE 0) <= 112 + 16 * (j - 1) + (IF j > 11 THEN 16 ELSE 0)
    BY <1>8
  <2>2. End(values[i]) <= values[j].top
    BY <1>5, <2>1
  <2> QED BY <2>2 DEF Free
<1>9. \A x, o \in Range(values): Free(x, o)
  <2> SUFFICES ASSUME NEW x \in Range(values), NEW o \in Range(values) PROVE Free(x, o)
    OBVIOUS
  <2>1. PICK i \in 1 .. 14: x = values[i]
    BY <1>6
  <2>2. PICK j \in 1 .. 14: o = values[j]
    BY <1>6
  <2>3. i < j \/ j < i \/ i = j
    OBVIOUS
  <2> QED BY <1>8, <2>1, <2>2, <2>3, FreeBoth
<1>10. PICK v \in Sheets: v = FoldLeft(Put, f, values) /\ v.page = 3 /\ Clear(v, 360, 360, 0)
  <2>1. \A x \in Range(values): Between(x, 0, 0, 0, 360, 360, 0)
    BY <1>7
  <2>2. PICK m \in Seq(TextRows): m = values
    BY <1>6
  <2>3. (\A x \in Range(m): Between(x, 0, 0, 0, 360, 360, 0)) /\ \A x, o \in Range(m): Free(x, o)
    BY <1>9, <2>1, <2>2
  <2> QED BY <1>2, <1>3, <2>2, <2>3
<1>11. PICK p: p = Place(Left, 372, 442) /\ p.top = 372 /\ p.cols = Left /\ p.end = 442
  <2>1. PICK p: p = Place(Left, 372, 442)
    OBVIOUS
  <2>2. p.top = 372 /\ p.cols = Left /\ p.end = 442
    BY <2>1 DEF Place
  <2> QED BY <2>1, <2>2
<1>12. PICK k \in Sheets: /\ k = Frame(v, Left, 372, 70) /\ k.page = 3 /\ Clear(k, 791, 791, 0)
                          /\ \A q: Beside(v, q) /\ Apart(p, q) => Beside(k, q)
  <2>1. Clear(v, 791, 791, 0)
    BY <1>10, Lower
  <2>2. Beside(v, p)
    <3>1. 360 \in Nat /\ 0 \in Nat /\ p.top \in Nat /\ 360 <= p.top /\ 0 <= p.top
      BY <1>11
    <3>2. p.cols \in SUBSET Columns /\ "boxed" \notin p.cols
      BY <1>11, ColumnFacts
    <3> QED BY <1>10, <3>1, <3>2, StartsBelow
  <2>3. EndsAbove(p, 791, 791, 0)
    BY <1>11, ColumnFacts DEF EndsAbove
  <2>4. PICK top \in Nat, height \in Nat: top = 372 /\ height = 70 /\ p = Place(Left, top, top + height)
    BY <1>11
  <2>5. Left \in SUBSET Columns
    BY ColumnFacts
  <2>6. /\ Frame(v, Left, top, height) \in Sheets /\ Frame(v, Left, top, height).page = v.page
        /\ Clear(Frame(v, Left, top, height), 791, 791, 0)
    BY <2>1, <2>2, <2>3, <2>4, <2>5, Framed
  <2>7. ASSUME NEW q, Beside(v, q), Apart(p, q) PROVE Beside(Frame(v, Left, top, height), q)
    BY <2>4, <2>7, FrameBeside
  <2> QED BY <1>10, <2>4, <2>6, <2>7
<1>13. PICK t \in TextRows: t = Text(Left, 360, 8, 1) /\ t.cols = Left /\ t.top = 360 /\ End(t) = 368
  BY TextAt, ColumnFacts
<1>14. PICK u \in TextRows: u = Text(Wide, 456, 7, 3) /\ u.cols = Wide /\ u.top = 456 /\ End(u) = 477
  BY TextAt, ColumnFacts
<1>15. PICK m \in Seq(TextRows): m = <<t, u>> /\ Range(m) = {t, u}
  <2>1. <<t, u>> \in Seq(TextRows) /\ Range(<<t, u>>) = {t, u}
    BY RangeTwo
  <2> QED BY <2>1, Zenon
<1>16. Beside(k, Sits(t)) /\ EndsAbove(Sits(t), 791, 791, 0) /\ End(t) <= PageBottom
  <2>1. PICK q: q = Sits(t) /\ q.cols = Left /\ q.top = 360 /\ q.end = 368
    <3>1. PICK q: q = Sits(t)
      OBVIOUS
    <3>2. q.cols = Left /\ q.top = 360 /\ q.end = 368
      BY <1>13, <3>1 DEF Sits, Place
    <3> QED BY <3>1, <3>2
  <2>2. Beside(v, q)
    <3>1. 360 \in Nat /\ 0 \in Nat /\ q.top \in Nat /\ 360 <= q.top /\ 0 <= q.top
      BY <2>1
    <3>2. q.cols \in SUBSET Columns /\ "boxed" \notin q.cols
      BY <2>1, ColumnFacts
    <3> QED BY <1>10, <3>1, <3>2, StartsBelow
  <2>3. Apart(p, q)
    BY <1>11, <2>1 DEF Apart
  <2>4. EndsAbove(q, 791, 791, 0)
    BY <2>1, ColumnFacts DEF EndsAbove
  <2> QED BY <1>12, <1>13, <2>1, <2>2, <2>3, <2>4 DEF PageBottom
<1>17. Beside(k, Sits(u)) /\ EndsAbove(Sits(u), 791, 791, 0) /\ End(u) <= PageBottom
  <2>1. PICK q: q = Sits(u) /\ q.cols = Wide /\ q.top = 456 /\ q.end = 477
    <3>1. PICK q: q = Sits(u)
      OBVIOUS
    <3>2. q.cols = Wide /\ q.top = 456 /\ q.end = 477
      BY <1>14, <3>1 DEF Sits, Place
    <3> QED BY <3>1, <3>2
  <2>2. Beside(v, q)
    <3>1. 360 \in Nat /\ 0 \in Nat /\ q.top \in Nat /\ 360 <= q.top /\ 0 <= q.top
      BY <2>1
    <3>2. q.cols \in SUBSET Columns /\ "boxed" \notin q.cols
      BY <2>1, ColumnFacts
    <3> QED BY <1>10, <3>1, <3>2, StartsBelow
  <2>3. Apart(p, q)
    BY <1>11, <2>1 DEF Apart
  <2>4. EndsAbove(q, 791, 791, 0)
    BY <2>1, ColumnFacts DEF EndsAbove
  <2> QED BY <1>12, <1>14, <2>1, <2>2, <2>3, <2>4 DEF PageBottom
<1>18. Apart(Sits(t), Sits(u)) /\ Apart(Sits(u), Sits(t))
  BY <1>13, <1>14 DEF Apart, Sits, Place
<1>19. PICK z \in Sheets: z = FoldLeft(Put, k, m) /\ z.page = 3 /\ Clear(z, 791, 791, 0)
  <2>1. \A x \in Range(m): End(x) <= PageBottom /\ Beside(k, Sits(x)) /\ EndsAbove(Sits(x), 791, 791, 0)
    BY <1>15, <1>16, <1>17
  <2>2. \A x, o \in Range(m): x = o \/ Apart(Sits(x), Sits(o))
    BY <1>15, <1>18
  <2> QED BY <1>12, <2>1, <2>2, Written
<1>20. Stage("end", d, h, z)
  <2>1. LastPage(d) = 3
    BY DEF LastPage, Flag
  <2> QED BY <1>19, <2>1 DEF Stage, Clear
<1>21. 112 + 16 * 15 + 8 = 360 /\ 360 + 12 = 372 /\ 360 + 96 = 456
  OBVIOUS
<1> QED BY <1>2, <1>5, <1>10, <1>12, <1>13, <1>14, <1>15, <1>19, <1>20, <1>21

\* A document that fits has room on its page for all that the header and the table take.
LEMMA HeaderRoom ==
  ASSUME NEW d \in Papers, d.kind \in {"DEVIS", "FACTURE"}, Fits(d)
  PROVE  /\ HeaderEnd(d) \in Nat /\ 200 <= HeaderEnd(d) /\ 22 * d.rows \in Nat
         /\ HeaderEnd(d) + 108 + 22 * d.rows <= 658
<1>1. HeaderEnd(d) \in Nat /\ 200 <= HeaderEnd(d) /\ 22 * d.rows \in Nat
  BY Heights, DocTyped
<1>2. CASE d.kind = "FACTURE"
  <2>1. HeaderEnd(d) + 110 + 22 * d.rows <= 660
    BY <1>2 DEF Fits
  <2> QED BY <1>1, <2>1
<1>3. CASE d.kind = "DEVIS"
  <2>1. LegalY(d) <= 772
    BY <1>3, Heights DEF Fits
  <2>2. TableY(d) + 166 <= LegalY(d)
    BY Heights
  <2>3. TableY(d) = HeaderEnd(d) + 116 + 22 * d.rows
    BY DEF TableY
  <2> QED BY <1>1, <2>1, <2>2, <2>3, Heights
<1> QED BY <1>1, <1>2, <1>3

LEMMA ClientDrawn ==
  ASSUME NEW d \in Papers, d.kind \in {"DEVIS", "FACTURE"}, Fits(d), NEW h, NEW s \in Sheets,
         Stage("client", d, h, s)
  PROVE  LET drawn == FoldLeft(Put, s, <<Text(Right, h - 20, 9, 1), Text(Right, h - 6, 10, 1)>>
                          \o [i \in 1 .. d.contact |-> Text(Right, h + 8 + 12 * (i - 1), 10, 1)]) IN
         drawn \in Sheets /\ Stage("table", d, h, drawn)
<1>1. h = HeaderEnd(d) /\ s.page = 1 /\ Clear(s, h, 96, 0) /\ h \in Nat /\ 200 <= h /\ h <= 550
  <2>1. h = HeaderEnd(d) /\ s.page = 1 /\ Clear(s, h, 96, 0)
    BY DEF Stage, Used
  <2> QED BY <2>1, HeaderRoom
<1>2. PICK n \in Nat: n = d.contact /\ n <= 2
  BY DocTyped DEF Fits
<1>3. PICK z \in Nat: z = h + 30 /\ h <= z /\ 96 <= z
  BY <1>1
<1>4. PICK top \in Nat, end \in Nat: /\ top = h - 20 /\ end = top + 1 * 9 /\ 96 <= top /\ end <= h - 6
                                     /\ end <= z /\ end <= 791 /\ end <= h + 8
  BY <1>1, <1>3
<1>5. PICK t \in TextRows: t = Text(Right, top, 9, 1) /\ t.cols = Right /\ t.top = top /\ End(t) = end
  BY <1>4, TextAt, ColumnFacts
<1>6. PICK under \in Nat, low \in Nat: /\ under = h - 6 /\ low = under + 1 * 10 /\ 96 <= under
                                       /\ low <= z /\ low <= 791 /\ low <= h + 8
  BY <1>1, <1>3
<1>7. PICK u \in TextRows: u = Text(Right, under, 10, 1) /\ u.cols = Right /\ u.top = under /\ End(u) = low
  BY <1>6, TextAt, ColumnFacts
<1>8. ASSUME NEW i \in 1 .. n
      PROVE  \E a \in Nat, e \in Nat: /\ a = h + 8 + 12 * (i - 1) /\ e = a + 1 * 10 /\ h + 8 <= a /\ 96 <= a
                                      /\ e <= h + 8 + 12 * i /\ e <= z /\ e <= 791
  BY <1>1, <1>2, <1>3
<1>9. PICK c \in [1 .. n -> TextRows]:
         /\ c = [i \in 1 .. n |-> Text(Right, h + 8 + 12 * (i - 1), 10, 1)]
         /\ \A i \in 1 .. n: \E a \in Nat, e \in Nat:
               /\ c[i].cols = Right /\ c[i].top = a /\ End(c[i]) = e
               /\ a = h + 8 + 12 * (i - 1) /\ h + 8 <= a /\ 96 <= a /\ e <= h + 8 + 12 * i /\ e <= z /\ e <= 791
  <2>1. PICK c: c = [i \in 1 .. n |-> Text(Right, h + 8 + 12 * (i - 1), 10, 1)]
    OBVIOUS
  <2>2. ASSUME NEW i \in 1 .. n
        PROVE  c[i] \in TextRows /\ \E a \in Nat, e \in Nat:
                  /\ c[i].cols = Right /\ c[i].top = a /\ End(c[i]) = e
                  /\ a = h + 8 + 12 * (i - 1) /\ h + 8 <= a /\ 96 <= a /\ e <= h + 8 + 12 * i /\ e <= z /\ e <= 791
    <3>1. PICK a \in Nat, e \in Nat: /\ a = h + 8 + 12 * (i - 1) /\ e = a + 1 * 10 /\ h + 8 <= a /\ 96 <= a
                                     /\ e <= h + 8 + 12 * i /\ e <= z /\ e <= 791
      BY <1>8
    <3>2. PICK x \in TextRows: x = Text(Right, a, 10, 1) /\ x.cols = Right /\ x.top = a /\ End(x) = e
      BY <3>1, TextAt, ColumnFacts
    <3>3. c[i] = x
      BY <2>1, <3>1, <3>2
    <3> QED BY <3>1, <3>2, <3>3
  <2>3. c \in [1 .. n -> TextRows]
    BY <2>1, <2>2
  <2>4. \A i \in 1 .. n: \E a \in Nat, e \in Nat:
           /\ c[i].cols = Right /\ c[i].top = a /\ End(c[i]) = e
           /\ a = h + 8 + 12 * (i - 1) /\ h + 8 <= a /\ 96 <= a /\ e <= h + 8 + 12 * i /\ e <= z /\ e <= 791
    BY <2>2
  <2> QED BY <2>1, <2>3, <2>4, Zenon
<1>10. c \in Seq(TextRows) /\ \A x \in Range(c): \E i \in 1 .. n: x = c[i]
  BY RangeRows
<1>11. ASSUME NEW x \in Range(c)
       PROVE  Between(x, h, 96, 0, z, z, 0) /\ Free(t, x) /\ Free(u, x)
  <2>1. PICK i \in 1 .. n: x = c[i]
    BY <1>10
  <2>2. PICK a \in Nat, e \in Nat: /\ x.cols = Right /\ x.top = a /\ End(x) = e
                                   /\ h + 8 <= a /\ 96 <= a /\ e <= z /\ e <= 791
    BY <1>9, <2>1
  <2>3. x \in TextRows
    BY <2>1
  <2>4. Between(x, h, 96, 0, z, z, 0)
    BY <2>2, <2>3, RightBetween
  <2>5. end <= a /\ low <= a
    <3>1. PICK mid \in Nat: mid = h + 8
      BY <1>1
    <3>2. end <= mid /\ low <= mid /\ mid <= a
      BY <1>4, <1>6, <2>2, <3>1
    <3> QED BY <3>2
  <2> QED BY <1>5, <1>7, <2>2, <2>4, <2>5, Zenon DEF Free
<1>12. ASSUME NEW i \in 1 .. n, NEW j \in 1 .. n, i < j PROVE Free(c[i], c[j])
  <2>1. PICK e \in Nat: End(c[i]) = e /\ e <= h + 8 + 12 * i
    BY <1>9
  <2>2. PICK a \in Nat: c[j].top = a /\ a = h + 8 + 12 * (j - 1)
    BY <1>9
  <2>3. e <= a
    BY <1>1, <1>12, <2>1, <2>2
  <2> QED BY <2>1, <2>2, <2>3 DEF Free
<1>13. \A x, o \in Range(c): Free(x, o)
  <2> SUFFICES ASSUME NEW x \in Range(c), NEW o \in Range(c) PROVE Free(x, o)
    OBVIOUS
  <2>1. PICK i \in 1 .. n: x = c[i]
    BY <1>10
  <2>2. PICK j \in 1 .. n: o = c[j]
    BY <1>10
  <2>3. i < j \/ j < i \/ i = j
    OBVIOUS
  <2> QED BY <1>12, <2>1, <2>2, <2>3, FreeBoth
<1>14. PICK m \in Seq(TextRows): m = <<t, u>> \o c /\ Range(m) \subseteq {t, u} \union Range(c)
  <2>1. PICK a \in Seq(TextRows): a = <<t, u>> /\ Range(a) = {t, u}
    <3>1. <<t, u>> \in Seq(TextRows) /\ Range(<<t, u>>) = {t, u}
      BY RangeTwo
    <3> QED BY <3>1, Zenon
  <2>2. a \o c \in Seq(TextRows) /\ Range(a \o c) \subseteq Range(a) \union Range(c)
    BY <1>10, RangeConcat
  <2> QED BY <2>1, <2>2
<1>15. \A x \in Range(m): Between(x, h, 96, 0, z, z, 0)
  <2>1. Between(t, h, 96, 0, z, z, 0)
    BY <1>4, <1>5, RightBetween
  <2>2. Between(u, h, 96, 0, z, z, 0)
    BY <1>6, <1>7, RightBetween
  <2> QED BY <1>11, <1>14, <2>1, <2>2
<1>16. \A x, o \in Range(m): Free(x, o)
  <2>1. Free(t, u)
    <3>1. end <= under
      BY <1>4, <1>6
    <3> QED BY <1>5, <1>7, <3>1, Zenon DEF Free
  <2> QED BY <1>11, <1>13, <1>14, <2>1, FreeBoth
<1>17. PICK k \in Sheets: k = FoldLeft(Put, s, m) /\ k.page = 1 /\ Clear(k, z, z, 0)
  <2>1. 96 \in Nat /\ 0 \in Nat /\ 0 <= 0
    OBVIOUS
  <2> QED BY <1>1, <1>3, <1>15, <1>16, <2>1, Stacked
<1>18. Stage("table", d, h, k)
  BY <1>1, <1>3, <1>17 DEF Stage, Used
<1> QED BY <1>2, <1>4, <1>5, <1>6, <1>7, <1>9, <1>14, <1>17, <1>18

\* A row has a text on the left and one on the right.
RowText(h, w, i) ==
    IF i % 2 = 1 THEN Text(Left, RowTop(h + 30, (i + 1) \div 2), 9, w)
    ELSE Text(Right, RowTop(h + 30, i \div 2), 9, 1)

RowAt(x, h, n, k) ==
    \E i \in 1 .. n, a \in Nat, e \in Nat:
       /\ x.top = a /\ End(x) = e /\ a = h + 32 + 22 * i /\ e <= h + 50 + 22 * i
       /\ (k = 2 * i - 1 /\ x.cols = Left) \/ (k = 2 * i /\ x.cols = Right)

LEMMA OneRow ==
  ASSUME NEW h \in Nat, NEW n \in Nat, NEW w \in Nat, w <= 2, NEW k \in 1 .. 2 * n
  PROVE  RowText(h, w, k) \in TextRows /\ RowAt(RowText(h, w, k), h, n, k)
<1>1. CASE k % 2 = 1
  <2>1. PICK i \in 1 .. n: i = (k + 1) \div 2 /\ k = 2 * i - 1
    BY <1>1
  <2>2. PICK a \in Nat, e \in Nat: /\ a = h + 30 + 24 + 22 * (i - 1) /\ e = a + w * 9
                                   /\ a = h + 32 + 22 * i /\ e <= h + 50 + 22 * i
    OBVIOUS
  <2>3. PICK x \in TextRows: x = Text(Left, a, 9, w) /\ x.cols = Left /\ x.top = a /\ End(x) = e
    BY <2>2, TextAt, ColumnFacts
  <2>4. RowText(h, w, k) = x
    BY <1>1, <2>1, <2>2, <2>3 DEF RowText, RowTop
  <2>5. RowAt(x, h, n, k)
    BY <2>1, <2>2, <2>3, Zenon DEF RowAt
  <2> QED BY <2>4, <2>5
<1>2. CASE ~(k % 2 = 1)
  <2>1. PICK i \in 1 .. n: i = k \div 2 /\ k = 2 * i
    BY <1>2
  <2>2. PICK a \in Nat, e \in Nat: /\ a = h + 30 + 24 + 22 * (i - 1) /\ e = a + 1 * 9
                                   /\ a = h + 32 + 22 * i /\ e <= h + 50 + 22 * i
    OBVIOUS
  <2>3. PICK x \in TextRows: x = Text(Right, a, 9, 1) /\ x.cols = Right /\ x.top = a /\ End(x) = e
    BY <2>2, TextAt, ColumnFacts
  <2>4. RowText(h, w, k) = x
    BY <1>2, <2>1, <2>2, <2>3 DEF RowText, RowTop
  <2>5. RowAt(x, h, n, k)
    BY <2>1, <2>2, <2>3, Zenon DEF RowAt
  <2> QED BY <2>4, <2>5
<1> QED BY <1>1, <1>2

LEMMA RowTexts ==
  ASSUME NEW h \in Nat, NEW n \in Nat, NEW w \in Nat, w <= 2
  PROVE  \E rows \in [1 .. 2 * n -> TextRows]:
            rows = [i \in 1 .. 2 * n |-> RowText(h, w, i)] /\ \A k \in 1 .. 2 * n: RowAt(rows[k], h, n, k)
<1>1. PICK rows: rows = [i \in 1 .. 2 * n |-> RowText(h, w, i)]
  OBVIOUS
<1>2. \A k \in 1 .. 2 * n: rows[k] \in TextRows /\ RowAt(rows[k], h, n, k)
  BY <1>1, OneRow
<1>3. rows \in [1 .. 2 * n -> TextRows]
  BY <1>1, <1>2
<1> QED BY <1>1, <1>2, <1>3, Zenon

\* The parts of the table of a document, from the height h.
TableParts(d, h, rows, end, tax) ==
    /\ rows = [i \in 1 .. 2 * d.rows |-> RowText(h, d.wraps, i)]
    /\ end = RowTop(h + 30, d.rows + 1) + 10
    /\ tax = IF d.franchise THEN Text(Left, end + 14, 9, 1) ELSE Text(Right, end + 14, 9, 1)

LEMMA TableDrawn ==
  ASSUME NEW d \in Papers, d.kind \in {"DEVIS", "FACTURE"}, Fits(d), NEW h, NEW s \in Sheets,
         Stage("table", d, h, s), NEW rows, NEW end, NEW tax, TableParts(d, h, rows, end, tax)
  PROVE  LET drawn == FoldLeft(Put, s, <<Text(Left, h + 30, 9, 1), Text(Right, h + 30, 9, 1)>> \o rows
                                  \o <<Text(Right, end, 9, 1), tax, Text(Right, end + 32, 12, 1)>>) IN
         drawn \in Sheets /\ Stage(After(d, "table"), d, end + TotalsHeight, drawn)
<1>1. h = HeaderEnd(d) /\ s.page = 1 /\ Clear(s, h + 30, h + 30, 0) /\ h \in Nat
  <2>1. h = HeaderEnd(d) /\ s.page = 1 /\ Clear(s, h + 30, h + 30, 0)
    BY DEF Stage, Used
  <2> QED BY <2>1, HeaderRoom
<1>2. PICK n \in Nat, w \in Nat: n = d.rows /\ w = d.wraps /\ w <= 2
  BY DocTyped DEF Fits
<1>3. PICK top \in Nat: top = h + 30
  BY <1>1
<1>4. PICK height \in Nat: height = 22 * n
  OBVIOUS
<1>5. PICK base \in Nat: base = end /\ base = h + 64 + height /\ base + 44 <= 658 /\ base + 52 = TableY(d)
  <2>1. end = h + 30 + 24 + 22 * (n + 1 - 1) + 10
    BY <1>2 DEF TableParts, RowTop
  <2>2. end = h + 64 + height
    BY <1>1, <1>4, <2>1
  <2>3. h + 108 + height <= 658
    BY <1>1, <1>2, <1>4, HeaderRoom
  <2>4. TableY(d) = h + 116 + height
    BY <1>1, <1>2, <1>4 DEF TableY
  <2>5. PICK e \in Nat: e = h + 64 + height
    BY <1>1
  <2>6. e + 44 <= 658
    BY <1>1, <2>5, <2>3
  <2>7. e + 52 = TableY(d)
    BY <1>1, <2>5, <2>4
  <2> QED BY <2>2, <2>5, <2>6, <2>7
<1>6. PICK z \in Nat: z = base + 44 /\ top <= z
  BY <1>1, <1>3, <1>5
<1>7. PICK last \in Nat: last = top + 9 /\ last <= z /\ last <= h + 54
  BY <1>1, <1>3, <1>5, <1>6
<1>8. PICK t \in TextRows: t = Text(Left, top, 9, 1) /\ t.cols = Left /\ t.top = top /\ End(t) = last
  <2>1. last = top + 1 * 9
    BY <1>7
  <2> QED BY <2>1, TextAt, ColumnFacts
<1>9. PICK u \in TextRows: u = Text(Right, top, 9, 1) /\ u.cols = Right /\ u.top = top /\ End(u) = last
  <2>1. last = top + 1 * 9
    BY <1>7
  <2> QED BY <2>1, TextAt, ColumnFacts
<1>10. PICK e1 \in Nat, p2 \in Nat, e2 \in Nat, p3 \in Nat, e3 \in Nat:
          e1 = base + 1 * 9 /\ p2 = base + 14 /\ e2 = p2 + 1 * 9 /\ p3 = base + 32 /\ e3 = p3 + 1 * 12
  OBVIOUS
<1>11. e1 <= p2 /\ e1 <= p3 /\ e2 <= p3
  BY <1>10
<1>12. e1 <= z /\ e2 <= z /\ e3 <= z
  BY <1>6, <1>10
<1>13. top <= base /\ last <= base /\ top <= last
  <2>1. top <= base
    BY <1>1, <1>3, <1>5
  <2>2. last <= base
    BY <1>1, <1>3, <1>5, <1>7
  <2> QED BY <1>7, <2>1, <2>2
<1>14. base <= p2 /\ base <= p3 /\ last <= p2 /\ last <= p3 /\ top <= p2 /\ top <= p3
  BY <1>10, <1>13
<1>15. z <= 791 /\ last <= 791 /\ e1 <= 791 /\ e2 <= 791 /\ e3 <= 791 /\ base <= z
  <2>1. z <= 791
    BY <1>5, <1>6
  <2>2. base <= z
    BY <1>6
  <2> QED BY <1>7, <1>12, <2>1, <2>2
<1>16. PICK v \in TextRows: v = Text(Right, base, 9, 1) /\ v.cols = Right /\ v.top = base /\ End(v) = e1
  BY <1>10, TextAt, ColumnFacts
<1>17. PICK x \in TextRows: x = tax /\ x.cols \in {Left, Right} /\ x.top = p2 /\ End(x) = e2
  <2>1. PICK a \in TextRows: a = Text(Left, p2, 9, 1) /\ a.cols = Left /\ a.top = p2 /\ End(a) = e2
    BY <1>10, TextAt, ColumnFacts
  <2>2. PICK c \in TextRows: c = Text(Right, p2, 9, 1) /\ c.cols = Right /\ c.top = p2 /\ End(c) = e2
    BY <1>10, TextAt, ColumnFacts
  <2> QED BY <1>5, <1>10, <2>1, <2>2 DEF TableParts
<1>18. PICK o \in TextRows: o = Text(Right, base + 32, 12, 1) /\ o.cols = Right /\ o.top = p3 /\ End(o) = e3
  BY <1>10, TextAt, ColumnFacts
<1>19. rows \in [1 .. 2 * n -> TextRows] /\ \A k \in 1 .. 2 * n: RowAt(rows[k], h, n, k)
  <2>1. PICK r \in [1 .. 2 * n -> TextRows]:
           r = [i \in 1 .. 2 * n |-> RowText(h, w, i)] /\ \A k \in 1 .. 2 * n: RowAt(r[k], h, n, k)
    <3>1. h \in Nat /\ n \in Nat /\ w \in Nat /\ w <= 2
      BY <1>1, <1>2
    <3> QED BY <3>1, RowTexts, Zenon
  <2>2. rows = r
    BY <1>2, <2>1 DEF TableParts
  <2> QED BY <2>1, <2>2
<1>20. rows \in Seq(TextRows) /\ \A a \in Range(rows): \E k \in 1 .. 2 * n: a = rows[k]
  <2>1. PICK p \in Nat: p = 2 * n
    OBVIOUS
  <2>2. rows \in [1 .. p -> TextRows]
    BY <1>19, <2>1
  <2>3. rows \in Seq(TextRows) /\ \A a \in Range(rows): \E k \in 1 .. p: a = rows[k]
    BY <2>2, RangeRows, Zenon
  <2> QED BY <2>1, <2>3
<1>21. ASSUME NEW g \in Range(rows)
       PROVE  /\ Between(g, top, top, 0, z, z, 0) /\ Free(t, g) /\ Free(u, g)
              /\ Free(g, v) /\ Free(g, x) /\ Free(g, o)
  <2>1. PICK k \in 1 .. 2 * n: g = rows[k]
    BY <1>20
  <2>2. PICK i \in 1 .. n, a \in Nat, e \in Nat:
               /\ g.top = a /\ End(g) = e /\ a = h + 32 + 22 * i /\ e <= h + 50 + 22 * i
               /\ (g.cols = Left \/ g.cols = Right) /\ g \in TextRows
    BY <1>19, <2>1 DEF RowAt
  <2>3. PICK at \in Nat: at = 22 * i /\ at <= height /\ 22 <= at
    BY <1>4
  <2>4. last <= a
    BY <1>1, <1>7, <2>2, <2>3
  <2>5. e <= base
    <3>1. e <= h + 50 + at
      BY <2>2, <2>3
    <3>2. base = h + 64 + height
      BY <1>5
    <3>3. h + 50 + at <= h + 64 + height
      BY <1>1, <2>3
    <3> QED BY <1>1, <2>2, <2>3, <3>1, <3>2, <3>3
  <2>6. top <= a /\ e <= z /\ e <= 791 /\ e <= p2 /\ e <= p3
    BY <1>13, <1>14, <1>15, <2>4, <2>5
  <2>7. Between(g, top, top, 0, z, z, 0)
    BY <2>2, <2>6, LeftBetween, RightBetween
  <2>8. Free(t, g) /\ Free(u, g)
    BY <1>8, <1>9, <2>2, <2>4, Zenon DEF Free
  <2>9. Free(g, v) /\ Free(g, x) /\ Free(g, o)
    BY <1>16, <1>17, <1>18, <2>2, <2>5, <2>6, Zenon DEF Free
  <2> QED BY <2>7, <2>8, <2>9
<1>22. ASSUME NEW k \in 1 .. 2 * n, NEW j \in 1 .. 2 * n, k < j PROVE Free(rows[k], rows[j])
  <2>1. PICK i \in 1 .. n, a \in Nat, e \in Nat:
               /\ rows[k].top = a /\ End(rows[k]) = e /\ a = h + 32 + 22 * i /\ e <= h + 50 + 22 * i
               /\ (k = 2 * i - 1 /\ rows[k].cols = Left) \/ (k = 2 * i /\ rows[k].cols = Right)
    BY <1>19 DEF RowAt
  <2>2. PICK l \in 1 .. n, b \in Nat, c \in Nat:
               /\ rows[j].top = b /\ End(rows[j]) = c /\ b = h + 32 + 22 * l /\ c <= h + 50 + 22 * l
               /\ (j = 2 * l - 1 /\ rows[j].cols = Left) \/ (j = 2 * l /\ rows[j].cols = Right)
    BY <1>19 DEF RowAt
  <2>3. CASE i < l
    <3>1. PICK at \in Nat, bt \in Nat: at = 22 * i /\ bt = 22 * l /\ at + 22 <= bt
      BY <2>3
    <3>2. e <= h + 50 + at
      BY <2>1, <3>1
    <3>3. b = h + 32 + bt
      BY <2>2, <3>1
    <3>4. e <= b
      BY <1>1, <3>1, <3>2, <3>3
    <3> QED BY <2>1, <2>2, <3>4 DEF Free
  <2>4. CASE ~(i < l)
    <3>1. k = 2 * i - 1 /\ j = 2 * l
      BY <1>22, <2>1, <2>2, <2>4
    <3>2. rows[k].cols = Left /\ rows[j].cols = Right
      BY <2>1, <2>2, <3>1
    <3> QED BY <3>2, ColumnFacts DEF Free
  <2> QED BY <2>3, <2>4
<1>23. \A g, q \in Range(rows): Free(g, q)
  <2> SUFFICES ASSUME NEW g \in Range(rows), NEW q \in Range(rows) PROVE Free(g, q)
    OBVIOUS
  <2>1. PICK k \in 1 .. 2 * n: g = rows[k]
    BY <1>20
  <2>2. PICK j \in 1 .. 2 * n: q = rows[j]
    BY <1>20
  <2>3. k < j \/ j < k \/ k = j
    OBVIOUS
  <2> QED BY <1>22, <2>1, <2>2, <2>3, FreeBoth
<1>24. PICK m \in Seq(TextRows): m = <<t, u>> \o rows \o <<v, x, o>>
                                 /\ Range(m) \subseteq {t, u, v, x, o} \union Range(rows)
  <2>1. PICK a \in Seq(TextRows): a = <<t, u>> /\ Range(a) = {t, u}
    <3>1. <<t, u>> \in Seq(TextRows) /\ Range(<<t, u>>) = {t, u}
      BY RangeTwo
    <3> QED BY <3>1, Zenon
  <2>2. PICK c \in Seq(TextRows): c = <<v, x, o>> /\ Range(c) = {v, x, o}
    <3>1. <<v, x, o>> \in Seq(TextRows) /\ Range(<<v, x, o>>) = {v, x, o}
      BY RangeThree
    <3> QED BY <3>1, Zenon
  <2>3. PICK f \in Seq(TextRows): f = a \o rows /\ Range(f) \subseteq Range(a) \union Range(rows)
    <3>1. PICK r \in Seq(TextRows): r = rows
      BY <1>20
    <3>2. a \o r \in Seq(TextRows) /\ Range(a \o r) \subseteq Range(a) \union Range(r)
      BY RangeConcat
    <3> QED BY <3>1, <3>2, Zenon
  <2>4. f \o c \in Seq(TextRows) /\ Range(f \o c) \subseteq Range(f) \union Range(c)
    BY RangeConcat
  <2>5. Range(f \o c) \subseteq {t, u, v, x, o} \union Range(rows)
    BY <2>1, <2>2, <2>3, <2>4
  <2> QED BY <2>1, <2>2, <2>3, <2>4, <2>5
<1>25. \A g \in Range(m): Between(g, top, top, 0, z, z, 0)
  <2>1. top <= top
    BY <1>3
  <2>2. Between(t, top, top, 0, z, z, 0)
    BY <1>7, <1>8, <1>15, <2>1, LeftBetween
  <2>3. Between(u, top, top, 0, z, z, 0)
    BY <1>7, <1>9, <1>15, <2>1, RightBetween
  <2>4. Between(v, top, top, 0, z, z, 0)
    BY <1>16, <1>12, <1>13, <1>15, RightBetween
  <2>5. Between(x, top, top, 0, z, z, 0)
    BY <1>17, <1>12, <1>14, <1>15, LeftBetween, RightBetween
  <2>6. Between(o, top, top, 0, z, z, 0)
    BY <1>18, <1>12, <1>14, <1>15, RightBetween
  <2> QED BY <1>21, <1>24, <2>2, <2>3, <2>4, <2>5, <2>6
<1>26. \A g, q \in Range(m): Free(g, q)
  <2>1. Free(t, u)
    BY <1>8, <1>9, ColumnFacts DEF Free
  <2>2. Free(t, v) /\ Free(t, x) /\ Free(t, o)
    BY <1>8, <1>16, <1>17, <1>18, <1>13, <1>14, Zenon DEF Free
  <2>3. Free(u, v) /\ Free(u, x) /\ Free(u, o)
    BY <1>9, <1>16, <1>17, <1>18, <1>13, <1>14, Zenon DEF Free
  <2>4. Free(v, x) /\ Free(v, o) /\ Free(x, o)
    BY <1>16, <1>17, <1>18, <1>11, Zenon DEF Free
  <2>5. \A g, q \in {t, u, v, x, o}: Free(g, q)
    BY <2>1, <2>2, <2>3, <2>4, FreeBoth
  <2>6. \A g \in {t, u, v, x, o}, q \in Range(rows): Free(g, q) /\ Free(q, g)
    BY <1>21, FreeBoth
  <2> SUFFICES ASSUME NEW g \in Range(m), NEW q \in Range(m) PROVE Free(g, q)
    OBVIOUS
  <2>7. g \in {t, u, v, x, o} \/ g \in Range(rows)
    BY <1>24
  <2>8. q \in {t, u, v, x, o} \/ q \in Range(rows)
    BY <1>24
  <2> QED BY <1>23, <2>5, <2>6, <2>7, <2>8, Zenon
<1>27. PICK k \in Sheets: k = FoldLeft(Put, s, m) /\ k.page = 1 /\ Clear(k, z, z, 0)
  <2>1. Clear(s, top, top, 0) /\ 0 \in Nat /\ 0 <= 0
    BY <1>1, <1>3
  <2> QED BY <1>1, <1>6, <1>25, <1>26, <2>1, Stacked
<1>28. m = <<Text(Left, h + 30, 9, 1), Text(Right, h + 30, 9, 1)>> \o rows
           \o <<Text(Right, end, 9, 1), tax, Text(Right, end + 32, 12, 1)>>
  BY <1>3, <1>5, <1>8, <1>9, <1>16, <1>17, <1>18, <1>24, Zenon
<1>29. Stage(After(d, "table"), d, end + TotalsHeight, k)
  <2>1. CASE d.kind = "DEVIS"
    <3>1. PICK a \in Nat: a = TableY(d) /\ z <= a
      BY <1>5, <1>6
    <3>2. 0 \in Nat /\ 0 <= 0
      OBVIOUS
    <3>3. Clear(k, a, a, 0)
      BY <1>27, <3>1, <3>2, Lower
    <3>4. Stage("notes", d, end + TotalsHeight, k)
      BY <1>5, <1>27, <3>1, <3>3 DEF Stage, Used, TotalsHeight
    <3> QED BY <2>1, <3>4, AfterIs
  <2>2. CASE d.kind = "FACTURE"
    <3>1. PICK a \in Nat: a = 660 /\ z <= a
      BY <1>5, <1>6
    <3>2. 0 \in Nat /\ 0 <= 0
      OBVIOUS
    <3>3. Clear(k, a, a, 0)
      BY <1>27, <3>1, <3>2, Lower
    <3>4. Stage("dates", d, end + TotalsHeight, k)
      BY <1>27, <3>1, <3>3 DEF Stage, Used
    <3> QED BY <2>2, <3>4, AfterIs
  <2> QED BY <2>1, <2>2
<1> QED BY <1>27, <1>29, <1>28

\* Texts beside what is on the sheet, above the heights.
LEMMA Placed ==
  ASSUME NEW s \in Sheets, NEW l \in Nat, NEW r \in Nat, NEW b \in Nat, Clear(s, l, r, b),
         NEW texts \in Seq(TextRows),
         \A t \in Range(texts): Between(t, 0, 0, 0, l, r, b) /\ Beside(s, Sits(t)),
         \A t, u \in Range(texts): Free(t, u)
  PROVE  /\ FoldLeft(Put, s, texts) \in Sheets /\ FoldLeft(Put, s, texts).page = s.page
         /\ Clear(FoldLeft(Put, s, texts), l, r, b)
<1>1. ASSUME NEW t \in Range(texts)
      PROVE  End(t) <= PageBottom /\ Beside(s, Sits(t)) /\ EndsAbove(Sits(t), l, r, b)
  BY Zenon DEF Between, EndsAbove, Sits, Place
<1>2. ASSUME NEW t \in Range(texts), NEW u \in Range(texts) PROVE t = u \/ Apart(Sits(t), Sits(u))
  <2>1. Free(t, u)
    OBVIOUS
  <2> QED BY <2>1 DEF Free, Apart, Sits, Place
<1> QED BY <1>1, <1>2, Written

\* The lines of the issuer.
IssuerTopOf(d) == IF d.logo > 0 THEN 180 ELSE 130
IssuerLine(top, i) == Text(Left, top + (IF i = 1 THEN 0 ELSE 14 + 12 * (i - 2)), 10, 1)
LineAt(x, top, k) ==
    \E a \in Nat, e \in Nat: /\ x.cols = Left /\ x.top = a /\ End(x) = e
                             /\ top <= a /\ e <= top + 2 + 12 * k /\ (k > 1 => a + 10 = top + 12 * k)

LEMMA OneLine ==
  ASSUME NEW top \in Nat, NEW k \in Nat \ {0}
  PROVE  IssuerLine(top, k) \in TextRows /\ LineAt(IssuerLine(top, k), top, k)
<1>1. PICK a \in Nat, e \in Nat:
         /\ a = top + (IF k = 1 THEN 0 ELSE 14 + 12 * (k - 2)) /\ e = a + 1 * 10
         /\ top <= a /\ e <= top + 2 + 12 * k /\ (k > 1 => a + 10 = top + 12 * k)
  <2>1. CASE k = 1
    BY <2>1
  <2>2. CASE k # 1
    BY <2>2
  <2> QED BY <2>1, <2>2
<1>2. PICK x \in TextRows: x = Text(Left, a, 10, 1) /\ x.cols = Left /\ x.top = a /\ End(x) = e
  BY <1>1, TextAt, ColumnFacts
<1>3. IssuerLine(top, k) = x
  BY <1>1, <1>2, Zenon DEF IssuerLine
<1>4. LineAt(x, top, k)
  BY <1>1, <1>2, Zenon DEF LineAt
<1> QED BY <1>3, <1>4

LEMMA IssuerLines ==
  ASSUME NEW top \in Nat, NEW n \in Nat
  PROVE  \E l \in [1 .. n -> TextRows]:
            l = [i \in 1 .. n |-> IssuerLine(top, i)] /\ \A k \in 1 .. n: LineAt(l[k], top, k)
<1>1. PICK l: l = [i \in 1 .. n |-> IssuerLine(top, i)]
  OBVIOUS
<1>2. \A k \in 1 .. n: l[k] \in TextRows /\ LineAt(l[k], top, k)
  BY <1>1, OneLine
<1>3. l \in [1 .. n -> TextRows]
  BY <1>1, <1>2
<1> QED BY <1>1, <1>2, <1>3, Zenon

\* What does not stand on the logo.
OffLogo(q, n) == q.cols = Right \/ q.end <= 80 \/ (n > 0 => 180 <= q.top)

LEMMA LogoDrawn ==
  ASSUME NEW n \in Nat, n <= 100, NEW z \in Nat, 200 <= z, NEW s, s = [page |-> 1, marks |-> {}]
  PROVE  LET f == IF n > 0 THEN Frame(s, Left, 80, n) ELSE s IN
         /\ f \in Sheets /\ f.page = 1 /\ Clear(f, z, 96, 0)
         /\ \A q: q.top \in Nat /\ OffLogo(q, n) => Beside(f, q)
<1>1. s \in Sheets /\ Clear(s, 0, 0, 0) /\ s.page = 1
  BY Blanks
<1>2. Clear(s, z, 96, 0)
  BY <1>1, Lower
<1>3. \A q: Beside(s, q)
  BY DEF Beside
<1>4. CASE n > 0
  <2>1. PICK p: p = Place(Left, 80, 80 + n)
    OBVIOUS
  <2>2. p.cols = Left /\ p.top = 80 /\ p.end = 80 + n
    BY <2>1 DEF Place
  <2>3. EndsAbove(p, z, 96, 0)
    BY <2>2, ColumnFacts DEF EndsAbove
  <2>4. Left \in SUBSET Columns /\ 80 \in Nat
    BY ColumnFacts
  <2>5. /\ Frame(s, Left, 80, n) \in Sheets /\ Frame(s, Left, 80, n).page = s.page
        /\ Clear(Frame(s, Left, 80, n), z, 96, 0)
    BY <1>1, <1>2, <1>3, <2>1, <2>3, <2>4, Framed
  <2>6. ASSUME NEW q, q.top \in Nat, OffLogo(q, n) PROVE Beside(Frame(s, Left, 80, n), q)
    <3>1. Apart(p, q)
      BY <1>4, <2>2, <2>6, ColumnFacts DEF OffLogo, Apart
    <3>2. PICK top \in Nat: top = 80 /\ p = Place(Left, top, top + n)
      BY <2>1
    <3>3. Beside(s, q) /\ Apart(Place(Left, top, top + n), q)
      BY <1>3, <3>1, <3>2
    <3>4. Beside(Frame(s, Left, top, n), q)
      BY <1>1, <3>3, FrameBeside
    <3> QED BY <3>2, <3>4
  <2> QED BY <1>1, <1>4, <2>5, <2>6
<1> QED BY <1>1, <1>2, <1>3, <1>4

\* The parts of the header of a document.
HeaderParts(d, issuer, end, mention) ==
    /\ issuer = [i \in 1 .. d.issuer |-> IssuerLine(IssuerTopOf(d), i)]
    /\ end = IssuerTopOf(d) + 14 + 12 * (d.issuer - 1)
    /\ mention = IF d.franchise THEN <<Text(Left, end + 2, 8, 1)>> ELSE << >>

\* The heights of the header.
HeaderAt(d, end, top, n, at, base, z) ==
    /\ top = IssuerTopOf(d) /\ n = d.issuer /\ at = 12 * n /\ base = end
    /\ z = Larger(end + 16 * Flag(d.franchise) + 8, 200) /\ z = HeaderEnd(d)
    /\ base = top + 2 + at /\ 130 <= top /\ (d.logo > 0 => top = 180)
    /\ 200 <= z /\ z <= 550 /\ base <= z /\ (d.franchise => base + 10 <= z)

LEMMA HeaderHeights ==
  ASSUME NEW d \in Papers, d.kind \in {"DEVIS", "FACTURE"}, Fits(d),
         NEW issuer, NEW end, NEW mention, HeaderParts(d, issuer, end, mention)
  PROVE  \E top \in Nat, n \in Nat, at \in Nat, base \in Nat, z \in Nat:
            HeaderAt(d, end, top, n, at, base, z)
<1>1. PICK n \in Nat \ {0}, at \in Nat: n = d.issuer /\ at = 12 * n
  BY DocTyped
<1>2. PICK top \in Nat: top = IssuerTopOf(d) /\ 130 <= top /\ (d.logo > 0 => top = 180)
  BY DEF IssuerTopOf
<1>3. PICK fl \in {0, 1}: fl = Flag(d.franchise) /\ (d.franchise => fl = 1)
  BY DocTyped, FlagTyped
<1>4. PICK base \in Nat: base = top + 2 + at
  OBVIOUS
<1>5. end = base
  <2>1. end = top + 14 + 12 * (n - 1)
    BY <1>1, <1>2 DEF HeaderParts
  <2> QED BY <1>1, <1>4, <2>1
<1>6. PICK e \in Nat: e = base + 16 * fl + 8
  BY <1>3
<1>7. PICK z \in Nat: z = Larger(e, 200) /\ e <= z /\ 200 <= z
  BY DEF Larger
<1>8. HeaderEnd(d) = Larger(top + 10 + at + 16 * fl, 200)
  BY <1>1, <1>2, <1>3 DEF HeaderEnd, IssuerTopOf
<1>9. top + 10 + at + 16 * fl = e
  BY <1>3, <1>4, <1>6
<1>10. z = HeaderEnd(d) /\ z = Larger(end + 16 * Flag(d.franchise) + 8, 200)
  BY <1>3, <1>5, <1>6, <1>7, <1>8, <1>9
<1>11. z <= 550
  <2>1. HeaderEnd(d) + 108 + 22 * d.rows <= 658 /\ 22 * d.rows \in Nat
    BY HeaderRoom
  <2>2. PICK r \in Nat: r = 22 * d.rows
    BY <2>1
  <2>3. z + 108 + r <= 658
    BY <1>10, <2>1, <2>2
  <2> QED BY <2>3
<1>12. base <= z
  BY <1>3, <1>6, <1>7
<1>13. ASSUME d.franchise PROVE base + 10 <= z
  <2>1. fl = 1
    BY <1>3, <1>13
  <2>2. e = base + 24
    BY <1>6, <2>1
  <2> QED BY <1>7, <2>2
<1>14. HeaderAt(d, end, top, n, at, base, z)
  BY <1>1, <1>2, <1>4, <1>5, <1>7, <1>10, <1>11, <1>12, <1>13, Zenon DEF HeaderAt
<1>15. n \in Nat
  OBVIOUS
<1> QED BY <1>14, <1>15, Zenon

LEMMA HeaderDrawn ==
  ASSUME NEW d \in Papers, d.kind \in {"DEVIS", "FACTURE"}, Fits(d), NEW h, NEW s \in Sheets,
         Stage("header", d, h, s),
         NEW issuer, NEW end, NEW mention, HeaderParts(d, issuer, end, mention)
  PROVE  LET titles == <<Text(Left, 50, 20, 1), Text(Right, 50, 16, 1),
                         Text(Right, 72, 10, 1), Text(Right, 86, 10, 1)>>
             logo == IF d.logo > 0 THEN Frame(s, Left, 80, d.logo) ELSE s
             drawn == FoldLeft(Put, logo, titles \o issuer \o mention) IN
         drawn \in Sheets /\ Stage("client", d, Larger(end + 16 * Flag(d.franchise) + 8, 200), drawn)
<1>1. PICK top \in Nat, n \in Nat, at \in Nat, base \in Nat, z \in Nat:
            HeaderAt(d, end, top, n, at, base, z)
  BY HeaderHeights, Zenon
<1>2. base = top + 2 + at /\ 130 <= top
  BY <1>1, Zenon DEF HeaderAt
<1>3. 200 <= z /\ z <= 550 /\ base <= z
  BY <1>1, Zenon DEF HeaderAt
<1>4. d.logo > 0 => top = 180
  BY <1>1, Zenon DEF HeaderAt
<1>5. d.franchise => base + 10 <= z
  BY <1>1, Zenon DEF HeaderAt
<1>6. /\ top = IssuerTopOf(d) /\ n = d.issuer /\ at = 12 * n /\ base = end
      /\ z = Larger(end + 16 * Flag(d.franchise) + 8, 200) /\ z = HeaderEnd(d)
  BY <1>1, Zenon DEF HeaderAt
<1>7. 130 <= base
  BY <1>2
<1>8. PICK p \in Nat: p = d.logo /\ p <= 100
  BY DocTyped DEF Fits
<1>9. PICK f \in Sheets: /\ f = (IF d.logo > 0 THEN Frame(s, Left, 80, d.logo) ELSE s)
                         /\ f.page = 1 /\ Clear(f, z, 96, 0)
                         /\ \A q: q.top \in Nat /\ OffLogo(q, p) => Beside(f, q)
  <2>1. s = [page |-> 1, marks |-> {}]
    BY DEF Stage
  <2>2. PICK f: f = (IF p > 0 THEN Frame(s, Left, 80, p) ELSE s)
    OBVIOUS
  <2>3. f \in Sheets /\ f.page = 1 /\ Clear(f, z, 96, 0) /\ \A q: q.top \in Nat /\ OffLogo(q, p) => Beside(f, q)
    BY <1>8, <1>3, <2>1, <2>2, LogoDrawn
  <2> QED BY <1>8, <2>2, <2>3
<1>10. ASSUME NEW x \in TextRows, NEW a \in Nat, NEW e \in Nat, x.top = a, End(x) = e, e <= z,
              (x.cols = Right /\ e <= 96) \/ (x.cols = Left /\ (e <= 80 \/ top <= a))
       PROVE  Between(x, 0, 0, 0, z, 96, 0) /\ Beside(f, Sits(x))
  <2>1. 0 <= a /\ e <= 791
    BY <1>10, <1>3
  <2>2. Between(x, 0, 0, 0, z, 96, 0)
    BY <1>10, <2>1, LeftBetween, RightBetween
  <2>3. PICK q: q = Sits(x)
    OBVIOUS
  <2>4. q.cols = x.cols /\ q.top = a /\ q.end = e
    BY <1>10, <2>3 DEF Sits, Place
  <2>5. OffLogo(q, p)
    BY <1>8, <1>10, <1>4, <2>4, ColumnFacts DEF OffLogo
  <2> QED BY <1>9, <2>2, <2>3, <2>4, <2>5
<1>11. PICK t \in TextRows: t = Text(Left, 50, 20, 1) /\ t.cols = Left /\ t.top = 50 /\ End(t) = 70
  BY TextAt, ColumnFacts
<1>12. PICK u \in TextRows: u = Text(Right, 50, 16, 1) /\ u.cols = Right /\ u.top = 50 /\ End(u) = 66
  BY TextAt, ColumnFacts
<1>13. PICK v \in TextRows: v = Text(Right, 72, 10, 1) /\ v.cols = Right /\ v.top = 72 /\ End(v) = 82
  BY TextAt, ColumnFacts
<1>14. PICK w \in TextRows: w = Text(Right, 86, 10, 1) /\ w.cols = Right /\ w.top = 86 /\ End(w) = 96
  BY TextAt, ColumnFacts
<1>15. PICK i1 \in [1 .. n -> TextRows]: i1 = issuer /\ \A k \in 1 .. n: LineAt(i1[k], top, k)
  <2>1. PICK l \in [1 .. n -> TextRows]:
           l = [i \in 1 .. n |-> IssuerLine(top, i)] /\ \A k \in 1 .. n: LineAt(l[k], top, k)
    BY IssuerLines
  <2>2. l = issuer
    BY <1>6, <2>1 DEF HeaderParts
  <2> QED BY <2>1, <2>2
<1>16. i1 \in Seq(TextRows) /\ \A x \in Range(i1): \E k \in 1 .. n: x = i1[k]
  BY RangeRows
<1>17. PICK a1 \in Nat, e1 \in Nat: a1 = base + 2 /\ e1 = a1 + 1 * 8 /\ e1 = base + 10
  OBVIOUS
<1>18. PICK o \in TextRows: o = Text(Left, a1, 8, 1) /\ o.cols = Left /\ o.top = a1 /\ End(o) = e1
  BY <1>17, TextAt, ColumnFacts
<1>19. PICK c \in Seq(TextRows): c = mention /\ Range(c) \subseteq {o} /\ (Range(c) # {} => d.franchise)
  <2>1. CASE d.franchise
    <3>1. mention = <<o>>
      BY <1>17, <1>18, <1>6, <2>1 DEF HeaderParts
    <3> QED BY <2>1, <3>1, RangeOne
  <2>2. CASE ~d.franchise
    <3>1. mention = << >>
      BY <2>2 DEF HeaderParts
    <3> QED BY <3>1, RangeNone
  <2> QED BY <2>1, <2>2
<1>20. ASSUME NEW x \in Range(i1)
       PROVE  /\ Between(x, 0, 0, 0, z, 96, 0) /\ Beside(f, Sits(x))
              /\ Free(t, x) /\ Free(u, x) /\ Free(v, x) /\ Free(w, x) /\ Free(x, o)
  <2>1. PICK k \in 1 .. n: x = i1[k] /\ x \in TextRows
    BY <1>16
  <2>2. PICK a \in Nat, e \in Nat: /\ x.cols = Left /\ x.top = a /\ End(x) = e
                                   /\ top <= a /\ e <= top + 2 + 12 * k
    BY <1>15, <2>1 DEF LineAt
  <2>3. PICK kt \in Nat: kt = 12 * k /\ kt <= at
    BY <1>6
  <2>4. e <= base
    <3>1. e <= top + 2 + kt
      BY <2>2, <2>3
    <3>2. base = top + 2 + at
      BY <1>2
    <3> QED BY <2>3, <3>1, <3>2
  <2>5. e <= z /\ e <= a1
    BY <1>17, <1>3, <2>4
  <2>6. 70 <= a
    BY <1>2, <2>2
  <2>7. Between(x, 0, 0, 0, z, 96, 0) /\ Beside(f, Sits(x))
    BY <1>10, <2>1, <2>2, <2>5
  <2>8. Free(t, x) /\ Free(x, o)
    BY <1>11, <1>18, <2>2, <2>5, <2>6, Zenon DEF Free
  <2>9. Free(u, x) /\ Free(v, x) /\ Free(w, x)
    BY <1>12, <1>13, <1>14, <2>2, ColumnFacts, Zenon DEF Free
  <2> QED BY <2>7, <2>8, <2>9
<1>21. ASSUME NEW j \in 1 .. n, NEW k \in 1 .. n, j < k PROVE Free(i1[j], i1[k])
  <2>1. PICK a \in Nat: i1[k].top = a /\ (k > 1 => a + 10 = top + 12 * k)
    BY <1>15 DEF LineAt
  <2>2. PICK e \in Nat: End(i1[j]) = e /\ e <= top + 2 + 12 * j
    BY <1>15 DEF LineAt
  <2>3. PICK kt \in Nat, jt \in Nat: kt = 12 * k /\ jt = 12 * j /\ jt + 12 <= kt
    BY <1>21
  <2>4. a + 10 = top + kt /\ e <= top + 2 + jt
    BY <1>21, <2>1, <2>2, <2>3
  <2>5. e <= a
    BY <2>3, <2>4
  <2> QED BY <2>1, <2>2, <2>5 DEF Free
<1>22. \A x, q \in Range(i1): Free(x, q)
  <2> SUFFICES ASSUME NEW x \in Range(i1), NEW q \in Range(i1) PROVE Free(x, q)
    OBVIOUS
  <2>1. PICK k \in 1 .. n: x = i1[k]
    BY <1>16
  <2>2. PICK j \in 1 .. n: q = i1[j]
    BY <1>16
  <2>3. k < j \/ j < k \/ k = j
    OBVIOUS
  <2> QED BY <1>21, <2>1, <2>2, <2>3, FreeBoth
<1>23. PICK m \in Seq(TextRows): m = <<t, u, v, w>> \o i1 \o c
                                 /\ Range(m) \subseteq {t, u, v, w} \union Range(i1) \union Range(c)
  <2>1. PICK a \in Seq(TextRows): a = <<t, u, v, w>> /\ Range(a) = {t, u, v, w}
    <3>1. <<t, u, v, w>> \in Seq(TextRows) /\ Range(<<t, u, v, w>>) = {t, u, v, w}
      BY RangeFour
    <3> QED BY <3>1, Zenon
  <2>2. PICK g \in Seq(TextRows): g = a \o i1 /\ Range(g) \subseteq Range(a) \union Range(i1)
    <3>1. PICK r \in Seq(TextRows): r = i1
      BY <1>16
    <3>2. a \o r \in Seq(TextRows) /\ Range(a \o r) \subseteq Range(a) \union Range(r)
      BY RangeConcat
    <3> QED BY <3>1, <3>2, Zenon
  <2>3. g \o c \in Seq(TextRows) /\ Range(g \o c) \subseteq Range(g) \union Range(c)
    BY RangeConcat
  <2> QED BY <2>1, <2>2, <2>3
<1>24. /\ Between(t, 0, 0, 0, z, 96, 0) /\ Beside(f, Sits(t)) /\ Between(u, 0, 0, 0, z, 96, 0) /\ Beside(f, Sits(u))
       /\ Between(v, 0, 0, 0, z, 96, 0) /\ Beside(f, Sits(v)) /\ Between(w, 0, 0, 0, z, 96, 0) /\ Beside(f, Sits(w))
  <2>1. 70 <= z /\ 66 <= z /\ 82 <= z /\ 96 <= z
    BY <1>3
  <2>2. Between(t, 0, 0, 0, z, 96, 0) /\ Beside(f, Sits(t))
    BY <1>10, <1>11, <2>1
  <2>3. Between(u, 0, 0, 0, z, 96, 0) /\ Beside(f, Sits(u))
    BY <1>10, <1>12, <2>1
  <2>4. Between(v, 0, 0, 0, z, 96, 0) /\ Beside(f, Sits(v))
    BY <1>10, <1>13, <2>1
  <2>5. Between(w, 0, 0, 0, z, 96, 0) /\ Beside(f, Sits(w))
    BY <1>10, <1>14, <2>1
  <2> QED BY <2>2, <2>3, <2>4, <2>5
<1>25. ASSUME d.franchise PROVE Between(o, 0, 0, 0, z, 96, 0) /\ Beside(f, Sits(o))
  <2>1. e1 <= z
    BY <1>17, <1>25, <1>5
  <2>2. top <= a1
    BY <1>17, <1>2
  <2> QED BY <1>10, <1>18, <2>1, <2>2
<1>26. \A x \in Range(m): Between(x, 0, 0, 0, z, 96, 0) /\ Beside(f, Sits(x))
  BY <1>19, <1>20, <1>23, <1>24, <1>25
<1>27. \A x, q \in Range(m): Free(x, q)
  <2>1. Free(t, u) /\ Free(t, v) /\ Free(t, w) /\ Free(u, o) /\ Free(v, o) /\ Free(w, o)
    BY <1>11, <1>12, <1>13, <1>14, <1>18, ColumnFacts, Zenon DEF Free
  <2>2. Free(u, v) /\ Free(u, w) /\ Free(v, w)
    BY <1>12, <1>13, <1>14 DEF Free
  <2>3. Free(t, o)
    <3>1. 70 <= a1
      BY <1>17, <1>7
    <3> QED BY <1>11, <1>18, <3>1, Zenon DEF Free
  <2>4. \A x, q \in {t, u, v, w, o}: Free(x, q)
    BY <2>1, <2>2, <2>3, FreeBoth
  <2>5. \A x \in {t, u, v, w, o}, q \in Range(i1): Free(x, q) /\ Free(q, x)
    BY <1>20, FreeBoth
  <2> SUFFICES ASSUME NEW x \in Range(m), NEW q \in Range(m) PROVE Free(x, q)
    OBVIOUS
  <2>6. x \in {t, u, v, w, o} \/ x \in Range(i1)
    BY <1>19, <1>23
  <2>7. q \in {t, u, v, w, o} \/ q \in Range(i1)
    BY <1>19, <1>23
  <2> QED BY <1>22, <2>4, <2>5, <2>6, <2>7, Zenon
<1>28. PICK k \in Sheets: k = FoldLeft(Put, f, m) /\ k.page = 1 /\ Clear(k, z, 96, 0)
  <2>1. 96 \in Nat /\ 0 \in Nat
    OBVIOUS
  <2> QED BY <1>9, <1>26, <1>27, <2>1, Placed
<1>29. Stage("client", d, z, k)
  BY <1>28, <1>6 DEF Stage, Used
<1>30. m = <<Text(Left, 50, 20, 1), Text(Right, 50, 16, 1), Text(Right, 72, 10, 1), Text(Right, 86, 10, 1)>>
           \o issuer \o mention
  BY <1>11, <1>12, <1>13, <1>14, <1>15, <1>19, <1>23, Zenon
<1> QED BY <1>9, <1>28, <1>29, <1>30, <1>6

\* The footer goes to a new page from its sixth line on, and the hash always does.
LEMMA FooterOver ==
  ASSUME NEW s \in Sheets, NEW n \in Nat, n > 5
  PROVE  Put(s, Text(Wide, 740, 9, n)) = Frame(AddPage(Frame(s, Wide, 740, 45)), Wide, 50, (n - 5) * 9)
<1>1. PICK e: e = (n - 5) * 9
  OBVIOUS
<1>2. PICK x: x = Mark(s.page, Wide, 740, 785)
  OBVIOUS
<1>3. PICK q: q = Mark(s.page + 1, Wide, 50, 50 + e)
  OBVIOUS
<1>4. PICK t: t = Text(Wide, 740, 9, n)
  OBVIOUS
<1>5. t.cols = Wide /\ t.top = 740 /\ t.size = 9 /\ t.lines = n
  BY <1>4 DEF Text
<1> DEFINE room == IF t.top > PageBottom THEN 0 ELSE (PageBottom - t.top) \div t.size
           here == Smaller(room, t.lines)
           over == t.lines - here
           kept == IF here = 0 THEN {} ELSE {Mark(s.page, t.cols, t.top, t.top + here * t.size)}
<1>6. Put(s, t) = IF over = 0 THEN [s EXCEPT !.marks = @ \union kept]
                  ELSE [page |-> s.page + 1,
                        marks |-> s.marks \union kept
                           \union {Mark(s.page + 1, t.cols, PageTop, PageTop + over * t.size)}]
  BY DEF Put, room, here
<1>7. room = 5
  BY <1>5 DEF PageBottom
<1> HIDE DEF room
<1>8. here = 5
  BY <1>5, <1>7 DEF Smaller
<1> HIDE DEF here
<1>9. over = n - 5 /\ over # 0
  BY <1>5, <1>8
<1>10. kept = {x}
  BY <1>2, <1>5, <1>8
<1> HIDE DEF over, kept
<1>11. Mark(s.page + 1, t.cols, PageTop, PageTop + over * t.size) = q
  BY <1>1, <1>3, <1>5, <1>9, Zenon DEF PageTop
<1>12. Put(s, t) = [page |-> s.page + 1, marks |-> s.marks \union {x} \union {q}]
  BY <1>6, <1>9, <1>10, <1>11
<1>13. PICK f: f = Frame(s, Wide, 740, 45)
  OBVIOUS
<1>14. f = [page |-> s.page, marks |-> s.marks \union {x}]
  BY <1>2, <1>13 DEF Frame, Sheets
<1>15. PICK g: g = AddPage(f)
  OBVIOUS
<1>16. g = [page |-> s.page + 1, marks |-> s.marks \union {x}]
  BY <1>14, <1>15 DEF AddPage
<1>17. Frame(g, Wide, 50, e) = [g EXCEPT !.marks = g.marks \union {Mark(g.page, Wide, 50, 50 + e)}]
  BY Zenon DEF Frame
<1>18. g.page = s.page + 1 /\ g.marks = s.marks \union {x}
  BY <1>16
<1>19. Frame(g, Wide, 50, e) = [page |-> s.page + 1, marks |-> s.marks \union {x} \union {q}]
  <2>1. Mark(g.page, Wide, 50, 50 + e) = q
    BY <1>3, <1>18
  <2> QED BY <1>16, <1>17, <1>18, <2>1
<1> QED BY <1>1, <1>4, <1>12, <1>13, <1>15, <1>19

LEMMA HashOver ==
  ASSUME NEW s \in Sheets
  PROVE  Put(s, Text(Wide, 800, 7, 1)) = Frame(AddPage(s), Wide, 50, 7)
<1>1. PICK a: a = Put(s, Text(Wide, 800, 7, 1))
  OBVIOUS
<1>2. Smaller(0, 1) = 0 /\ 1 - 0 # 0 /\ 800 > 791
  BY DEF Smaller
<1>3. a = [page |-> s.page + 1, marks |-> s.marks \union {Mark(s.page + 1, Wide, 50, 57)}]
  BY <1>1, <1>2 DEF Put, Text, PageBottom, PageTop
<1>4. PICK g: g = AddPage(s)
  OBVIOUS
<1>5. g = [page |-> s.page + 1, marks |-> s.marks] /\ g.page = s.page + 1 /\ g.marks = s.marks
  BY <1>4 DEF AddPage, Sheets
<1>6. Frame(g, Wide, 50, 7) = [page |-> s.page + 1, marks |-> s.marks \union {Mark(s.page + 1, Wide, 50, 57)}]
  BY <1>5 DEF Frame
<1> QED BY <1>1, <1>3, <1>4, <1>6

\* A block over the width of the page, below what is used.
LEMMA WideFramed ==
  ASSUME NEW s \in Sheets, NEW l \in Nat, Clear(s, l, l, 0),
         NEW top \in Nat, NEW height \in Nat, l <= top
  PROVE  /\ Frame(s, Wide, top, height) \in Sheets /\ Frame(s, Wide, top, height).page = s.page
         /\ Clear(Frame(s, Wide, top, height), top + height, top + height, 0)
<1>1. PICK end \in Nat: end = top + height
  OBVIOUS
<1>2. PICK p: p = Place(Wide, top, top + height)
  OBVIOUS
<1>3. p.cols = Wide /\ p.top = top /\ p.end = end
  BY <1>2, <1>1 DEF Place
<1>4. Beside(s, p)
  <2>1. 0 \in Nat /\ 0 <= top /\ p.top = top
    BY <1>3
  <2>2. p.cols \in SUBSET Columns /\ "boxed" \notin p.cols
    BY <1>3, ColumnFacts
  <2> QED BY <2>1, <2>2, StartsBelow
<1>5. EndsAbove(p, end, end, 0)
  BY <1>3, ColumnFacts DEF EndsAbove
<1>6. l <= end /\ 0 \in Nat /\ 0 <= 0
  BY <1>1
<1>7. Clear(s, end, end, 0)
  BY <1>6, Lower
<1>8. /\ Frame(s, Wide, top, height) \in Sheets /\ Frame(s, Wide, top, height).page = s.page
      /\ Clear(Frame(s, Wide, top, height), end, end, 0)
  BY <1>2, <1>4, <1>5, <1>7, ColumnFacts, Framed
<1> QED BY <1>1, <1>8, Zenon

LEMMA FooterPut ==
  ASSUME NEW s \in Sheets, s.page = 1, Clear(s, 740, 740, 0), NEW n \in Nat
  PROVE  \E k \in Sheets, z \in Nat: /\ k = Put(s, Text(Wide, 740, 9, n))
                                     /\ k.page = 1 + Flag(n > 5) /\ Clear(k, z, z, 0)
<1>1. CASE n > 5
  <2>1. PICK f \in Sheets: f = Frame(s, Wide, 740, 45) /\ f.page = 1 /\ Clear(f, 785, 785, 0)
    <3>1. PICK top \in Nat, height \in Nat, end \in Nat:
             top = 740 /\ height = 45 /\ end = 785 /\ end = top + height
      OBVIOUS
    <3>2. Clear(s, top, top, 0) /\ top <= top
      BY <3>1
    <3>3. end = top + height
      BY <3>1
    <3>4. /\ Frame(s, Wide, top, height) \in Sheets /\ Frame(s, Wide, top, height).page = s.page
          /\ Clear(Frame(s, Wide, top, height), top + height, top + height, 0)
      BY <3>2, WideFramed, Zenon
    <3> QED BY <3>1, <3>4
  <2>2. PICK g \in Sheets: g = AddPage(f) /\ g.page = 2 /\ Clear(g, 0, 0, 0)
    BY <2>1, PageAdded
  <2>3. PICK top \in Nat, height \in Nat, end \in Nat: top = 50 /\ height = (n - 5) * 9 /\ end = top + height
    BY <1>1
  <2>4. PICK l \in Nat: l = 0 /\ l <= top
    OBVIOUS
  <2>5. Clear(g, l, l, 0) /\ l <= top
    BY <2>2, <2>3, <2>4
  <2>6. /\ Frame(g, Wide, top, height) \in Sheets /\ Frame(g, Wide, top, height).page = g.page
        /\ Clear(Frame(g, Wide, top, height), top + height, top + height, 0)
    BY <2>5, WideFramed, Zenon
  <2>7. Put(s, Text(Wide, 740, 9, n)) = Frame(g, Wide, top, height)
    BY <1>1, <2>1, <2>2, <2>3, FooterOver
  <2>8. Flag(n > 5) = 1
    BY <1>1 DEF Flag
  <2>9. 2 = 1 + Flag(n > 5)
    BY <2>8
  <2> QED BY <2>2, <2>6, <2>7, <2>9
<1>2. CASE ~(n > 5)
  <2>1. PICK top \in Nat, size \in Nat \ {0}, low \in Nat:
           /\ top = 740 /\ size = 9 /\ low = 791 /\ top <= top /\ top <= low
           /\ top + n * size <= PageBottom /\ top + n * size <= low
    BY <1>2 DEF PageBottom
  <2>2. Clear(s, top, top, 0) /\ 0 \in Nat
    BY <2>1
  <2>3. /\ Put(s, Text(Wide, top, size, n)) \in Sheets
        /\ Put(s, Text(Wide, top, size, n)).page = s.page
        /\ Clear(Put(s, Text(Wide, top, size, n)), low, low, 0)
    BY <2>1, <2>2, OneText
  <2>4. Flag(n > 5) = 0
    BY <1>2 DEF Flag
  <2>5. 1 = 1 + Flag(n > 5)
    BY <2>4
  <2> QED BY <2>1, <2>3, <2>5
<1> QED BY <1>1, <1>2

LEMMA ConcatOne ==
  ASSUME NEW t \in TextRows, NEW u \in TextRows
  PROVE  \E m \in Seq(TextRows): m = <<t>> \o <<u>> /\ Len(m) = 2 /\ m[1] = t /\ m[2] = u
<1>1. PICK a \in Seq(TextRows): a = <<t>> /\ Len(a) = 1 /\ a[1] = t
  <2>1. <<t>> \in Seq(TextRows) /\ Len(<<t>>) = 1 /\ <<t>>[1] = t
    OBVIOUS
  <2> QED BY <2>1, Zenon
<1>2. PICK c \in Seq(TextRows): c = <<u>> /\ Len(c) = 1 /\ c[1] = u
  <2>1. <<u>> \in Seq(TextRows) /\ Len(<<u>>) = 1 /\ <<u>>[1] = u
    OBVIOUS
  <2> QED BY <2>1, Zenon
<1>3. a \o c \in Seq(TextRows) /\ Len(a \o c) = 2 /\ (a \o c)[1] = t /\ (a \o c)[2] = u
  BY <1>1, <1>2
<1> QED BY <1>1, <1>2, <1>3

LEMMA ConcatNone ==
  ASSUME NEW t \in TextRows
  PROVE  \E m \in Seq(TextRows): m = <<t>> \o << >> /\ Len(m) = 1 /\ m[1] = t
<1>1. PICK a \in Seq(TextRows): a = <<t>> /\ Len(a) = 1 /\ a[1] = t
  <2>1. <<t>> \in Seq(TextRows) /\ Len(<<t>>) = 1 /\ <<t>>[1] = t
    OBVIOUS
  <2> QED BY <2>1, Zenon
<1>2. PICK c \in Seq(TextRows): c = << >> /\ Len(c) = 0
  <2>1. << >> \in Seq(TextRows) /\ Len(<< >>) = 0
    OBVIOUS
  <2> QED BY <2>1, Zenon
<1>3. a \o c \in Seq(TextRows) /\ Len(a \o c) = 1 /\ (a \o c)[1] = t
  BY <1>1, <1>2
<1> QED BY <1>1, <1>2, <1>3

LinesOf(d) == 4 + d.register + Flag(d.decennale) + Flag(d.insured) + Flag(d.franchise)

LEMMA FooterDrawn ==
  ASSUME NEW d \in Papers, d.kind # "DEVIS", NEW h, NEW s \in Sheets, Stage("footer", d, h, s)
  PROVE  LET drawn == FoldLeft(Put, s, <<Text(Wide, 740, 9, LinesOf(d))>>
                                  \o (IF d.hashed THEN <<Text(Wide, 800, 7, 1)>> ELSE << >>)) IN
         drawn \in Sheets /\ Stage("end", d, h, drawn)
<1>1. s.page = 1 /\ Clear(s, 740, 740, 0)
  BY DEF Stage, Used
<1>2. PICK n \in Nat: n = LinesOf(d)
  BY DocTyped, FlagTyped DEF LinesOf
<1>3. LastPage(d) = 1 + Flag(n > 5) + Flag(d.hashed) /\ Flag(n > 5) \in {0, 1}
  BY <1>2 DEF LastPage, LinesOf, Flag
<1>4. PICK k \in Sheets, z \in Nat: /\ k = Put(s, Text(Wide, 740, 9, n))
                                    /\ k.page = 1 + Flag(n > 5) /\ Clear(k, z, z, 0)
  BY <1>1, FooterPut
<1>5. PICK t \in TextRows: t = Text(Wide, 740, 9, n)
  BY TextIs, ColumnFacts
<1>6. CASE d.hashed
  <2>1. PICK u \in TextRows: u = Text(Wide, 800, 7, 1)
    BY TextIs, ColumnFacts
  <2>2. PICK m \in Seq(TextRows): m = <<t>> \o <<u>> /\ Len(m) = 2 /\ m[1] = t /\ m[2] = u
    BY ConcatOne
  <2>3. FoldLeft(Put, s, m) = Put(k, u)
    <3>1. FoldLeft(Put, s, m) = Put(Put(s, m[1]), m[2])
      BY <2>2, PutSteps
    <3>2. m[1] = t /\ m[2] = u /\ k = Put(s, t)
      BY <1>4, <1>5, <2>2, Zenon
    <3> QED BY <3>1, <3>2, Zenon
  <2>4. PICK g \in Sheets: g = AddPage(k) /\ g.page = k.page + 1 /\ Clear(g, 0, 0, 0)
    BY <1>4, PageAdded
  <2>5. PICK f \in Sheets: f = Frame(g, Wide, 50, 7) /\ f.page = g.page /\ Clear(f, 57, 57, 0)
    <3>1. PICK top \in Nat, height \in Nat, end \in Nat:
             top = 50 /\ height = 7 /\ end = 57 /\ end = top + height
      OBVIOUS
    <3>2. PICK l \in Nat: l = 0 /\ l <= top
      OBVIOUS
    <3>3. Clear(g, l, l, 0) /\ l <= top
      BY <2>4, <3>1, <3>2
    <3>4. /\ Frame(g, Wide, top, height) \in Sheets /\ Frame(g, Wide, top, height).page = g.page
          /\ Clear(Frame(g, Wide, top, height), top + height, top + height, 0)
      BY <3>3, WideFramed, Zenon
    <3> QED BY <3>1, <3>4
  <2>6. Put(k, u) = f
    BY <2>1, <2>4, <2>5, HashOver
  <2>7. Flag(d.hashed) = 1
    BY <1>6 DEF Flag
  <2>8. f.page = LastPage(d)
    BY <1>3, <1>4, <2>4, <2>5, <2>7
  <2>9. Stage("end", d, h, f)
    BY <2>5, <2>8 DEF Stage, Clear
  <2>10. m = <<Text(Wide, 740, 9, LinesOf(d))>>
             \o (IF d.hashed THEN <<Text(Wide, 800, 7, 1)>> ELSE << >>)
    <3>1. (IF d.hashed THEN <<Text(Wide, 800, 7, 1)>> ELSE << >>) = <<u>>
      BY <1>6, <2>1
    <3> QED BY <1>2, <1>5, <2>2, <3>1
  <2> QED BY <2>3, <2>6, <2>9, <2>10
<1>7. CASE ~d.hashed
  <2>1. PICK m \in Seq(TextRows): m = <<t>> \o << >> /\ Len(m) = 1 /\ m[1] = t
    BY ConcatNone
  <2>2. FoldLeft(Put, s, m) = k
    <3>1. FoldLeft(Put, s, m) = Put(s, m[1])
      BY <2>1, PutSteps
    <3> QED BY <1>4, <1>5, <2>1, <3>1
  <2>3. Flag(d.hashed) = 0
    BY <1>7 DEF Flag
  <2>4. k.page = LastPage(d)
    BY <1>3, <1>4, <2>3
  <2>5. Stage("end", d, h, k)
    BY <1>4, <2>4 DEF Stage, Clear
  <2>6. m = <<Text(Wide, 740, 9, LinesOf(d))>>
            \o (IF d.hashed THEN <<Text(Wide, 800, 7, 1)>> ELSE << >>)
    <3>1. (IF d.hashed THEN <<Text(Wide, 800, 7, 1)>> ELSE << >>) = << >>
      BY <1>7
    <3> QED BY <1>2, <1>5, <2>1, <3>1
  <2> QED BY <2>2, <2>5, <2>6
<1> QED BY <1>6, <1>7

-----------------------------------------------------------------------------
(* The invariant                                                           *)

Printable(d) == d.kind = "ATTESTATION" \/ Fits(d)

LEMMA Drawing ==
  ASSUME PaperInv, NEW name, Draw(name)
  PROVE  /\ doc \in Papers /\ Belongs(doc, name)
         /\ Printable(doc) => sheet \in Sheets /\ Stage(name, doc, y, sheet)
<1>1. doc \in Papers /\ OnTrack(doc, todo) /\ todo # << >> /\ Head(todo) = name
  BY DEF PaperInv, Draw
<1>2. NextName(todo) = name
  BY <1>1 DEF NextName
<1> QED BY <1>1, <1>2, Following DEF PaperInv, Printable

LEMMA Advances ==
  ASSUME PaperInv, NEW name, Draw(name),
         Printable(doc) => sheet' \in Sheets /\ Stage(After(doc, name), doc, y', sheet')
  PROVE  PaperInv'
<1>1. doc \in Papers /\ OnTrack(doc, todo) /\ todo # << >> /\ Head(todo) = name
  BY DEF PaperInv, Draw
<1>2. todo' = Tail(todo) /\ doc' = doc
  BY DEF Draw
<1>3. PICK rest: rest = todo
  OBVIOUS
<1>4. OnTrack(doc, Tail(rest)) /\ NextName(Tail(rest)) = After(doc, name)
  BY <1>1, <1>3, Following
<1>5. PICK next: next = Tail(rest)
  OBVIOUS
<1>6. todo' = next
  BY <1>2, <1>3, <1>5
<1> QED BY <1>1, <1>2, <1>4, <1>5, <1>6 DEF PaperInv, Printable

LEMMA ClientAdvances == ASSUME PaperInv, drawClient PROVE PaperInv'
<1>1. Draw("client")
  BY DEF drawClient
<1>2. PICK d \in Papers: d = doc /\ Belongs(d, "client")
  BY <1>1, Drawing
<1>3. PICK s, h: s = sheet /\ h = y
  OBVIOUS
<1>4. Printable(d) => s \in Sheets /\ Stage("client", d, h, s)
  BY <1>1, <1>2, <1>3, Drawing
<1>5. PICK drawn: drawn =
          (FoldLeft(Put, s, <<Text(Right, h - 20, 9, 1), Text(Right, h - 6, 10, 1)>>
               \o [i \in 1 .. d.contact |-> Text(Right, h + 8 + 12 * (i - 1), 10, 1)]))
  OBVIOUS
<1>6. sheet' = drawn /\ y' = h
  BY <1>2, <1>5, <1>3 DEF drawClient
<1>7. ASSUME Printable(d)
      PROVE  drawn \in Sheets /\ Stage(After(d, "client"), d, h, drawn)
  <2>1. Fits(d) /\ d.kind \in {"DEVIS", "FACTURE"}
    BY <1>2, <1>7 DEF Belongs, Printable
  <2>2. s \in Sheets /\ Stage("client", d, h, s)
    BY <1>4, <1>7
  <2> QED BY <1>5, <2>1, <2>2, ClientDrawn, AfterIs
<1> QED BY <1>1, <1>2, <1>6, <1>7, <1>3, Advances

LEMMA NotesAdvances == ASSUME PaperInv, drawNotes PROVE PaperInv'
<1>1. Draw("notes")
  BY DEF drawNotes
<1>2. PICK d \in Papers: d = doc /\ Belongs(d, "notes")
  BY <1>1, Drawing
<1>3. PICK s, h: s = sheet /\ h = y
  OBVIOUS
<1>4. Printable(d) => s \in Sheets /\ Stage("notes", d, h, s)
  BY <1>1, <1>2, <1>3, Drawing
<1>5. PICK drawn: drawn =
          (IF d.notes > 0 THEN Put(s, Text(Wide, h, 9, d.notes)) ELSE s)
  OBVIOUS
<1>6. sheet' = drawn /\ y' = h + 28 * Flag(d.notes > 0)
  BY <1>2, <1>5, <1>3 DEF drawNotes
<1>7. ASSUME Printable(d)
      PROVE  drawn \in Sheets /\ Stage(After(d, "notes"), d, h + 28 * Flag(d.notes > 0), drawn)
  <2>1. Fits(d) /\ d.kind = "DEVIS"
    BY <1>2, <1>7 DEF Belongs, Printable
  <2>2. s \in Sheets /\ Stage("notes", d, h, s)
    BY <1>4, <1>7
  <2> QED BY <1>5, <2>1, <2>2, NotesDrawn, AfterIs
<1> QED BY <1>1, <1>2, <1>6, <1>7, <1>3, Advances

LEMMA ValidUntilAdvances == ASSUME PaperInv, drawValidUntil PROVE PaperInv'
<1>1. Draw("validUntil")
  BY DEF drawValidUntil
<1>2. PICK d \in Papers: d = doc /\ Belongs(d, "validUntil")
  BY <1>1, Drawing
<1>3. PICK s, h: s = sheet /\ h = y
  OBVIOUS
<1>4. Printable(d) => s \in Sheets /\ Stage("validUntil", d, h, s)
  BY <1>1, <1>2, <1>3, Drawing
<1>5. PICK drawn: drawn =
          (IF d.valid THEN Put(s, Text(Wide, h, 9, 1)) ELSE s)
  OBVIOUS
<1>6. sheet' = drawn /\ y' = h + 18 * Flag(d.valid)
  BY <1>2, <1>5, <1>3 DEF drawValidUntil
<1>7. ASSUME Printable(d)
      PROVE  drawn \in Sheets /\ Stage(After(d, "validUntil"), d, h + 18 * Flag(d.valid), drawn)
  <2>1. Fits(d) /\ d.kind = "DEVIS"
    BY <1>2, <1>7 DEF Belongs, Printable
  <2>2. s \in Sheets /\ Stage("validUntil", d, h, s)
    BY <1>4, <1>7
  <2> QED BY <1>5, <2>1, <2>2, ValidUntilDrawn, AfterIs
<1> QED BY <1>1, <1>2, <1>6, <1>7, <1>3, Advances

LEMMA AssuranceAdvances == ASSUME PaperInv, drawAssuranceDecennale PROVE PaperInv'
<1>1. Draw("assurance")
  BY DEF drawAssuranceDecennale
<1>2. PICK d \in Papers: d = doc /\ Belongs(d, "assurance")
  BY <1>1, Drawing
<1>3. PICK s, h: s = sheet /\ h = y
  OBVIOUS
<1>4. Printable(d) => s \in Sheets /\ Stage("assurance", d, h, s)
  BY <1>1, <1>2, <1>3, Drawing
<1>5. PICK drawn: drawn =
          (IF d.decennale THEN FoldLeft(Put, s, <<Text(Wide, h, 8, 1), Text(Wide, h + 12, 7, 1)>>)
           ELSE s)
  OBVIOUS
<1>6. sheet' = drawn /\ y' = h + 36 * Flag(d.decennale)
  BY <1>2, <1>5, <1>3 DEF drawAssuranceDecennale
<1>7. ASSUME Printable(d)
      PROVE  drawn \in Sheets /\ Stage(After(d, "assurance"), d, h + 36 * Flag(d.decennale), drawn)
  <2>1. Fits(d) /\ d.kind = "DEVIS"
    BY <1>2, <1>7 DEF Belongs, Printable
  <2>2. s \in Sheets /\ Stage("assurance", d, h, s)
    BY <1>4, <1>7
  <2> QED BY <1>5, <2>1, <2>2, AssuranceDrawn, AfterIs
<1> QED BY <1>1, <1>2, <1>6, <1>7, <1>3, Advances

LEMMA AccordAdvances == ASSUME PaperInv, drawBonPourAccord PROVE PaperInv'
<1>1. Draw("accord")
  BY DEF drawBonPourAccord
<1>2. PICK d \in Papers: d = doc /\ Belongs(d, "accord")
  BY <1>1, Drawing
<1>3. PICK s, h: s = sheet /\ h = y
  OBVIOUS
<1>4. Printable(d) => s \in Sheets /\ Stage("accord", d, h, s)
  BY <1>1, <1>2, <1>3, Drawing
<1>5. PICK drawn: drawn =
          (FoldLeft(Put, Frame(s, Right, h, 110),
               <<Text(Boxed, h + 10, 7, 1), Text(Boxed, h + 28, 7, 1), Text(Boxed, h + 82, 9, 1)>>
               \o (IF d.signed THEN <<Text(Boxed, h + 97, 6, 1)>> ELSE << >>)))
  OBVIOUS
<1>6. sheet' = drawn /\ y' = h + 122
  BY <1>2, <1>5, <1>3 DEF drawBonPourAccord
<1>7. ASSUME Printable(d)
      PROVE  drawn \in Sheets /\ Stage(After(d, "accord"), d, h + 122, drawn)
  <2>1. Fits(d) /\ d.kind = "DEVIS"
    BY <1>2, <1>7 DEF Belongs, Printable
  <2>2. s \in Sheets /\ Stage("accord", d, h, s)
    BY <1>4, <1>7
  <2> QED BY <1>5, <2>1, <2>2, AccordDrawn, AfterIs
<1> QED BY <1>1, <1>2, <1>6, <1>7, <1>3, Advances

LEMMA RetractationAdvances == ASSUME PaperInv, drawRetractationPage PROVE PaperInv'
<1>1. Draw("retractation")
  BY DEF drawRetractationPage
<1>2. PICK d \in Papers: d = doc /\ Belongs(d, "retractation")
  BY <1>1, Drawing
<1>3. PICK s, h: s = sheet /\ h = y
  OBVIOUS
<1>4. Printable(d) => s \in Sheets /\ Stage("retractation", d, h, s)
  BY <1>1, <1>2, <1>3, Drawing
<1>5. PICK drawn: drawn =
          (Put(AddPage(s), Text(Wide, PageTop, 9, 45)))
  OBVIOUS
<1>6. sheet' = drawn /\ y' = h
  BY <1>2, <1>5, <1>3 DEF drawRetractationPage
<1>7. ASSUME Printable(d)
      PROVE  drawn \in Sheets /\ Stage(After(d, "retractation"), d, h, drawn)
  <2>1. Fits(d) /\ d.kind = "DEVIS"
    BY <1>2, <1>7 DEF Belongs, Printable
  <2>2. s \in Sheets /\ Stage("retractation", d, h, s)
    BY <1>4, <1>7
  <2> QED BY <1>5, <2>1, <2>2, RetractationDrawn
<1> QED BY <1>1, <1>2, <1>6, <1>7, <1>3, Advances

LEMMA DatesAdvances == ASSUME PaperInv, drawDates PROVE PaperInv'
<1>1. Draw("dates")
  BY DEF drawDates
<1>2. PICK d \in Papers: d = doc /\ Belongs(d, "dates")
  BY <1>1, Drawing
<1>3. PICK s, h: s = sheet /\ h = y
  OBVIOUS
<1>4. Printable(d) => s \in Sheets /\ Stage("dates", d, h, s)
  BY <1>1, <1>2, <1>3, Drawing
<1>5. PICK drawn: drawn =
          (FoldLeft(Put, s, (IF d.valid THEN <<Text(Wide, 660, 9, 1)>> ELSE << >>)
               \o (IF d.notes > 0 THEN <<Text(Wide, 675, 9, d.notes)>> ELSE << >>)))
  OBVIOUS
<1>6. sheet' = drawn /\ y' = h
  BY <1>2, <1>5, <1>3 DEF drawDates
<1>7. ASSUME Printable(d)
      PROVE  drawn \in Sheets /\ Stage(After(d, "dates"), d, h, drawn)
  <2>1. Fits(d) /\ d.kind = "FACTURE"
    BY <1>2, <1>7 DEF Belongs, Printable
  <2>2. s \in Sheets /\ Stage("dates", d, h, s)
    BY <1>4, <1>7
  <2> QED BY <1>5, <2>1, <2>2, DatesDrawn, AfterIs
<1> QED BY <1>1, <1>2, <1>6, <1>7, <1>3, Advances

LEMMA AttestationAdvances == ASSUME PaperInv, drawAttestation PROVE PaperInv'
<1>1. Draw("attestation")
  BY DEF drawAttestation
<1>2. PICK d \in Papers: d = doc /\ Belongs(d, "attestation")
  BY <1>1, Drawing
<1>3. PICK s, h: s = sheet /\ h = y
  OBVIOUS
<1>4. Printable(d) => s \in Sheets /\ Stage("attestation", d, h, s)
  BY <1>1, <1>2, <1>3, Drawing
<1>5. PICK drawn: drawn =
          (FoldLeft(Put, s, <<Text(Wide, 50, 18, 1), Text(Wide, 78, 10, 1),
                           Text(Wide, 110, 11, 4), Text(Wide, 170, 11, 2)>>))
  OBVIOUS
<1>6. sheet' = drawn /\ y' = h
  BY <1>2, <1>5, <1>3 DEF drawAttestation
<1>7. ASSUME Printable(d)
      PROVE  drawn \in Sheets /\ Stage(After(d, "attestation"), d, h, drawn)
  <2>1. d.kind = "ATTESTATION"
    BY <1>2, <1>7 DEF Belongs, Printable
  <2>2. s \in Sheets /\ Stage("attestation", d, h, s)
    BY <1>4, <1>7
  <2> QED BY <1>5, <2>1, <2>2, AttestationDrawn, AfterIs
<1> QED BY <1>1, <1>2, <1>6, <1>7, <1>3, Advances

LEMMA HeaderAdvances == ASSUME PaperInv, drawHeader PROVE PaperInv'
<1>1. Draw("header")
  BY DEF drawHeader
<1>2. PICK d \in Papers: d = doc /\ Belongs(d, "header")
  BY <1>1, Drawing
<1>3. PICK s, h: s = sheet /\ h = y
  OBVIOUS
<1>4. Printable(d) => s \in Sheets /\ Stage("header", d, h, s)
  BY <1>1, <1>2, <1>3, Drawing
<1>5. PICK issuer: issuer = [i \in 1 .. d.issuer |-> IssuerLine(IssuerTopOf(d), i)]
  OBVIOUS
<1>6. PICK end: end = IssuerTopOf(d) + 14 + 12 * (d.issuer - 1)
  OBVIOUS
<1>7. PICK mention: mention = IF d.franchise THEN <<Text(Left, end + 2, 8, 1)>> ELSE << >>
  OBVIOUS
<1>8. PICK drawn: drawn = FoldLeft(Put, IF d.logo > 0 THEN Frame(s, Left, 80, d.logo) ELSE s,
                              <<Text(Left, 50, 20, 1), Text(Right, 50, 16, 1), Text(Right, 72, 10, 1),
                                Text(Right, 86, 10, 1)>> \o issuer \o mention)
  OBVIOUS
<1>9. PICK z: z = Larger(end + 16 * Flag(d.franchise) + 8, 200)
  OBVIOUS
<1>10. IssuerTop = IssuerTopOf(d)
  BY <1>2 DEF IssuerTop, IssuerTopOf
<1>11. issuer = [i \in 1 .. doc.issuer |-> Text(Left, IssuerTop + (IF i = 1 THEN 0 ELSE 14 + 12 * (i - 2)), 10, 1)]
  BY <1>2, <1>5, <1>10 DEF IssuerLine
<1>12. end = IssuerTop + 14 + 12 * (doc.issuer - 1)
  BY <1>2, <1>6, <1>10
<1>13. sheet' = drawn /\ y' = z
  BY <1>2, <1>3, <1>7, <1>8, <1>9, <1>11, <1>12, Zenon DEF drawHeader
<1>14. ASSUME Printable(d)
       PROVE  drawn \in Sheets /\ Stage(After(d, "header"), d, z, drawn)
  <2>1. Fits(d) /\ d.kind \in {"DEVIS", "FACTURE"}
    BY <1>2, <1>14 DEF Belongs, Printable
  <2>2. s \in Sheets /\ Stage("header", d, h, s)
    BY <1>4, <1>14
  <2>3. HeaderParts(d, issuer, end, mention)
    BY <1>5, <1>6, <1>7, Zenon DEF HeaderParts
  <2>4. drawn \in Sheets /\ Stage("client", d, z, drawn)
    BY <1>8, <1>9, <2>1, <2>2, <2>3, HeaderDrawn
  <2> QED BY <2>4, AfterIs
<1> QED BY <1>1, <1>2, <1>13, <1>14, Advances

LEMMA TableAdvances == ASSUME PaperInv, drawLinesTable PROVE PaperInv'
<1>1. Draw("table")
  BY DEF drawLinesTable
<1>2. PICK d \in Papers: d = doc /\ Belongs(d, "table")
  BY <1>1, Drawing
<1>3. PICK s, h: s = sheet /\ h = y
  OBVIOUS
<1>4. Printable(d) => s \in Sheets /\ Stage("table", d, h, s)
  BY <1>1, <1>2, <1>3, Drawing
<1>5. PICK rows: rows = [i \in 1 .. 2 * d.rows |-> RowText(h, d.wraps, i)]
  OBVIOUS
<1>6. PICK end: end = RowTop(h + 30, d.rows + 1) + 10
  OBVIOUS
<1>7. PICK tax: tax = IF d.franchise THEN Text(Left, end + 14, 9, 1) ELSE Text(Right, end + 14, 9, 1)
  OBVIOUS
<1>8. PICK drawn: drawn = FoldLeft(Put, s, <<Text(Left, h + 30, 9, 1), Text(Right, h + 30, 9, 1)>> \o rows
                                    \o <<Text(Right, end, 9, 1), tax, Text(Right, end + 32, 12, 1)>>)
  OBVIOUS
<1>9. PICK z: z = end + TotalsHeight
  OBVIOUS
<1>10. rows = [i \in 1 .. 2 * doc.rows |->
                  IF i % 2 = 1 THEN Text(Left, RowTop(y + 30, (i + 1) \div 2), 9, doc.wraps)
                  ELSE Text(Right, RowTop(y + 30, i \div 2), 9, 1)]
  BY <1>2, <1>3, <1>5, Zenon DEF RowText
<1>11. end = RowTop(y + 30, doc.rows + 1) + 10
  BY <1>2, <1>3, <1>6, Zenon
<1>12. tax = IF doc.franchise THEN Text(Left, end + 14, 9, 1) ELSE Text(Right, end + 14, 9, 1)
  BY <1>2, <1>7, Zenon
<1>13. sheet' = drawn /\ y' = z
  <2>1. y' = z
    BY <1>9, <1>11 DEF drawLinesTable
  <2>2. sheet' = FoldLeft(Put, sheet, <<Text(Left, y + 30, 9, 1), Text(Right, y + 30, 9, 1)>> \o rows
                             \o <<Text(Right, end, 9, 1), tax, Text(Right, end + 32, 12, 1)>>)
    BY <1>10, <1>11, <1>12, Zenon DEF drawLinesTable
  <2> QED BY <1>3, <1>8, <2>1, <2>2
<1>14. ASSUME Printable(d)
       PROVE  drawn \in Sheets /\ Stage(After(d, "table"), d, z, drawn)
  <2>1. Fits(d) /\ d.kind \in {"DEVIS", "FACTURE"}
    BY <1>2, <1>14 DEF Belongs, Printable
  <2>2. s \in Sheets /\ Stage("table", d, h, s)
    BY <1>4, <1>14
  <2>3. TableParts(d, h, rows, end, tax)
    BY <1>5, <1>6, <1>7, Zenon DEF TableParts
  <2> QED BY <1>8, <1>9, <2>1, <2>2, <2>3, TableDrawn, Zenon
<1> QED BY <1>1, <1>2, <1>13, <1>14, Advances

LEMMA FooterAdvances == ASSUME PaperInv, drawFactureFooter PROVE PaperInv'
<1>1. Draw("footer")
  BY DEF drawFactureFooter
<1>2. PICK d \in Papers: d = doc /\ Belongs(d, "footer")
  BY <1>1, Drawing
<1>3. PICK s, h: s = sheet /\ h = y
  OBVIOUS
<1>4. Printable(d) => s \in Sheets /\ Stage("footer", d, h, s)
  BY <1>1, <1>2, <1>3, Drawing
<1>5. PICK drawn: drawn = FoldLeft(Put, s, <<Text(Wide, 740, 9, LinesOf(d))>>
                                    \o (IF d.hashed THEN <<Text(Wide, 800, 7, 1)>> ELSE << >>))
  OBVIOUS
<1>6. FooterLines = LinesOf(d)
  BY <1>2 DEF FooterLines, LinesOf
<1>7. sheet' = drawn /\ y' = h
  BY <1>2, <1>3, <1>5, <1>6 DEF drawFactureFooter
<1>8. ASSUME Printable(d)
      PROVE  drawn \in Sheets /\ Stage(After(d, "footer"), d, h, drawn)
  <2>1. d.kind # "DEVIS"
    BY <1>2 DEF Belongs
  <2>2. s \in Sheets /\ Stage("footer", d, h, s)
    BY <1>4, <1>8
  <2> QED BY <1>5, <2>1, <2>2, FooterDrawn, AfterIs
<1> QED BY <1>1, <1>2, <1>7, <1>8, Advances

LEMMA CertificateAdvances == ASSUME PaperInv, drawSignatureCertificate PROVE PaperInv'
<1>1. Draw("certificate")
  BY DEF drawSignatureCertificate
<1>2. PICK d \in Papers: d = doc /\ Belongs(d, "certificate")
  BY <1>1, Drawing
<1>3. PICK s, h: s = sheet /\ h = y
  OBVIOUS
<1>4. Printable(d) => s \in Sheets /\ Stage("certificate", d, h, s)
  BY <1>1, <1>2, <1>3, Drawing
<1>5. PICK values: values = [i \in 1 .. 14 |-> Text(Wide, 112 + 16 * (i - 1) + (IF i > 11 THEN 16 ELSE 0), 8,
                                                    IF i = 11 THEN 3 ELSE 1)]
  OBVIOUS
<1>6. PICK end: end = 112 + 16 * 15 + 8
  OBVIOUS
<1>7. PICK drawn: drawn = FoldLeft(Put, Frame(FoldLeft(Put, AddPage(s), values), Left, end + 12, 70),
                              <<Text(Left, end, 8, 1), Text(Wide, end + 96, 7, 3)>>)
  OBVIOUS
<1>8. sheet' = drawn /\ y' = h
  BY <1>3, <1>5, <1>6, <1>7, Zenon DEF drawSignatureCertificate
<1>9. ASSUME Printable(d)
      PROVE  drawn \in Sheets /\ Stage(After(d, "certificate"), d, h, drawn)
  <2>1. d.kind = "DEVIS" /\ d.signed
    BY <1>2 DEF Belongs
  <2>2. s \in Sheets /\ Stage("certificate", d, h, s)
    BY <1>4, <1>9
  <2>3. drawn \in Sheets /\ Stage("end", d, h, drawn)
    BY <1>5, <1>6, <1>7, <2>1, <2>2, CertificateDrawn
  <2> QED BY <2>3, AfterIs
<1> QED BY <1>1, <1>2, <1>8, <1>9, Advances

LEMMA LegalAdvances == ASSUME PaperInv, drawLegalMentions PROVE PaperInv'
<1>1. Draw("legal")
  BY DEF drawLegalMentions
<1>2. PICK d \in Papers: d = doc /\ Belongs(d, "legal")
  BY <1>1, Drawing
<1>3. PICK s, h: s = sheet /\ h = y
  OBVIOUS
<1>4. Printable(d) => s \in Sheets /\ Stage("legal", d, h, s)
  BY <1>1, <1>2, <1>3, Drawing
<1>5. PICK bold: bold = Flag(d.franchise)
  OBVIOUS
<1>6. PICK first: first = [i \in 1 .. 3 + bold |-> Text(Wide, h + 12 * (i - 1), 7, 1)]
  OBVIOUS
<1>7. PICK end: end = h + 36 + 14 * bold
  OBVIOUS
<1>8. PICK drawn: drawn = FoldLeft(Put, s, first \o (IF d.insured THEN <<Text(Wide, end, 7, 1)>> ELSE << >>))
  OBVIOUS
<1>9. PICK z: z = end + 12 * Flag(d.insured) + 8
  OBVIOUS
<1>10. sheet' = drawn /\ y' = z
  BY <1>2, <1>3, <1>5, <1>6, <1>7, <1>8, <1>9, Zenon DEF drawLegalMentions
<1>11. ASSUME Printable(d)
       PROVE  drawn \in Sheets /\ Stage(After(d, "legal"), d, z, drawn)
  <2>1. Fits(d) /\ d.kind = "DEVIS"
    BY <1>2, <1>11 DEF Belongs, Printable
  <2>2. s \in Sheets /\ Stage("legal", d, h, s)
    BY <1>4, <1>11
  <2>3. drawn \in Sheets /\ Stage("integrity", d, z, drawn)
    BY <1>5, <1>6, <1>7, <1>8, <1>9, <2>1, <2>2, LegalDrawn
  <2> QED BY <2>3, AfterIs
<1> QED BY <1>1, <1>2, <1>10, <1>11, Advances

LEMMA IntegrityAdvances == ASSUME PaperInv, drawIntegrityFooter PROVE PaperInv'
<1>1. Draw("integrity")
  BY DEF drawIntegrityFooter
<1>2. PICK d \in Papers: d = doc /\ Belongs(d, "integrity")
  BY <1>1, Drawing
<1>3. PICK s, h: s = sheet /\ h = y
  OBVIOUS
<1>4. Printable(d) => s \in Sheets /\ Stage("integrity", d, h, s)
  BY <1>1, <1>2, <1>3, Drawing
<1>5. PICK footer: footer = Smaller(Larger(h, 720), 760)
  OBVIOUS
<1>6. PICK drawn: drawn = FoldLeft(Put, s, <<Text(Wide, footer, 6, 1)>>
                              \o (IF d.hashed THEN <<Text(Wide, footer + 10, 6, 1)>> ELSE << >>))
  OBVIOUS
<1>7. sheet' = drawn /\ y' = h
  BY <1>2, <1>3, <1>5, <1>6 DEF drawIntegrityFooter
<1>8. ASSUME Printable(d)
      PROVE  drawn \in Sheets /\ Stage(After(d, "integrity"), d, h, drawn)
  <2>1. Fits(d) /\ d.kind = "DEVIS"
    BY <1>2, <1>8 DEF Belongs, Printable
  <2>2. s \in Sheets /\ Stage("integrity", d, h, s)
    BY <1>4, <1>8
  <2>3. drawn \in Sheets /\ Stage("retractation", d, h, drawn)
    BY <1>5, <1>6, <2>1, <2>2, IntegrityDrawn
  <2> QED BY <2>3, AfterIs
<1> QED BY <1>1, <1>2, <1>7, <1>8, Advances

LEMMA PaperStarts == Init => PaperInv
<1> SUFFICES ASSUME Init PROVE PaperInv
  OBVIOUS
<1>1. doc \in Papers
  BY PapersAssumption DEF Init, Blank
<1>2. PICK d \in Papers: d = doc
  BY <1>1
<1>3. PICK f: f = Functions(d)
  OBVIOUS
<1>4. todo = f /\ sheet = [page |-> 1, marks |-> {}]
  BY <1>2, <1>3 DEF Init, PaperInit
<1>5. f \in Seq(Names) /\ Len(f) \in Nat
  BY <1>3, FunctionsAre
<1>6. OnTrack(d, f)
  BY <1>3, <1>5 DEF OnTrack
<1>7. NextName(f) \in {"header", "attestation"}
  <2>1. Len(f) \in Nat \ {0} /\ f[1] \in {"header", "attestation"}
    <3>1. CASE d.kind = "DEVIS"
      BY <1>3, <3>1, FunctionsAre, DocTyped, FlagTyped
    <3>2. CASE d.kind = "FACTURE"
      BY <1>3, <3>2, FunctionsAre
    <3>3. CASE d.kind = "ATTESTATION"
      BY <1>3, <3>3, FunctionsAre
    <3> QED BY <3>1, <3>2, <3>3, DocTyped
  <2>2. f # << >> /\ Head(f) = f[1]
    BY <1>5, <2>1
  <2> QED BY <2>1, <2>2 DEF NextName
<1>8. PICK s \in Sheets: s = sheet
  BY <1>4, Blanks
<1>9. PICK name: name = NextName(f)
  OBVIOUS
<1>10. Stage(name, d, y, s)
  BY <1>4, <1>7, <1>8, <1>9 DEF Stage
<1> QED BY <1>1, <1>2, <1>4, <1>6, <1>8, <1>9, <1>10 DEF PaperInv

LEMMA PaperKeeps == PaperInv /\ [PaperNext]_paperVars => PaperInv'
<1> SUFFICES ASSUME PaperInv, [PaperNext]_paperVars PROVE PaperInv'
  OBVIOUS
<1>1. CASE UNCHANGED paperVars
  <2>1. doc' = doc /\ todo' = todo /\ y' = y /\ sheet' = sheet
    BY <1>1 DEF paperVars
  <2> QED BY <2>1 DEF PaperInv
<1>2. CASE PaperNext
  BY <1>2, HeaderAdvances, ClientAdvances, TableAdvances, NotesAdvances, ValidUntilAdvances,
     AssuranceAdvances, AccordAdvances, LegalAdvances, IntegrityAdvances, RetractationAdvances,
     CertificateAdvances, DatesAdvances, FooterAdvances, AttestationAdvances DEF PaperNext
<1> QED BY <1>1, <1>2

\* A document that fits is printed without two texts or images on the same spot, on as
\* many pages as it has parts: for any number of lines of the issuer, of rows, of notes
\* and of the register (pdf-document.ts, the draw functions and generate*Pdf).
THEOREM PaperLaidOut == Spec => []LaidOut
<1>1. Init => PaperInv
  BY PaperStarts
<1>2. PaperInv /\ [Next]_vars => PaperInv'
  <2>1. [Next]_vars => [PaperNext]_paperVars
    BY DEF Next, vars, others
  <2> QED BY <2>1, PaperKeeps
<1>3. PaperInv => LaidOut
  <2> SUFFICES ASSUME PaperInv, todo = << >>, Printable(doc)
               PROVE  /\ \A a, b \in sheet.marks: ~Overprint(a, b)
                      /\ sheet.page = IF doc.kind = "DEVIS" THEN 2 + Flag(doc.signed)
                                      ELSE 1 + Flag(FooterLines > 5) + Flag(doc.hashed)
    BY DEF LaidOut, Printable
  <2>1. Stage("end", doc, y, sheet)
    BY DEF PaperInv, NextName, Printable
  <2>2. sheet.page = LastPage(doc) /\ \A a, b \in sheet.marks: ~Overprint(a, b)
    BY <2>1 DEF Stage
  <2>3. LastPage(doc) = IF doc.kind = "DEVIS" THEN 2 + Flag(doc.signed)
                        ELSE 1 + Flag(FooterLines > 5) + Flag(doc.hashed)
    BY Zenon DEF LastPage, FooterLines
  <2> QED BY <2>2, <2>3
<1> QED BY <1>1, <1>2, <1>3, PTL DEF Spec

-----------------------------------------------------------------------------
(* The sum                                                                 *)

LEMMA PartsRun == Spec => ServerSpec /\ LinksSpec
<1>1. Init => ServerInit /\ LinksInit
  BY DEF Init
<1>2. [Next]_vars => [ServerNext]_serverVars /\ [LinksNext]_linksVars
  BY DEF Next, vars, serverVars, linksVars
<1> QED BY <1>1, <1>2, PTL DEF Spec, ServerSpec, LinksSpec

\* Whichever part of a quote's making runs, every promise of the four holds in every state:
\* what the run Quotes_all checks of its instance.
THEOREM QuoteComesToBe ==
  Spec => [](ServerInv /\ OncePerKey /\ QuotaKept /\ QuoteAgrees /\ LaidOut /\ LinkLeadsHome)
<1> QED BY PartsRun, Server, KeyMakesOne, QuotaHolds, FormAgrees, PaperLaidOut, LinksLeadHome, PTL
=============================================================================
