--------------------------- MODULE DevisCreation ---------------------------
(***************************************************************************)
(* How the server creates the quotes of one workspace: POST /api/devis and *)
(* POST /api/devis/claim-draft, with the optional Idempotency-Key          *)
(* (idempotency.ts), the monthly quota of the free plan (plan-limits.ts),  *)
(* and the numbers (numbers.ts).                                           *)
(*                                                                         *)
(* A keyed request holds a lock in one transaction while its handler works *)
(* in others: that transaction can end before the handler does.            *)
(***************************************************************************)
EXTENDS Naturals, FiniteSets

CONSTANTS
    Requests,        \* the requests handled at the same time
    Keys,            \* the idempotency keys the clients use
    Sources,         \* what a client asks a quote for
    Plan,            \* the plan of the workspace
    Quota,           \* FREE_DEVIS_PER_MONTH
    MonthsPerYear,
    MaxMonth,        \* bound on the clock
    MaxDevis,        \* bound on the quotes
    Null             \* no key, no holder, no record

ASSUME PlanAssumption == Plan \in {"FREE", "STARTER", "PRO"}
ASSUME BoundsAssumption == /\ Quota \in Nat \ {0}
                           /\ MonthsPerYear \in Nat \ {0}
                           /\ MaxMonth \in Nat
                           /\ MaxDevis \in Nat
ASSUME NullAssumption == Null \notin Requests \union Keys \union Sources \union (Nat \X Nat)

VARIABLES
    clock,       \* the month it is
    devis,       \* the rows of Devis
    counter,     \* DocumentCounter.lastSeq of each year
    rowLock,     \* the transaction that updated the counter of a year, not yet committed
    quotaLock,   \* holder of pg_advisory_xact_lock('user:free-devis')
    keyLock,     \* holder of pg_advisory_xact_lock('user:idem:key')
    recorded,    \* IdempotencyRecord: the quote answered for a key
    outlived,    \* quotes made under a key that no record of the key tells of any more
    clients,     \* the sources a row of Client was made for
    tvaApplicable,  \* Company.tvaApplicable
    req          \* the requests in progress

locks == <<rowLock, quotaLock, keyLock>>
company == <<clients, tvaApplicable>>
serverVars == <<clock, devis, counter, locks, recorded, outlived, company, req>>

-----------------------------------------------------------------------------
(* The values                                                              *)

Months == 0 .. MaxMonth
YearOf(month) == month \div MonthsPerYear
Years == {YearOf(m): m \in Months}

\* A quote is known by the year of its counter and its place in it.  Its number
\* prints a year that was read apart.
Ids == Years \X Nat
Id(d) == <<d.year, d.seq>>
Numero(d) == <<d.label, d.seq>>

Idle == [pc |-> "idle", key |-> Null, src |-> Null, claim |-> FALSE, label |-> 0,
         year |-> 0, seq |-> 0, answer |-> "none", made |-> Null]

Lost == [pc |-> "reply", key |-> Null, src |-> Null, claim |-> FALSE, label |-> 0,
         year |-> 0, seq |-> 0, answer |-> "lost", made |-> Null]

At(r, pc) == req[r].pc = pc
Active == {r \in Requests: ~At(r, "idle")}

\* A request at another step, with what that step reads or decides.
Moved(r, pc, label, year, seq, answer, made) ==
    [pc |-> pc, key |-> req[r].key, src |-> req[r].src, claim |-> req[r].claim,
     label |-> label, year |-> year, seq |-> seq, answer |-> answer, made |-> made]
AtStep(r, pc) == Moved(r, pc, req[r].label, req[r].year, req[r].seq, req[r].answer, req[r].made)
Answered(r, answer, made) ==
    Moved(r, "reply", req[r].label, req[r].year, req[r].seq, answer, made)
Becomes(r, q) == req' = [req EXCEPT ![r] = q]
To(r, pc) == Becomes(r, AtStep(r, pc))

\* The plan is read once; a claimed draft skips the quota.
Limited(r) == Plan = "FREE" /\ ~req[r].claim

\* devis.count({userId, deletedAt: null, createdAt >= start of the month})
CountThisMonth == Cardinality({d \in devis: ~d.deleted /\ d.month = clock})

\* The mutant of the quota takes no lock.
QuotaUnlocked(r) == TRUE
QuotaLockFree(r) == quotaLock = Null

RowLockFree(y) == rowLock[y] = Null

KeyLockFree(k) == keyLock[k] = Null

\* What the end of a transaction frees.
Freed(lock, r) == [k \in DOMAIN lock |-> IF lock[k] = r THEN Null ELSE lock[k]]

\* The creation's transaction ends, committed or not.
EndTransaction(r) ==
    /\ quotaLock' = IF quotaLock = r THEN Null ELSE quotaLock
    /\ rowLock' = Freed(rowLock, r)

\* A keyed request whose transaction is still open.
HoldsKey(r) == req[r].key # Null /\ keyLock[req[r].key] = r

\* The handler is done: an error rolls the keyed transaction back and leaves no
\* record; without a key the answer goes out.
Answer(r, answer) ==
    /\ Becomes(r, Answered(r, answer, req[r].made))
    /\ keyLock' = Freed(keyLock, r)

-----------------------------------------------------------------------------
(* A request                                                               *)

Arrival(key, claim) == IF claim THEN "client" ELSE IF key = Null THEN "check" ELSE "key"

\* A POST arrives: with a key it first waits for the key's lock.
Submit(r, key, src, claim) ==
    /\ At(r, "idle")
    /\ Cardinality(devis) + Cardinality(Active) < MaxDevis
    /\ Becomes(r, [pc |-> Arrival(key, claim), key |-> key, src |-> src, claim |-> claim,
                   label |-> 0, year |-> 0, seq |-> 0, answer |-> "none", made |-> Null])
    /\ UNCHANGED <<clock, devis, counter, locks, recorded, outlived, company>>

\* A request is turned away before anything is written: rate limit, past-due
\* billing, invalid body.
TurnAway(r) ==
    /\ req[r].pc \in {"client", "key", "check"}
    /\ Answer(r, "error")
    /\ UNCHANGED <<clock, devis, counter, rowLock, quotaLock, recorded, outlived, company>>

\* A claimed draft first makes its client, and turns the VAT of the company off if
\* the guest had; a failure later takes neither back.
ClaimClient(r) ==
    /\ At(r, "client")
    /\ clients' = clients \union {req[r].src}
    /\ tvaApplicable' \in {tvaApplicable, FALSE}
    /\ To(r, "check")
    /\ UNCHANGED <<clock, devis, counter, locks, recorded, outlived>>

\* The mutant looks for the record before it waits for the lock.
LookUpEarly(r) ==
    /\ At(r, "key")
    /\ IF recorded[req[r].key] # Null
       THEN Becomes(r, Answered(r, "created", recorded[req[r].key])) /\ UNCHANGED keyLock
       ELSE /\ To(r, "check")
            /\ keyLock' = [keyLock EXCEPT ![req[r].key] = r]
    /\ UNCHANGED <<clock, devis, counter, rowLock, quotaLock, recorded, outlived, company>>
\* Takes the key's lock; a record that has not expired answers at once.
LockKey(r) ==
    /\ At(r, "key")
    /\ KeyLockFree(req[r].key)
    /\ IF recorded[req[r].key] # Null
       THEN Becomes(r, Answered(r, "created", recorded[req[r].key])) /\ UNCHANGED keyLock
       ELSE /\ To(r, "check")
            /\ keyLock' = [keyLock EXCEPT ![req[r].key] = r]
    /\ UNCHANGED <<clock, devis, counter, rowLock, quotaLock, recorded, outlived, company>>

\* assertCanCreateDevis: a count outside the transaction, for a quick refusal.
Check(r) ==
    /\ At(r, "check")
    /\ IF Limited(r) /\ CountThisMonth >= Quota
       THEN Answer(r, "refused")
       ELSE To(r, IF Limited(r) THEN "quota" ELSE "year") /\ UNCHANGED keyLock
    /\ UNCHANGED <<clock, devis, counter, rowLock, quotaLock, recorded, outlived, company>>

\* The transaction begins: the advisory lock of the quota.
LockQuota(r) ==
    /\ At(r, "quota")
    /\ QuotaLockFree(r)
    /\ quotaLock' = r
    /\ To(r, "count")
    /\ UNCHANGED <<clock, devis, counter, rowLock, keyLock, recorded, outlived, company>>

\* The count that decides, under the lock.
CountQuota(r) ==
    /\ At(r, "count")
    /\ IF CountThisMonth >= Quota
       THEN Answer(r, "refused") /\ EndTransaction(r)
       ELSE To(r, "year") /\ UNCHANGED locks
    /\ UNCHANGED <<clock, devis, counter, recorded, outlived, company>>

\* After the client was found, the year is read for the label and, a moment
\* later, for the counter.
ReadYears(r) ==
    /\ At(r, "year")
    /\ \E tick \in {0, 1}:
        /\ clock + tick \in Months
        /\ clock' = clock + tick
        /\ Becomes(r, Moved(r, "number", YearOf(clock), YearOf(clock + tick), req[r].seq,
                            req[r].answer, req[r].made))
    /\ UNCHANGED <<devis, counter, locks, recorded, outlived, company>>

\* INSERT ... ON CONFLICT DO UPDATE ... RETURNING: waits for the row, then holds it.
NextSequence(r) ==
    /\ At(r, "number")
    /\ RowLockFree(req[r].year)
    /\ rowLock' = [rowLock EXCEPT ![req[r].year] = r]
    /\ Becomes(r, Moved(r, "insert", req[r].label, req[r].year, counter[req[r].year] + 1,
                        req[r].answer, req[r].made))
    /\ UNCHANGED <<clock, devis, counter, quotaLock, keyLock, recorded, outlived, company>>

Row(r) == [year |-> req[r].year, seq |-> req[r].seq, label |-> req[r].label,
           month |-> clock, key |-> req[r].key, src |-> req[r].src,
           claim |-> req[r].claim, deleted |-> FALSE]

\* The unique index on (userId, numero).
NumeroFree(numero) == \A d \in devis: Numero(d) # numero

\* The mutant takes its number in a transaction of its own, as nextDevisNumero does.
NumberKept(r) == counter' = [counter EXCEPT ![req[r].year] = req[r].seq]
NumberGivenBack(r) == UNCHANGED counter

\* Inserts the quote and commits.  A quote made after the keyed transaction has
\* gone will not be recorded.
Insert(r) ==
    /\ At(r, "insert")
    /\ NumeroFree(<<req[r].label, req[r].seq>>)
    /\ devis' = devis \union {Row(r)}
    /\ counter' = [counter EXCEPT ![req[r].year] = req[r].seq]
    /\ EndTransaction(r)
    /\ Becomes(r, Moved(r, "audit", req[r].label, req[r].year, req[r].seq, req[r].answer,
                        <<req[r].year, req[r].seq>>))
    /\ outlived' = IF req[r].key = Null \/ HoldsKey(r) THEN outlived
                   ELSE outlived \union {<<req[r].year, req[r].seq>>}
    /\ UNCHANGED <<clock, keyLock, recorded, company>>

\* The transaction fails: the client is not found, the number is taken, the
\* database gives up.
RollBack(r) ==
    /\ req[r].pc \in {"quota", "count", "year", "number", "insert"}
    /\ IF At(r, "insert") THEN NumberGivenBack(r) ELSE UNCHANGED counter
    /\ EndTransaction(r)
    /\ Answer(r, "error")
    /\ UNCHANGED <<clock, devis, recorded, outlived, company>>

\* logAudit, in a transaction of its own; when it fails the quote stays.
Audit(r) ==
    /\ At(r, "audit")
    /\ IF req[r].key = Null
       THEN Answer(r, "created")
       ELSE To(r, "record") /\ UNCHANGED keyLock
    /\ UNCHANGED <<clock, devis, counter, rowLock, quotaLock, recorded, outlived, company>>

\* The quote that a keyed request made is left without a record.
Outlive(r) == outlived' = IF req[r].key = Null \/ req[r].made = Null \/ ~HoldsKey(r)
                          THEN outlived ELSE outlived \union {req[r].made}

AuditFails(r) ==
    /\ At(r, "audit")
    /\ Answer(r, "error")
    /\ Outlive(r)
    /\ UNCHANGED <<clock, devis, counter, rowLock, quotaLock, recorded, company>>

\* Records the answer and commits the keyed transaction; the upsert fails when
\* that transaction is closed.
Record(r) ==
    /\ At(r, "record")
    /\ IF HoldsKey(r)
       THEN /\ recorded' = [recorded EXCEPT ![req[r].key] = req[r].made]
            /\ Answer(r, "created")
       ELSE /\ Answer(r, "error")
            /\ UNCHANGED recorded
    /\ UNCHANGED <<clock, devis, counter, rowLock, quotaLock, outlived, company>>

\* The keyed transaction has been open for too long and is rolled back; its
\* handler goes on.
KeyTimeout(r) ==
    /\ HoldsKey(r)
    /\ keyLock' = Freed(keyLock, r)
    /\ Outlive(r)
    /\ UNCHANGED <<clock, devis, counter, rowLock, quotaLock, recorded, company, req>>

\* The process dies: its transactions roll back, and no answer goes out.
Die(r) ==
    /\ r \in Active
    /\ ~At(r, "reply")
    /\ EndTransaction(r)
    /\ keyLock' = Freed(keyLock, r)
    /\ Outlive(r)
    /\ Becomes(r, Lost)
    /\ UNCHANGED <<clock, devis, counter, recorded, company>>

\* The answer goes out, or is lost on the way.
Reply(r) ==
    /\ At(r, "reply")
    /\ Becomes(r, Idle)
    /\ UNCHANGED <<clock, devis, counter, locks, recorded, outlived, company>>

-----------------------------------------------------------------------------
(* Around the requests                                                     *)

\* A record expires after a day: a request no longer answers from it, and the
\* purge deletes it.
Expire(k) ==
    /\ recorded[k] # Null
    /\ recorded' = [recorded EXCEPT ![k] = Null]
    /\ outlived' = outlived \union {recorded[k]}
    /\ UNCHANGED <<clock, devis, counter, locks, company, req>>

\* softDeleteDevis, as far as the quota sees it; DevisLifecycle has the whole of it.
SoftDelete(d) ==
    /\ ~d.deleted
    /\ devis' = (devis \ {d}) \union {[d EXCEPT !.deleted = TRUE]}
    /\ UNCHANGED <<clock, counter, locks, recorded, outlived, company, req>>

NextMonth ==
    /\ clock + 1 \in Months
    /\ clock' = clock + 1
    /\ UNCHANGED <<devis, counter, locks, recorded, outlived, company, req>>

-----------------------------------------------------------------------------
ServerInit ==
    /\ clock = 0
    /\ devis = {}
    /\ counter = [y \in Years |-> 0]
    /\ rowLock = [y \in Years |-> Null]
    /\ quotaLock = Null
    /\ keyLock = [k \in Keys |-> Null]
    /\ recorded = [k \in Keys |-> Null]
    /\ outlived = {}
    /\ clients = {}
    /\ tvaApplicable = TRUE
    /\ req = [r \in Requests |-> Idle]

\* What a request does once it has arrived and before it answers.
Handle(r) ==
    \/ TurnAway(r) \/ ClaimClient(r) \/ LockKey(r) \/ Check(r) \/ LockQuota(r) \/ CountQuota(r)
    \/ ReadYears(r) \/ NextSequence(r) \/ Insert(r) \/ RollBack(r)
    \/ Audit(r) \/ AuditFails(r) \/ Record(r) \/ KeyTimeout(r) \/ Die(r)

Surroundings ==
    \/ \E k \in Keys: Expire(k)
    \/ \E d \in devis: SoftDelete(d)
    \/ NextMonth

ServerNext ==
    \/ \E r \in Requests:
        \/ \E key \in Keys \union {Null}, src \in Sources: Submit(r, key, src, FALSE)
        \/ \E src \in Sources: Submit(r, Null, src, TRUE)
        \/ Handle(r)
        \/ Reply(r)
    \/ Surroundings

ServerSpec == ServerInit /\ [][ServerNext]_serverVars

-----------------------------------------------------------------------------
(* The invariant                                                           *)

Pcs == {"idle", "client", "key", "check", "quota", "count", "year", "number", "insert",
        "audit", "record", "reply"}
Rows == [year: Years, seq: Nat, label: Years, month: Months, key: Keys \union {Null},
         src: Sources, claim: BOOLEAN, deleted: BOOLEAN]
Progress == [pc: Pcs, key: Keys \union {Null}, src: Sources \union {Null}, claim: BOOLEAN,
             label: Years, year: Years, seq: Nat,
             answer: {"none", "created", "refused", "error", "lost"}, made: Ids \union {Null}]

ServerTypeOK ==
    /\ clock \in Months
    /\ devis \subseteq Rows
    /\ counter \in [Years -> Nat]
    /\ rowLock \in [Years -> Requests \union {Null}]
    /\ quotaLock \in Requests \union {Null}
    /\ keyLock \in [Keys -> Requests \union {Null}]
    /\ recorded \in [Keys -> Ids \union {Null}]
    /\ outlived \subseteq Ids
    /\ clients \subseteq Sources
    /\ tvaApplicable \in BOOLEAN
    /\ req \in [Requests -> Progress]

\* The requests that were counted and have not inserted yet.
MayAdd(r) == req[r].pc \in {"year", "number", "insert"} /\ Limited(r)

\* The locks are held by the requests that are where the code holds them.
RequestLocks(r) ==
    /\ MayAdd(r) => quotaLock = r
    /\ At(r, "count") => quotaLock = r
    /\ At(r, "insert") => rowLock[req[r].year] = r
    /\ req[r].pc \notin {"idle", "reply"} => req[r].src # Null
    /\ req[r].pc \in {"key", "record"} => req[r].key # Null
RowLocks == \A y \in Years: rowLock[y] # Null =>
                At(rowLock[y], "insert") /\ req[rowLock[y]].year = y
KeyLocks == \A k \in Keys: keyLock[k] # Null =>
                /\ req[keyLock[k]].key = k
                /\ req[keyLock[k]].pc \notin {"idle", "client", "key", "reply"}
LockInv == (\A r \in Requests: RequestLocks(r)) /\ RowLocks /\ KeyLocks

\* The numbers of a year run from 1 to its counter, one quote each, and whoever is
\* about to insert has the next one.
GaplessNumbers ==
    /\ \A d \in devis: d.seq \in 1 .. counter[d.year]
    /\ \A y \in Years: \A n \in 1 .. counter[y]: \E d \in devis: Id(d) = <<y, n>>
    /\ \A d, e \in devis: Id(d) = Id(e) => d = e
    /\ \A r \in Requests: At(r, "insert") => req[r].seq = counter[req[r].year] + 1

\* What a keyed request or its record holds is a quote of that key, made once.
RecordsTrue == \A k \in Keys: recorded[k] # Null =>
                   /\ keyLock[k] = Null
                   /\ \E d \in devis: Id(d) = recorded[k] /\ d.key = k
MadeOnce(r) ==
    /\ req[r].pc \in {"audit", "record"} =>
           \E d \in devis: Id(d) = req[r].made /\ d.key = req[r].key
    /\ req[r].pc \notin {"audit", "record", "reply"} => req[r].made = Null
Remembered(d) ==
    d.key # Null /\ Id(d) \notin outlived =>
        \/ recorded[d.key] = Id(d)
        \/ keyLock[d.key] # Null /\ req[keyLock[d.key]].made = Id(d)
KeyInv == RecordsTrue /\ (\A r \in Requests: MadeOnce(r)) /\ \A d \in devis: Remembered(d)

\* For any number of requests, the numbers of a year run without a gap or a double,
\* and the keys remember what was made under them.
CreationInv == ServerTypeOK /\ LockInv /\ GaplessNumbers /\ KeyInv

\* The quotes of a month that the quota is about: whoever may add one finds room.
Counted(month) == {d \in devis: d.month = month /\ ~d.deleted /\ ~d.claim}
QuotaInv ==
    /\ IsFiniteSet(devis) /\ \A d \in devis: d.month <= clock
    /\ Plan = "FREE" => \A m \in Months: Cardinality(Counted(m)) <= Quota
    /\ \A r \in Requests: MayAdd(r) => Cardinality(Counted(clock)) < Quota

\* All of it: inductive.
ServerInv == CreationInv /\ QuotaInv

-----------------------------------------------------------------------------
(* Properties                                                              *)

\* Under one key, at most one quote that a record of the key told of, or is about
\* to: a second one is made only after the first was left without a record, by a
\* failure after its commit or by the record's end.
OncePerKey ==
    \A d, e \in devis: d.key # Null /\ d.key = e.key /\ Id(d) \notin outlived
                       /\ Id(e) \notin outlived => d = e

\* The free plan: never more quotes in a month than the quota, whatever creations
\* and deletions overlap, claimed drafts apart.
QuotaKept ==
    Plan = "FREE" => \A m \in Months: Cardinality(Counted(m)) <= Quota
=============================================================================
