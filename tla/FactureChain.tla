---------------------------- MODULE FactureChain ----------------------------
(***************************************************************************)
(* Issuing, paying and cancelling the invoices of one workspace, by        *)
(* concurrent HTTP requests (src/src/lib/services/facture.ts).             *)
(*                                                                         *)
(* A request reads its invoice first and writes later; between two awaits  *)
(* any other request may run.  Every database statement is atomic (READ    *)
(* COMMITTED), the issuing transaction holds an advisory lock per          *)
(* workspace, and the archived PDFs live outside the database.             *)
(***************************************************************************)
EXTENDS Naturals, FiniteSets

CONSTANTS
    Factures,    \* the invoices of the workspace
    Requests,    \* the requests the server handles at the same time
    Issuers,     \* those of them that may issue; the others pay and cancel
    MaxEdits,    \* bound on the edits of the client record
    MaxAbandoned,  \* bound on the invoices whose requests may die
    Null         \* SQL NULL, an absent file, no request

ASSUME IssuersAssumption == Issuers \subseteq Requests
ASSUME EditsAssumption == MaxEdits \in Nat
ASSUME NullAssumption ==
    /\ Null \notin Factures
    /\ Null \notin Requests
    /\ Null \notin [facture: Factures, client: Nat]

VARIABLES
    clientVersion,  \* version of the live client record the payload embeds
    now,            \* ticks of the clock that stamps issuedAt
    status, contentHash, previousHash, issuedAt,   \* columns of Facture
    attestation,    \* contentHash of the Attestation row, or Null
    facturePdf, attestationPdf,  \* contentHash printed in the archived file
    chainLock,      \* holder of pg_advisory_xact_lock('facture-chain:user')
    audit,          \* number of journal entries per invoice and action
    req,            \* the requests in progress
    abandoned       \* (observation) invoices one of whose requests died

rows == <<status, contentHash, previousHash, issuedAt, attestation>>
files == <<facturePdf, attestationPdf>>
vars == <<clientVersion, now, rows, files, chainLock, audit, req, abandoned>>

-----------------------------------------------------------------------------
(* The values                                                              *)

FactureStatus == {"BROUILLON", "EMISE", "PAYEE", "ANNULEE"}
AuditAction == {"LOCK", "ISSUE", "PAY", "CANCEL"}

\* SHA-256 of the canonical payload: the numero makes it differ between
\* invoices, the embedded client record between versions of the client.
Hashes == [facture: Factures, client: Nat]
ComputeContentHash(f) == [facture |-> f, client |-> clientVersion]

IssueSteps == {"archiveFacture", "archiveAttestation", "awaitLock", "chained",
               "dropFacture", "dropAttestation"}
AuditSteps == {"logLock", "logIssue", "logPay", "logCancel"}
Steps == {"idle", "pay", "cancel"} \union IssueSteps \union AuditSteps

Request == [pc: Steps, f: Factures \union {Null},
            hash: Hashes \union {Null}, prev: Hashes \union {Null}]
Idle == [pc |-> "idle", f |-> Null, hash |-> Null, prev |-> Null]

Issued(f) == contentHash[f] # Null
Cancelled(f) == status[f] = "ANNULEE"

\* The status filter of the query for the last issued invoice; the mutant
\* forgets the paid ones.
LiveUnpaid(f) == status[f] = "EMISE" /\ Issued(f)
Live(f) == status[f] \in {"EMISE", "PAYEE"} /\ Issued(f)

\* orderBy issuedAt desc.
LastIssued(f) == Live(f) /\ \A g \in Factures: Live(g) => issuedAt[g] <= issuedAt[f]

\* The where clauses of the guarded updates; the mutant keeps only the id.
WhereId(f) == TRUE
IssueWhere(f) == status[f] = "BROUILLON"
PayWhere(f) == status[f] = "EMISE"

-----------------------------------------------------------------------------
Init ==
    /\ clientVersion = 0
    /\ now = 0
    /\ status = [f \in Factures |-> "BROUILLON"]
    /\ contentHash = [f \in Factures |-> Null]
    /\ previousHash = [f \in Factures |-> Null]
    /\ issuedAt = [f \in Factures |-> 0]
    /\ attestation = [f \in Factures |-> Null]
    /\ facturePdf = [f \in Factures |-> Null]
    /\ attestationPdf = [f \in Factures |-> Null]
    /\ chainLock = Null
    /\ audit = [f \in Factures |-> [a \in AuditAction |-> 0]]
    /\ req = [r \in Requests |-> Idle]
    /\ abandoned = {}

\* PATCH /api/clients/[id]: the record is edited in place, whatever invoices
\* refer to it.
EditClient ==
    /\ clientVersion < MaxEdits
    /\ clientVersion' = clientVersion + 1
    /\ UNCHANGED <<now, rows, files, chainLock, audit, req, abandoned>>

Start(r, f, pc, h) ==
    /\ req[r].pc = "idle"
    /\ req' = [req EXCEPT ![r] = [pc |-> pc, f |-> f, hash |-> h, prev |-> Null]]
    /\ UNCHANGED <<clientVersion, now, rows, files, chainLock, audit, abandoned>>

At(r, pc) == req[r].pc = pc
Goto(r, pc) == req' = [req EXCEPT ![r].pc = pc]
Finish(r) == req' = [req EXCEPT ![r] = Idle]

\* pg_advisory_xact_lock waits for the holder's transaction; the mutant has no lock.
NoLock(r) == TRUE
LockFree(r) == chainLock = Null

\* The transaction ends, by COMMIT or by ROLLBACK, and frees its lock; the
\* mutant takes a session lock, which the end of a transaction does not free.
KeepLock(r) == UNCHANGED chainLock
ReleaseLock(r) == chainLock' = IF chainLock = r THEN Null ELSE chainLock

-----------------------------------------------------------------------------
(* issueFacture                                                            *)

\* Reads the invoice and its client, hashes what it read.
BeginIssue(r, f) ==
    /\ r \in Issuers
    /\ status[f] = "BROUILLON"
    /\ Start(r, f, "archiveFacture", ComputeContentHash(f))

\* Both files have one key per invoice: a later archive overwrites.
ArchiveFacturePdf(r) ==
    /\ At(r, "archiveFacture")
    /\ facturePdf' = [facturePdf EXCEPT ![req[r].f] = req[r].hash]
    /\ Goto(r, "archiveAttestation")
    /\ UNCHANGED <<clientVersion, now, rows, attestationPdf, chainLock, audit, abandoned>>

ArchiveAttestationPdf(r) ==
    /\ At(r, "archiveAttestation")
    /\ attestationPdf' = [attestationPdf EXCEPT ![req[r].f] = req[r].hash]
    /\ Goto(r, "awaitLock")
    /\ UNCHANGED <<clientVersion, now, rows, facturePdf, chainLock, audit, abandoned>>

\* Generating or storing one of the PDFs throws: both are deleted.
ArchiveFails(r) ==
    /\ At(r, "archiveFacture") \/ At(r, "archiveAttestation")
    /\ Goto(r, "dropFacture")
    /\ UNCHANGED <<clientVersion, now, rows, files, chainLock, audit, abandoned>>

ChainTo(r, h) == req' = [req EXCEPT ![r].pc = "chained", ![r].prev = h]

\* Opens the transaction, takes the advisory lock, reads the last issued one.
AcquireChainLock(r) ==
    /\ At(r, "awaitLock")
    /\ LockFree(r)
    /\ chainLock' = r
    /\ \/ \E f \in Factures: LastIssued(f) /\ ChainTo(r, contentHash[f])
       \/ (\A f \in Factures: ~Live(f)) /\ ChainTo(r, Null)
    /\ UNCHANGED <<clientVersion, now, rows, files, audit, abandoned>>

\* The invoice and its attestation carry the hash computed when the request
\* began, the one in the PDFs; the mutant hashes the invoice again.
RehashedNow(r) == ComputeContentHash(req[r].f)
LockedHash(r) == req[r].hash
AttestedHash(r) == req[r].hash

\* updateMany(where status BROUILLON) hits, the attestation is created, COMMIT.
CommitIssue(r) ==
    LET f == req[r].f IN
    /\ At(r, "chained")
    /\ IssueWhere(f)
    /\ now' = now + 1
    /\ status' = [status EXCEPT ![f] = "EMISE"]
    /\ contentHash' = [contentHash EXCEPT ![f] = LockedHash(r)]
    /\ previousHash' = [previousHash EXCEPT ![f] = req[r].prev]
    /\ issuedAt' = [issuedAt EXCEPT ![f] = now']
    /\ attestation' = [attestation EXCEPT ![f] = AttestedHash(r)]
    /\ ReleaseLock(r)
    /\ Goto(r, "logLock")
    /\ UNCHANGED <<clientVersion, files, audit, abandoned>>

\* updateMany hits no row: ImmutabilityError, ROLLBACK.
RejectIssue(r) ==
    /\ At(r, "chained")
    /\ ~IssueWhere(req[r].f)
    /\ ReleaseLock(r)
    /\ Goto(r, "dropFacture")
    /\ UNCHANGED <<clientVersion, now, rows, files, audit, abandoned>>

\* The interactive transaction times out, waiting for the lock or holding it.
TimeoutIssue(r) ==
    /\ At(r, "awaitLock") \/ At(r, "chained")
    /\ ReleaseLock(r)
    /\ Goto(r, "dropFacture")
    /\ UNCHANGED <<clientVersion, now, rows, files, audit, abandoned>>

\* The catch blocks: the orphan files are deleted, then the error is rethrown.
DropFacturePdf(r) ==
    /\ At(r, "dropFacture")
    /\ facturePdf' = [facturePdf EXCEPT ![req[r].f] = Null]
    /\ Goto(r, "dropAttestation")
    /\ UNCHANGED <<clientVersion, now, rows, attestationPdf, chainLock, audit, abandoned>>

ForgetAttestationPdf(r) ==
    /\ At(r, "dropAttestation")
    /\ Finish(r)
    /\ UNCHANGED <<clientVersion, now, rows, files, chainLock, audit, abandoned>>

DropAttestationPdf(r) ==
    /\ At(r, "dropAttestation")
    /\ attestationPdf' = [attestationPdf EXCEPT ![req[r].f] = Null]
    /\ Finish(r)
    /\ UNCHANGED <<clientVersion, now, rows, facturePdf, chainLock, audit, abandoned>>

-----------------------------------------------------------------------------
(* markFacturePaid and cancelFacture                                       *)

BeginPay(r, f) == status[f] = "EMISE" /\ Start(r, f, "pay", Null)

\* updateMany(where status EMISE); when it hits no row the request fails.
PayFacture(r) ==
    LET f == req[r].f IN
    /\ At(r, "pay")
    /\ IF PayWhere(f)
         THEN status' = [status EXCEPT ![f] = "PAYEE"] /\ Goto(r, "logPay")
         ELSE UNCHANGED status /\ Finish(r)
    /\ UNCHANGED <<clientVersion, now, contentHash, previousHash, issuedAt,
                   attestation, files, chainLock, audit, abandoned>>

BeginCancel(r, f) == status[f] = "BROUILLON" /\ Start(r, f, "cancel", Null)

\* update(where id): no condition on the status.
CancelFacture(r) ==
    /\ At(r, "cancel")
    /\ status' = [status EXCEPT ![req[r].f] = "ANNULEE"]
    /\ Goto(r, "logCancel")
    /\ UNCHANGED <<clientVersion, now, contentHash, previousHash, issuedAt,
                   attestation, files, chainLock, audit, abandoned>>

-----------------------------------------------------------------------------
(* The journal entries that follow a commit, and requests that die         *)

LogAudit(r, pc, action) ==
    /\ At(r, pc)
    /\ audit' = [audit EXCEPT ![req[r].f][action] = @ + 1]
    /\ IF pc = "logLock" THEN Goto(r, "logIssue") ELSE Finish(r)
    /\ UNCHANGED <<clientVersion, now, rows, files, chainLock, abandoned>>

LogLock(r) == LogAudit(r, "logLock", "LOCK")
LogIssue(r) == LogAudit(r, "logIssue", "ISSUE")
LogPay(r) == LogAudit(r, "logPay", "PAY")
LogCancel(r) == LogAudit(r, "logCancel", "CANCEL")

\* The process stops, or an await outside the try blocks throws (the database
\* is unreachable): what was written stays, the open transaction rolls back.
Abort(r) ==
    /\ ~At(r, "idle")
    /\ ReleaseLock(r)
    /\ abandoned' = abandoned \union {req[r].f}
    /\ Cardinality(abandoned') <= MaxAbandoned
    /\ Finish(r)
    /\ UNCHANGED <<clientVersion, now, rows, files, audit>>

-----------------------------------------------------------------------------
Issuing(r) ==
    \/ ArchiveFacturePdf(r) \/ ArchiveAttestationPdf(r) \/ ArchiveFails(r)
    \/ AcquireChainLock(r) \/ CommitIssue(r) \/ RejectIssue(r) \/ TimeoutIssue(r)
    \/ DropFacturePdf(r) \/ DropAttestationPdf(r)

Working(r) ==
    \/ Issuing(r)
    \/ PayFacture(r) \/ CancelFacture(r)
    \/ LogLock(r) \/ LogIssue(r) \/ LogPay(r) \/ LogCancel(r)

Begin(r) == \E f \in Factures: BeginIssue(r, f) \/ BeginPay(r, f) \/ BeginCancel(r, f)

Next ==
    \/ EditClient
    \/ \E r \in Requests: Begin(r) \/ Working(r) \/ Abort(r)

Spec == Init /\ [][Next]_vars

\* Node keeps running a request it has started, and PostgreSQL grants an
\* advisory lock in the order it was asked for.  Timeouts and failures may
\* happen but nothing relies on them.
Progress(r) ==
    \/ ArchiveFacturePdf(r) \/ ArchiveAttestationPdf(r)
    \/ CommitIssue(r) \/ RejectIssue(r) \/ DropFacturePdf(r) \/ DropAttestationPdf(r)
    \/ PayFacture(r) \/ CancelFacture(r)
    \/ LogLock(r) \/ LogIssue(r) \/ LogPay(r) \/ LogCancel(r)
Fairness == \A r \in Requests: WF_vars(Progress(r)) /\ SF_vars(AcquireChainLock(r))
FairSpec == Spec /\ Fairness

-----------------------------------------------------------------------------
(* Properties                                                              *)

\* A request that works has an invoice, one that issues a hash of it.
WellFormed(q) ==
    /\ q \in Request
    /\ q.pc # "idle" => q.f \in Factures
    /\ q.pc \in IssueSteps => q.hash \in Hashes /\ q.hash.facture = q.f

\* Every variable keeps its type, and the requests are well formed.
TypeOK ==
    /\ clientVersion \in Nat
    /\ now \in Nat
    /\ status \in [Factures -> FactureStatus]
    /\ contentHash \in [Factures -> Hashes \union {Null}]
    /\ previousHash \in [Factures -> Hashes \union {Null}]
    /\ issuedAt \in [Factures -> Nat]
    /\ attestation \in [Factures -> Hashes \union {Null}]
    /\ facturePdf \in [Factures -> Hashes \union {Null}]
    /\ attestationPdf \in [Factures -> Hashes \union {Null}]
    /\ chainLock \in Requests \union {Null}
    /\ audit \in [Factures -> [AuditAction -> Nat]]
    /\ req \in [Requests -> Request]
    /\ \A r \in Requests: WellFormed(req[r])
    /\ abandoned \in SUBSET Factures

IssuedBetween(t, f) ==
    {g \in Factures: Issued(g) /\ t < issuedAt[g] /\ issuedAt[g] < issuedAt[f]}

\* The request that holds the lock is the one inside the issuing transaction.
LockInv == \A r \in Requests: At(r, "chained") <=> chainLock = r

\* An invoice carries the stamps of its issue exactly when it left the drafts
\* through issueFacture, and no two carry the same.
StampInv ==
    /\ \A f \in Factures:
          /\ status[f] = "BROUILLON" => ~Issued(f)
          /\ status[f] \in {"EMISE", "PAYEE"} => Issued(f)
          /\ Issued(f) => contentHash[f].facture = f /\ issuedAt[f] \in 1..now
    /\ \A f, g \in Factures: Issued(f) /\ Issued(g) /\ issuedAt[f] = issuedAt[g] => f = g

\* While a request holds the lock, what it read as the last issued invoice stays
\* the last one, up to cancellations.
ChainedInv ==
    \A r \in Requests: At(r, "chained") =>
        \/ req[r].prev = Null /\ \A g \in Factures: Issued(g) => Cancelled(g)
        \/ \E p \in Factures:
              /\ Issued(p) /\ contentHash[p] = req[r].prev
              /\ \A g \in Factures: Issued(g) /\ issuedAt[p] < issuedAt[g] => Cancelled(g)

\* The chain of issueFacture: the predecessor of an issued invoice is an invoice
\* issued before it, and the only invoices issued in between are cancelled ones
\* (GENESIS skips nothing but cancelled ones either).
ChainOrder ==
    \A f \in Factures: Issued(f) =>
        \/ previousHash[f] = Null /\ \A g \in IssuedBetween(0, f): Cancelled(g)
        \/ \E p \in Factures:
              /\ Issued(p) /\ contentHash[p] = previousHash[f]
              /\ issuedAt[p] < issuedAt[f]
              /\ \A g \in IssuedBetween(issuedAt[p], f): Cancelled(g)

\* The inductive invariant behind the theorems on the chain.
IInv == TypeOK /\ LockInv /\ StampInv /\ ChainedInv /\ ChainOrder

\* Two invoices that still count never share a predecessor: the chain of issued
\* and paid invoices is a line, with one first invoice.
NoFork ==
    \A f, g \in Factures:
        Live(f) /\ Live(g) /\ previousHash[f] = previousHash[g] => f = g

\* verifyFactureIntegrity's test of the link.
VerifyLink(f) ==
    previousHash[f] # Null =>
        \E p \in Factures: Live(p) /\ contentHash[p] = previousHash[f]

\* As long as no issued invoice was cancelled, every link verifies.
ChainVerifies ==
    (\A f \in Factures: Issued(f) => ~Cancelled(f)) =>
        \A f \in Factures: Issued(f) => VerifyLink(f)

\* The chain of issueFacture, whatever races: it does not fork, and what
\* verifyFactureIntegrity tests holds unless cancelFacture broke it.
ChainSound == NoFork /\ ChainVerifies

\* The journal tells the truth: LOCK, ISSUE and PAY are logged at most once per
\* invoice, each only after what it reports, ISSUE only after LOCK.
AuditTruthful ==
    \A f \in Factures:
        /\ audit[f]["LOCK"] <= (IF Issued(f) THEN 1 ELSE 0)
        /\ audit[f]["ISSUE"] <= audit[f]["LOCK"]
        /\ audit[f]["PAY"] <= (IF status[f] \in {"PAYEE", "ANNULEE"} /\ Issued(f) THEN 1 ELSE 0)
        /\ audit[f]["CANCEL"] > 0 => Cancelled(f)

\* A failed issue leaves no file behind: a stored PDF belongs to an issued
\* invoice, or to an issue in progress, unless a request about it died.
NoOrphanPdf ==
    \A f \in Factures \ abandoned:
        facturePdf[f] # Null \/ attestationPdf[f] # Null =>
            Issued(f) \/ \E r \in Requests: req[r].f = f /\ req[r].pc \in IssueSteps

\* What an invoice was locked with never changes again, whatever requests race.
LockedForGood ==
    [][\A f \in Factures: Issued(f) =>
          UNCHANGED <<contentHash[f], previousHash[f], issuedAt[f], attestation[f]>>]_vars

\* Every request comes to an end, those that wait for the chain lock included.
RequestsEnd == \A r \in Requests: ~At(r, "idle") ~> At(r, "idle")

\* An issued invoice, its attestation and both archived files say the same: the
\* content it was locked with, whatever the client record became meanwhile.
PapersAgree ==
    \A f \in Factures: Issued(f) =>
        /\ attestation[f] = contentHash[f]
        /\ facturePdf[f] = contentHash[f] /\ attestationPdf[f] = contentHash[f]

\* facture.ts:392-396: only a draft can be cancelled, an issued invoice stays.
IssuedNeverCancelled ==
    [][\A f \in Factures: Issued(f) /\ Cancelled(f)' => Cancelled(f)]_vars
=============================================================================
