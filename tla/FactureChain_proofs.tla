------------------------ MODULE FactureChain_proofs ------------------------
(***************************************************************************)
(* What FactureChain guarantees for any number of invoices, requests and   *)
(* edits: the types, the order of the chain, and that it does not fork.    *)
(***************************************************************************)
EXTENDS FactureChain, TLAPS

USE DEF Start, At, rows, files

RequestsOK == req \in [Requests -> Request] /\ \A r \in Requests: WellFormed(req[r])

\* A request that only moves on stays well formed, if no step outside
\* issueFacture leads into it.
LEMMA GotoWellFormed ==
  ASSUME TypeOK, NEW r \in Requests, NEW pc \in Steps, req[r].pc # "idle",
         pc \in IssueSteps => req[r].pc \in IssueSteps, Goto(r, pc)
  PROVE  RequestsOK'
<1>1. WellFormed([req[r] EXCEPT !.pc = pc])
  BY DEF TypeOK, WellFormed, Request
<1>2. req' = [req EXCEPT ![r] = [req[r] EXCEPT !.pc = pc]]
  BY DEF Goto
<1> QED
  BY <1>1, <1>2 DEF TypeOK, RequestsOK, WellFormed

LEMMA FinishWellFormed ==
  ASSUME TypeOK, NEW r \in Requests, Finish(r)
  PROVE  RequestsOK'
<1>1. WellFormed(Idle)
  BY DEF WellFormed, Idle, Request, Steps, IssueSteps
<1> QED
  BY <1>1 DEF TypeOK, RequestsOK, WellFormed, Finish

LEMMA StartWellFormed ==
  ASSUME TypeOK, NEW r \in Requests, NEW f \in Factures, NEW pc \in Steps,
         NEW h \in Hashes \union {Null}, pc \in IssueSteps => h \in Hashes /\ h.facture = f,
         Start(r, f, pc, h)
  PROVE  RequestsOK'
<1>1. WellFormed([pc |-> pc, f |-> f, hash |-> h, prev |-> Null])
  BY DEF WellFormed, Request
<1> QED
  BY <1>1 DEF TypeOK, RequestsOK, WellFormed

LEMMA TypeInit == Init => TypeOK
  BY EditsAssumption DEF Init, TypeOK, FactureStatus, AuditAction, WellFormed, Request, Idle,
     Steps, IssueSteps

LEMMA TypeNext == TypeOK /\ [Next]_vars => TypeOK'
<1> SUFFICES ASSUME TypeOK, [Next]_vars PROVE TypeOK'
  OBVIOUS
<1> USE DEF Steps, IssueSteps, AuditSteps
<1>1. CASE EditClient
  BY <1>1 DEF EditClient, TypeOK
<1>2. ASSUME NEW r \in Requests, NEW f \in Factures, BeginIssue(r, f) PROVE TypeOK'
  <2>1. ComputeContentHash(f) \in Hashes /\ ComputeContentHash(f).facture = f
    BY DEF TypeOK, ComputeContentHash, Hashes
  <2>2. RequestsOK'
    BY <1>2, <2>1, StartWellFormed DEF BeginIssue
  <2> QED
    BY <1>2, <2>2 DEF BeginIssue, TypeOK, RequestsOK
<1>3. ASSUME NEW r \in Requests, NEW f \in Factures, BeginPay(r, f) \/ BeginCancel(r, f) PROVE TypeOK'
  <2>1. RequestsOK'
    BY <1>3, StartWellFormed DEF BeginPay, BeginCancel
  <2> QED
    BY <1>3, <2>1 DEF BeginPay, BeginCancel, TypeOK, RequestsOK
<1>4. ASSUME NEW r \in Requests, ArchiveFacturePdf(r) PROVE TypeOK'
  <2>1. RequestsOK'
    BY <1>4, GotoWellFormed DEF ArchiveFacturePdf
  <2> QED
    BY <1>4, <2>1 DEF ArchiveFacturePdf, TypeOK, RequestsOK, WellFormed
<1>5. ASSUME NEW r \in Requests, ArchiveAttestationPdf(r) PROVE TypeOK'
  <2>1. RequestsOK'
    BY <1>5, GotoWellFormed DEF ArchiveAttestationPdf
  <2> QED
    BY <1>5, <2>1 DEF ArchiveAttestationPdf, TypeOK, RequestsOK, WellFormed
<1>6. ASSUME NEW r \in Requests, ArchiveFails(r) PROVE TypeOK'
  <2>1. RequestsOK'
    BY <1>6, GotoWellFormed DEF ArchiveFails
  <2> QED
    BY <1>6, <2>1 DEF ArchiveFails, TypeOK, RequestsOK
<1>7. ASSUME NEW r \in Requests, AcquireChainLock(r) PROVE TypeOK'
  <2>1. PICK h \in Hashes \union {Null}: ChainTo(r, h)
    BY <1>7 DEF AcquireChainLock, TypeOK
  <2>2. WellFormed([req[r] EXCEPT !.pc = "chained", !.prev = h])
    BY <1>7 DEF AcquireChainLock, TypeOK, WellFormed, Request
  <2>3. req' = [req EXCEPT ![r] = [req[r] EXCEPT !.pc = "chained", !.prev = h]]
    BY <2>1 DEF ChainTo, TypeOK, Request
  <2>4. RequestsOK'
    BY <2>2, <2>3 DEF TypeOK, RequestsOK, WellFormed
  <2> QED
    BY <1>7, <2>4 DEF AcquireChainLock, TypeOK, RequestsOK
<1>8. ASSUME NEW r \in Requests, CommitIssue(r) PROVE TypeOK'
  <2>1. RequestsOK'
    BY <1>8, GotoWellFormed DEF CommitIssue
  <2>2. req[r].f \in Factures /\ req[r].hash \in Hashes /\ req[r].prev \in Hashes \union {Null}
    BY <1>8 DEF CommitIssue, TypeOK, WellFormed, Request
  <2> QED
    BY <1>8, <2>1, <2>2 DEF CommitIssue, LockedHash, AttestedHash, ReleaseLock, FactureStatus, TypeOK, RequestsOK
<1>9. ASSUME NEW r \in Requests, RejectIssue(r) \/ TimeoutIssue(r) PROVE TypeOK'
  <2>1. RequestsOK'
    BY <1>9, GotoWellFormed DEF RejectIssue, TimeoutIssue
  <2> QED
    BY <1>9, <2>1 DEF RejectIssue, TimeoutIssue, ReleaseLock, TypeOK, RequestsOK
<1>10. ASSUME NEW r \in Requests, DropFacturePdf(r) PROVE TypeOK'
  <2>1. RequestsOK'
    BY <1>10, GotoWellFormed DEF DropFacturePdf
  <2> QED
    BY <1>10, <2>1 DEF DropFacturePdf, TypeOK, RequestsOK
<1>11. ASSUME NEW r \in Requests, DropAttestationPdf(r) PROVE TypeOK'
  <2>1. RequestsOK'
    BY <1>11, FinishWellFormed DEF DropAttestationPdf
  <2> QED
    BY <1>11, <2>1 DEF DropAttestationPdf, TypeOK, RequestsOK
<1>12. ASSUME NEW r \in Requests, PayFacture(r) PROVE TypeOK'
  <2>1. RequestsOK'
    BY <1>12, GotoWellFormed, FinishWellFormed DEF PayFacture
  <2> QED
    BY <1>12, <2>1 DEF PayFacture, FactureStatus, TypeOK, RequestsOK
<1>13. ASSUME NEW r \in Requests, CancelFacture(r) PROVE TypeOK'
  <2>1. RequestsOK'
    BY <1>13, GotoWellFormed DEF CancelFacture
  <2> QED
    BY <1>13, <2>1 DEF CancelFacture, FactureStatus, TypeOK, RequestsOK
<1>14. ASSUME NEW r \in Requests, NEW pc \in AuditSteps, NEW action \in AuditAction,
              LogAudit(r, pc, action) PROVE TypeOK'
  <2>1. RequestsOK'
    BY <1>14, GotoWellFormed, FinishWellFormed DEF LogAudit
  <2>2. req[r].f \in Factures
    BY <1>14 DEF LogAudit, TypeOK, WellFormed
  <2> QED
    BY <1>14, <2>1, <2>2 DEF LogAudit, TypeOK, RequestsOK
<1>15. ASSUME NEW r \in Requests, Abort(r) PROVE TypeOK'
  <2>1. RequestsOK'
    BY <1>15, FinishWellFormed DEF Abort
  <2> QED
    BY <1>15, <2>1 DEF Abort, ReleaseLock, TypeOK, RequestsOK, WellFormed
<1>16. CASE UNCHANGED vars
  BY <1>16 DEF vars, TypeOK
<1>17. ASSUME NEW r \in Requests, LogLock(r) \/ LogIssue(r) \/ LogPay(r) \/ LogCancel(r) PROVE TypeOK'
  BY <1>14, <1>17 DEF LogLock, LogIssue, LogPay, LogCancel, AuditAction
<1> QED
  BY <1>1, <1>2, <1>3, <1>4, <1>5, <1>6, <1>7, <1>8, <1>9, <1>10, <1>11, <1>12,
     <1>13, <1>15, <1>16, <1>17 DEF Next, Begin, Working, Issuing

\* Every reachable state is well typed.
THEOREM TypeCorrect == Spec => []TypeOK
  BY TypeInit, TypeNext, PTL DEF Spec

-----------------------------------------------------------------------------
(* The inductive invariant.  Steps fall in four groups: those that leave    *)
(* the rows alone and do not touch the lock, those that end a transaction   *)
(* without effect, the two that only move a status, and the issue itself.   *)

\* The steps of a request that read or write neither rows nor lock.
Aside(r) ==
    /\ UNCHANGED <<now, status, contentHash, previousHash, issuedAt, chainLock>>
    /\ req[r].pc # "chained"
    /\ req'[r].pc # "chained"
    /\ \A s \in Requests \ {r}: req'[s] = req[s]

LEMMA AsideKeeps ==
  ASSUME IInv, NEW r \in Requests, Aside(r)
  PROVE  LockInv' /\ StampInv' /\ ChainedInv' /\ ChainOrder'
<1> USE DEF Aside, Issued, Cancelled
<1>1. LockInv'
  BY DEF IInv, LockInv
<1>2. StampInv'
  BY DEF IInv, StampInv
<1>3. ChainedInv'
  BY DEF IInv, ChainedInv
<1>4. ChainOrder'
  BY DEF IInv, ChainOrder, IssuedBetween
<1> QED
  BY <1>1, <1>2, <1>3, <1>4

\* Pay and cancel: the statuses move, and a cancelled invoice stays cancelled.
MovesStatus ==
    /\ UNCHANGED <<now, contentHash, previousHash, issuedAt>>
    /\ \A f \in Factures:
          /\ Cancelled(f) => Cancelled(f)'
          /\ status'[f] = "BROUILLON" => status[f] = "BROUILLON"
          /\ status'[f] \in {"EMISE", "PAYEE"} => status[f] \in {"EMISE", "PAYEE"}

LEMMA MovesStatusKeeps ==
  ASSUME IInv, MovesStatus
  PROVE  StampInv' /\ ChainOrder'
<1> USE DEF MovesStatus, Issued
<1>1. StampInv'
  BY DEF IInv, StampInv
<1>2. ChainOrder'
  BY DEF IInv, ChainOrder, IssuedBetween
<1> QED
  BY <1>1, <1>2

LEMMA MovesStatusKeepsChained ==
  ASSUME IInv, MovesStatus, NEW r \in Requests, req[r].pc # "chained", req'[r].pc # "chained",
         UNCHANGED chainLock, \A s \in Requests \ {r}: req'[s] = req[s]
  PROVE  LockInv' /\ ChainedInv'
<1> USE DEF MovesStatus, Issued
<1>1. LockInv'
  BY DEF IInv, LockInv
<1>2. ChainedInv'
  BY DEF IInv, ChainedInv
<1> QED
  BY <1>1, <1>2

\* A transaction that rolls back: the rows stay, the lock goes.
RollsBack(r) ==
    /\ UNCHANGED <<now, status, contentHash, previousHash, issuedAt>>
    /\ ReleaseLock(r)
    /\ req'[r].pc # "chained"
    /\ \A s \in Requests \ {r}: req'[s] = req[s]

LEMMA RollsBackKeeps ==
  ASSUME IInv, NEW r \in Requests, RollsBack(r)
  PROVE  LockInv' /\ StampInv' /\ ChainedInv' /\ ChainOrder'
<1> USE DEF RollsBack, Issued, Cancelled
<1>1. LockInv'
  BY NullAssumption DEF IInv, LockInv, ReleaseLock
<1>2. StampInv'
  BY DEF IInv, StampInv
<1>3. ChainedInv'
  BY DEF IInv, ChainedInv
<1>4. ChainOrder'
  BY DEF IInv, ChainOrder, IssuedBetween
<1> QED
  BY <1>1, <1>2, <1>3, <1>4

\* Taking the lock: nobody else holds it, and what is read is the last one.
LEMMA AcquireKeeps ==
  ASSUME IInv, NEW r \in Requests, AcquireChainLock(r)
  PROVE  LockInv' /\ StampInv' /\ ChainedInv' /\ ChainOrder'
<1> USE DEF AcquireChainLock, ChainTo
<1>1. /\ UNCHANGED <<now, status, contentHash, previousHash, issuedAt>>
      /\ chainLock = Null /\ chainLock' = r
      /\ req'[r].pc = "chained"
      /\ \A s \in Requests \ {r}: req'[s] = req[s]
  BY DEF IInv, TypeOK, Request, LockFree
<1>2. LockInv'
  BY <1>1, NullAssumption DEF IInv, LockInv
<1>3. StampInv'
  BY <1>1 DEF IInv, StampInv, Issued
<1>4. ChainOrder'
  BY <1>1 DEF IInv, ChainOrder, IssuedBetween, Issued, Cancelled
<1>5. \A g \in Factures: Issued(g) /\ ~Live(g) => Cancelled(g)
  BY DEF IInv, TypeOK, StampInv, FactureStatus, Live, Cancelled
<1>6. \/ req'[r].prev = Null /\ \A g \in Factures: Issued(g) => Cancelled(g)
      \/ \E p \in Factures:
            /\ Issued(p) /\ contentHash[p] = req'[r].prev
            /\ \A g \in Factures: Issued(g) /\ issuedAt[p] < issuedAt[g] => Cancelled(g)
  <2>1. CASE (\A f \in Factures: ~Live(f)) /\ ChainTo(r, Null)
    BY <1>5, <2>1 DEF IInv, TypeOK, Request
  <2>2. ASSUME NEW p \in Factures, LastIssued(p), ChainTo(r, contentHash[p])
        PROVE  /\ Issued(p) /\ contentHash[p] = req'[r].prev
               /\ \A g \in Factures: Issued(g) /\ issuedAt[p] < issuedAt[g] => Cancelled(g)
    <3>1. req'[r].prev = contentHash[p]
      BY <2>2 DEF IInv, TypeOK, Request
    <3>2. Issued(p)
      BY <2>2 DEF LastIssued, Live
    <3>3. \A g \in Factures: Issued(g) /\ issuedAt[p] < issuedAt[g] => Cancelled(g)
      <4>1. \A g \in Factures: issuedAt[g] \in Nat
        BY DEF IInv, TypeOK
      <4>2. \A g \in Factures: Live(g) => issuedAt[g] <= issuedAt[p]
        BY <2>2 DEF LastIssued
      <4> QED
        BY <1>5, <4>1, <4>2
    <3> QED
      BY <3>1, <3>2, <3>3
  <2> QED
    BY <2>1, <2>2
<1>7. \A s \in Requests \ {r}: ~At(s, "chained")
  BY <1>1, NullAssumption DEF IInv, LockInv
<1>8. ChainedInv'
  BY <1>1, <1>6, <1>7 DEF ChainedInv, Issued, Cancelled
<1> QED
  BY <1>2, <1>3, <1>4, <1>8

\* The issue: the new stamp is above all others, and the predecessor read under
\* the lock is the last invoice that is not cancelled.
LEMMA CommitKeeps ==
  ASSUME IInv, NEW r \in Requests, CommitIssue(r)
  PROVE  LockInv' /\ StampInv' /\ ChainedInv' /\ ChainOrder'
<1>a. PICK f \in Factures: f = req[r].f
  BY DEF CommitIssue, IInv, TypeOK, WellFormed
<1>1. f = req[r].f /\ req[r].hash \in Hashes /\ req[r].hash.facture = f /\ At(r, "chained")
  BY <1>a DEF CommitIssue, IInv, TypeOK, WellFormed, Steps, IssueSteps
<1>2. req[r].hash # Null /\ Null \notin Hashes
  BY <1>1, NullAssumption DEF Hashes
<1>3. /\ now' = now + 1 /\ now \in Nat
      /\ status[f] = "BROUILLON" /\ ~Issued(f)
      /\ status' = [status EXCEPT ![f] = "EMISE"]
      /\ contentHash' = [contentHash EXCEPT ![f] = req[r].hash]
      /\ previousHash' = [previousHash EXCEPT ![f] = req[r].prev]
      /\ issuedAt' = [issuedAt EXCEPT ![f] = now + 1]
  BY <1>1 DEF CommitIssue, LockedHash, IssueWhere, IInv, StampInv, TypeOK
<1>4. /\ Issued(f)' /\ ~Cancelled(f)' /\ issuedAt'[f] = now + 1 /\ status'[f] = "EMISE"
      /\ contentHash'[f] = req[r].hash /\ previousHash'[f] = req[r].prev
  <2>1. /\ issuedAt'[f] = now + 1 /\ status'[f] = "EMISE"
        /\ contentHash'[f] = req[r].hash /\ previousHash'[f] = req[r].prev
    BY <1>1, <1>3 DEF IInv, TypeOK
  <2> QED
    BY <1>2, <2>1 DEF Issued, Cancelled
<1>5. \A g \in Factures \ {f}:
         /\ status'[g] = status[g] /\ contentHash'[g] = contentHash[g]
         /\ previousHash'[g] = previousHash[g] /\ issuedAt'[g] = issuedAt[g]
         /\ (Issued(g)' <=> Issued(g)) /\ (Cancelled(g)' <=> Cancelled(g))
  BY <1>1, <1>3 DEF IInv, TypeOK, Issued, Cancelled
<1>6. \A g \in Factures: Issued(g) => issuedAt[g] \in 1..now
  BY DEF IInv, StampInv
<1>7. /\ req'[r].pc = "logLock"
      /\ \A s \in Requests \ {r}: req'[s] = req[s] /\ ~At(s, "chained")
      /\ chainLock = r /\ chainLock' = Null
  BY <1>1, NullAssumption DEF CommitIssue, Goto, ReleaseLock, IInv, LockInv, TypeOK, Request
<1>8. LockInv'
  BY <1>7, NullAssumption DEF LockInv
<1>9. ChainedInv'
  BY <1>7 DEF ChainedInv
<1>10. StampInv'
  <2>1. ASSUME NEW g \in Factures
        PROVE  /\ status'[g] = "BROUILLON" => ~Issued(g)'
               /\ status'[g] \in {"EMISE", "PAYEE"} => Issued(g)'
               /\ Issued(g)' => contentHash'[g].facture = g /\ issuedAt'[g] \in 1..now'
    <3>1. CASE g = f
      BY <1>1, <1>3, <1>4, <3>1
    <3>2. CASE g # f
      BY <1>3, <1>5, <1>6, <3>2 DEF IInv, StampInv
    <3> QED
      BY <3>1, <3>2
  <2>2. ASSUME NEW g \in Factures, NEW h \in Factures, Issued(g)', Issued(h)', issuedAt'[g] = issuedAt'[h]
        PROVE  g = h
    BY <1>3, <1>4, <1>5, <1>6, <2>2 DEF IInv, StampInv
  <2> QED
    BY <2>1, <2>2 DEF StampInv
<1>11. ChainOrder'
  <2> SUFFICES ASSUME NEW g \in Factures, Issued(g)'
               PROVE  \/ previousHash'[g] = Null /\ \A h \in IssuedBetween(0, g)': Cancelled(h)'
                      \/ \E p \in Factures:
                            /\ Issued(p)' /\ contentHash'[p] = previousHash'[g]
                            /\ issuedAt'[p] < issuedAt'[g]
                            /\ \A h \in IssuedBetween(issuedAt[p], g)': Cancelled(h)'
    BY DEF ChainOrder
  <2>1. \A h \in Factures: Issued(h)' /\ h # f => Issued(h) /\ issuedAt'[h] < issuedAt'[f]
    BY <1>3, <1>4, <1>5, <1>6
  <2>2. CASE g # f
    <3>1. \A h \in Factures: Issued(h)' /\ issuedAt'[h] < issuedAt'[g] =>
             h # f /\ Issued(h) /\ issuedAt'[h] = issuedAt[h]
      BY <1>3, <1>4, <1>5, <1>6, <2>1, <2>2
    <3>2. CASE previousHash[g] = Null /\ \A h \in IssuedBetween(0, g): Cancelled(h)
      BY <1>5, <2>2, <3>1, <3>2 DEF IssuedBetween
    <3>3. ASSUME NEW p \in Factures, Issued(p), contentHash[p] = previousHash[g],
                 issuedAt[p] < issuedAt[g], \A h \in IssuedBetween(issuedAt[p], g): Cancelled(h)
          PROVE  /\ Issued(p)' /\ contentHash'[p] = previousHash'[g]
                 /\ issuedAt'[p] < issuedAt'[g]
                 /\ \A h \in IssuedBetween(issuedAt[p], g)': Cancelled(h)'
      <4>1. p # f
        BY <1>3, <3>3
      <4> QED
        BY <1>5, <2>2, <3>1, <3>3, <4>1 DEF IssuedBetween
    <3> QED
      BY <1>5, <2>2, <3>2, <3>3 DEF IInv, ChainOrder
  <2>3. CASE g = f
    <3>1. CASE req[r].prev = Null /\ \A h \in Factures: Issued(h) => Cancelled(h)
      BY <1>3, <1>4, <1>5, <2>1, <2>3, <3>1 DEF IssuedBetween
    <3>2. ASSUME NEW p \in Factures, Issued(p), contentHash[p] = req[r].prev,
                 \A h \in Factures: Issued(h) /\ issuedAt[p] < issuedAt[h] => Cancelled(h)
          PROVE  /\ Issued(p)' /\ contentHash'[p] = previousHash'[g]
                 /\ issuedAt'[p] < issuedAt'[g]
                 /\ \A h \in IssuedBetween(issuedAt[p], g)': Cancelled(h)'
      <4>1. p # f
        BY <1>3, <3>2
      <4> QED
        BY <1>3, <1>4, <1>5, <2>1, <2>3, <3>2, <4>1 DEF IssuedBetween
    <3> QED
      BY <1>1, <2>3, <3>1, <3>2 DEF IInv, ChainedInv
  <2> QED
    BY <2>2, <2>3
<1> QED
  BY <1>8, <1>9, <1>10, <1>11
LEMMA InvInit == Init => IInv
<1> SUFFICES ASSUME Init PROVE LockInv /\ StampInv /\ ChainedInv /\ ChainOrder
  BY TypeInit DEF IInv
<1> QED
  BY NullAssumption DEF Init, Idle, LockInv, StampInv, ChainedInv, ChainOrder, Issued

\* The shape of a step of request r, for the lemmas above.
LEMMA Others ==
  ASSUME TypeOK, NEW r \in Requests
  PROVE  /\ \A pc \in Steps: Goto(r, pc) =>
               req'[r].pc = pc /\ \A s \in Requests \ {r}: req'[s] = req[s]
         /\ Finish(r) => req'[r].pc = "idle" /\ \A s \in Requests \ {r}: req'[s] = req[s]
  BY DEF TypeOK, Goto, Finish, Idle, Request

LEMMA InvNext == IInv /\ [Next]_vars => IInv'
<1> SUFFICES ASSUME IInv, [Next]_vars PROVE LockInv' /\ StampInv' /\ ChainedInv' /\ ChainOrder'
  BY TypeNext DEF IInv
<1> DEFINE Goal == LockInv' /\ StampInv' /\ ChainedInv' /\ ChainOrder'
<1> USE DEF Steps
<1>t. TypeOK
  BY DEF IInv
<1>1. CASE EditClient
  BY <1>1 DEF EditClient, IInv, LockInv, StampInv, ChainedInv, ChainOrder, IssuedBetween, Issued, Cancelled
<1>2. ASSUME NEW r \in Requests, Begin(r) PROVE Goal
  <2>1. PICK f \in Factures, pc \in {"archiveFacture", "pay", "cancel"},
             h \in Hashes \union {Null}: Start(r, f, pc, h)
    BY <1>2, <1>t DEF Begin, BeginIssue, BeginPay, BeginCancel, ComputeContentHash, Hashes, TypeOK
  <2>2. Aside(r)
    BY <2>1, <1>t DEF Aside, TypeOK, Request
  <2> QED
    BY <2>2, AsideKeeps
<1>3. ASSUME NEW r \in Requests,
             \/ ArchiveFacturePdf(r) \/ ArchiveAttestationPdf(r) \/ ArchiveFails(r)
             \/ DropFacturePdf(r) \/ DropAttestationPdf(r)
      PROVE  Goal
  <2>1. ASSUME ArchiveFacturePdf(r) PROVE Aside(r)
    BY <2>1, <1>t, Others DEF Aside, ArchiveFacturePdf, IssueSteps
  <2>2. ASSUME ArchiveAttestationPdf(r) PROVE Aside(r)
    BY <2>2, <1>t, Others DEF Aside, ArchiveAttestationPdf, IssueSteps
  <2>3. ASSUME ArchiveFails(r) PROVE Aside(r)
    BY <2>3, <1>t, Others DEF Aside, ArchiveFails, IssueSteps
  <2>4. ASSUME DropFacturePdf(r) PROVE Aside(r)
    BY <2>4, <1>t, Others DEF Aside, DropFacturePdf, IssueSteps
  <2>5. ASSUME DropAttestationPdf(r) PROVE Aside(r)
    BY <2>5, <1>t, Others DEF Aside, DropAttestationPdf
  <2>6. Aside(r)
    BY <1>3, <2>1, <2>2, <2>3, <2>4, <2>5
  <2> QED
    BY <2>6, AsideKeeps
<1>4. ASSUME NEW r \in Requests, NEW pc \in AuditSteps, NEW action \in AuditAction,
             LogAudit(r, pc, action) PROVE Goal
  <2>1. Aside(r)
    BY <1>4, <1>t, Others DEF Aside, LogAudit, AuditSteps
  <2> QED
    BY <2>1, AsideKeeps
<1>5. ASSUME NEW r \in Requests, AcquireChainLock(r) PROVE Goal
  BY <1>5, AcquireKeeps
<1>6. ASSUME NEW r \in Requests, CommitIssue(r) PROVE Goal
  BY <1>6, CommitKeeps
<1>7. ASSUME NEW r \in Requests, RejectIssue(r) \/ TimeoutIssue(r) \/ Abort(r) PROVE Goal
  <2>1. ASSUME RejectIssue(r) PROVE RollsBack(r)
    BY <2>1, <1>t, Others DEF RollsBack, RejectIssue, IssueSteps
  <2>2. ASSUME TimeoutIssue(r) PROVE RollsBack(r)
    BY <2>2, <1>t, Others DEF RollsBack, TimeoutIssue, IssueSteps
  <2>3. ASSUME Abort(r) PROVE RollsBack(r)
    BY <2>3, <1>t, Others DEF RollsBack, Abort
  <2>4. RollsBack(r)
    BY <1>7, <2>1, <2>2, <2>3
  <2> QED
    BY <2>4, RollsBackKeeps
<1>8. ASSUME NEW r \in Requests, PayFacture(r) \/ CancelFacture(r) PROVE Goal
  <2>1. MovesStatus
    BY <1>8, <1>t DEF MovesStatus, PayFacture, CancelFacture, PayWhere, Cancelled, TypeOK
  <2>2. /\ req[r].pc # "chained" /\ req'[r].pc # "chained" /\ UNCHANGED chainLock
        /\ \A s \in Requests \ {r}: req'[s] = req[s]
    BY <1>8, <1>t, Others DEF PayFacture, CancelFacture, AuditSteps
  <2> QED
    BY <2>1, <2>2, MovesStatusKeeps, MovesStatusKeepsChained
<1>9. CASE UNCHANGED vars
  BY <1>9 DEF vars, IInv, LockInv, StampInv, ChainedInv, ChainOrder, IssuedBetween, Issued, Cancelled
<1>10. ASSUME NEW r \in Requests, LogLock(r) \/ LogIssue(r) \/ LogPay(r) \/ LogCancel(r) PROVE Goal
  BY <1>4, <1>10 DEF LogLock, LogIssue, LogPay, LogCancel, AuditSteps, AuditAction
<1> QED
  BY <1>1, <1>2, <1>3, <1>5, <1>6, <1>7, <1>8, <1>9, <1>10 DEF Next, Working, Issuing

\* The inductive invariant holds in every reachable state.
THEOREM Invariance == Spec => []IInv
  BY InvInit, InvNext, PTL DEF Spec

\* The chain is in order: between an invoice and its predecessor, only cancelled
\* invoices were issued.
THEOREM ChainInOrder == Spec => []ChainOrder
<1>1. IInv => ChainOrder
  BY DEF IInv
<1> QED
  BY <1>1, Invariance, PTL

LEMMA OrderForbidsForks == IInv => NoFork
<1> SUFFICES ASSUME IInv PROVE NoFork
  OBVIOUS
<1>s. \A f, g \in Factures: Live(f) /\ Live(g) /\ issuedAt[f] = issuedAt[g] => f = g
  BY DEF IInv, StampInv, Live
<1>n. \A f \in Factures: issuedAt[f] \in Nat
  BY DEF IInv, TypeOK
<1> SUFFICES ASSUME NEW f \in Factures, NEW g \in Factures, Live(f), Live(g),
                    previousHash[f] = previousHash[g], issuedAt[f] < issuedAt[g]
             PROVE  FALSE
  BY <1>s, <1>n DEF NoFork
<1>1. \A h \in Factures: Issued(h) => contentHash[h] # Null /\ contentHash[h].facture = h /\ issuedAt[h] > 0
  BY DEF IInv, StampInv, Issued
<1>2. ~Cancelled(f) /\ Issued(f) /\ Issued(g)
  BY DEF Live, Cancelled
<1>3. CASE previousHash[g] = Null
  BY <1>1, <1>2, <1>3 DEF IInv, ChainOrder, IssuedBetween
<1>4. ASSUME NEW p \in Factures, Issued(p), contentHash[p] = previousHash[g],
             \A h \in IssuedBetween(issuedAt[p], g): Cancelled(h)
      PROVE  FALSE
  <2>1. PICK q \in Factures: Issued(q) /\ contentHash[q] = previousHash[f] /\ issuedAt[q] < issuedAt[f]
    BY <1>1, <1>2, <1>4 DEF IInv, ChainOrder
  <2>2. p = q
    BY <1>1, <1>4, <2>1
  <2> QED
    BY <1>2, <1>4, <2>1, <2>2 DEF IssuedBetween
<1> QED
  BY <1>2, <1>3, <1>4 DEF IInv, ChainOrder

\* No two issued or paid invoices have the same predecessor and, while no issued
\* invoice is cancelled, the link test of verifyFactureIntegrity succeeds for every
\* issued invoice.
THEOREM ChainIsSound == Spec => []ChainSound
<1>1. IInv => ChainVerifies
  BY DEF IInv, TypeOK, StampInv, ChainOrder, ChainVerifies, VerifyLink, Live, Cancelled, FactureStatus
<1>2. IInv => ChainSound
  BY <1>1, OrderForbidsForks DEF ChainSound
<1> QED
  BY <1>2, Invariance, PTL

\* No request ever changes what an invoice was locked with, although cancel and
\* pay races are possible.
THEOREM LockedContentIsFinal == Spec => LockedForGood
<1>1. IInv /\ [Next]_vars => [\A f \in Factures: Issued(f) =>
          UNCHANGED <<contentHash[f], previousHash[f], issuedAt[f], attestation[f]>>]_vars
  <2> SUFFICES ASSUME IInv, Next, NEW f \in Factures, Issued(f)
               PROVE  UNCHANGED <<contentHash[f], previousHash[f], issuedAt[f], attestation[f]>>
    OBVIOUS
  <2>1. ASSUME NEW r \in Requests, CommitIssue(r)
        PROVE  UNCHANGED <<contentHash[f], previousHash[f], issuedAt[f], attestation[f]>>
    <3>1. req[r].f # f
      BY <2>1 DEF CommitIssue, IssueWhere, IInv, StampInv
    <3> QED
      BY <2>1, <3>1 DEF CommitIssue, IInv, TypeOK
  <2>2. ASSUME NEW r \in Requests, NEW pc \in AuditSteps, NEW action \in AuditAction, LogAudit(r, pc, action)
        PROVE  UNCHANGED <<contentHash, previousHash, issuedAt, attestation>>
    BY <2>2 DEF LogAudit
  <2>3. \/ UNCHANGED <<contentHash, previousHash, issuedAt, attestation>>
        \/ \E r \in Requests: CommitIssue(r)
    BY <2>2 DEF Next, Begin, Working, Issuing, EditClient, BeginIssue, BeginPay, BeginCancel,
       ArchiveFacturePdf, ArchiveAttestationPdf, ArchiveFails, AcquireChainLock, RejectIssue,
       TimeoutIssue, DropFacturePdf, DropAttestationPdf, PayFacture, CancelFacture,
       LogLock, LogIssue, LogPay, LogCancel, Abort, AuditSteps, AuditAction
  <2> QED
    BY <2>1, <2>3
<1> QED
  BY <1>1, Invariance, PTL DEF Spec, LockedForGood

-----------------------------------------------------------------------------
(* The journal.  Only one request ever reports the issue of an invoice, and *)
(* one its payment, for the guarded updates let one through.               *)

\* A request that moves on, or ends, keeps the rest of what it knows.
LEMMA Moved ==
  ASSUME TypeOK, NEW r \in Requests
  PROVE  /\ \A pc \in Steps: Goto(r, pc) =>
               /\ req'[r].pc = pc /\ req'[r].f = req[r].f /\ req'[r].hash = req[r].hash
               /\ \A s \in Requests \ {r}: req'[s] = req[s]
         /\ Finish(r) => req'[r].pc = "idle" /\ \A s \in Requests \ {r}: req'[s] = req[s]
  BY DEF TypeOK, Goto, Finish, Idle, Request

Reports(r, pc, f) == req[r].pc = pc /\ req[r].f = f
ReportsIssue(r, f) == Reports(r, "logLock", f) \/ Reports(r, "logIssue", f)

ReportInv ==
    \A f \in Factures, r \in Requests:
        /\ Reports(r, "logLock", f) => Issued(f) /\ audit[f]["LOCK"] = 0
        /\ Reports(r, "logIssue", f) => Issued(f) /\ audit[f]["LOCK"] = 1 /\ audit[f]["ISSUE"] = 0
        /\ Reports(r, "logPay", f) =>
              Issued(f) /\ status[f] \in {"PAYEE", "ANNULEE"} /\ audit[f]["PAY"] = 0
        /\ Reports(r, "logCancel", f) => Cancelled(f)

OneReporter ==
    \A f \in Factures: \A r, s \in Requests:
        /\ ReportsIssue(r, f) /\ ReportsIssue(s, f) => r = s
        /\ Reports(r, "logPay", f) /\ Reports(s, "logPay", f) => r = s

JournalInv == ReportInv /\ OneReporter /\ AuditTruthful

\* The steps that report nothing and leave what is reported.
Quiet ==
    /\ UNCHANGED <<audit, status, contentHash>>
    /\ \A s \in Requests: req'[s].pc \in AuditSteps => req'[s] = req[s]

LEMMA QuietKeeps ==
  ASSUME JournalInv, Quiet
  PROVE  JournalInv'
<1> USE DEF Quiet, Reports, ReportsIssue, Issued, Cancelled, AuditSteps
<1>1. ReportInv'
  BY DEF JournalInv, ReportInv
<1>2. OneReporter'
  BY DEF JournalInv, OneReporter
<1>3. AuditTruthful'
  BY DEF JournalInv, AuditTruthful
<1> QED BY <1>1, <1>2, <1>3 DEF JournalInv

\* What the journal counts are numbers.
LEMMA Counts ==
  ASSUME TypeOK, NEW f \in Factures, NEW a \in AuditAction
  PROVE  audit[f][a] \in Nat
  BY DEF TypeOK

\* The issue is reported next, by this request alone.
LEMMA CommitReports ==
  ASSUME IInv, JournalInv, NEW r \in Requests, CommitIssue(r)
  PROVE  JournalInv'
<1> USE DEF AuditAction
<1>1. PICK f \in Factures: f = req[r].f
  BY DEF CommitIssue, IInv, TypeOK, WellFormed
<1>2. /\ TypeOK /\ status[f] = "BROUILLON" /\ ~Issued(f) /\ ~Cancelled(f)
      /\ req[r].hash # Null /\ req[r].hash \in Hashes
  BY <1>1, NullAssumption DEF CommitIssue, IssueWhere, IInv, TypeOK, WellFormed, Hashes, IssueSteps,
     StampInv, Cancelled
<1>3. /\ status'[f] = "EMISE" /\ Issued(f)' /\ UNCHANGED audit
      /\ \A g \in Factures \ {f}: status'[g] = status[g] /\ contentHash'[g] = contentHash[g]
  BY <1>1, <1>2 DEF CommitIssue, LockedHash, TypeOK, Issued
<1>4. /\ req'[r].pc = "logLock" /\ req'[r].f = f /\ req[r].pc = "chained"
      /\ \A s \in Requests \ {r}: req'[s] = req[s]
  BY <1>1, <1>2, Moved DEF CommitIssue, Steps, AuditSteps
<1>5. /\ audit[f]["LOCK"] = 0 /\ audit[f]["ISSUE"] = 0 /\ audit[f]["PAY"] = 0 /\ audit[f]["CANCEL"] = 0
  BY <1>2, Counts DEF JournalInv, AuditTruthful
<1>6. \A s \in Requests: ~ReportsIssue(s, f) /\ ~Reports(s, "logPay", f) /\ ~Reports(s, "logCancel", f)
  BY <1>2 DEF JournalInv, ReportInv, ReportsIssue
<1> USE DEF Reports, ReportsIssue
<1>7. ReportInv'
  BY <1>3, <1>4, <1>5, <1>6 DEF JournalInv, ReportInv, Issued, Cancelled
<1>8. OneReporter'
  BY <1>4, <1>6 DEF JournalInv, OneReporter
<1>9. AuditTruthful'
  <2> SUFFICES ASSUME NEW g \in Factures
               PROVE  /\ audit'[g]["LOCK"] <= (IF Issued(g)' THEN 1 ELSE 0)
                      /\ audit'[g]["ISSUE"] <= audit'[g]["LOCK"]
                      /\ audit'[g]["PAY"] <= (IF status'[g] \in {"PAYEE", "ANNULEE"} /\ Issued(g)' THEN 1 ELSE 0)
                      /\ audit'[g]["CANCEL"] > 0 => Cancelled(g)'
    BY DEF AuditTruthful
  <2>1. CASE g = f
    BY <1>3, <1>5, <2>1
  <2>2. CASE g # f
    BY <1>3, <2>2 DEF JournalInv, AuditTruthful, Issued, Cancelled
  <2> QED BY <2>1, <2>2
<1> QED BY <1>7, <1>8, <1>9 DEF JournalInv

\* The payment is reported next, by this request alone.
LEMMA PayReports ==
  ASSUME IInv, JournalInv, NEW r \in Requests, PayFacture(r), PayWhere(req[r].f)
  PROVE  JournalInv'
<1> USE DEF AuditAction
<1>1. PICK f \in Factures: f = req[r].f
  BY DEF PayFacture, IInv, TypeOK, WellFormed
<1>2. TypeOK /\ status[f] = "EMISE" /\ Issued(f)
  BY <1>1 DEF PayWhere, IInv, StampInv
<1>3. /\ status'[f] = "PAYEE" /\ UNCHANGED <<audit, contentHash>>
      /\ \A g \in Factures \ {f}: status'[g] = status[g]
  BY <1>1, <1>2 DEF PayFacture, TypeOK
<1>4. /\ req'[r].pc = "logPay" /\ req'[r].f = f
      /\ \A s \in Requests \ {r}: req'[s] = req[s]
  BY <1>1, <1>2, Moved DEF PayFacture, Steps, AuditSteps
<1>5. audit[f]["PAY"] = 0 /\ audit[f]["CANCEL"] = 0
  BY <1>2, Counts DEF JournalInv, AuditTruthful, Cancelled
<1>6. \A s \in Requests: ~Reports(s, "logPay", f) /\ ~Reports(s, "logCancel", f)
  BY <1>2 DEF JournalInv, ReportInv, Cancelled
<1> USE DEF Reports, ReportsIssue
<1>7. ReportInv'
  BY <1>2, <1>3, <1>4, <1>5, <1>6 DEF JournalInv, ReportInv, Issued, Cancelled
<1>8. OneReporter'
  BY <1>4, <1>6 DEF JournalInv, OneReporter
<1>9. AuditTruthful'
  BY <1>2, <1>3, <1>5 DEF JournalInv, AuditTruthful, Issued, Cancelled
<1> QED BY <1>7, <1>8, <1>9 DEF JournalInv

\* A cancelled invoice stays cancelled, so its cancel can be reported any number of times.
LEMMA CancelReports ==
  ASSUME IInv, JournalInv, NEW r \in Requests, CancelFacture(r)
  PROVE  JournalInv'
<1>1. PICK f \in Factures: f = req[r].f
  BY DEF CancelFacture, IInv, TypeOK, WellFormed
<1>2. /\ TypeOK /\ status'[f] = "ANNULEE" /\ UNCHANGED <<audit, contentHash>>
      /\ \A g \in Factures \ {f}: status'[g] = status[g]
  BY <1>1 DEF CancelFacture, IInv, TypeOK
<1>3. /\ req'[r].pc = "logCancel" /\ req'[r].f = f
      /\ \A s \in Requests \ {r}: req'[s] = req[s]
  BY <1>1, <1>2, Moved DEF CancelFacture, Steps, AuditSteps
<1> USE DEF Reports, ReportsIssue, Issued, Cancelled
<1>4. ReportInv'
  BY <1>2, <1>3 DEF JournalInv, ReportInv
<1>5. OneReporter'
  BY <1>3 DEF JournalInv, OneReporter
<1>6. AuditTruthful'
  <2>1. \A g \in Factures: audit[g]["PAY"] \in Nat
    BY <1>2 DEF TypeOK, AuditAction
  <2> QED BY <1>2, <2>1 DEF JournalInv, AuditTruthful
<1> QED BY <1>4, <1>5, <1>6 DEF JournalInv

\* One entry more.
LEMMA EntryReports ==
  ASSUME IInv, JournalInv, NEW r \in Requests,
         LogLock(r) \/ LogIssue(r) \/ LogPay(r) \/ LogCancel(r)
  PROVE  JournalInv'
<1> USE DEF AuditAction
<1>1. TypeOK
  BY DEF IInv
<1>2. PICK f \in Factures: f = req[r].f
  BY <1>1 DEF LogLock, LogIssue, LogPay, LogCancel, LogAudit, TypeOK, WellFormed
<1>3. UNCHANGED <<status, contentHash>> /\ \A s \in Requests \ {r}: req'[s] = req[s]
  BY <1>1, Moved DEF LogLock, LogIssue, LogPay, LogCancel, LogAudit, Steps, AuditSteps
<1>4. ASSUME NEW g \in Factures \ {f} PROVE audit'[g] = audit[g]
  BY <1>1, <1>2 DEF LogLock, LogIssue, LogPay, LogCancel, LogAudit, TypeOK
<1>5. ASSUME NEW a \in AuditAction, NEW pc \in AuditSteps, LogAudit(r, pc, a)
      PROVE  audit'[f][a] = audit[f][a] + 1 /\ \A b \in AuditAction \ {a}: audit'[f][b] = audit[f][b]
  BY <1>1, <1>2, <1>5 DEF LogAudit, TypeOK
<1> USE DEF Reports, ReportsIssue, Issued, Cancelled
<1>6. CASE LogLock(r)
  <2>1. /\ audit'[f]["LOCK"] = audit[f]["LOCK"] + 1
        /\ \A b \in AuditAction \ {"LOCK"}: audit'[f][b] = audit[f][b]
    BY <1>5, <1>6 DEF LogLock, AuditSteps
  <2>2. req[r].pc = "logLock" /\ req'[r].pc = "logIssue" /\ req'[r].f = f
    BY <1>1, <1>2, <1>6, Moved DEF LogLock, LogAudit, Steps, AuditSteps
  <2>3. Issued(f) /\ audit[f]["LOCK"] = 0 /\ audit[f]["ISSUE"] = 0
    BY <1>1, <1>2, <2>2, Counts DEF JournalInv, ReportInv, AuditTruthful
  <2>4. \A s \in Requests \ {r}: ~ReportsIssue(s, f)
    BY <1>2, <2>2 DEF JournalInv, OneReporter
  <2>5. ReportInv'
    BY <1>3, <1>4, <2>1, <2>2, <2>3, <2>4 DEF JournalInv, ReportInv
  <2>6. OneReporter'
    BY <1>2, <1>3, <2>2, <2>4 DEF JournalInv, OneReporter
  <2>7. AuditTruthful'
    BY <1>3, <1>4, <2>1, <2>3 DEF JournalInv, AuditTruthful
  <2> QED BY <2>5, <2>6, <2>7 DEF JournalInv
<1>7. ASSUME NEW a \in AuditAction, NEW pc \in AuditSteps \ {"logLock"}, LogAudit(r, pc, a)
      PROVE  OneReporter' /\ req'[r].pc = "idle" /\ req[r].pc = pc
  <2>1. req'[r].pc = "idle" /\ req[r].pc = pc
    BY <1>1, <1>7, Moved DEF LogAudit
  <2> QED BY <1>3, <2>1 DEF JournalInv, OneReporter
<1>8. CASE LogIssue(r)
  <2>1. /\ audit'[f]["ISSUE"] = audit[f]["ISSUE"] + 1
        /\ \A b \in AuditAction \ {"ISSUE"}: audit'[f][b] = audit[f][b]
    BY <1>5, <1>8 DEF LogIssue, AuditSteps
  <2>2. OneReporter' /\ req'[r].pc = "idle" /\ req[r].pc = "logIssue"
    BY <1>7, <1>8 DEF LogIssue, AuditSteps
  <2>3. Issued(f) /\ audit[f]["LOCK"] = 1 /\ audit[f]["ISSUE"] = 0
    BY <1>2, <2>2 DEF JournalInv, ReportInv
  <2>4. \A s \in Requests \ {r}: ~ReportsIssue(s, f)
    BY <1>2, <2>2 DEF JournalInv, OneReporter
  <2>5. ReportInv'
    BY <1>3, <1>4, <2>1, <2>2, <2>3, <2>4 DEF JournalInv, ReportInv
  <2>6. AuditTruthful'
    BY <1>3, <1>4, <2>1, <2>3 DEF JournalInv, AuditTruthful
  <2> QED BY <2>2, <2>5, <2>6 DEF JournalInv
<1>9. CASE LogPay(r)
  <2>1. /\ audit'[f]["PAY"] = audit[f]["PAY"] + 1
        /\ \A b \in AuditAction \ {"PAY"}: audit'[f][b] = audit[f][b]
    BY <1>5, <1>9 DEF LogPay, AuditSteps
  <2>2. OneReporter' /\ req'[r].pc = "idle" /\ req[r].pc = "logPay"
    BY <1>7, <1>9 DEF LogPay, AuditSteps
  <2>3. Issued(f) /\ status[f] \in {"PAYEE", "ANNULEE"} /\ audit[f]["PAY"] = 0
    BY <1>2, <2>2 DEF JournalInv, ReportInv
  <2>4. \A s \in Requests \ {r}: ~Reports(s, "logPay", f)
    BY <1>2, <2>2 DEF JournalInv, OneReporter
  <2>5. ReportInv'
    BY <1>3, <1>4, <2>1, <2>2, <2>3, <2>4 DEF JournalInv, ReportInv
  <2>6. AuditTruthful'
    BY <1>3, <1>4, <2>1, <2>3 DEF JournalInv, AuditTruthful
  <2> QED BY <2>2, <2>5, <2>6 DEF JournalInv
<1>10. CASE LogCancel(r)
  <2>1. \A b \in AuditAction \ {"CANCEL"}: audit'[f][b] = audit[f][b]
    BY <1>5, <1>10 DEF LogCancel, AuditSteps
  <2>2. OneReporter' /\ req'[r].pc = "idle" /\ req[r].pc = "logCancel"
    BY <1>7, <1>10 DEF LogCancel, AuditSteps
  <2>3. Cancelled(f)
    BY <1>2, <2>2 DEF JournalInv, ReportInv
  <2>4. ReportInv'
    BY <1>3, <1>4, <2>1, <2>2 DEF JournalInv, ReportInv
  <2>5. AuditTruthful'
    BY <1>3, <1>4, <2>1, <2>3 DEF JournalInv, AuditTruthful
  <2> QED BY <2>2, <2>4, <2>5 DEF JournalInv
<1> QED BY <1>6, <1>8, <1>9, <1>10

\* Every other step is quiet.
LEMMA QuietSteps ==
  ASSUME IInv, [Next]_vars
  PROVE  \/ Quiet
         \/ \E r \in Requests:
               \/ CommitIssue(r) \/ CancelFacture(r) \/ (PayFacture(r) /\ PayWhere(req[r].f))
               \/ LogLock(r) \/ LogIssue(r) \/ LogPay(r) \/ LogCancel(r)
<1> USE DEF Steps, IssueSteps, AuditSteps
<1>t. TypeOK
  BY DEF IInv
<1>1. CASE EditClient \/ UNCHANGED vars
  BY <1>1 DEF EditClient, vars, Quiet
<1>2. ASSUME NEW r \in Requests, Begin(r) PROVE Quiet
  <2>1. PICK f \in Factures, pc \in {"archiveFacture", "pay", "cancel"},
             h \in Hashes \union {Null}: Start(r, f, pc, h)
    BY <1>2, <1>t DEF Begin, BeginIssue, BeginPay, BeginCancel, ComputeContentHash, Hashes, TypeOK
  <2> QED BY <2>1, <1>t DEF Quiet, TypeOK, Request
<1>3. ASSUME NEW r \in Requests,
             \/ ArchiveFacturePdf(r) \/ ArchiveAttestationPdf(r) \/ ArchiveFails(r)
             \/ RejectIssue(r) \/ TimeoutIssue(r) \/ DropFacturePdf(r)
      PROVE  Quiet
  <2>1. /\ UNCHANGED <<audit, status, contentHash>>
        /\ \E pc \in IssueSteps: Goto(r, pc)
    BY <1>3 DEF ArchiveFacturePdf, ArchiveAttestationPdf, ArchiveFails, RejectIssue, TimeoutIssue,
       DropFacturePdf
  <2> QED BY <2>1, <1>t, Moved DEF Quiet
<1>4. ASSUME NEW r \in Requests, AcquireChainLock(r) PROVE Quiet
  <2>1. req'[r].pc = "chained" /\ \A s \in Requests \ {r}: req'[s] = req[s]
    BY <1>4, <1>t DEF AcquireChainLock, ChainTo, TypeOK, Request
  <2> QED BY <1>4, <2>1 DEF AcquireChainLock, Quiet
<1>5. ASSUME NEW r \in Requests, DropAttestationPdf(r) \/ Abort(r) PROVE Quiet
  <2>1. UNCHANGED <<audit, status, contentHash>> /\ Finish(r)
    BY <1>5 DEF DropAttestationPdf, Abort
  <2> QED BY <2>1, <1>t, Moved DEF Quiet
<1>6. ASSUME NEW r \in Requests, PayFacture(r), ~PayWhere(req[r].f) PROVE Quiet
  <2>1. UNCHANGED <<audit, status, contentHash>> /\ Finish(r)
    BY <1>6 DEF PayFacture
  <2> QED BY <2>1, <1>t, Moved DEF Quiet
<1> QED BY <1>1, <1>2, <1>3, <1>4, <1>5, <1>6 DEF Next, Working, Issuing

LEMMA JournalInit == Init => JournalInv
  BY DEF Init, Idle, JournalInv, ReportInv, OneReporter, AuditTruthful, Reports, ReportsIssue,
     AuditAction

\* The journal tells the truth: it has one LOCK, one ISSUE and one PAY of an invoice at most,
\* each after what it reports, and no CANCEL of an invoice that stands (logAudit in facture.ts).
THEOREM JournalIsTrue == Spec => []AuditTruthful
<1>1. IInv /\ JournalInv /\ [Next]_vars => JournalInv'
  BY QuietSteps, QuietKeeps, CommitReports, PayReports, CancelReports, EntryReports
<1>2. JournalInv => AuditTruthful
  BY DEF JournalInv
<1> QED BY <1>1, <1>2, JournalInit, Invariance, PTL DEF Spec

-----------------------------------------------------------------------------
(* The archived files.  A file of an invoice that was never issued has a    *)
(* request that still has to write, keep or drop it; with one issuer the    *)
(* files of an issue in progress carry the hash the request computed.       *)

\* Commit alone changes what an invoice was locked with, and only makes it issued.
LEMMA IssuedStays ==
  ASSUME IInv, [Next]_vars
  PROVE  \A f \in Factures: Issued(f) => Issued(f)'
<1>1. CASE UNCHANGED contentHash
  BY <1>1 DEF Issued
<1>2. ASSUME NEW r \in Requests, CommitIssue(r)
      PROVE  \A f \in Factures: Issued(f) => Issued(f)'
  <2>1. req[r].f \in Factures /\ req[r].hash \in Hashes /\ req[r].hash # Null
    BY <1>2, NullAssumption DEF CommitIssue, IInv, TypeOK, WellFormed, IssueSteps, Hashes
  <2> QED BY <1>2, <2>1 DEF CommitIssue, LockedHash, IInv, TypeOK, Issued
<1>3. ASSUME NEW r \in Requests, NEW pc \in AuditSteps, NEW action \in AuditAction, LogAudit(r, pc, action)
      PROVE  UNCHANGED contentHash
  BY <1>3 DEF LogAudit
<1>4. UNCHANGED contentHash \/ \E r \in Requests: CommitIssue(r)
  BY <1>3 DEF vars, Next, Begin, Working, Issuing, EditClient, BeginIssue, BeginPay, BeginCancel,
     ArchiveFacturePdf, ArchiveAttestationPdf, ArchiveFails, AcquireChainLock, RejectIssue,
     TimeoutIssue, DropFacturePdf, DropAttestationPdf, PayFacture, CancelFacture,
     LogLock, LogIssue, LogPay, LogCancel, Abort, AuditSteps, AuditAction
<1> QED BY <1>1, <1>2, <1>4

\* The requests that still answer for the files of an invoice.
Holds(r, f, pcs) == req[r].f = f /\ req[r].pc \in pcs
FileSteps == IssueSteps \ {"dropAttestation"}

OrphanInv ==
    \A f \in Factures \ abandoned:
        /\ facturePdf[f] # Null => Issued(f) \/ \E r \in Requests: Holds(r, f, FileSteps)
        /\ attestationPdf[f] # Null => Issued(f) \/ \E r \in Requests: Holds(r, f, IssueSteps)

\* The request keeps answering for its files, or its invoice is issued or given up.
Answers(s) ==
    \/ /\ req'[s].f = req[s].f
       /\ req'[s].pc \in IssueSteps
       /\ req[s].pc # "dropAttestation" => req'[s].pc # "dropAttestation"
    \/ contentHash'[req[s].f] # Null \/ req[s].f \in abandoned'

Lasting ==
    /\ UNCHANGED files
    /\ abandoned \subseteq abandoned'
    /\ \A s \in Requests: req[s].pc \in IssueSteps => Answers(s)

LEMMA LastingKeeps ==
  ASSUME IInv, OrphanInv, [Next]_vars, Lasting
  PROVE  OrphanInv'
<1>1. \A f \in Factures: Issued(f) => Issued(f)'
  BY IssuedStays
<1> SUFFICES ASSUME NEW f \in Factures \ abandoned'
             PROVE  /\ facturePdf'[f] # Null => Issued(f)' \/ \E r \in Requests: Holds(r, f, FileSteps)'
                    /\ attestationPdf'[f] # Null => Issued(f)' \/ \E r \in Requests: Holds(r, f, IssueSteps)'
  BY DEF OrphanInv
<1>2. \A s \in Requests: Holds(s, f, IssueSteps) => Issued(f)' \/ Holds(s, f, IssueSteps)'
  BY DEF Lasting, Answers, Holds, Issued
<1>3. \A s \in Requests: Holds(s, f, FileSteps) => Issued(f)' \/ Holds(s, f, FileSteps)'
  BY DEF Lasting, Answers, Holds, FileSteps, Issued
<1> QED BY <1>1, <1>2, <1>3 DEF Lasting, OrphanInv

\* The four steps that write or drop a file.
LEMMA FilesKept ==
  ASSUME IInv, OrphanInv, NEW r \in Requests,
         \/ ArchiveFacturePdf(r) \/ ArchiveAttestationPdf(r)
         \/ DropFacturePdf(r) \/ DropAttestationPdf(r)
  PROVE  OrphanInv'
<1>t. TypeOK
  BY DEF IInv
<1>1. PICK f \in Factures: f = req[r].f
  BY <1>t DEF ArchiveFacturePdf, ArchiveAttestationPdf, DropFacturePdf, DropAttestationPdf, TypeOK, WellFormed
<1>2. UNCHANGED <<contentHash, abandoned>> /\ \A s \in Requests \ {r}: req'[s] = req[s]
  BY <1>t, Moved DEF ArchiveFacturePdf, ArchiveAttestationPdf, DropFacturePdf, DropAttestationPdf,
     Steps, IssueSteps
<1> USE DEF Holds, FileSteps, IssueSteps, Issued
<1>3. CASE ArchiveFacturePdf(r) \/ ArchiveAttestationPdf(r)
  <2>1. req'[r].f = f /\ req'[r].pc \in FileSteps
    BY <1>1, <1>3, <1>t, Moved DEF ArchiveFacturePdf, ArchiveAttestationPdf, Steps
  <2>2. \A g \in Factures \ {f}: facturePdf'[g] = facturePdf[g] /\ attestationPdf'[g] = attestationPdf[g]
    BY <1>1, <1>3, <1>t DEF ArchiveFacturePdf, ArchiveAttestationPdf, TypeOK
  <2> QED BY <1>1, <1>2, <2>1, <2>2 DEF OrphanInv
<1>4. CASE DropFacturePdf(r)
  <2>1. req[r].pc = "dropFacture" /\ req'[r].f = f /\ req'[r].pc = "dropAttestation"
    BY <1>1, <1>4, <1>t, Moved DEF DropFacturePdf, Steps
  <2>2. /\ facturePdf'[f] = Null /\ UNCHANGED attestationPdf
        /\ \A g \in Factures \ {f}: facturePdf'[g] = facturePdf[g]
    BY <1>1, <1>4, <1>t DEF DropFacturePdf, TypeOK
  <2> QED BY <1>1, <1>2, <2>1, <2>2 DEF OrphanInv
<1>5. CASE DropAttestationPdf(r)
  <2>1. req[r].pc = "dropAttestation"
    BY <1>5 DEF DropAttestationPdf
  <2>2. /\ attestationPdf'[f] = Null /\ UNCHANGED facturePdf
        /\ \A g \in Factures \ {f}: attestationPdf'[g] = attestationPdf[g]
    BY <1>1, <1>5, <1>t DEF DropAttestationPdf, TypeOK
  <2> QED BY <1>1, <1>2, <2>1, <2>2 DEF OrphanInv
<1> QED BY <1>3, <1>4, <1>5

\* Every other step leaves the files and what the requests answer for.
LEMMA LastingSteps ==
  ASSUME IInv, [Next]_vars
  PROVE  \/ Lasting
         \/ \E r \in Requests:
               \/ ArchiveFacturePdf(r) \/ ArchiveAttestationPdf(r)
               \/ DropFacturePdf(r) \/ DropAttestationPdf(r)
<1> USE DEF Steps, IssueSteps, AuditSteps, Answers
<1>t. TypeOK
  BY DEF IInv
<1>1. CASE EditClient \/ UNCHANGED vars
  BY <1>1 DEF EditClient, vars, Lasting
<1>2. ASSUME NEW r \in Requests, Begin(r) PROVE Lasting
  <2>1. PICK f \in Factures, pc \in Steps, h \in Hashes \union {Null}: Start(r, f, pc, h)
    BY <1>2, <1>t DEF Begin, BeginIssue, BeginPay, BeginCancel, ComputeContentHash, Hashes, TypeOK
  <2> QED BY <2>1, <1>t DEF Lasting, TypeOK, Request
<1>3. ASSUME NEW r \in Requests, ArchiveFails(r) \/ RejectIssue(r) \/ TimeoutIssue(r) PROVE Lasting
  <2>1. UNCHANGED <<files, abandoned>> /\ Goto(r, "dropFacture") /\ req[r].pc # "dropAttestation"
    BY <1>3 DEF ArchiveFails, RejectIssue, TimeoutIssue
  <2> QED BY <2>1, <1>t, Moved DEF Lasting
<1>4. ASSUME NEW r \in Requests, AcquireChainLock(r) PROVE Lasting
  <2>1. /\ req'[r].pc = "chained" /\ req'[r].f = req[r].f
        /\ \A s \in Requests \ {r}: req'[s] = req[s]
    BY <1>4, <1>t DEF AcquireChainLock, ChainTo, TypeOK, Request
  <2> QED BY <1>4, <2>1 DEF AcquireChainLock, Lasting
<1>5. ASSUME NEW r \in Requests, CommitIssue(r) PROVE Lasting
  <2>1. req[r].f \in Factures /\ req[r].hash \in Hashes /\ req[r].hash # Null
    BY <1>5, <1>t, NullAssumption DEF CommitIssue, TypeOK, WellFormed, Hashes
  <2>2. contentHash'[req[r].f] # Null
    BY <1>5, <1>t, <2>1, Moved DEF CommitIssue, LockedHash, TypeOK
  <2> QED BY <1>5, <1>t, <2>2, Moved DEF CommitIssue, Lasting
<1>6. ASSUME NEW r \in Requests, Abort(r) PROVE Lasting
  BY <1>6, <1>t, Moved DEF Abort, Lasting
<1>7. ASSUME NEW r \in Requests, req[r].pc \notin IssueSteps, UNCHANGED <<files, abandoned>>,
             Finish(r) \/ \E pc \in Steps: Goto(r, pc)
      PROVE  Lasting
  BY <1>7, <1>t, Moved DEF Lasting
<1>8. ASSUME NEW r \in Requests, NEW pc \in AuditSteps, NEW action \in AuditAction, LogAudit(r, pc, action)
      PROVE  Lasting
  BY <1>7, <1>8 DEF LogAudit
<1>9. ASSUME NEW r \in Requests, PayFacture(r) \/ CancelFacture(r) PROVE Lasting
  BY <1>7, <1>9 DEF PayFacture, CancelFacture
<1>10. ASSUME NEW r \in Requests, LogLock(r) \/ LogIssue(r) \/ LogPay(r) \/ LogCancel(r) PROVE Lasting
  BY <1>8, <1>10 DEF LogLock, LogIssue, LogPay, LogCancel, AuditAction
<1> QED BY <1>1, <1>2, <1>3, <1>4, <1>5, <1>6, <1>9, <1>10 DEF Next, Working, Issuing

\* A failed issue leaves no file behind, in whatever order two attempts at the same invoice
\* write and drop them (the catch blocks of issueFacture).
THEOREM NoFileIsOrphan == Spec => []NoOrphanPdf
<1>1. IInv /\ OrphanInv /\ [Next]_vars => OrphanInv'
  BY LastingSteps, LastingKeeps, FilesKept
<1>2. OrphanInv => NoOrphanPdf
  BY DEF OrphanInv, NoOrphanPdf, Holds, FileSteps
<1>3. Init => OrphanInv
  BY DEF Init, OrphanInv
<1> QED BY <1>1, <1>2, <1>3, Invariance, PTL DEF Spec

-----------------------------------------------------------------------------
OneIssuer == \A r, s \in Issuers: r = s

\* What the archived files of an issue in progress say.
InPrint(r) ==
    /\ r \in Issuers
    /\ ~Issued(req[r].f)
    /\ req[r].pc \in {"archiveAttestation", "awaitLock", "chained"} => facturePdf[req[r].f] = req[r].hash
    /\ req[r].pc \in {"awaitLock", "chained"} => attestationPdf[req[r].f] = req[r].hash

PaperInv ==
    /\ \A r \in Requests: req[r].pc \in IssueSteps => InPrint(r)
    /\ PapersAgree

\* A step that neither issues nor touches a file.
Printed(s) ==
    \/ /\ req'[s].f = req[s].f /\ req'[s].hash = req[s].hash /\ req[s].pc \in IssueSteps
       /\ \/ req'[s].pc = req[s].pc \/ req'[s].pc = "dropFacture"
          \/ req[s].pc = "awaitLock" /\ req'[s].pc = "chained"
    \/ s \in Issuers /\ req'[s].pc = "archiveFacture" /\ ~Issued(req'[s].f)

Unprinted ==
    /\ UNCHANGED <<contentHash, attestation, facturePdf, attestationPdf>>
    /\ \A s \in Requests: req'[s].pc \in IssueSteps => Printed(s)

LEMMA UnprintedKeeps ==
  ASSUME PaperInv, Unprinted
  PROVE  PaperInv'
<1>1. PapersAgree'
  BY DEF PaperInv, PapersAgree, Unprinted, Issued
<1>2. ASSUME NEW s \in Requests, req'[s].pc \in IssueSteps PROVE InPrint(s)'
  <2>1. CASE s \in Issuers /\ req'[s].pc = "archiveFacture" /\ ~Issued(req'[s].f)
    BY <2>1 DEF InPrint, Unprinted, Issued
  <2>2. CASE /\ req'[s].f = req[s].f /\ req'[s].hash = req[s].hash /\ req[s].pc \in IssueSteps
             /\ \/ req'[s].pc = req[s].pc \/ req'[s].pc = "dropFacture"
                \/ req[s].pc = "awaitLock" /\ req'[s].pc = "chained"
    BY <2>2 DEF PaperInv, InPrint, Unprinted, Issued
  <2> QED BY <1>2, <2>1, <2>2 DEF Unprinted, Printed
<1> QED BY <1>1, <1>2 DEF PaperInv

\* With one issuer no other request issues, so nobody else writes the files it printed.
LEMMA OthersDoNotIssue ==
  ASSUME OneIssuer, PaperInv, NEW r \in Requests, req[r].pc \in IssueSteps
  PROVE  /\ r \in Issuers /\ ~Issued(req[r].f) /\ PapersAgree
         /\ \A s \in Requests \ {r}: req[s].pc \notin IssueSteps
  BY DEF OneIssuer, PaperInv, InPrint

LEMMA PrintKeeps ==
  ASSUME IInv, OneIssuer, PaperInv, NEW r \in Requests,
         \/ ArchiveFacturePdf(r) \/ ArchiveAttestationPdf(r)
         \/ DropFacturePdf(r) \/ DropAttestationPdf(r)
  PROVE  PaperInv'
<1>t. TypeOK
  BY DEF IInv
<1>1. PICK f \in Factures: f = req[r].f
  BY <1>t DEF ArchiveFacturePdf, ArchiveAttestationPdf, DropFacturePdf, DropAttestationPdf, TypeOK, WellFormed
<1>2. /\ req[r].pc \in IssueSteps /\ UNCHANGED <<contentHash, attestation>>
      /\ \A s \in Requests \ {r}: req'[s] = req[s]
  BY <1>t, Moved DEF ArchiveFacturePdf, ArchiveAttestationPdf, DropFacturePdf, DropAttestationPdf,
     Steps, IssueSteps
<1>3. \A g \in Factures \ {f}: facturePdf'[g] = facturePdf[g] /\ attestationPdf'[g] = attestationPdf[g]
  BY <1>1, <1>t DEF ArchiveFacturePdf, ArchiveAttestationPdf, DropFacturePdf, DropAttestationPdf, TypeOK
<1>4. /\ r \in Issuers /\ ~Issued(f) /\ PapersAgree
      /\ \A s \in Requests \ {r}: req[s].pc \notin IssueSteps
  BY <1>1, <1>2, OthersDoNotIssue
<1>5. PapersAgree'
  BY <1>2, <1>3, <1>4 DEF PapersAgree, Issued
<1>6. req'[r].pc \in IssueSteps => InPrint(r)'
  <2>1. CASE ArchiveFacturePdf(r)
    <3>1. /\ req'[r].pc = "archiveAttestation" /\ req'[r].f = f /\ req'[r].hash = req[r].hash
          /\ facturePdf'[f] = req[r].hash
      BY <1>1, <1>t, <2>1, Moved DEF ArchiveFacturePdf, Steps, IssueSteps, TypeOK
    <3> QED BY <1>2, <1>4, <3>1 DEF InPrint, Issued
  <2>2. CASE ArchiveAttestationPdf(r)
    <3>1. /\ req'[r].pc = "awaitLock" /\ req'[r].f = f /\ req'[r].hash = req[r].hash
          /\ attestationPdf'[f] = req[r].hash /\ facturePdf'[f] = facturePdf[f]
      BY <1>1, <1>t, <2>2, Moved DEF ArchiveAttestationPdf, Steps, IssueSteps, TypeOK
    <3>2. facturePdf[f] = req[r].hash
      BY <1>1, <1>2, <2>2 DEF ArchiveAttestationPdf, PaperInv, InPrint
    <3> QED BY <1>2, <1>4, <3>1, <3>2 DEF InPrint, Issued
  <2>3. CASE DropFacturePdf(r)
    <3>1. req'[r].pc = "dropAttestation" /\ req'[r].f = f
      BY <1>1, <1>t, <2>3, Moved DEF DropFacturePdf, Steps, IssueSteps
    <3> QED BY <1>2, <1>4, <3>1 DEF InPrint, Issued
  <2>4. CASE DropAttestationPdf(r)
    BY <1>t, <2>4, Moved DEF DropAttestationPdf, IssueSteps
  <2> QED BY <2>1, <2>2, <2>3, <2>4
<1>7. \A s \in Requests \ {r}: req'[s].pc \notin IssueSteps
  BY <1>2, <1>4
<1> QED BY <1>5, <1>6, <1>7 DEF PaperInv

LEMMA IssuePrints ==
  ASSUME IInv, OneIssuer, PaperInv, NEW r \in Requests, CommitIssue(r)
  PROVE  PaperInv'
<1>t. TypeOK
  BY DEF IInv
<1>1. PICK f \in Factures: f = req[r].f
  BY <1>t DEF CommitIssue, TypeOK, WellFormed
<1>2. req[r].pc = "chained" /\ req[r].pc \in IssueSteps
  BY DEF CommitIssue, IssueSteps
<1>3. /\ contentHash'[f] = req[r].hash /\ attestation'[f] = req[r].hash
      /\ UNCHANGED <<facturePdf, attestationPdf>>
      /\ \A g \in Factures \ {f}: contentHash'[g] = contentHash[g] /\ attestation'[g] = attestation[g]
  BY <1>1, <1>t DEF CommitIssue, LockedHash, AttestedHash, TypeOK
<1>4. facturePdf[f] = req[r].hash /\ attestationPdf[f] = req[r].hash
  BY <1>1, <1>2 DEF PaperInv, InPrint
<1>5. PapersAgree /\ \A s \in Requests \ {r}: req[s].pc \notin IssueSteps
  BY <1>2, OthersDoNotIssue
<1>6. req'[r].pc = "logLock" /\ \A s \in Requests \ {r}: req'[s] = req[s]
  BY <1>t, Moved DEF CommitIssue, Steps, AuditSteps
<1>7. \A s \in Requests: req'[s].pc \notin IssueSteps
  BY <1>5, <1>6 DEF IssueSteps
<1>8. PapersAgree'
  BY <1>3, <1>4, <1>5 DEF PapersAgree, Issued
<1> QED BY <1>7, <1>8 DEF PaperInv

LEMMA UnprintedSteps ==
  ASSUME IInv, [Next]_vars
  PROVE  \/ Unprinted
         \/ \E r \in Requests:
               \/ ArchiveFacturePdf(r) \/ ArchiveAttestationPdf(r)
               \/ DropFacturePdf(r) \/ DropAttestationPdf(r) \/ CommitIssue(r)
<1> USE DEF Steps, IssueSteps, AuditSteps, Printed
<1>t. TypeOK
  BY DEF IInv
<1>1. CASE EditClient \/ UNCHANGED vars
  BY <1>1 DEF EditClient, vars, Unprinted
<1>2. ASSUME NEW r \in Requests, NEW f \in Factures, BeginIssue(r, f) PROVE Unprinted
  <2>1. req'[r].pc = "archiveFacture" /\ req'[r].f = f /\ r \in Issuers /\ ~Issued(f)
    BY <1>2, <1>t DEF BeginIssue, TypeOK, Request, IInv, StampInv
  <2>2. /\ UNCHANGED <<contentHash, attestation, facturePdf, attestationPdf>>
        /\ \A s \in Requests \ {r}: req'[s] = req[s]
    BY <1>2, <1>t DEF BeginIssue, TypeOK
  <2> QED BY <2>1, <2>2 DEF Unprinted
<1>3. ASSUME NEW r \in Requests, NEW f \in Factures, BeginPay(r, f) \/ BeginCancel(r, f) PROVE Unprinted
  <2>1. /\ req'[r].pc \notin IssueSteps /\ \A s \in Requests \ {r}: req'[s] = req[s]
        /\ UNCHANGED <<contentHash, attestation, facturePdf, attestationPdf>>
    BY <1>3, <1>t DEF BeginPay, BeginCancel, TypeOK, Request
  <2> QED BY <2>1 DEF Unprinted
<1>4. ASSUME NEW r \in Requests, ArchiveFails(r) \/ RejectIssue(r) \/ TimeoutIssue(r) PROVE Unprinted
  <2>1. /\ UNCHANGED <<contentHash, attestation, facturePdf, attestationPdf>>
        /\ Goto(r, "dropFacture") /\ req[r].pc \in IssueSteps
    BY <1>4 DEF ArchiveFails, RejectIssue, TimeoutIssue
  <2> QED BY <2>1, <1>t, Moved DEF Unprinted
<1>5. ASSUME NEW r \in Requests, AcquireChainLock(r) PROVE Unprinted
  <2>1. /\ req[r].pc = "awaitLock" /\ req'[r].pc = "chained"
        /\ req'[r].f = req[r].f /\ req'[r].hash = req[r].hash
        /\ \A s \in Requests \ {r}: req'[s] = req[s]
    BY <1>5, <1>t DEF AcquireChainLock, ChainTo, TypeOK, Request
  <2> QED BY <1>5, <2>1 DEF AcquireChainLock, Unprinted
<1>6. ASSUME NEW r \in Requests, UNCHANGED <<contentHash, attestation, facturePdf, attestationPdf>>,
             Finish(r) \/ \E pc \in Steps \ IssueSteps: Goto(r, pc)
      PROVE  Unprinted
  BY <1>6, <1>t, Moved DEF Unprinted
<1>7. ASSUME NEW r \in Requests, NEW pc \in AuditSteps, NEW action \in AuditAction, LogAudit(r, pc, action)
      PROVE  Unprinted
  BY <1>6, <1>7 DEF LogAudit
<1>8. ASSUME NEW r \in Requests, PayFacture(r) \/ CancelFacture(r) \/ Abort(r) PROVE Unprinted
  BY <1>6, <1>8 DEF PayFacture, CancelFacture, Abort
<1>9. ASSUME NEW r \in Requests, LogLock(r) \/ LogIssue(r) \/ LogPay(r) \/ LogCancel(r) PROVE Unprinted
  BY <1>7, <1>9 DEF LogLock, LogIssue, LogPay, LogCancel, AuditAction
<1> QED BY <1>1, <1>2, <1>3, <1>4, <1>5, <1>8, <1>9 DEF Next, Begin, Working, Issuing

\* If the requests that issue come one at a time, an issued invoice, its attestation and both
\* archived files say the same, although the client is edited meanwhile and others pay and cancel.
THEOREM OneIssuerPapers == OneIssuer => (Spec => []PapersAgree)
<1>1. OneIssuer /\ IInv /\ PaperInv /\ [Next]_vars => PaperInv'
  BY UnprintedSteps, UnprintedKeeps, PrintKeeps, IssuePrints
<1>2. PaperInv => PapersAgree
  BY DEF PaperInv
<1>3. Init => PaperInv
  BY DEF Init, PaperInv, Idle, IssueSteps, PapersAgree, Issued
<1>4. OneIssuer => [](OneIssuer)
  BY DEF OneIssuer
<1> QED BY <1>1, <1>2, <1>3, <1>4, Invariance, PTL DEF Spec

=============================================================================
