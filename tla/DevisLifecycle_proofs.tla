------------------------ MODULE DevisLifecycle_proofs ------------------------
(***************************************************************************)
(* Whatever requests race, for any number of them, any contents and any    *)
(* faults: the status of a quote only moves forward, its hash and its      *)
(* signature are set once, the signature binds the hash, and the signed    *)
(* copy goes to the signer only.                                           *)
(***************************************************************************)
EXTENDS DevisLifecycle, FiniteSetTheorems, TLAPS

USE DEF At

LEMMA InvInit == Init => IInv
<1> SUFFICES ASSUME Init PROVE IInv
  OBVIOUS
<1>1. PICK c \in Contents: lines = {[content |-> c, by |-> Null]} /\ totals = c
  BY DEF Init
<1>2. Idle \in Request /\ Idle.pc = "idle" /\ Idle.op = "none"
  BY DEF Idle, Request, Steps
<1>3. TypeOK
  <2>1. lines \subseteq Batches
    BY <1>1 DEF Batches
  <2>2. req \in [Requests -> Request] /\ log \in [AuditAction -> Nat]
    BY <1>2 DEF Init
  <2>3. /\ status \in DevisStatus /\ deleted \in BOOLEAN /\ expired \in BOOLEAN
        /\ contentHash = Null /\ signature = Null /\ facture = Null /\ pdf = Null
        /\ signedPdf = Null /\ loggedHash = {} /\ mailed = {}
    BY DEF Init, DevisStatus
  <2> QED
    BY <1>1, <2>1, <2>2, <2>3 DEF TypeOK
<1> QED
  BY <1>2, <1>3 DEF Init, IInv, StatusInv, MailedIsSigned, RequestOK

\* A request that moves to q, while the columns the others rely on stay.
LEMMA MoveKeeps ==
  ASSUME IInv, NEW r \in Requests, NEW q, q \in Request, RequestOK(r, q),
         req' = [req EXCEPT ![r] = q],
         UNCHANGED <<status, contentHash, signature, deleted>>
  PROVE  /\ req' \in [Requests -> Request] /\ StatusInv'
         /\ \A v \in Requests: RequestOK(v, req[v])'
<1>1. req' \in [Requests -> Request] /\ req'[r] = q /\ \A v \in Requests \ {r}: req'[v] = req[v]
  BY DEF IInv, TypeOK
<1>2. StatusInv'
  BY DEF IInv, StatusInv
<1>3. ASSUME NEW v \in Requests PROVE RequestOK(v, req[v])'
  BY <1>1 DEF IInv, RequestOK, Sent, DecideWhere, Live
<1> QED
  BY <1>1, <1>2, <1>3

\* The same for the steps that change nothing else.
LEMMA ReadKeeps ==
  ASSUME IInv, NEW r \in Requests, NEW q, q \in Request, RequestOK(r, q),
         req' = [req EXCEPT ![r] = q], Reads
  PROVE  IInv'
<1>1. UNCHANGED <<status, contentHash, signature, deleted>>
  BY DEF Reads, row
<1>2. /\ req' \in [Requests -> Request] /\ StatusInv'
      /\ \A v \in Requests: RequestOK(v, req[v])'
  BY <1>1, MoveKeeps
<1>3. TypeOK' /\ MailedIsSigned'
  BY <1>2 DEF IInv, TypeOK, Reads, row, files, journal, MailedIsSigned
<1> QED
  BY <1>2, <1>3 DEF IInv

\* Finishing is always fine.
LEMMA IdleFine == Idle \in Request /\ \A r \in Requests: RequestOK(r, Idle)
  BY DEF Idle, Request, Steps, RequestOK

\* What a move to another step changes.
LEMMA GotoFine ==
  ASSUME IInv, NEW r \in Requests, NEW pc \in Steps, NEW seen \in Hashes \union {Null},
         GotoWith(r, pc, seen)
  PROVE  \E q \in Request: /\ req' = [req EXCEPT ![r] = q]
                           /\ q.op = req[r].op /\ q.pc = pc /\ q.decision = req[r].decision
                           /\ q.ref = req[r].ref /\ q.content = req[r].content /\ q.seen = seen
<1> DEFINE q == [op |-> req[r].op, pc |-> pc, decision |-> req[r].decision, ref |-> req[r].ref,
                 content |-> req[r].content, seen |-> seen]
<1>1. req[r] \in Request /\ req \in [Requests -> Request]
  BY DEF IInv, TypeOK
<1>2. q \in Request
  BY <1>1 DEF Request
<1>3. req' = [req EXCEPT ![r] = q]
  BY <1>1 DEF GotoWith
<1> QED
  BY <1>2, <1>3

-----------------------------------------------------------------------------
LEMMA BeginKeeps ==
  ASSUME IInv, NEW r \in Requests, Begin(r)
  PROVE  IInv'
<1> USE DEF Start
<1>1. ASSUME NEW c \in Contents, BeginUpdate(r, c) PROVE IInv'
  <2> DEFINE q == [Idle EXCEPT !.op = "update", !.pc = "deleteLines", !.content = c]
  <2>1. q \in Request /\ RequestOK(r, q)
    BY DEF Idle, Request, Steps, Operations, RequestOK
  <2> QED
    BY <1>1, <2>1, ReadKeeps DEF BeginUpdate
<1>2. ASSUME BeginSend(r) PROVE IInv'
  <2> DEFINE q == [Idle EXCEPT !.op = "send", !.pc = "archivePdf", !.seen = BuildDevisPayload]
  <2>1. BuildDevisPayload \in Hashes
    BY DEF IInv, TypeOK, BuildDevisPayload, Hashes
  <2>2. q \in Request /\ RequestOK(r, q)
    BY <2>1 DEF Idle, Request, Steps, Operations, RequestOK
  <2> QED
    BY <1>2, <2>2, ReadKeeps DEF BeginSend
<1>3. ASSUME NEW d \in Decisions, NEW ref \in Refs, BeginPublic(r, d, ref) PROVE IInv'
  <2> DEFINE q == [Idle EXCEPT !.op = "public", !.decision = d, !.ref = ref,
                               !.pc = IF d = "ACCEPTE" THEN "verifySigner" ELSE "findAgain"]
  <2>1. q \in Request
    BY RefsAssumption DEF Idle, Request, Steps, Operations
  <2>2. contentHash # Null
    BY <1>3 DEF BeginPublic, IInv, StatusInv
  <2>3. RequestOK(r, q)
    BY <2>2 DEF Idle, RequestOK, Sent
  <2> QED
    BY <1>3, <2>1, <2>3, ReadKeeps DEF BeginPublic
<1>4. ASSUME NEW d \in Decisions, BeginDashboard(r, d) PROVE IInv'
  <2> DEFINE q == [Idle EXCEPT !.op = "dashboard", !.pc = "decide", !.decision = d,
                               !.seen = contentHash]
  <2>1. q \in Request /\ RequestOK(r, q)
    BY DEF Idle, Request, Steps, Operations, RequestOK, IInv, TypeOK
  <2> QED
    BY <1>4, <2>1, ReadKeeps DEF BeginDashboard
<1>5. ASSUME BeginDelete(r) PROVE IInv'
  <2> DEFINE q == [Idle EXCEPT !.op = "delete", !.pc = "checkFacture"]
  <2>1. q \in Request /\ RequestOK(r, q)
    BY DEF Idle, Request, Steps, Operations, RequestOK
  <2> QED
    BY <1>5, <2>1, ReadKeeps DEF BeginDelete
<1>6. ASSUME BeginConvert(r) PROVE IInv'
  <2> DEFINE q == [Idle EXCEPT !.op = "convert", !.pc = "createFacture", !.seen = BuildDevisPayload]
  <2>1. BuildDevisPayload \in Hashes
    BY DEF IInv, TypeOK, BuildDevisPayload, Hashes
  <2>2. q \in Request /\ RequestOK(r, q)
    BY <2>1 DEF Idle, Request, Steps, Operations, RequestOK
  <2> QED
    BY <1>6, <2>2, ReadKeeps DEF BeginConvert
<1> QED
  BY <1>1, <1>2, <1>3, <1>4, <1>5, <1>6 DEF Begin

-----------------------------------------------------------------------------
\* The types of what only some steps change.
LEMMA UpdateKeeps ==
  ASSUME IInv, NEW r \in Requests, UpdateStep(r)
  PROVE  IInv'
<1> USE DEF Goto
<1>1. req[r] \in Request /\ RequestOK(r, req[r])
  BY DEF IInv, TypeOK
<1>2. ASSUME SnapshotLines(r) PROVE IInv'
  <2>1. BuildDevisPayload \in Hashes
    BY DEF IInv, TypeOK, BuildDevisPayload, Hashes
  <2>2. PICK q \in Request: /\ req' = [req EXCEPT ![r] = q] /\ q.op = req[r].op /\ q.pc = "awaitLines"
                            /\ q.decision = req[r].decision /\ q.ref = req[r].ref
                            /\ q.content = req[r].content /\ q.seen = BuildDevisPayload
    BY <1>2, <2>1, GotoFine DEF SnapshotLines, Steps
  <2>3. RequestOK(r, q)
    BY <1>1, <1>2, <2>1, <2>2 DEF RequestOK, SnapshotLines
  <2> QED
    BY <1>2, <2>2, <2>3, ReadKeeps DEF SnapshotLines
<1>3. ASSUME DeleteLines(r) PROVE IInv'
  <2> DEFINE left == [req[r].seen EXCEPT !.lines = @ \intersect lines]
  <2>1. left \in Hashes
    BY <1>1, <1>3 DEF DeleteLines, RequestOK, Hashes
  <2>2. PICK q \in Request: /\ req' = [req EXCEPT ![r] = q] /\ q.op = req[r].op /\ q.pc = "replace"
                            /\ q.decision = req[r].decision /\ q.ref = req[r].ref
                            /\ q.content = req[r].content /\ q.seen = left
    BY <1>3, <2>1, GotoFine DEF DeleteLines, Steps
  <2>3. RequestOK(r, q)
    BY <1>1, <1>3, <2>1, <2>2 DEF RequestOK, DeleteLines
  <2> QED
    BY <1>3, <2>2, <2>3, ReadKeeps DEF DeleteLines
<1>4. ASSUME ReplaceLines(r) PROVE IInv'
  <2>1. UNCHANGED <<status, contentHash, signature, deleted>> /\ req' = [req EXCEPT ![r] = Idle]
    BY <1>4 DEF ReplaceLines, Finish
  <2>2. /\ req' \in [Requests -> Request] /\ StatusInv'
        /\ \A v \in Requests: RequestOK(v, req[v])'
    BY <2>1, IdleFine, MoveKeeps
  <2>3. req[r].content \in Contents
    BY <1>1, <1>4 DEF ReplaceLines, RequestOK
  <2>4. lines' \subseteq Batches /\ totals' \in Contents
    BY <1>4, <2>3 DEF ReplaceLines, IInv, TypeOK, Batches
  <2>5. TypeOK' /\ MailedIsSigned'
    BY <1>4, <2>1, <2>2, <2>4 DEF ReplaceLines, IInv, TypeOK, files, journal, MailedIsSigned
  <2> QED
    BY <2>2, <2>5 DEF IInv
<1> QED
  BY <1>2, <1>3, <1>4 DEF UpdateStep

\* A request that goes on with what it has seen.
LEMMA GotoSame ==
  ASSUME IInv, NEW r \in Requests, NEW pc \in Steps, Goto(r, pc)
  PROVE  \E q \in Request: /\ req' = [req EXCEPT ![r] = q]
                           /\ q.op = req[r].op /\ q.pc = pc /\ q.decision = req[r].decision
                           /\ q.ref = req[r].ref /\ q.content = req[r].content
                           /\ q.seen = req[r].seen
<1>1. req[r].seen \in Hashes \union {Null}
  BY DEF IInv, TypeOK, Request
<1> QED
  BY <1>1, GotoFine DEF Goto

\* The steps that change only files, journal, mail or invoice, and the request.
LEMMA OutsideKeeps ==
  ASSUME IInv, NEW r \in Requests, NEW q, q \in Request, RequestOK(r, q),
         req' = [req EXCEPT ![r] = q], UNCHANGED row, UNCHANGED expired,
         (facture \in Hashes \union {Null})', (pdf \in Hashes \union {Null})',
         (signedPdf \in Signatures \union {Null})',
         (log \in [AuditAction -> Nat])', (loggedHash \subseteq Hashes \union {Null})',
         mailed' \subseteq mailed \union {signature}, mailed' \subseteq Signatures
  PROVE  IInv'
<1>1. UNCHANGED <<status, contentHash, signature, deleted, lines, totals>>
  BY DEF row
<1>2. /\ req' \in [Requests -> Request] /\ StatusInv'
      /\ \A v \in Requests: RequestOK(v, req[v])'
  BY <1>1, MoveKeeps
<1>3. TypeOK' /\ MailedIsSigned'
  BY <1>1, <1>2 DEF IInv, TypeOK, MailedIsSigned
<1> QED
  BY <1>2, <1>3 DEF IInv

\* An entry more in the journal keeps its type.
LEMMA LogTyped ==
  ASSUME IInv, NEW a \in AuditAction, Log(a)
  PROVE  log' \in [AuditAction -> Nat]
  BY DEF IInv, TypeOK, Log

LEMMA SendKeeps ==
  ASSUME IInv, NEW r \in Requests, SendStep(r)
  PROVE  IInv'
<1>1. req[r] \in Request /\ RequestOK(r, req[r]) /\ TypeOK
  BY DEF IInv, TypeOK
<1>2. ASSUME ArchivePdf(r) PROVE IInv'
  <2>1. PICK q \in Request: /\ req' = [req EXCEPT ![r] = q] /\ q.op = req[r].op /\ q.pc = "lock"
                            /\ q.decision = req[r].decision /\ q.ref = req[r].ref
                            /\ q.content = req[r].content /\ q.seen = req[r].seen
    BY <1>2, GotoSame DEF ArchivePdf, Steps
  <2>2. RequestOK(r, q) /\ req[r].seen \in Hashes
    BY <1>1, <1>2, <2>1 DEF RequestOK, ArchivePdf
  <2> QED
    BY <1>1, <1>2, <2>1, <2>2, OutsideKeeps DEF ArchivePdf, TypeOK, journal
<1>3. ASSUME LockDevis(r) PROVE IInv'
  <2>1. PICK q \in Request: /\ req' = [req EXCEPT ![r] = q] /\ q.op = req[r].op /\ q.pc = "logLock"
                            /\ q.decision = req[r].decision /\ q.ref = req[r].ref
                            /\ q.content = req[r].content /\ q.seen = req[r].seen
    BY <1>3, GotoSame DEF LockDevis, Steps
  <2>2. /\ status = "BROUILLON" /\ contentHash = Null /\ signature = Null
        /\ status' = "ENVOYE" /\ contentHash' \in Hashes /\ contentHash' # Null
        /\ UNCHANGED <<lines, totals, signature, deleted>>
    BY <1>1, <1>3, NullAssumption DEF LockDevis, SendWhere, IInv, StatusInv, RequestOK
  <2>3. StatusInv'
    BY <2>2 DEF StatusInv
  <2>4. req' \in [Requests -> Request] /\ req'[r] = q /\ \A v \in Requests \ {r}: req'[v] = req[v]
    BY <1>1, <2>1 DEF TypeOK
  <2>5. \A v \in Requests: req[v].op # "public" /\ req[v].pc # "dropSigned" /\ req[v].pc # "notify"
    BY <2>2 DEF IInv, RequestOK, Sent
  <2>6. RequestOK(r, q)'
    BY <1>1, <1>3, <2>1, <2>5 DEF RequestOK, LockDevis
  <2>7. \A v \in Requests \ {r}: RequestOK(v, req[v])'
    BY <2>4, <2>5 DEF IInv, RequestOK
  <2>8. TypeOK' /\ MailedIsSigned'
    BY <1>3, <2>2, <2>4 DEF LockDevis, IInv, TypeOK, DevisStatus, files, journal, MailedIsSigned
  <2> QED
    BY <2>3, <2>4, <2>6, <2>7, <2>8 DEF IInv
<1>4. ASSUME LockFails(r) PROVE IInv'
  <2>1. PICK q \in Request: /\ req' = [req EXCEPT ![r] = q] /\ q.op = req[r].op /\ q.pc = "dropPdf"
                            /\ q.decision = req[r].decision /\ q.ref = req[r].ref
                            /\ q.content = req[r].content /\ q.seen = req[r].seen
    BY <1>4, GotoSame DEF LockFails, Steps
  <2>2. RequestOK(r, q)
    BY <1>1, <1>4, <2>1 DEF RequestOK, LockFails
  <2> QED
    BY <1>4, <2>1, <2>2, ReadKeeps DEF LockFails
<1>5. ASSUME DropPdf(r) PROVE IInv'
  <2>1. CASE Goto(r, "catch") /\ At(r, "dropPdf")
    <3>1. PICK q \in Request: /\ req' = [req EXCEPT ![r] = q] /\ q.op = req[r].op /\ q.pc = "catch"
                              /\ q.decision = req[r].decision /\ q.ref = req[r].ref
                              /\ q.content = req[r].content /\ q.seen = req[r].seen
      BY <2>1, GotoSame DEF Steps
    <3>2. RequestOK(r, q)
      BY <1>1, <2>1, <3>1 DEF RequestOK
    <3> QED
      BY <1>1, <1>5, <3>1, <3>2, OutsideKeeps DEF DropPdf, TypeOK, journal
  <2>2. CASE Finish(r)
    BY <1>1, <1>5, <2>2, IdleFine, OutsideKeeps DEF Finish, DropPdf, TypeOK, journal
  <2> QED
    BY <1>5, <2>1, <2>2 DEF DropPdf
<1>6. ASSUME LogSend(r) PROVE IInv'
  <2>1. log' \in [AuditAction -> Nat]
    BY <1>6, LogTyped DEF LogSend, AuditAction
  <2>2. CASE Goto(r, "logSend") /\ At(r, "logLock")
    <3>1. PICK q \in Request: /\ req' = [req EXCEPT ![r] = q] /\ q.op = req[r].op /\ q.pc = "logSend"
                              /\ q.decision = req[r].decision /\ q.ref = req[r].ref
                              /\ q.content = req[r].content /\ q.seen = req[r].seen
      BY <2>2, GotoSame DEF Steps
    <3>2. RequestOK(r, q)
      BY <1>1, <2>2, <3>1 DEF RequestOK
    <3> QED
      BY <1>1, <1>6, <2>1, <3>1, <3>2, OutsideKeeps DEF LogSend, TypeOK, files
  <2>3. CASE Finish(r)
    BY <1>1, <1>6, <2>1, <2>3, IdleFine, OutsideKeeps DEF Finish, LogSend, TypeOK, files
  <2> QED
    BY <1>6, <2>2, <2>3 DEF LogSend
<1> QED
  BY <1>2, <1>3, <1>4, <1>5, <1>6 DEF SendStep

LEMMA PublicKeeps ==
  ASSUME IInv, NEW r \in Requests, PublicStep(r)
  PROVE  IInv'
<1>1. req[r] \in Request /\ RequestOK(r, req[r]) /\ TypeOK
  BY DEF IInv, TypeOK
<1>2. ASSUME VerifySigner(r) PROVE IInv'
  <2>1. CASE Goto(r, "findAgain")
    <3>1. PICK q \in Request: /\ req' = [req EXCEPT ![r] = q] /\ q.op = req[r].op /\ q.pc = "findAgain"
                              /\ q.decision = req[r].decision /\ q.ref = req[r].ref
                              /\ q.content = req[r].content /\ q.seen = req[r].seen
      BY <2>1, GotoSame DEF Steps
    <3>2. RequestOK(r, q)
      BY <1>1, <1>2, <3>1 DEF RequestOK, VerifySigner
    <3> QED
      BY <1>2, <3>1, <3>2, ReadKeeps DEF VerifySigner
  <2>2. CASE Finish(r)
    BY <1>2, <2>2, IdleFine, ReadKeeps DEF Finish, VerifySigner
  <2> QED
    BY <1>2, <2>1, <2>2 DEF VerifySigner
<1>3. ASSUME FindAgain(r) PROVE IInv'
  <2>1. CASE Goto(r, "tooLate")
    <3>1. PICK q \in Request: /\ req' = [req EXCEPT ![r] = q] /\ q.op = req[r].op /\ q.pc = "tooLate"
                              /\ q.decision = req[r].decision /\ q.ref = req[r].ref
                              /\ q.content = req[r].content /\ q.seen = req[r].seen
      BY <2>1, GotoSame DEF Steps
    <3>2. RequestOK(r, q)
      BY <1>1, <1>3, <3>1 DEF RequestOK, FindAgain
    <3> QED
      BY <1>3, <3>1, <3>2, ReadKeeps DEF FindAgain
  <2>2. CASE Finish(r)
    BY <1>3, <2>2, IdleFine, ReadKeeps DEF Finish, FindAgain
  <2>3. CASE GotoWith(r, IF Accepts(r) THEN "archiveSigned" ELSE "decide", contentHash)
    <3> DEFINE pc == IF Accepts(r) THEN "archiveSigned" ELSE "decide"
    <3>1. contentHash \in Hashes \union {Null} /\ pc \in Steps
      BY <1>1 DEF TypeOK, Steps
    <3>2. PICK q \in Request: /\ req' = [req EXCEPT ![r] = q] /\ q.op = req[r].op /\ q.pc = pc
                              /\ q.decision = req[r].decision /\ q.ref = req[r].ref
                              /\ q.content = req[r].content /\ q.seen = contentHash
      BY <2>3, <3>1, GotoFine
    <3>3. RequestOK(r, q)
      BY <1>1, <1>3, <3>2 DEF RequestOK, FindAgain, Accepts, Decisions
    <3> QED
      BY <1>3, <3>2, <3>3, ReadKeeps DEF FindAgain
  <2> QED
    BY <1>3, <2>1, <2>2, <2>3 DEF FindAgain
<1>4. ASSUME ArchiveSigned(r) PROVE IInv'
  <2>1. PICK q \in Request: /\ req' = [req EXCEPT ![r] = q] /\ q.op = req[r].op /\ q.pc = "decide"
                            /\ q.decision = req[r].decision /\ q.ref = req[r].ref
                            /\ q.content = req[r].content /\ q.seen = req[r].seen
    BY <1>4, GotoSame DEF ArchiveSigned, Steps
  <2>2. RequestOK(r, q) /\ Evidence(r) \in Signatures
    BY <1>1, <1>4, <2>1 DEF RequestOK, ArchiveSigned, Evidence, Signatures, Sent, TypeOK
  <2> QED
    BY <1>1, <1>4, <2>1, <2>2, OutsideKeeps DEF ArchiveSigned, TypeOK, journal
<1>5. ASSUME DropSigned(r) PROVE IInv'
  <2>1. PICK q \in Request: /\ req' = [req EXCEPT ![r] = q] /\ q.op = req[r].op /\ q.pc = "tooLate"
                            /\ q.decision = req[r].decision /\ q.ref = req[r].ref
                            /\ q.content = req[r].content /\ q.seen = req[r].seen
    BY <1>5, GotoSame DEF DropSigned, Steps
  <2>2. RequestOK(r, q)
    BY <1>1, <1>5, <2>1 DEF RequestOK, DropSigned
  <2> QED
    BY <1>1, <1>5, <2>1, <2>2, OutsideKeeps DEF DropSigned, DeleteSigned, TypeOK, journal
<1>6. ASSUME Notify(r) PROVE IInv'
  <2>1. Evidence(r) = signature /\ signature \in Signatures
    BY <1>1, <1>6 DEF Notify, RequestOK, Evidence, Signatures, Sent, TypeOK
  <2>2. mailed' \subseteq mailed \union {signature} /\ mailed' \subseteq Signatures
    BY <1>1, <1>6, <2>1 DEF Notify, TypeOK
  <2> QED
    BY <1>1, <1>6, <2>2, IdleFine, OutsideKeeps DEF Notify, Finish, TypeOK, files, journal
<1> QED
  BY <1>2, <1>3, <1>4, <1>5, <1>6 DEF PublicStep

\* Before a decision nobody has signed, and after it nobody can decide again.
LEMMA DecideAloneKeeps ==
  ASSUME IInv, NEW r \in Requests, Decide(r)
  PROVE  IInv'
<1>1. req[r] \in Request /\ RequestOK(r, req[r]) /\ TypeOK
  BY DEF IInv, TypeOK
<1>2. PICK q \in Request: /\ req' = [req EXCEPT ![r] = q] /\ q.op = req[r].op /\ q.pc = "logDecision"
                          /\ q.decision = req[r].decision /\ q.ref = req[r].ref
                          /\ q.content = req[r].content /\ q.seen = req[r].seen
  BY GotoSame DEF Decide, Steps
<1>3. /\ status = "ENVOYE" /\ signature = Null /\ contentHash # Null /\ mailed = {}
      /\ req[r].decision \in Decisions /\ status' = req[r].decision
      /\ UNCHANGED <<lines, totals, contentHash, deleted>>
  BY <1>1, NullAssumption DEF Decide, DecideWhere, IInv, StatusInv, RequestOK, MailedIsSigned, TypeOK
<1>4. CASE Accepts(r)
  <2>1. /\ signature' = Evidence(r) /\ Evidence(r).hash = contentHash /\ Evidence(r) \in Signatures
        /\ status' = "ACCEPTE"
    BY <1>1, <1>3, <1>4 DEF Decide, Accepts, RequestOK, Evidence, Signatures, TypeOK
  <2>2. StatusInv'
    BY <1>3, <2>1 DEF StatusInv
  <2>3. RequestOK(r, q)'
    BY <1>1, <1>2, <1>3, <1>4, <2>1 DEF RequestOK, Accepts, Evidence, Sent, Decide
  <2>4. req' \in [Requests -> Request] /\ req'[r] = q /\ \A v \in Requests \ {r}: req'[v] = req[v]
    BY <1>1, <1>2 DEF TypeOK
  <2>5. \A v \in Requests \ {r}: RequestOK(v, req[v])'
    <3> SUFFICES ASSUME NEW v \in Requests \ {r} PROVE RequestOK(v, req[v])'
      OBVIOUS
    <3>1. RequestOK(v, req[v]) /\ contentHash \in Hashes
      BY <1>1, <1>3 DEF IInv, TypeOK
    <3>2. ~(req[v].op = "public" /\ req[v].decision = "ACCEPTE" /\ req[v].pc \in {"logDecision", "notify"})
      <4>1. [by |-> v, hash |-> contentHash] # Null
        BY <3>1, NullAssumption DEF Signatures
      <4> QED
        BY <1>3, <3>1, <4>1 DEF RequestOK
    <3> QED
      BY <1>3, <2>1, <2>4, <3>1, <3>2 DEF RequestOK, Sent, DecideWhere
  <2>6. TypeOK' /\ MailedIsSigned'
    BY <1>1, <1>3, <2>1, <2>4
       DEF Decide, TypeOK, DevisStatus, Decisions, MailedIsSigned, files, journal
  <2> QED
    BY <2>2, <2>3, <2>4, <2>5, <2>6 DEF IInv
<1>5. CASE ~Accepts(r)
  <2>1. signature' = Null
    BY <1>3, <1>5 DEF Decide
  <2>2. StatusInv'
    BY <1>3, <2>1 DEF StatusInv, Decisions
  <2>3. RequestOK(r, q)'
    BY <1>1, <1>2, <1>3, <1>5 DEF RequestOK, Accepts, Sent, Decide
  <2>4. req' \in [Requests -> Request] /\ req'[r] = q /\ \A v \in Requests \ {r}: req'[v] = req[v]
    BY <1>1, <1>2 DEF TypeOK
  <2>5. \A v \in Requests \ {r}: RequestOK(v, req[v])'
    BY <1>3, <2>1, <2>4, NullAssumption DEF IInv, RequestOK, Sent, DecideWhere, Decisions
  <2>6. TypeOK' /\ MailedIsSigned'
    BY <1>1, <1>3, <2>1, <2>4
       DEF Decide, TypeOK, DevisStatus, Decisions, MailedIsSigned, files, journal
  <2> QED
    BY <2>2, <2>3, <2>4, <2>5, <2>6 DEF IInv
<1> QED
  BY <1>4, <1>5

LEMMA DecideKeeps ==
  ASSUME IInv, NEW r \in Requests, DecideStep(r)
  PROVE  IInv'
<1>1. req[r] \in Request /\ RequestOK(r, req[r]) /\ TypeOK
  BY DEF IInv, TypeOK
<1>2. ASSUME DecideFails(r) PROVE IInv'
  <2> DEFINE pc == IF Accepts(r) THEN "dropSigned" ELSE "tooLate"
  <2>1. PICK q \in Request: /\ req' = [req EXCEPT ![r] = q] /\ q.op = req[r].op /\ q.pc = pc
                            /\ q.decision = req[r].decision /\ q.ref = req[r].ref
                            /\ q.content = req[r].content /\ q.seen = req[r].seen
    BY <1>2, GotoSame DEF DecideFails, Steps
  <2>2. RequestOK(r, q)
    BY <1>1, <1>2, <2>1 DEF RequestOK, DecideFails, Accepts
  <2> QED
    BY <1>2, <2>1, <2>2, ReadKeeps DEF DecideFails
<1>3. ASSUME LogDecision(r) PROVE IInv'
  <2>1. log' \in [AuditAction -> Nat]
    BY <1>3, LogTyped DEF LogDecision, AuditAction
  <2>2. (loggedHash \subseteq Hashes \union {Null})'
    BY <1>1, <1>3 DEF LogDecision, TypeOK, Request
  <2>3. CASE Accepts(r) /\ Goto(r, "notify")
    <3>1. PICK q \in Request: /\ req' = [req EXCEPT ![r] = q] /\ q.op = req[r].op /\ q.pc = "notify"
                              /\ q.decision = req[r].decision /\ q.ref = req[r].ref
                              /\ q.content = req[r].content /\ q.seen = req[r].seen
      BY <2>3, GotoSame DEF Steps
    <3>2. RequestOK(r, q)
      BY <1>1, <1>3, <2>3, <3>1 DEF RequestOK, LogDecision, Accepts
    <3> QED
      BY <1>1, <1>3, <2>1, <2>2, <3>1, <3>2, OutsideKeeps DEF LogDecision, TypeOK, files
  <2>4. CASE Finish(r)
    BY <1>1, <1>3, <2>1, <2>2, <2>4, IdleFine, OutsideKeeps DEF Finish, LogDecision, TypeOK, files
  <2> QED
    BY <1>3, <2>3, <2>4 DEF LogDecision
<1>4. ASSUME Answer(r) PROVE IInv'
  BY <1>4, IdleFine, ReadKeeps DEF Answer, Finish
<1> QED
  BY <1>2, <1>3, <1>4, DecideAloneKeeps DEF DecideStep

LEMMA OtherKeeps ==
  ASSUME IInv, NEW r \in Requests, OtherStep(r)
  PROVE  IInv'
<1>1. req[r] \in Request /\ RequestOK(r, req[r]) /\ TypeOK
  BY DEF IInv, TypeOK
<1>2. ASSUME CheckFacture(r) PROVE IInv'
  <2>1. CASE Goto(r, "delete")
    <3>1. PICK q \in Request: /\ req' = [req EXCEPT ![r] = q] /\ q.op = req[r].op /\ q.pc = "delete"
                              /\ q.decision = req[r].decision /\ q.ref = req[r].ref
                              /\ q.content = req[r].content /\ q.seen = req[r].seen
      BY <2>1, GotoSame DEF Steps
    <3>2. RequestOK(r, q)
      BY <1>1, <1>2, <3>1 DEF RequestOK, CheckFacture
    <3> QED
      BY <1>2, <3>1, <3>2, ReadKeeps DEF CheckFacture
  <2>2. CASE Finish(r)
    BY <1>2, <2>2, IdleFine, ReadKeeps DEF Finish, CheckFacture
  <2> QED
    BY <1>2, <2>1, <2>2 DEF CheckFacture
<1>3. ASSUME DeleteDevis(r) PROVE IInv'
  <2>1. CASE At(r, "delete") /\ deleted' = TRUE /\ Goto(r, "logDelete") /\ UNCHANGED log
    <3>1. PICK q \in Request: /\ req' = [req EXCEPT ![r] = q] /\ q.op = req[r].op /\ q.pc = "logDelete"
                              /\ q.decision = req[r].decision /\ q.ref = req[r].ref
                              /\ q.content = req[r].content /\ q.seen = req[r].seen
      BY <2>1, GotoSame DEF Steps
    <3>2. UNCHANGED <<status, lines, totals, contentHash, signature>>
      BY <1>3 DEF DeleteDevis
    <3>3. req' \in [Requests -> Request] /\ req'[r] = q /\ \A v \in Requests \ {r}: req'[v] = req[v]
      BY <1>1, <3>1 DEF TypeOK
    <3>4. RequestOK(r, q)'
      BY <1>1, <2>1, <3>1, <3>2 DEF RequestOK, Sent
    <3>5. \A v \in Requests \ {r}: RequestOK(v, req[v])'
      BY <2>1, <3>2, <3>3 DEF IInv, RequestOK, Sent, DecideWhere, Live
    <3>6. TypeOK' /\ MailedIsSigned' /\ StatusInv'
      BY <1>1, <1>3, <2>1, <3>2, <3>3
         DEF DeleteDevis, IInv, TypeOK, StatusInv, MailedIsSigned, files
    <3> QED
      BY <3>3, <3>4, <3>5, <3>6 DEF IInv
  <2>2. CASE At(r, "logDelete") /\ Log("SOFT_DELETE") /\ Finish(r) /\ UNCHANGED deleted
    <3>1. log' \in [AuditAction -> Nat]
      BY <2>2, LogTyped DEF AuditAction
    <3> QED
      BY <1>1, <1>3, <2>2, <3>1, IdleFine, OutsideKeeps DEF Finish, DeleteDevis, TypeOK, files, row
  <2> QED
    BY <1>3, <2>1, <2>2 DEF DeleteDevis
<1>4. ASSUME CreateFacture(r) PROVE IInv'
  <2>1. CASE Goto(r, "logConvert") /\ facture' = req[r].seen
              /\ status' = IF status = "ACCEPTE" /\ Live THEN "FACTURE" ELSE status
    <3>1. PICK q \in Request: /\ req' = [req EXCEPT ![r] = q] /\ q.op = req[r].op /\ q.pc = "logConvert"
                              /\ q.decision = req[r].decision /\ q.ref = req[r].ref
                              /\ q.content = req[r].content /\ q.seen = req[r].seen
      BY <2>1, GotoSame DEF Steps
    <3>2. UNCHANGED <<lines, totals, contentHash, signature, deleted>>
      BY <1>4 DEF CreateFacture
    <3>3. StatusInv' /\ status' \in DevisStatus
      BY <1>1, <2>1, <3>2 DEF IInv, StatusInv, TypeOK, DevisStatus
    <3>4. req' \in [Requests -> Request] /\ req'[r] = q /\ \A v \in Requests \ {r}: req'[v] = req[v]
      BY <1>1, <3>1 DEF TypeOK
    <3>5. RequestOK(r, q)'
      BY <1>1, <1>4, <3>1, <3>2 DEF RequestOK, Sent, CreateFacture
    <3>6. \A v \in Requests \ {r}: RequestOK(v, req[v])'
      BY <2>1, <3>2, <3>4 DEF IInv, RequestOK, Sent, DecideWhere, Live
    <3>7. facture' \in Hashes
      BY <1>1, <1>4, <2>1 DEF CreateFacture, RequestOK
    <3>8. TypeOK' /\ MailedIsSigned'
      BY <1>1, <1>4, <3>2, <3>3, <3>4, <3>7
         DEF CreateFacture, IInv, TypeOK, MailedIsSigned, files, journal
    <3> QED
      BY <3>3, <3>4, <3>5, <3>6, <3>8 DEF IInv
  <2>2. CASE ~DevisIdFree /\ Finish(r) /\ UNCHANGED <<status, facture>>
    BY <1>4, <2>2, IdleFine, ReadKeeps DEF Finish, CreateFacture, Reads, row
  <2> QED
    BY <1>4, <2>1, <2>2 DEF CreateFacture
<1>5. ASSUME LogConvert(r) PROVE IInv'
  <2>1. log' \in [AuditAction -> Nat]
    BY <1>5, LogTyped DEF LogConvert, AuditAction
  <2>2. CASE At(r, "logConvert") /\ Goto(r, "logCreate")
    <3>1. PICK q \in Request: /\ req' = [req EXCEPT ![r] = q] /\ q.op = req[r].op /\ q.pc = "logCreate"
                              /\ q.decision = req[r].decision /\ q.ref = req[r].ref
                              /\ q.content = req[r].content /\ q.seen = req[r].seen
      BY <2>2, GotoSame DEF Steps
    <3>2. RequestOK(r, q)
      BY <1>1, <2>2, <3>1 DEF RequestOK
    <3> QED
      BY <1>1, <1>5, <2>1, <3>1, <3>2, OutsideKeeps DEF LogConvert, TypeOK, files
  <2>3. CASE Finish(r)
    BY <1>1, <1>5, <2>1, <2>3, IdleFine, OutsideKeeps DEF Finish, LogConvert, TypeOK, files
  <2> QED
    BY <1>5, <2>2, <2>3 DEF LogConvert
<1> QED
  BY <1>2, <1>3, <1>4, <1>5 DEF OtherStep

LEMMA FaultKeeps ==
  ASSUME IInv, NEW r \in Requests, Fault(r)
  PROVE  IInv'
<1>1. req[r] \in Request /\ RequestOK(r, req[r])
  BY DEF IInv, TypeOK
<1>2. Reads
  BY DEF Fault, StorageFails, DatabaseFails, Die
<1>3. CASE Finish(r)
  BY <1>2, <1>3, IdleFine, ReadKeeps DEF Finish
<1>4. CASE Goto(r, "catch")
  <2>1. PICK q \in Request: /\ req' = [req EXCEPT ![r] = q] /\ q.op = req[r].op /\ q.pc = "catch"
                            /\ q.decision = req[r].decision /\ q.ref = req[r].ref
                            /\ q.content = req[r].content /\ q.seen = req[r].seen
    BY <1>4, GotoSame DEF Steps
  <2>2. RequestOK(r, q)
    BY <1>1, <2>1 DEF RequestOK
  <2> QED
    BY <1>2, <2>1, <2>2, ReadKeeps
<1> QED
  BY <1>3, <1>4 DEF Fault, StorageFails, DatabaseFails, Die, Reject

LEMMA InvNext == IInv /\ [Next]_vars => IInv'
<1>1. ASSUME IInv, UNCHANGED vars PROVE IInv'
  BY <1>1 DEF vars, row, files, journal, IInv, TypeOK, StatusInv, MailedIsSigned, RequestOK,
              Sent, DecideWhere, Live
<1>2. ASSUME IInv, Expire PROVE IInv'
  BY <1>2 DEF Expire, row, files, journal, IInv, TypeOK, StatusInv, MailedIsSigned, RequestOK,
              Sent, DecideWhere, Live
<1> QED
  BY <1>1, <1>2, BeginKeeps, UpdateKeeps, SendKeeps, PublicKeeps, DecideKeeps, OtherKeeps, FaultKeeps
     DEF Next, Step

\* The inductive invariant holds in every reachable state: among the rest, what a signer
\* read and hashed is still the quote when the signature is recorded.
THEOREM Invariance == Spec => []IInv
  BY InvInit, InvNext, PTL DEF Spec

\* The signature the quote holds binds the hash set when it was sent, on a quote that is
\* accepted or invoiced, whoever else signs, decides or deletes meanwhile.
THEOREM SignatureBindsHash == Spec => []SignatureBinds
<1>1. IInv => SignatureBinds
  BY DEF IInv, StatusInv, SignatureBinds, Sent
<1> QED
  BY <1>1, Invariance, PTL

\* Of the clients who race to sign, only the one whose signature the quote holds gets the
\* signed copy by e-mail.
THEOREM CopyToSignerOnly == Spec => []MailedIsSigned
  BY Invariance, PTL DEF IInv

\* A step that leaves the columns of the quote alone moves nothing.
LEMMA SameRow ==
  ASSUME IInv, UNCHANGED <<status, contentHash, signature>>
  PROVE  /\ <<status, status'>> \in {<<s, s>> : s \in DevisStatus}
         /\ Sent => contentHash' = contentHash
         /\ signature # Null => signature' = signature
  BY DEF IInv, TypeOK

LEMMA StatusNext == IInv /\ [Next]_vars => [StatusStep]_vars
<1> SUFFICES ASSUME IInv, [Next]_vars PROVE StatusStep
  OBVIOUS
<1>1. CASE UNCHANGED <<status, contentHash, signature>>
  BY <1>1, SameRow DEF StatusStep
<1>2. ASSUME NEW r \in Requests, LockDevis(r) PROVE StatusStep
  BY <1>2, NullAssumption DEF LockDevis, SendWhere, StatusStep, Sent, IInv, StatusInv
<1>3. ASSUME NEW r \in Requests, Decide(r) PROVE StatusStep
  <2>1. req[r].decision \in Decisions /\ signature = Null /\ status = "ENVOYE"
    BY <1>3, NullAssumption DEF Decide, DecideWhere, IInv, TypeOK, RequestOK, StatusInv
  <2> QED
    BY <1>3, <2>1 DEF Decide, StatusStep, Decisions
<1>4. ASSUME NEW r \in Requests, CreateFacture(r) PROVE StatusStep
  BY <1>4 DEF CreateFacture, StatusStep, IInv, TypeOK
<1>5. CASE UNCHANGED vars
  BY <1>1, <1>5 DEF vars, row
<1>6. CASE Expire
  BY <1>1, <1>6 DEF Expire, row
<1>7. ASSUME NEW r \in Requests, Begin(r) \/ Fault(r) PROVE StatusStep
  <2>1. Reads
    BY <1>7 DEF Begin, Fault, StorageFails, DatabaseFails, Die, Start, BeginUpdate, BeginSend,
                BeginPublic, BeginDashboard, BeginDelete, BeginConvert
  <2> QED
    BY <1>1, <2>1 DEF Reads, row
<1>8. ASSUME NEW r \in Requests, Step(r) PROVE StatusStep
  <2>1. \/ UNCHANGED <<status, contentHash, signature>>
        \/ LockDevis(r) \/ Decide(r) \/ CreateFacture(r)
    BY <1>8 DEF Step, UpdateStep, SendStep, PublicStep, DecideStep, OtherStep, Reads, row,
       SnapshotLines, DeleteLines, ReplaceLines, ArchivePdf, LockFails, DropPdf, LogSend,
       VerifySigner, FindAgain, ArchiveSigned, DropSigned, Notify, DecideFails, LogDecision,
       Answer, CheckFacture, DeleteDevis, LogConvert
  <2> QED
    BY <1>1, <1>2, <1>3, <1>4, <1>8, <2>1
<1> QED
  BY <1>5, <1>6, <1>7, <1>8 DEF Next

\* Whatever races, the status only moves forward, and the hash and the signature of a
\* quote, once set, never change.
THEOREM StatusMovesForward == Spec => StatusMoves
  BY Invariance, StatusNext, PTL DEF Spec, StatusMoves

\* The step that a move leads to, and the requests it leaves alone.
LEMMA MoveTo ==
  ASSUME IInv, NEW r \in Requests
  PROVE  /\ \A pc \in Steps: Goto(r, pc) =>
               req'[r].pc = pc /\ \A v \in Requests \ {r}: req'[v] = req[v]
         /\ \A pc \in Steps, seen \in Hashes \union {Null}: GotoWith(r, pc, seen) =>
               req'[r].pc = pc /\ \A v \in Requests \ {r}: req'[v] = req[v]
         /\ Finish(r) => req'[r].pc = "idle" /\ \A v \in Requests \ {r}: req'[v] = req[v]
<1>1. req \in [Requests -> Request]
  BY DEF IInv, TypeOK
<1>2. ASSUME NEW pc \in Steps, Goto(r, pc)
      PROVE  req'[r].pc = pc /\ \A v \in Requests \ {r}: req'[v] = req[v]
  BY <1>1, <1>2, GotoSame
<1>3. ASSUME NEW pc \in Steps, NEW seen \in Hashes \union {Null}, GotoWith(r, pc, seen)
      PROVE  req'[r].pc = pc /\ \A v \in Requests \ {r}: req'[v] = req[v]
  BY <1>1, <1>3, GotoFine
<1>4. ASSUME Finish(r)
      PROVE  req'[r].pc = "idle" /\ \A v \in Requests \ {r}: req'[v] = req[v]
  BY <1>1, <1>4 DEF Finish, Idle
<1> QED
  BY <1>2, <1>3, <1>4

\* A client is told "too late" by three steps only, each of which has just seen that the
\* quote cannot be decided on, provided the link names the quote by its token.
LEMMA ToldTooLate ==
  ASSUME Refs \subseteq {"token"}, IInv, NEW r \in Requests, Begin(r) \/ Step(r) \/ Fault(r),
         NEW v \in Requests, req'[v].pc = "tooLate", req'[v].op = "public"
  PROVE  req'[v] = req[v] \/ (~DecideWhere /\ UNCHANGED row)
<1> SUFFICES ASSUME ~(~DecideWhere /\ UNCHANGED row) PROVE req'[v] = req[v]
  OBVIOUS
<1> DEFINE Elsewhere == req'[r].pc # "tooLate" /\ \A w \in Requests \ {r}: req'[w] = req[w]
<1>1. TypeOK /\ req \in [Requests -> Request] /\ req[r] \in Request /\ RequestOK(r, req[r])
  BY DEF IInv, TypeOK
<1>2. Elsewhere => req'[v] = req[v]
  OBVIOUS
<1>3. CASE Begin(r)
  <2>1. ASSUME NEW c \in Contents, BeginUpdate(r, c) PROVE Elsewhere
    BY <1>1, <2>1 DEF BeginUpdate, Start, Idle
  <2>2. ASSUME BeginSend(r) PROVE Elsewhere
    BY <1>1, <2>2 DEF BeginSend, Start, Idle
  <2>3. ASSUME NEW d \in Decisions, NEW ref \in Refs, BeginPublic(r, d, ref) PROVE Elsewhere
    BY <1>1, <2>3 DEF BeginPublic, Start, Idle
  <2>4. ASSUME NEW d \in Decisions, BeginDashboard(r, d) PROVE Elsewhere
    BY <1>1, <2>4 DEF BeginDashboard, Start, Idle
  <2>5. ASSUME BeginDelete(r) \/ BeginConvert(r) PROVE Elsewhere
    BY <1>1, <2>5 DEF BeginDelete, BeginConvert, Start, Idle
  <2> QED
    BY <1>2, <1>3, <2>1, <2>2, <2>3, <2>4, <2>5 DEF Begin
<1>4. CASE Fault(r)
  BY <1>2, <1>4, MoveTo DEF Fault, StorageFails, DatabaseFails, Die, Reject, Steps
<1>5. CASE UpdateStep(r)
  <2>1. BuildDevisPayload \in Hashes
    BY <1>1 DEF TypeOK, BuildDevisPayload, Hashes
  <2>2. CASE SnapshotLines(r)
    BY <1>2, <2>1, <2>2, MoveTo DEF SnapshotLines, Steps
  <2>3. CASE DeleteLines(r)
    <3>1. req[r].seen \in Hashes
      BY <1>1, <2>3 DEF DeleteLines, RequestOK
    <3>2. [req[r].seen EXCEPT !.lines = @ \intersect lines] \in Hashes
      BY <3>1 DEF Hashes
    <3> QED
      BY <1>2, <2>3, <3>2, MoveTo DEF DeleteLines, Steps
  <2>4. CASE ReplaceLines(r)
    BY <1>2, <2>4, MoveTo DEF ReplaceLines
  <2> QED
    BY <1>5, <2>2, <2>3, <2>4 DEF UpdateStep
<1>6. CASE SendStep(r)
  BY <1>2, <1>6, MoveTo DEF SendStep, ArchivePdf, LockDevis, LockFails, DropPdf, LogSend, Steps
<1>7. CASE OtherStep(r)
  BY <1>2, <1>7, MoveTo DEF OtherStep, CheckFacture, DeleteDevis, CreateFacture, LogConvert, Steps
<1>8. CASE PublicStep(r)
  <2>1. CASE VerifySigner(r)
    BY <1>2, <2>1, MoveTo DEF VerifySigner, Steps
  <2>2. CASE FindAgain(r)
    <3>1. req[r].ref = "token"
      BY <1>1, <2>2 DEF FindAgain, RequestOK
    <3>2. UNCHANGED row
      BY <2>2 DEF FindAgain, Reads
    <3>3. DecideWhere /\ ShareTokenLookupWhere(req[r].ref)
      BY <3>1, <3>2 DEF ShareTokenLookupWhere
    <3>4. contentHash \in Hashes \union {Null}
      BY <1>1 DEF TypeOK
    <3>5. \/ Finish(r) \/ GotoWith(r, "archiveSigned", contentHash) \/ GotoWith(r, "decide", contentHash)
      BY <2>2, <3>3 DEF FindAgain
    <3> QED
      BY <1>2, <3>4, <3>5, MoveTo DEF Steps
  <2>3. CASE ArchiveSigned(r)
    BY <1>2, <2>3, MoveTo DEF ArchiveSigned, Steps
  <2>4. CASE DropSigned(r)
    BY <1>1, <2>4 DEF DropSigned, RequestOK
  <2>5. CASE Notify(r)
    BY <1>2, <2>5, MoveTo DEF Notify
  <2> QED
    BY <1>8, <2>1, <2>2, <2>3, <2>4, <2>5 DEF PublicStep
<1>9. CASE DecideStep(r)
  <2>1. CASE DecideFails(r)
    BY <2>1 DEF DecideFails, Reads
  <2>2. CASE Decide(r) \/ LogDecision(r) \/ Answer(r)
    BY <1>2, <2>2, MoveTo DEF Decide, LogDecision, Answer, Steps
  <2> QED
    BY <1>9, <2>1, <2>2 DEF DecideStep
<1> QED
  BY <1>3, <1>4, <1>5, <1>6, <1>7, <1>8, <1>9 DEF Step

\* A quote deleted stays deleted.
LEMMA DeletedStays == ASSUME [Next]_vars, deleted PROVE deleted'
<1>1. ASSUME NEW r \in Requests, Begin(r) \/ Fault(r) PROVE UNCHANGED deleted
  BY <1>1 DEF Begin, Fault, StorageFails, DatabaseFails, Die, Start, BeginUpdate, BeginSend,
              BeginPublic, BeginDashboard, BeginDelete, BeginConvert, Reads, row
<1>2. ASSUME NEW r \in Requests, Step(r) PROVE deleted' = deleted \/ deleted' = TRUE
  BY <1>2 DEF Step, UpdateStep, SendStep, PublicStep, DecideStep, OtherStep, Reads, row,
     SnapshotLines, DeleteLines, ReplaceLines, ArchivePdf, LockDevis, LockFails, DropPdf, LogSend,
     VerifySigner, FindAgain, ArchiveSigned, DropSigned, Notify, Decide, DecideFails, LogDecision,
     Answer, CheckFacture, DeleteDevis, CreateFacture, LogConvert
<1> QED
  BY <1>1, <1>2 DEF Next, vars, row, Expire

LEMMA TooLateNext ==
  ASSUME Refs \subseteq {"token"}, IInv, TooLateIsTrue, [Next]_vars
  PROVE  TooLateIsTrue'
<1> SUFFICES ASSUME NEW v \in Requests, req'[v].op = "public", req'[v].pc = "tooLate"
             PROVE  ~DecideWhere'
  BY DEF TooLateIsTrue, Running
<1>1. CASE req'[v] = req[v]
  <2>1. ~DecideWhere
    BY <1>1 DEF TooLateIsTrue, Running
  <2>2. status # "BROUILLON"
    BY <1>1 DEF IInv, RequestOK, StatusInv, Sent
  <2>3. [StatusStep]_vars
    BY StatusNext
  <2>4. status' = "ENVOYE" => status = "ENVOYE"
    BY <2>2, <2>3 DEF StatusStep, vars, row
  <2> QED
    BY <2>1, <2>4, DeletedStays DEF DecideWhere, Live
<1>2. CASE req'[v] # req[v]
  <2>1. PICK r \in Requests: Begin(r) \/ Step(r) \/ Fault(r)
    BY <1>2 DEF Next, Expire, vars
  <2>2. ~DecideWhere /\ UNCHANGED row
    BY <1>2, <2>1, ToldTooLate
  <2> QED
    BY <2>2 DEF row, DecideWhere, Live
<1> QED
  BY <1>1, <1>2

\* If every link named the quote by its token, no client would be told "already processed"
\* of a quote that can still be decided on.  The run "slug" shows what a readable link does.
THEOREM TokenLinkTooLate ==
  ASSUME Refs \subseteq {"token"}
  PROVE  Spec => []TooLateIsTrue
<1>1. Init => TooLateIsTrue
  BY DEF Init, TooLateIsTrue, Running, Idle
<1>2. IInv /\ TooLateIsTrue /\ [Next]_vars => TooLateIsTrue'
  BY TooLateNext
<1> QED
  BY <1>1, <1>2, Invariance, PTL DEF Spec

-----------------------------------------------------------------------------
(* The journal of the quote.  One request at a time has the entries of the  *)
(* send to write, one those of the decision, one those of the conversion:  *)
(* the guarded updates and the unique index let one through.               *)

\* What a request that moves on keeps.
Keeps(r) == req'[r].op = req[r].op /\ req'[r].decision = req[r].decision /\ req'[r].seen = req[r].seen
Alone(r) == \A v \in Requests \ {r}: req'[v] = req[v]

LEMMA Moves ==
  ASSUME IInv, NEW r \in Requests
  PROVE  /\ \A pc \in Steps: Goto(r, pc) => req'[r].pc = pc /\ Keeps(r) /\ Alone(r)
         /\ \A pc \in Steps, seen \in Hashes \union {Null}: GotoWith(r, pc, seen) =>
               /\ req'[r].pc = pc /\ req'[r].op = req[r].op /\ req'[r].decision = req[r].decision
               /\ req'[r].seen = seen /\ Alone(r)
         /\ Finish(r) => req'[r].pc = "idle" /\ req'[r].op = "none" /\ Alone(r)
<1>1. req \in [Requests -> Request]
  BY DEF IInv, TypeOK
<1>2. ASSUME NEW pc \in Steps, Goto(r, pc) PROVE req'[r].pc = pc /\ Keeps(r) /\ Alone(r)
  BY <1>1, <1>2, GotoSame DEF Keeps, Alone
<1>3. ASSUME NEW pc \in Steps, NEW seen \in Hashes \union {Null}, GotoWith(r, pc, seen)
      PROVE  /\ req'[r].pc = pc /\ req'[r].op = req[r].op /\ req'[r].decision = req[r].decision
             /\ req'[r].seen = seen /\ Alone(r)
  BY <1>1, <1>3, GotoFine DEF Alone
<1>4. ASSUME Finish(r) PROVE req'[r].pc = "idle" /\ req'[r].op = "none" /\ Alone(r)
  BY <1>1, <1>4 DEF Finish, Idle, Alone
<1> QED BY <1>2, <1>3, <1>4

SendLog ==
    /\ \A r \in Requests:
          /\ At(r, "logLock") => Sent /\ log["LOCK"] = 0
          /\ At(r, "logSend") => Sent /\ log["LOCK"] = 1 /\ log["SEND"] = 0
    /\ \A r, s \in Requests:
          req[r].pc \in {"logLock", "logSend"} /\ req[s].pc \in {"logLock", "logSend"} => r = s

DecisionLog ==
    /\ \A r \in Requests:
          /\ req[r].pc \in {"decide", "logDecision"} => req[r].seen \in {contentHash, Null}
          /\ At(r, "logDecision") =>
                /\ Sent /\ log["ACCEPT"] = 0 /\ log["REFUSE"] = 0
                /\ req[r].decision = "ACCEPTE" => status \in {"ACCEPTE", "FACTURE"}
                /\ req[r].decision = "REFUSE" => status = "REFUSE"
    /\ \A r, s \in Requests: At(r, "logDecision") /\ At(s, "logDecision") => r = s

ConvertLog ==
    /\ \A r \in Requests:
          /\ At(r, "logConvert") => facture # Null /\ log["CONVERT_TO_FACTURE"] = 0
          /\ At(r, "logCreate") =>
                facture # Null /\ log["CONVERT_TO_FACTURE"] = 1 /\ log["CREATE"] = 0
    /\ \A r, s \in Requests:
          req[r].pc \in {"logConvert", "logCreate"} /\ req[s].pc \in {"logConvert", "logCreate"} => r = s

LogInv == LogTruthful /\ SendLog /\ DecisionLog /\ ConvertLog

LogSteps == {"logLock", "logSend", "logDecision", "logConvert", "logCreate"}

\* The steps that neither report nor change what is reported.
Silent ==
    /\ UNCHANGED <<status, contentHash, facture, loggedHash>>
    /\ \A a \in AuditAction \ {"SOFT_DELETE"}: log'[a] = log[a]
    /\ \A s \in Requests:
          /\ req'[s].pc \in LogSteps => req'[s] = req[s]
          /\ req'[s].pc = "decide" => req'[s] = req[s] \/ req'[s].seen \in {contentHash, Null}

LEMMA SilentKeeps ==
  ASSUME LogInv, Silent
  PROVE  LogInv'
<1> USE DEF Silent, LogSteps, AuditAction, Sent
<1>1. LogTruthful'
  BY DEF LogInv, LogTruthful
<1>2. SendLog'
  BY DEF LogInv, SendLog
<1>3. DecisionLog'
  BY DEF LogInv, DecisionLog
<1>4. ConvertLog'
  BY DEF LogInv, ConvertLog
<1> QED BY <1>1, <1>2, <1>3, <1>4 DEF LogInv

\* The counters of the journal are numbers, and Log counts one.
LEMMA LogCounts ==
  ASSUME IInv
  PROVE  /\ \A a \in AuditAction: log[a] \in Nat
         /\ \A a \in AuditAction: Log(a) =>
               log'[a] = log[a] + 1 /\ \A b \in AuditAction \ {a}: log'[b] = log[b]
  BY DEF IInv, TypeOK, Log

\* Nothing was reported of a draft.
LEMMA DraftUnreported ==
  ASSUME IInv, LogInv, ~Sent
  PROVE  /\ log["LOCK"] = 0 /\ log["SEND"] = 0 /\ log["ACCEPT"] = 0 /\ log["REFUSE"] = 0
         /\ loggedHash \subseteq {Null}
         /\ \A r \in Requests: req[r].pc \notin {"logLock", "logSend", "logDecision"}
         /\ \A r \in Requests: At(r, "decide") => req[r].seen = Null
<1>1. /\ log["LOCK"] \in Nat /\ log["SEND"] \in Nat /\ log["ACCEPT"] \in Nat /\ log["REFUSE"] \in Nat
  BY LogCounts DEF AuditAction
<1>2. log["LOCK"] = 0 /\ log["SEND"] = 0 /\ log["ACCEPT"] = 0 /\ log["REFUSE"] = 0
  <2>1. ~(log["LOCK"] + log["ACCEPT"] + log["REFUSE"] > 0) /\ log["SEND"] <= log["LOCK"]
    BY DEF LogInv, LogTruthful
  <2> QED BY <1>1, <2>1
<1>3. loggedHash \subseteq {Null}
  BY DEF LogInv, LogTruthful, Sent
<1>4. \A r \in Requests: req[r].pc \notin {"logLock", "logSend", "logDecision"}
  BY DEF LogInv, SendLog, DecisionLog
<1>5. \A r \in Requests: At(r, "decide") => req[r].seen = Null
  BY DEF LogInv, DecisionLog, Sent
<1> QED BY <1>2, <1>3, <1>4, <1>5

LEMMA LockLogs ==
  ASSUME IInv, LogInv, NEW r \in Requests, LockDevis(r)
  PROVE  LogInv'
<1> USE DEF AuditAction
<1>1. status = "BROUILLON" /\ ~Sent /\ status' = "ENVOYE" /\ UNCHANGED <<facture, log, loggedHash>>
  BY DEF LockDevis, SendWhere, IInv, StatusInv, Sent, journal
<1>2. Sent'
  BY <1>1, NullAssumption DEF LockDevis, IInv, RequestOK, Sent
<1>3. req'[r].pc = "logLock" /\ Alone(r)
  BY Moves DEF LockDevis, Steps
<1>4. /\ log["LOCK"] = 0 /\ log["SEND"] = 0 /\ log["ACCEPT"] = 0 /\ log["REFUSE"] = 0
      /\ loggedHash \subseteq {Null}
      /\ \A s \in Requests: req[s].pc \notin {"logLock", "logSend", "logDecision"}
      /\ \A s \in Requests: At(s, "decide") => req[s].seen = Null
  BY <1>1, DraftUnreported
<1>5. LogTruthful'
  BY <1>1, <1>2, <1>4 DEF LogInv, LogTruthful
<1>6. SendLog'
  BY <1>1, <1>2, <1>3, <1>4 DEF SendLog, Alone
<1>7. DecisionLog'
  BY <1>1, <1>3, <1>4 DEF DecisionLog, Alone
<1>8. ConvertLog'
  BY <1>1, <1>3 DEF LogInv, ConvertLog, Alone
<1> QED BY <1>5, <1>6, <1>7, <1>8 DEF LogInv

LEMMA DecideLogs ==
  ASSUME IInv, LogInv, NEW r \in Requests, Decide(r)
  PROVE  LogInv'
<1> USE DEF AuditAction
<1>1. /\ status = "ENVOYE" /\ Sent /\ req[r].decision \in Decisions /\ status' = req[r].decision
      /\ UNCHANGED <<contentHash, facture, log, loggedHash>>
  BY DEF Decide, DecideWhere, IInv, StatusInv, RequestOK, Sent, journal
<1>2. req[r].pc = "decide" /\ req'[r].pc = "logDecision" /\ Keeps(r) /\ Alone(r)
  BY Moves DEF Decide, Steps
<1>3. log["ACCEPT"] = 0 /\ log["REFUSE"] = 0
  <2>1. log["ACCEPT"] \in Nat /\ log["REFUSE"] \in Nat
    BY LogCounts
  <2> QED BY <1>1, <2>1 DEF LogInv, LogTruthful
<1>4. \A s \in Requests: ~At(s, "logDecision")
  <2>1. \A s \in Requests: At(s, "logDecision") => req[s].decision \in Decisions
    BY DEF IInv, RequestOK
  <2> QED BY <1>1, <2>1 DEF LogInv, DecisionLog, Decisions
<1>5. LogTruthful'
  BY <1>1, <1>3 DEF LogInv, LogTruthful, Sent
<1>6. SendLog'
  BY <1>1, <1>2 DEF LogInv, SendLog, Alone, Sent
<1>7. DecisionLog'
  BY <1>1, <1>2, <1>3, <1>4 DEF LogInv, DecisionLog, Alone, Keeps, Sent
<1>8. ConvertLog'
  BY <1>1, <1>2 DEF LogInv, ConvertLog, Alone
<1> QED BY <1>5, <1>6, <1>7, <1>8 DEF LogInv

LEMMA CreateLogs ==
  ASSUME IInv, LogInv, NEW r \in Requests, CreateFacture(r), DevisIdFree
  PROVE  LogInv'
<1> USE DEF AuditAction
<1>1. /\ facture = Null /\ facture' # Null /\ UNCHANGED <<contentHash, log, loggedHash>>
      /\ status' = status \/ (status = "ACCEPTE" /\ status' = "FACTURE")
  BY NullAssumption DEF CreateFacture, DevisIdFree, IInv, RequestOK, journal
<1>2. req'[r].pc = "logConvert" /\ Alone(r)
  BY Moves DEF CreateFacture, DevisIdFree, Steps
<1>3. log["CONVERT_TO_FACTURE"] = 0 /\ log["CREATE"] = 0
  <2>1. log["CONVERT_TO_FACTURE"] \in Nat /\ log["CREATE"] \in Nat
    BY LogCounts
  <2> QED BY <1>1, <2>1 DEF LogInv, LogTruthful
<1>4. \A s \in Requests: req[s].pc \notin {"logConvert", "logCreate"}
  BY <1>1 DEF LogInv, ConvertLog
<1>5. LogTruthful'
  BY <1>1, <1>3 DEF LogInv, LogTruthful, Sent
<1>6. SendLog'
  BY <1>1, <1>2 DEF LogInv, SendLog, Alone, Sent
<1>7. DecisionLog'
  BY <1>1, <1>2 DEF LogInv, DecisionLog, Alone, Sent
<1>8. ConvertLog'
  BY <1>1, <1>2, <1>3, <1>4 DEF ConvertLog, Alone
<1> QED BY <1>5, <1>6, <1>7, <1>8 DEF LogInv

\* The entries themselves.
LEMMA SendEntries ==
  ASSUME IInv, LogInv, NEW r \in Requests, LogSend(r)
  PROVE  LogInv'
<1> USE DEF AuditAction
<1>1. UNCHANGED <<status, contentHash, facture, loggedHash>>
  BY DEF LogSend, row
<1>2. CASE At(r, "logLock") /\ Log("LOCK") /\ Goto(r, "logSend")
  <2>1. req'[r].pc = "logSend" /\ Alone(r)
    BY <1>2, Moves DEF Steps
  <2>2. log'["LOCK"] = log["LOCK"] + 1 /\ \A b \in AuditAction \ {"LOCK"}: log'[b] = log[b]
    BY <1>2, LogCounts
  <2>3. Sent /\ log["LOCK"] = 0 /\ log["SEND"] = 0
    <3>1. log["SEND"] \in Nat
      BY LogCounts
    <3> QED BY <1>2, <3>1 DEF LogInv, LogTruthful, SendLog
  <2>4. \A s \in Requests \ {r}: req[s].pc \notin {"logLock", "logSend"}
    BY <1>2 DEF LogInv, SendLog
  <2>5. LogTruthful'
    BY <1>1, <2>2, <2>3 DEF LogInv, LogTruthful, Sent
  <2>6. SendLog'
    BY <1>1, <2>1, <2>2, <2>3, <2>4 DEF SendLog, Alone, Sent
  <2>7. DecisionLog' /\ ConvertLog'
    BY <1>1, <2>1, <2>2 DEF LogInv, DecisionLog, ConvertLog, Alone, Sent
  <2> QED BY <2>5, <2>6, <2>7 DEF LogInv
<1>3. CASE At(r, "logSend") /\ Log("SEND") /\ Finish(r)
  <2>1. req'[r].pc = "idle" /\ Alone(r)
    BY <1>3, Moves
  <2>2. log'["SEND"] = log["SEND"] + 1 /\ \A b \in AuditAction \ {"SEND"}: log'[b] = log[b]
    BY <1>3, LogCounts
  <2>3. Sent /\ log["LOCK"] = 1 /\ log["SEND"] = 0
    BY <1>3 DEF LogInv, SendLog
  <2>4. \A s \in Requests \ {r}: req[s].pc \notin {"logLock", "logSend"}
    BY <1>3 DEF LogInv, SendLog
  <2>5. LogTruthful'
    BY <1>1, <2>2, <2>3 DEF LogInv, LogTruthful, Sent
  <2>6. SendLog'
    BY <1>1, <2>1, <2>2, <2>3, <2>4 DEF SendLog, Alone, Sent
  <2>7. DecisionLog' /\ ConvertLog'
    BY <1>1, <2>1, <2>2 DEF LogInv, DecisionLog, ConvertLog, Alone, Sent
  <2> QED BY <2>5, <2>6, <2>7 DEF LogInv
<1> QED BY <1>2, <1>3 DEF LogSend

LEMMA DecisionEntry ==
  ASSUME IInv, LogInv, NEW r \in Requests, LogDecision(r)
  PROVE  LogInv'
<1> USE DEF AuditAction
<1>1. UNCHANGED <<status, contentHash, facture>> /\ loggedHash' = loggedHash \union {req[r].seen}
  BY DEF LogDecision, row
<1>2. req[r].pc = "logDecision" /\ req'[r].pc \in {"notify", "idle"} /\ Alone(r)
  BY Moves DEF LogDecision, Steps
<1>3. /\ Sent /\ log["ACCEPT"] = 0 /\ log["REFUSE"] = 0 /\ req[r].seen \in {contentHash, Null}
      /\ req[r].decision = "ACCEPTE" => status \in {"ACCEPTE", "FACTURE"}
      /\ req[r].decision = "REFUSE" => status = "REFUSE"
  BY <1>2 DEF LogInv, DecisionLog
<1>4. \A s \in Requests \ {r}: ~At(s, "logDecision")
  BY <1>2 DEF LogInv, DecisionLog
<1>5. req[r].decision \in Decisions
  BY <1>2 DEF IInv, RequestOK
<1>6. CASE req[r].decision = "ACCEPTE"
  <2>1. log'["ACCEPT"] = log["ACCEPT"] + 1 /\ \A b \in AuditAction \ {"ACCEPT"}: log'[b] = log[b]
    BY <1>6, LogCounts DEF LogDecision
  <2>2. LogTruthful'
    BY <1>1, <1>3, <1>6, <2>1 DEF LogInv, LogTruthful, Sent
  <2>3. SendLog' /\ ConvertLog'
    BY <1>1, <1>2, <2>1 DEF LogInv, SendLog, ConvertLog, Alone, Sent
  <2>4. DecisionLog'
    BY <1>1, <1>2, <1>4 DEF LogInv, DecisionLog, Alone
  <2> QED BY <2>2, <2>3, <2>4 DEF LogInv
<1>7. CASE req[r].decision = "REFUSE"
  <2>1. log'["REFUSE"] = log["REFUSE"] + 1 /\ \A b \in AuditAction \ {"REFUSE"}: log'[b] = log[b]
    BY <1>7, LogCounts DEF LogDecision
  <2>2. LogTruthful'
    BY <1>1, <1>3, <1>7, <2>1 DEF LogInv, LogTruthful, Sent
  <2>3. SendLog' /\ ConvertLog'
    BY <1>1, <1>2, <2>1 DEF LogInv, SendLog, ConvertLog, Alone, Sent
  <2>4. DecisionLog'
    BY <1>1, <1>2, <1>4 DEF LogInv, DecisionLog, Alone
  <2> QED BY <2>2, <2>3, <2>4 DEF LogInv
<1> QED BY <1>5, <1>6, <1>7 DEF Decisions

LEMMA ConvertEntries ==
  ASSUME IInv, LogInv, NEW r \in Requests, LogConvert(r)
  PROVE  LogInv'
<1> USE DEF AuditAction
<1>1. UNCHANGED <<status, contentHash, facture, loggedHash>>
  BY DEF LogConvert, row
<1>2. CASE At(r, "logConvert") /\ Log("CONVERT_TO_FACTURE") /\ Goto(r, "logCreate")
  <2>1. req'[r].pc = "logCreate" /\ Alone(r)
    BY <1>2, Moves DEF Steps
  <2>2. /\ log'["CONVERT_TO_FACTURE"] = log["CONVERT_TO_FACTURE"] + 1
        /\ \A b \in AuditAction \ {"CONVERT_TO_FACTURE"}: log'[b] = log[b]
    BY <1>2, LogCounts
  <2>3. facture # Null /\ log["CONVERT_TO_FACTURE"] = 0 /\ log["CREATE"] = 0
    <3>1. log["CREATE"] \in Nat
      BY LogCounts
    <3> QED BY <1>2, <3>1 DEF LogInv, LogTruthful, ConvertLog
  <2>4. \A s \in Requests \ {r}: req[s].pc \notin {"logConvert", "logCreate"}
    BY <1>2 DEF LogInv, ConvertLog
  <2>5. LogTruthful'
    BY <1>1, <2>2, <2>3 DEF LogInv, LogTruthful, Sent
  <2>6. ConvertLog'
    BY <1>1, <2>1, <2>2, <2>3, <2>4 DEF ConvertLog, Alone
  <2>7. SendLog' /\ DecisionLog'
    BY <1>1, <2>1, <2>2 DEF LogInv, DecisionLog, SendLog, Alone, Sent
  <2> QED BY <2>5, <2>6, <2>7 DEF LogInv
<1>3. CASE At(r, "logCreate") /\ Log("CREATE") /\ Finish(r)
  <2>1. req'[r].pc = "idle" /\ Alone(r)
    BY <1>3, Moves
  <2>2. log'["CREATE"] = log["CREATE"] + 1 /\ \A b \in AuditAction \ {"CREATE"}: log'[b] = log[b]
    BY <1>3, LogCounts
  <2>3. facture # Null /\ log["CONVERT_TO_FACTURE"] = 1 /\ log["CREATE"] = 0
    BY <1>3 DEF LogInv, ConvertLog
  <2>4. \A s \in Requests \ {r}: req[s].pc \notin {"logConvert", "logCreate"}
    BY <1>3 DEF LogInv, ConvertLog
  <2>5. LogTruthful'
    BY <1>1, <2>2, <2>3 DEF LogInv, LogTruthful, Sent
  <2>6. ConvertLog'
    BY <1>1, <2>1, <2>2, <2>3, <2>4 DEF ConvertLog, Alone
  <2>7. SendLog' /\ DecisionLog'
    BY <1>1, <2>1, <2>2 DEF LogInv, DecisionLog, SendLog, Alone, Sent
  <2> QED BY <2>5, <2>6, <2>7 DEF LogInv
<1> QED BY <1>2, <1>3 DEF LogConvert

\* Every other step is silent.
LEMMA SilentBegin ==
  ASSUME IInv, NEW r \in Requests, Begin(r)
  PROVE  Silent
<1> USE DEF LogSteps, Idle
<1>1. UNCHANGED <<status, contentHash, facture, loggedHash, log>> /\ Alone(r)
  BY DEF Begin, BeginUpdate, BeginSend, BeginPublic, BeginDashboard, BeginDelete, BeginConvert,
     Start, Reads, row, journal, Alone, IInv, TypeOK
<1>2. req'[r].pc \notin LogSteps /\ (req'[r].pc = "decide" => req'[r].seen = contentHash)
  <2>t. req \in [Requests -> Request]
    BY DEF IInv, TypeOK
  <2>1. ASSUME NEW c \in Contents, BeginUpdate(r, c) PROVE req'[r].pc = "deleteLines"
    BY <2>t, <2>1 DEF BeginUpdate, Start
  <2>2. CASE BeginSend(r)
    BY <2>t, <2>2 DEF BeginSend, Start
  <2>3. ASSUME NEW d \in Decisions, NEW ref \in Refs, BeginPublic(r, d, ref)
        PROVE  req'[r].pc \in {"verifySigner", "findAgain"}
    BY <2>t, <2>3 DEF BeginPublic, Start
  <2>4. ASSUME NEW d \in Decisions, BeginDashboard(r, d)
        PROVE  req'[r].pc = "decide" /\ req'[r].seen = contentHash
    BY <2>t, <2>4 DEF BeginDashboard, Start
  <2>5. CASE BeginDelete(r) \/ BeginConvert(r)
    BY <2>t, <2>5 DEF BeginDelete, BeginConvert, Start
  <2> QED BY <2>1, <2>2, <2>3, <2>4, <2>5 DEF Begin
<1> QED BY <1>1, <1>2 DEF Silent, Alone

LEMMA SilentSteps ==
  ASSUME IInv, [Next]_vars
  PROVE  \/ Silent
         \/ \E r \in Requests:
               \/ LockDevis(r) \/ Decide(r) \/ (CreateFacture(r) /\ DevisIdFree)
               \/ LogSend(r) \/ LogDecision(r) \/ LogConvert(r)
<1> USE DEF LogSteps
<1>1. CASE Expire \/ UNCHANGED vars
  BY <1>1 DEF Expire, vars, row, files, journal, Silent
<1>2. ASSUME NEW r \in Requests, Fault(r) PROVE Silent
  <2>1. Reads
    BY <1>2 DEF Fault, StorageFails, DatabaseFails, Die
  <2>2. req'[r].pc \in {"catch", "idle"} /\ Alone(r)
    BY <1>2, Moves DEF Fault, StorageFails, DatabaseFails, Die, Reject, Steps
  <2> QED BY <2>1, <2>2 DEF Reads, row, journal, Silent, Alone
<1>3. ASSUME NEW r \in Requests, UpdateStep(r) PROVE Silent
  <2>1. BuildDevisPayload \in Hashes
    BY DEF IInv, TypeOK, BuildDevisPayload, Hashes
  <2>2. DeleteLines(r) => [req[r].seen EXCEPT !.lines = @ \intersect lines] \in Hashes
    <3>1. DeleteLines(r) => req[r].seen \in Hashes
      BY DEF DeleteLines, IInv, RequestOK
    <3> QED BY <3>1 DEF Hashes
  <2>3. req'[r].pc \in {"awaitLines", "replace", "idle"} /\ Alone(r)
    BY <1>3, <2>1, <2>2, Moves DEF UpdateStep, SnapshotLines, DeleteLines, ReplaceLines, Steps
  <2>4. UNCHANGED <<status, contentHash, facture, log, loggedHash>>
    BY <1>3 DEF UpdateStep, SnapshotLines, DeleteLines, ReplaceLines, Reads, row, journal
  <2> QED BY <2>3, <2>4 DEF Silent, Alone
<1>4. ASSUME NEW r \in Requests, ArchivePdf(r) \/ LockFails(r) \/ DropPdf(r) PROVE Silent
  <2>1. req'[r].pc \in {"lock", "dropPdf", "catch", "idle"} /\ Alone(r)
    BY <1>4, Moves DEF ArchivePdf, LockFails, DropPdf, Steps
  <2>2. UNCHANGED <<status, contentHash, facture, log, loggedHash>>
    BY <1>4 DEF ArchivePdf, LockFails, DropPdf, Reads, row, journal
  <2> QED BY <2>1, <2>2 DEF Silent, Alone
<1>5. ASSUME NEW r \in Requests, PublicStep(r) PROVE Silent
  <2>1. UNCHANGED <<status, contentHash, facture, log, loggedHash>>
    BY <1>5 DEF PublicStep, VerifySigner, FindAgain, ArchiveSigned, DropSigned, Notify, Reads, row, journal
  <2>2. CASE VerifySigner(r) \/ DropSigned(r) \/ Notify(r)
    <3>1. req'[r].pc \in {"findAgain", "tooLate", "idle"} /\ Alone(r)
      BY <2>2, Moves DEF VerifySigner, DropSigned, Notify, Steps
    <3> QED BY <2>1, <3>1 DEF Silent, Alone
  <2>3. CASE FindAgain(r)
    <3>1. contentHash \in Hashes \union {Null}
      BY DEF IInv, TypeOK
    <3>2. /\ req'[r].pc \in {"tooLate", "idle", "archiveSigned", "decide"} /\ Alone(r)
          /\ req'[r].pc = "decide" => req'[r].seen = contentHash
      BY <2>3, <3>1, Moves DEF FindAgain, Steps
    <3> QED BY <2>1, <3>2 DEF Silent, Alone
  <2>4. CASE ArchiveSigned(r)
    <3>1. req'[r].pc = "decide" /\ Keeps(r) /\ Alone(r)
      BY <2>4, Moves DEF ArchiveSigned, Steps
    <3>2. req[r].seen = contentHash
      BY <2>4 DEF ArchiveSigned, IInv, RequestOK
    <3> QED BY <2>1, <3>1, <3>2 DEF Silent, Alone, Keeps
  <2> QED BY <1>5, <2>2, <2>3, <2>4 DEF PublicStep
<1>6. ASSUME NEW r \in Requests, DecideFails(r) \/ Answer(r) PROVE Silent
  <2>1. req'[r].pc \in {"dropSigned", "tooLate", "idle"} /\ Alone(r)
    BY <1>6, Moves DEF DecideFails, Answer, Steps
  <2> QED BY <1>6, <2>1 DEF DecideFails, Answer, Reads, row, journal, Silent, Alone
<1>7. ASSUME NEW r \in Requests, CheckFacture(r) \/ (CreateFacture(r) /\ ~DevisIdFree) PROVE Silent
  <2>1. req'[r].pc \in {"delete", "idle"} /\ Alone(r)
    BY <1>7, Moves DEF CheckFacture, CreateFacture, Steps
  <2>2. UNCHANGED <<status, contentHash, facture, log, loggedHash>>
    BY <1>7 DEF CheckFacture, CreateFacture, Reads, row, journal
  <2> QED BY <2>1, <2>2 DEF Silent, Alone
<1>8. ASSUME NEW r \in Requests, DeleteDevis(r) PROVE Silent
  <2>1. req'[r].pc \in {"logDelete", "idle"} /\ Alone(r)
    BY <1>8, Moves DEF DeleteDevis, Steps
  <2>2. \A a \in AuditAction \ {"SOFT_DELETE"}: log'[a] = log[a]
    BY <1>8, LogCounts DEF DeleteDevis, AuditAction
  <2> QED BY <1>8, <2>1, <2>2 DEF DeleteDevis, Silent, Alone
<1> QED BY <1>1, <1>2, <1>3, <1>4, <1>5, <1>6, <1>7, <1>8, SilentBegin
           DEF Next, Step, SendStep, DecideStep, OtherStep

LEMMA LogInit == Init => LogInv
  BY DEF Init, Idle, LogInv, LogTruthful, SendLog, DecisionLog, ConvertLog, AuditAction

\* The journal of the quote tells one send, one decision, the one the quote holds and with its
\* hash, and one conversion at most, whatever races, fails or dies (logAudit in devis.ts).
THEOREM JournalIsTrue == Spec => []LogTruthful
<1>1. IInv /\ LogInv /\ [Next]_vars => LogInv'
  BY SilentSteps, SilentKeeps, LockLogs, DecideLogs, CreateLogs, SendEntries, DecisionEntry,
     ConvertEntries
<1>2. LogInv => LogTruthful
  BY DEF LogInv
<1> QED BY <1>1, <1>2, LogInit, Invariance, PTL DEF Spec

-----------------------------------------------------------------------------
(* The archived papers and the invoice, under the hypotheses of the run     *)
(* "orderly".  MaxOf bounds how many requests run an operation, so at one   *)
(* a second never starts, and at none no request does.                     *)

\* A second request never starts an operation of which one runs at a time.
LEMMA StartsAlone ==
  ASSUME NEW r \in Requests, NEW request, Start(r, request), request.op \in Operations,
         NEW s \in Requests, req[s].op = request.op
  PROVE  MaxOf[request.op] > 1
<1>1. IsFiniteSet(Running(request.op))
  BY RequestsAssumption, FS_Subset DEF Running
<1>2. s \in Running(request.op)
  BY DEF Running
<1>3. Cardinality(Running(request.op)) \in Nat /\ Cardinality(Running(request.op)) # 0
  BY <1>1, <1>2, FS_CardinalityType, FS_EmptySet
<1> QED BY <1>3, MaxOfAssumption DEF Start

\* None starts an operation that nobody may run.
LEMMA NoneStarts ==
  ASSUME NEW r \in Requests, NEW request, Start(r, request), request.op \in Operations
  PROVE  MaxOf[request.op] > 0
<1>1. IsFiniteSet(Running(request.op))
  BY RequestsAssumption, FS_Subset DEF Running
<1>2. Cardinality(Running(request.op)) \in Nat
  BY <1>1, FS_CardinalityType
<1> QED BY <1>2, MaxOfAssumption DEF Start

\* What a request that starts is, and that the others stay.
LEMMA Begun ==
  ASSUME IInv, NEW r \in Requests, Begin(r)
  PROVE  /\ Reads /\ Alone(r) /\ At(r, "idle")
         /\ \/ /\ req'[r].op = "update" /\ req'[r].pc = "deleteLines"
               /\ MaxOf["update"] > 0
            \/ /\ req'[r].op = "send" /\ req'[r].pc = "archivePdf"
               /\ req'[r].seen = BuildDevisPayload /\ Live /\ status = "BROUILLON"
               /\ (\E s \in Requests: req[s].op = "send") => MaxOf["send"] > 1
            \/ /\ req'[r].op = "public" /\ req'[r].pc \in {"verifySigner", "findAgain"}
               /\ status = "ENVOYE"
               /\ (\E s \in Requests: req[s].op = "public") => MaxOf["public"] > 1
            \/ req'[r].op = "dashboard" /\ req'[r].pc = "decide"
            \/ req'[r].op = "delete" /\ req'[r].pc = "checkFacture" /\ MaxOf["delete"] > 0
            \/ /\ req'[r].op = "convert" /\ req'[r].pc = "createFacture"
               /\ req'[r].seen = BuildDevisPayload /\ status = "ACCEPTE"
<1>t. req \in [Requests -> Request]
  BY DEF IInv, TypeOK
<1>0. Reads /\ Alone(r) /\ At(r, "idle")
  BY <1>t DEF Begin, BeginUpdate, BeginSend, BeginPublic, BeginDashboard, BeginDelete, BeginConvert,
     Start, Alone
<1>1. ASSUME NEW c \in Contents, BeginUpdate(r, c)
      PROVE  req'[r].op = "update" /\ req'[r].pc = "deleteLines" /\ MaxOf["update"] > 0
  <2> DEFINE q == [Idle EXCEPT !.op = "update", !.pc = "deleteLines", !.content = c]
  <2>1. Start(r, q) /\ q.op = "update" /\ q.pc = "deleteLines"
    BY <1>1 DEF BeginUpdate, Idle
  <2>2. req'[r] = q
    BY <1>t, <2>1 DEF Start
  <2> HIDE DEF q
  <2> QED BY <2>1, <2>2, NoneStarts DEF Operations
<1>2. ASSUME BeginSend(r)
      PROVE  /\ req'[r].op = "send" /\ req'[r].pc = "archivePdf"
             /\ req'[r].seen = BuildDevisPayload /\ Live /\ status = "BROUILLON"
             /\ (\E s \in Requests: req[s].op = "send") => MaxOf["send"] > 1
  <2> DEFINE q == [Idle EXCEPT !.op = "send", !.pc = "archivePdf", !.seen = BuildDevisPayload]
  <2>1. /\ Start(r, q) /\ q.op = "send" /\ q.pc = "archivePdf" /\ q.seen = BuildDevisPayload
        /\ Live /\ status = "BROUILLON"
    BY <1>2 DEF BeginSend, Idle
  <2>2. req'[r] = q
    BY <1>t, <2>1 DEF Start
  <2> HIDE DEF q
  <2> QED BY <2>1, <2>2, StartsAlone DEF Operations
<1>3. ASSUME NEW d \in Decisions, NEW ref \in Refs, BeginPublic(r, d, ref)
      PROVE  /\ req'[r].op = "public" /\ req'[r].pc \in {"verifySigner", "findAgain"}
             /\ status = "ENVOYE"
             /\ (\E s \in Requests: req[s].op = "public") => MaxOf["public"] > 1
  <2> DEFINE q == [Idle EXCEPT !.op = "public", !.decision = d, !.ref = ref,
                               !.pc = IF d = "ACCEPTE" THEN "verifySigner" ELSE "findAgain"]
  <2>1. /\ Start(r, q) /\ q.op = "public" /\ q.pc \in {"verifySigner", "findAgain"}
        /\ status = "ENVOYE"
    BY <1>3 DEF BeginPublic, Idle
  <2>2. req'[r] = q
    BY <1>t, <2>1 DEF Start
  <2> HIDE DEF q
  <2> QED BY <2>1, <2>2, StartsAlone DEF Operations
<1>4. ASSUME NEW d \in Decisions, BeginDashboard(r, d)
      PROVE  req'[r].op = "dashboard" /\ req'[r].pc = "decide"
  BY <1>t, <1>4 DEF BeginDashboard, Start, Idle
<1>5. ASSUME BeginDelete(r)
      PROVE  req'[r].op = "delete" /\ req'[r].pc = "checkFacture" /\ MaxOf["delete"] > 0
  <2> DEFINE q == [Idle EXCEPT !.op = "delete", !.pc = "checkFacture"]
  <2>1. Start(r, q) /\ q.op = "delete" /\ q.pc = "checkFacture"
    BY <1>5 DEF BeginDelete, Idle
  <2>2. req'[r] = q
    BY <1>t, <2>1 DEF Start
  <2> HIDE DEF q
  <2> QED BY <2>1, <2>2, NoneStarts DEF Operations
<1>6. ASSUME BeginConvert(r)
      PROVE  /\ req'[r].op = "convert" /\ req'[r].pc = "createFacture"
             /\ req'[r].seen = BuildDevisPayload /\ status = "ACCEPTE"
  BY <1>t, <1>6 DEF BeginConvert, Start, Idle
<1> QED BY <1>0, <1>1, <1>2, <1>3, <1>4, <1>5, <1>6 DEF Begin

\* One request at a time sends, one signs, and no statement fails or process dies.
OneAtATime == MaxOf["send"] <= 1 /\ MaxOf["public"] <= 1 /\ Faults \subseteq {"storage"}

SendInv ==
    /\ \A r \in Requests:
          /\ req[r].pc \in {"archivePdf", "lock", "dropPdf", "catch"} => req[r].op = "send" /\ ~Sent
          /\ At(r, "lock") => pdf = req[r].seen
    /\ \A r, s \in Requests: req[r].op = "send" /\ req[s].op = "send" => r = s
    /\ Sent => pdf = contentHash

\* The signed PDF while the one signer goes on.
SigningSteps == {"verifySigner", "findAgain", "archiveSigned", "decide", "dropSigned"}
SignerSees(r) ==
    /\ signature = Null
    /\ IF At(r, "decide") /\ Accepts(r) THEN signedPdf = Evidence(r)
       ELSE ~At(r, "dropSigned") => signedPdf = Null

SignInv ==
    /\ \A r \in Requests: req[r].op = "public" /\ req[r].pc \in SigningSteps => SignerSees(r)
    /\ \A r, s \in Requests: req[r].op = "public" /\ req[s].op = "public" => r = s
    /\ (\A r \in Requests: ~(req[r].op = "public" /\ req[r].pc \in {"decide", "dropSigned"})) =>
          signedPdf = signature

\* The steps outside the send: they leave the hash and the PDF.
LEMMA SendOthers ==
  ASSUME SendInv, UNCHANGED <<contentHash, pdf>>,
         \A s \in Requests:
            /\ req'[s].op = "send" => req[s].op = "send"
            /\ req'[s].pc \in {"archivePdf", "lock", "dropPdf", "catch"} => req'[s] = req[s]
  PROVE  SendInv'
  BY DEF SendInv, Sent

LEMMA SendSteps ==
  ASSUME OneAtATime, IInv, SendInv, NEW r \in Requests, SendStep(r)
  PROVE  SendInv'
<1>1. ASSUME ArchivePdf(r) PROVE SendInv'
  <2>1. req[r].pc = "archivePdf" /\ req'[r].pc = "lock" /\ Keeps(r) /\ Alone(r)
    BY <1>1, Moves DEF ArchivePdf, Steps
  <2>2. UNCHANGED contentHash /\ pdf' = req[r].seen /\ ~Sent /\ req[r].op = "send"
    BY <1>1, <2>1 DEF ArchivePdf, SendInv, row
  <2> QED BY <2>1, <2>2 DEF SendInv, Keeps, Alone, Sent
<1>2. ASSUME LockDevis(r) PROVE SendInv'
  <2>1. req[r].pc = "lock" /\ req'[r].pc = "logLock" /\ Keeps(r) /\ Alone(r)
    BY <1>2, Moves DEF LockDevis, Steps
  <2>2. contentHash' = req[r].seen /\ UNCHANGED pdf /\ pdf = req[r].seen /\ req[r].op = "send"
    BY <1>2, <2>1 DEF LockDevis, SendInv, files
  <2> QED BY <2>1, <2>2 DEF SendInv, Keeps, Alone, Sent
<1>3. ASSUME LockFails(r) PROVE SendInv'
  <2>1. req[r].pc = "lock" /\ req'[r].pc = "dropPdf" /\ Keeps(r) /\ Alone(r)
    BY <1>3, Moves DEF LockFails, Steps
  <2>2. UNCHANGED <<contentHash, pdf>>
    BY <1>3 DEF LockFails, Reads, row, files
  <2> QED BY <2>1, <2>2 DEF SendInv, Keeps, Alone, Sent
<1>4. ASSUME DropPdf(r) PROVE SendInv'
  <2>1. /\ req[r].pc \in {"dropPdf", "catch"} /\ Alone(r)
        /\ (req'[r].pc = "catch" /\ Keeps(r)) \/ (req'[r].pc = "idle" /\ req'[r].op = "none")
    BY <1>4, Moves DEF DropPdf, Steps
  <2>2. UNCHANGED contentHash /\ ~Sent /\ req[r].op = "send"
    BY <1>4, <2>1 DEF DropPdf, SendInv, row
  <2>3. \A s \in Requests \ {r}: req[s].pc \notin {"archivePdf", "lock", "dropPdf", "catch"}
    BY <2>2 DEF SendInv
  <2> QED BY <2>1, <2>2, <2>3 DEF SendInv, Keeps, Alone, Sent
<1>5. ASSUME LogSend(r) PROVE SendInv'
  <2>1. /\ Alone(r)
        /\ (req'[r].pc = "logSend" /\ Keeps(r)) \/ (req'[r].pc = "idle" /\ req'[r].op = "none")
    BY <1>5, Moves DEF LogSend, Steps
  <2>2. UNCHANGED <<contentHash, pdf>>
    BY <1>5 DEF LogSend, row, files
  <2> QED BY <2>1, <2>2, SendOthers DEF Keeps, Alone
<1> QED BY <1>1, <1>2, <1>3, <1>4, <1>5 DEF SendStep

LEMMA SendBegins ==
  ASSUME OneAtATime, IInv, SendInv, NEW r \in Requests, Begin(r)
  PROVE  SendInv'
<1>1. UNCHANGED <<contentHash, pdf, status>> /\ Alone(r)
  BY Begun DEF Reads, row, files
<1>2. CASE req'[r].op = "send" /\ req'[r].pc = "archivePdf"
  <2>1. ~(\E s \in Requests: req[s].op = "send") /\ status = "BROUILLON"
    BY <1>2, Begun, MaxOfAssumption DEF OneAtATime, Operations
  <2>2. ~Sent
    BY <2>1 DEF IInv, StatusInv, Sent
  <2> QED BY <1>1, <1>2, <2>1, <2>2 DEF SendInv, Alone, Sent
<1>3. CASE /\ req'[r].op # "send"
           /\ req'[r].pc \notin {"archivePdf", "lock", "dropPdf", "catch"}
  BY <1>1, <1>3, SendOthers DEF Alone
<1> QED BY <1>2, <1>3, Begun

\* What the steps that belong to neither the send nor the signature do to the request.
LEMMA Elsewhere ==
  ASSUME IInv, NEW r \in Requests, UpdateStep(r) \/ OtherStep(r)
  PROVE  /\ Alone(r) /\ UNCHANGED <<contentHash, signature, files>>
         /\ \/ req'[r].pc = "idle" /\ req'[r].op = "none"
            \/ /\ req'[r].op = req[r].op
               /\ req'[r].pc \in {"awaitLines", "replace", "delete", "logDelete", "logConvert", "logCreate"}
<1>1. CASE UpdateStep(r)
  <2>1. BuildDevisPayload \in Hashes
    BY DEF IInv, TypeOK, BuildDevisPayload, Hashes
  <2>2. DeleteLines(r) => [req[r].seen EXCEPT !.lines = @ \intersect lines] \in Hashes
    <3>1. DeleteLines(r) => req[r].seen \in Hashes
      BY DEF DeleteLines, IInv, RequestOK
    <3> QED BY <3>1 DEF Hashes
  <2>3. UNCHANGED <<contentHash, signature, files>>
    BY <1>1 DEF UpdateStep, SnapshotLines, DeleteLines, ReplaceLines, Reads, row
  <2> QED BY <1>1, <2>1, <2>2, <2>3, Moves DEF UpdateStep, SnapshotLines, DeleteLines, ReplaceLines, Steps
<1>2. CASE OtherStep(r)
  <2>1. UNCHANGED <<contentHash, signature, files>>
    BY <1>2 DEF OtherStep, CheckFacture, DeleteDevis, CreateFacture, LogConvert, Reads, row
  <2>2. CASE CheckFacture(r)
    BY <2>1, <2>2, Moves DEF CheckFacture, Steps, Keeps
  <2>3. CASE DeleteDevis(r)
    BY <2>1, <2>3, Moves DEF DeleteDevis, Steps, Keeps
  <2>4. CASE CreateFacture(r)
    BY <2>1, <2>4, Moves DEF CreateFacture, Steps, Keeps
  <2>5. CASE LogConvert(r)
    BY <2>1, <2>5, Moves DEF LogConvert, Steps, Keeps
  <2> QED BY <1>2, <2>2, <2>3, <2>4, <2>5 DEF OtherStep
<1> QED BY <1>1, <1>2

\* The steps of a decision, for the send.
LEMMA DecisionElsewhere ==
  ASSUME IInv, NEW r \in Requests, PublicStep(r) \/ DecideStep(r)
  PROVE  /\ Alone(r) /\ UNCHANGED <<contentHash, pdf>>
         /\ \/ req'[r].pc = "idle" /\ req'[r].op = "none"
            \/ /\ req'[r].op = req[r].op
               /\ req'[r].pc \in {"findAgain", "tooLate", "archiveSigned", "decide", "dropSigned",
                                  "logDecision", "notify"}
<1>1. UNCHANGED <<contentHash, pdf>>
  BY DEF PublicStep, DecideStep, VerifySigner, FindAgain, ArchiveSigned, DropSigned, Notify, Decide,
     DecideFails, LogDecision, Answer, Reads, row, files
<1>2. CASE FindAgain(r)
  <2>1. contentHash \in Hashes \union {Null}
    BY DEF IInv, TypeOK
  <2> QED BY <1>1, <1>2, <2>1, Moves DEF FindAgain, Steps, Keeps
<1>3. CASE VerifySigner(r) \/ ArchiveSigned(r) \/ DropSigned(r) \/ Notify(r)
  BY <1>1, <1>3, Moves DEF VerifySigner, ArchiveSigned, DropSigned, Notify, Steps, Keeps
<1>4. CASE DecideStep(r)
  BY <1>1, <1>4, Moves DEF DecideStep, Decide, DecideFails, LogDecision, Answer, Steps, Keeps
<1> QED BY <1>2, <1>3, <1>4 DEF PublicStep

\* Of the faults only a storage failure is left.
LEMMA OnlyStorage ==
  ASSUME OneAtATime, IInv, NEW r \in Requests, Fault(r)
  PROVE  /\ Reads /\ Alone(r) /\ req[r].pc \in {"archivePdf", "archiveSigned"}
         /\ req'[r].pc = "idle" /\ req'[r].op = "none"
<1>1. StorageFails(r)
  BY DEF OneAtATime, Fault, DatabaseFails, Die
<1> QED BY <1>1, Moves DEF StorageFails, Reject

LEMMA SendNext ==
  ASSUME OneAtATime, IInv, SendInv, [Next]_vars
  PROVE  SendInv'
<1>1. CASE Expire \/ UNCHANGED vars
  BY <1>1 DEF Expire, vars, row, files, SendInv, Sent
<1>2. ASSUME NEW r \in Requests, Fault(r) PROVE SendInv'
  BY <1>2, OnlyStorage, SendOthers DEF Reads, row, files, Alone
<1>3. ASSUME NEW r \in Requests, UpdateStep(r) \/ OtherStep(r) PROVE SendInv'
  BY <1>3, Elsewhere, SendOthers DEF Alone, files
<1>4. ASSUME NEW r \in Requests, PublicStep(r) \/ DecideStep(r) PROVE SendInv'
  BY <1>4, DecisionElsewhere, SendOthers DEF Alone
<1> QED BY <1>1, <1>2, <1>3, <1>4, SendSteps, SendBegins DEF Next, Step

-----------------------------------------------------------------------------
\* The steps outside the signature.
LEMMA SignOthers ==
  ASSUME SignInv, UNCHANGED <<signature, signedPdf>>,
         \A s \in Requests:
            /\ req'[s].op = "public" => req[s].op = "public"
            /\ req[s].op = "public" /\ req[s].pc \in {"decide", "dropSigned"} => req'[s] = req[s]
            /\ req'[s].op = "public" /\ req'[s].pc \in SigningSteps => req'[s] = req[s]
  PROVE  SignInv'
<1>1. \A s \in Requests: req'[s] = req[s] /\ SignerSees(s) => SignerSees(s)'
  BY DEF SignerSees, Accepts, Evidence
<1> QED BY <1>1 DEF SignInv

LEMMA SignBegins ==
  ASSUME OneAtATime, IInv, SignInv, NEW r \in Requests, Begin(r)
  PROVE  SignInv'
<1>1. UNCHANGED <<signature, signedPdf, status>> /\ Alone(r) /\ At(r, "idle")
  BY Begun DEF Reads, row, files
<1>2. CASE req'[r].op = "public" /\ req'[r].pc \in {"verifySigner", "findAgain"}
  <2>1. ~(\E s \in Requests: req[s].op = "public") /\ status = "ENVOYE"
    BY <1>2, Begun, MaxOfAssumption DEF OneAtATime, Operations
  <2>2. signature = Null /\ signedPdf = Null
    BY <2>1 DEF IInv, StatusInv, SignInv
  <2> QED BY <1>1, <1>2, <2>1, <2>2 DEF SignInv, SignerSees, Alone
<1>3. CASE req'[r].op # "public"
  BY <1>1, <1>3, SignOthers DEF Alone
<1> QED BY <1>2, <1>3, Begun

LEMMA SignSteps ==
  ASSUME OneAtATime, IInv, SignInv, NEW r \in Requests, PublicStep(r)
  PROVE  SignInv'
<1> USE DEF SigningSteps
<1>0. UNCHANGED signature /\ Alone(r)
  BY DecisionElsewhere DEF PublicStep, VerifySigner, FindAgain, ArchiveSigned, DropSigned, Notify, Reads, row
<1>1. CASE VerifySigner(r) \/ FindAgain(r)
  <2>1. req[r].op = "public" /\ req[r].pc \in {"verifySigner", "findAgain"} /\ UNCHANGED signedPdf
    BY <1>1 DEF VerifySigner, FindAgain, IInv, RequestOK, Reads, files
  <2>2. signature = Null /\ signedPdf = Null
    BY <2>1 DEF SignInv, SignerSees
  <2>3. \/ req'[r].pc = "idle" /\ req'[r].op = "none"
        \/ /\ req'[r].op = "public" /\ req'[r].decision = req[r].decision
           /\ \/ req'[r].pc \in {"findAgain", "archiveSigned", "tooLate"}
              \/ req'[r].pc = "decide" /\ ~Accepts(r)
    <3>1. contentHash \in Hashes \union {Null}
      BY DEF IInv, TypeOK
    <3>2. CASE VerifySigner(r)
      BY <2>1, <3>2, Moves DEF VerifySigner, Steps, Keeps
    <3>3. CASE FindAgain(r)
      BY <2>1, <3>1, <3>3, Moves DEF FindAgain, Steps, Keeps
    <3> QED BY <1>1, <3>2, <3>3
  <2>4. \A s \in Requests \ {r}: req[s].op # "public"
    BY <2>1 DEF SignInv
  <2> QED BY <1>0, <2>1, <2>2, <2>3, <2>4 DEF SignInv, SignerSees, Accepts, Alone
<1>2. CASE ArchiveSigned(r)
  <2>1. req[r].op = "public" /\ req[r].decision = "ACCEPTE" /\ req[r].pc = "archiveSigned"
    BY <1>2 DEF ArchiveSigned, IInv, RequestOK
  <2>2. req'[r].pc = "decide" /\ Keeps(r) /\ signedPdf' = [by |-> r, hash |-> req[r].seen]
    BY <1>2, Moves DEF ArchiveSigned, Steps, Evidence
  <2>3. signature = Null /\ \A s \in Requests \ {r}: req[s].op # "public"
    BY <2>1 DEF SignInv, SignerSees
  <2> QED BY <1>0, <2>1, <2>2, <2>3 DEF SignInv, SignerSees, Accepts, Evidence, Alone, Keeps
<1>3. CASE DropSigned(r)
  <2>1. req[r].op = "public" /\ req[r].pc = "dropSigned"
    BY <1>3 DEF DropSigned, IInv, RequestOK
  <2>2. req'[r].pc = "tooLate" /\ Keeps(r) /\ signedPdf' = Null
    BY <1>3, Moves DEF DropSigned, DeleteSigned, Steps
  <2>3. signature = Null /\ \A s \in Requests \ {r}: req[s].op # "public"
    BY <2>1 DEF SignInv, SignerSees
  <2> QED BY <1>0, <2>1, <2>2, <2>3 DEF SignInv, Alone, Keeps
<1>4. CASE Notify(r)
  <2>1. req'[r].pc = "idle" /\ req'[r].op = "none" /\ req[r].pc = "notify" /\ UNCHANGED signedPdf
    BY <1>4, Moves DEF Notify, files
  <2> QED BY <1>0, <2>1, SignOthers DEF Alone
<1> QED BY <1>1, <1>2, <1>3, <1>4 DEF PublicStep

LEMMA SignDecides ==
  ASSUME OneAtATime, IInv, SignInv, NEW r \in Requests, DecideStep(r)
  PROVE  SignInv'
<1> USE DEF SigningSteps
<1>0. UNCHANGED signedPdf /\ Alone(r)
  BY DecisionElsewhere DEF DecideStep, Decide, DecideFails, LogDecision, Answer, Reads, files
<1>1. CASE LogDecision(r) \/ Answer(r)
  <2>1. /\ UNCHANGED signature /\ req[r].pc \in {"logDecision", "tooLate"}
        /\ \/ req'[r].pc = "idle" /\ req'[r].op = "none"
           \/ req'[r].pc = "notify" /\ req'[r].op = req[r].op
    BY <1>1, Moves DEF LogDecision, Answer, Reads, row, Steps, Keeps
  <2> QED BY <1>0, <2>1, SignOthers DEF Alone
<1>2. CASE DecideFails(r)
  <2>1. /\ UNCHANGED signature /\ req[r].pc = "decide" /\ Keeps(r)
        /\ req'[r].pc = (IF Accepts(r) THEN "dropSigned" ELSE "tooLate")
    BY <1>2, Moves DEF DecideFails, Reads, row, Steps
  <2>2. CASE req[r].op = "public"
    <3>1. /\ signature = Null /\ \A s \in Requests \ {r}: req[s].op # "public"
          /\ ~Accepts(r) => signedPdf = Null
      BY <2>1, <2>2 DEF SignInv, SignerSees
    <3> QED BY <1>0, <2>1, <2>2, <3>1 DEF SignInv, SignerSees, Alone, Keeps
  <2>3. CASE req[r].op # "public"
    BY <1>0, <2>1, <2>3, SignOthers DEF Alone, Keeps
  <2> QED BY <2>2, <2>3
<1>3. CASE Decide(r)
  <2>1. req[r].pc = "decide" /\ Keeps(r) /\ req'[r].pc = "logDecision"
    BY <1>3, Moves DEF Decide, Steps
  <2>2. CASE Accepts(r)
    <3>1. req[r].op = "public" /\ signature' = signedPdf
      BY <1>3, <2>1, <2>2 DEF Decide, Accepts, SignInv, SignerSees
    <3>2. \A s \in Requests \ {r}: req[s].op # "public"
      BY <3>1 DEF SignInv
    <3> QED BY <1>0, <2>1, <3>1, <3>2 DEF SignInv, Alone, Keeps
  <2>3. CASE ~Accepts(r) /\ req[r].op = "public"
    <3>1. UNCHANGED signature /\ signature = Null /\ signedPdf = Null
      BY <1>3, <2>1, <2>3 DEF Decide, SignInv, SignerSees
    <3>2. \A s \in Requests \ {r}: req[s].op # "public"
      BY <2>3 DEF SignInv
    <3> QED BY <1>0, <2>1, <2>3, <3>1, <3>2 DEF SignInv, Alone, Keeps
  <2>4. CASE req[r].op # "public"
    <3>1. UNCHANGED signature
      BY <1>3, <2>4 DEF Decide, Accepts
    <3> QED BY <1>0, <2>1, <2>4, <3>1, SignOthers DEF Alone, Keeps
  <2> QED BY <2>2, <2>3, <2>4
<1> QED BY <1>1, <1>2, <1>3 DEF DecideStep

LEMMA SendAside ==
  ASSUME IInv, NEW r \in Requests, SendStep(r)
  PROVE  /\ Alone(r) /\ UNCHANGED <<signature, signedPdf>>
         /\ req[r].pc \in {"archivePdf", "lock", "dropPdf", "catch", "logLock", "logSend"}
         /\ \/ req'[r].pc = "idle" /\ req'[r].op = "none"
            \/ req'[r].op = req[r].op /\ req'[r].pc \in {"lock", "logLock", "dropPdf", "catch", "logSend"}
<1>1. UNCHANGED <<signature, signedPdf>>
  BY DEF SendStep, ArchivePdf, LockDevis, LockFails, DropPdf, LogSend, Reads, row, files
<1> QED BY <1>1, Moves DEF SendStep, ArchivePdf, LockDevis, LockFails, DropPdf, LogSend, Steps, Keeps

LEMMA SignNext ==
  ASSUME OneAtATime, IInv, SignInv, [Next]_vars
  PROVE  SignInv'
<1> USE DEF SigningSteps
<1>1. CASE Expire \/ UNCHANGED vars
  BY <1>1 DEF Expire, vars, row, files, SignInv, SignerSees, Accepts, Evidence
<1>2. ASSUME NEW r \in Requests, Fault(r) PROVE SignInv'
  BY <1>2, OnlyStorage, SignOthers DEF Reads, row, files, Alone
<1>3. ASSUME NEW r \in Requests, UpdateStep(r) \/ OtherStep(r) PROVE SignInv'
  <2>1. req[r].pc \notin {"decide", "dropSigned"}
    BY <1>3 DEF UpdateStep, OtherStep, SnapshotLines, DeleteLines, ReplaceLines, CheckFacture,
       DeleteDevis, CreateFacture, LogConvert
  <2> QED BY <1>3, <2>1, Elsewhere, SignOthers DEF Alone, files
<1>4. ASSUME NEW r \in Requests, SendStep(r) PROVE SignInv'
  BY <1>4, SendAside, SignOthers DEF Alone
<1> QED BY <1>1, <1>2, <1>3, <1>4, SignBegins, SignSteps, SignDecides DEF Next, Step

\* If one request at a time sends, one signs, and only the storage fails, the archived PDF of a
\* quote sent prints the hashed content, and the signed PDF is that of the signature the quote
\* holds, whatever is edited, decided on the dashboard, deleted or invoiced meanwhile.
THEOREM PapersFollow == OneAtATime => (Spec => []PapersKept)
<1>1. OneAtATime /\ IInv /\ SendInv /\ SignInv /\ [Next]_vars => SendInv' /\ SignInv'
  BY SendNext, SignNext
<1>2. SendInv /\ SignInv => PapersKept
  BY DEF SendInv, SignInv, PapersKept, Quiet
<1>3. Init => SendInv /\ SignInv
  BY DEF Init, Idle, SendInv, SignInv, Sent
<1>4. OneAtATime => []OneAtATime
  BY DEF OneAtATime
<1> QED BY <1>1, <1>2, <1>3, <1>4, Invariance, PTL DEF Spec

-----------------------------------------------------------------------------
\* Nobody edits or deletes while the quote is sent, accepted and invoiced.
NobodyEdits == MaxOf["update"] = 0 /\ MaxOf["delete"] = 0

EditSteps == {"deleteLines", "awaitLines", "replace", "checkFacture", "delete", "logDelete"}

InvoiceInv ==
    /\ Live
    /\ \A r \in Requests:
          /\ req[r].pc \notin EditSteps
          /\ req[r].pc \in {"archivePdf", "lock"} => req[r].seen = BuildDevisPayload
          /\ At(r, "createFacture") =>
                req[r].seen = BuildDevisPayload /\ status \in {"ACCEPTE", "FACTURE"}
    /\ Sent => contentHash = BuildDevisPayload
    /\ InvoiceOfAccepted

LEMMA InvoiceOthers ==
  ASSUME IInv, InvoiceInv, [Next]_vars, UNCHANGED <<lines, totals, deleted, contentHash, facture>>,
         status' = "FACTURE" <=> status = "FACTURE",
         \A s \in Requests:
            \/ req'[s] = req[s]
            \/ req'[s].pc \notin EditSteps \union {"archivePdf", "lock", "createFacture"}
            \/ /\ req'[s].pc \in {"archivePdf", "lock"}
               /\ req'[s].seen = BuildDevisPayload
            \/ /\ req'[s].pc = "createFacture"
               /\ req'[s].seen = BuildDevisPayload /\ status \in {"ACCEPTE", "FACTURE"}
  PROVE  InvoiceInv'
<1>1. BuildDevisPayload' = BuildDevisPayload
  BY DEF BuildDevisPayload
<1>2. status \in {"ACCEPTE", "FACTURE"} => status' \in {"ACCEPTE", "FACTURE"}
  BY StatusNext DEF StatusStep, vars, row
<1>3. \A s \in Requests:
         /\ req'[s].pc \notin EditSteps
         /\ req'[s].pc \in {"archivePdf", "lock"} => req'[s].seen = BuildDevisPayload
         /\ req'[s].pc = "createFacture" =>
               req'[s].seen = BuildDevisPayload /\ status' \in {"ACCEPTE", "FACTURE"}
  BY <1>2 DEF InvoiceInv, EditSteps
<1> QED BY <1>1, <1>3 DEF InvoiceInv, InvoiceOfAccepted, Live, Sent

LEMMA InvoiceNext ==
  ASSUME NobodyEdits, IInv, InvoiceInv, [Next]_vars
  PROVE  InvoiceInv'
<1> USE DEF EditSteps
<1>1. CASE Expire \/ UNCHANGED vars
  BY <1>1, InvoiceOthers DEF Expire, vars, row
<1>2. ASSUME NEW r \in Requests, Begin(r) PROVE InvoiceInv'
  <2>1. UNCHANGED <<lines, totals, deleted, contentHash, facture, status>> /\ Alone(r)
    BY <1>2, Begun DEF Reads, row
  <2>2. \/ req'[r].pc = "archivePdf" /\ req'[r].seen = BuildDevisPayload
        \/ /\ req'[r].pc = "createFacture"
           /\ req'[r].seen = BuildDevisPayload /\ status = "ACCEPTE"
        \/ req'[r].pc \in {"verifySigner", "findAgain", "decide"}
    BY <1>2, Begun DEF NobodyEdits
  <2> QED BY <2>1, <2>2, InvoiceOthers DEF Alone
<1>3. ASSUME NEW r \in Requests, Fault(r) PROVE InvoiceInv'
  <2>1. Reads /\ req'[r].pc \in {"catch", "idle"} /\ Alone(r)
    BY <1>3, Moves DEF Fault, StorageFails, DatabaseFails, Die, Reject, Steps
  <2> QED BY <2>1, InvoiceOthers DEF Reads, row, Alone
<1>4. ASSUME NEW r \in Requests, UpdateStep(r) \/ CheckFacture(r) \/ DeleteDevis(r) PROVE InvoiceInv'
  BY <1>4 DEF UpdateStep, SnapshotLines, DeleteLines, ReplaceLines, CheckFacture, DeleteDevis, InvoiceInv
<1>5. ASSUME NEW r \in Requests, ArchivePdf(r) \/ LockFails(r) \/ DropPdf(r) \/ LogSend(r)
      PROVE  InvoiceInv'
  <2>1. /\ Alone(r)
        /\ \/ req'[r].pc \in {"dropPdf", "catch", "logSend", "idle"}
           \/ req'[r].pc = "lock" /\ Keeps(r) /\ req[r].pc = "archivePdf"
    BY <1>5, Moves DEF ArchivePdf, LockFails, DropPdf, LogSend, Steps
  <2>2. UNCHANGED <<lines, totals, deleted, contentHash, facture, status>>
    BY <1>5 DEF ArchivePdf, LockFails, DropPdf, LogSend, Reads, row
  <2>3. req[r].pc = "archivePdf" => req[r].seen = BuildDevisPayload
    BY DEF InvoiceInv
  <2> QED BY <2>1, <2>2, <2>3, InvoiceOthers DEF Alone, Keeps
<1>6. ASSUME NEW r \in Requests, LockDevis(r) PROVE InvoiceInv'
  <2>1. /\ status = "BROUILLON" /\ status' = "ENVOYE" /\ contentHash' = req[r].seen
        /\ UNCHANGED <<lines, totals, deleted, facture>> /\ req[r].pc = "lock"
    BY <1>6 DEF LockDevis, SendWhere
  <2>2. req'[r].pc = "logLock" /\ Alone(r)
    BY <1>6, Moves DEF LockDevis, Steps
  <2>3. BuildDevisPayload' = BuildDevisPayload
    BY <2>1 DEF BuildDevisPayload
  <2>4. req[r].seen = BuildDevisPayload /\ facture = Null
    BY <2>1 DEF InvoiceInv, InvoiceOfAccepted
  <2>5. \A s \in Requests: ~At(s, "createFacture")
    BY <2>1 DEF InvoiceInv
  <2> QED BY <2>1, <2>2, <2>3, <2>4, <2>5 DEF InvoiceInv, InvoiceOfAccepted, Live, Sent, Alone
<1>7. ASSUME NEW r \in Requests, PublicStep(r) \/ DecideStep(r) PROVE InvoiceInv'
  <2>1. /\ Alone(r) /\ UNCHANGED contentHash
        /\ req'[r].pc \in {"findAgain", "tooLate", "archiveSigned", "decide", "dropSigned",
                           "logDecision", "notify", "idle"}
    BY <1>7, DecisionElsewhere
  <2>2. UNCHANGED <<lines, totals, deleted, facture>>
    BY <1>7 DEF PublicStep, DecideStep, VerifySigner, FindAgain, ArchiveSigned, DropSigned, Notify,
       Decide, DecideFails, LogDecision, Answer, Reads, row
  <2>3. status' = "FACTURE" <=> status = "FACTURE"
    <3>1. Decide(r) => status = "ENVOYE" /\ status' \in Decisions
      BY DEF Decide, DecideWhere, IInv, RequestOK
    <3>2. ~Decide(r) => UNCHANGED status
      BY <1>7 DEF PublicStep, DecideStep, VerifySigner, FindAgain, ArchiveSigned, DropSigned, Notify,
         DecideFails, LogDecision, Answer, Reads, row
    <3> QED BY <3>1, <3>2 DEF Decisions
  <2> QED BY <2>1, <2>2, <2>3, InvoiceOthers DEF Alone
<1>8. ASSUME NEW r \in Requests, CreateFacture(r) PROVE InvoiceInv'
  <2>1. /\ Alone(r) /\ req[r].pc = "createFacture" /\ req'[r].pc \in {"logConvert", "idle"}
        /\ UNCHANGED <<lines, totals, deleted, contentHash>>
    BY <1>8, Moves DEF CreateFacture, Steps
  <2>2. /\ req[r].seen = BuildDevisPayload /\ status \in {"ACCEPTE", "FACTURE"} /\ Live
        /\ Sent /\ contentHash = BuildDevisPayload /\ InvoiceOfAccepted
    BY <2>1 DEF InvoiceInv, IInv, StatusInv, Sent
  <2>3. CASE DevisIdFree
    <3>1. facture' = BuildDevisPayload /\ status' = "FACTURE" /\ facture' # Null
      BY <1>8, <2>2, <2>3 DEF CreateFacture, DevisIdFree, InvoiceOfAccepted, Sent
    <3>2. BuildDevisPayload' = BuildDevisPayload
      BY <2>1 DEF BuildDevisPayload
    <3> QED BY <2>1, <2>2, <3>1, <3>2 DEF InvoiceInv, InvoiceOfAccepted, Live, Sent, Alone
  <2>4. CASE ~DevisIdFree
    <3>1. UNCHANGED <<status, facture>>
      BY <1>8, <2>4 DEF CreateFacture
    <3> QED BY <2>1, <3>1, InvoiceOthers DEF Alone
  <2> QED BY <2>3, <2>4
<1>9. ASSUME NEW r \in Requests, LogConvert(r) PROVE InvoiceInv'
  <2>1. Alone(r) /\ req'[r].pc \in {"logCreate", "idle"}
    BY <1>9, Moves DEF LogConvert, Steps
  <2> QED BY <1>9, <2>1, InvoiceOthers DEF LogConvert, row, Alone
<1> QED BY <1>1, <1>2, <1>3, <1>4, <1>5, <1>6, <1>7, <1>8, <1>9 DEF Next, Step, SendStep, OtherStep

\* If nobody edits or deletes the quote meanwhile, the invoice made from it says what the client
\* accepted and the quote is marked as invoiced, whoever sends, decides, converts, fails or dies.
THEOREM InvoiceSaysAccepted == NobodyEdits => (Spec => []InvoiceOfAccepted)
<1>1. NobodyEdits /\ IInv /\ InvoiceInv /\ [Next]_vars => InvoiceInv'
  BY InvoiceNext
<1>2. InvoiceInv => InvoiceOfAccepted
  BY DEF InvoiceInv
<1>3. Init => InvoiceInv
  BY DEF Init, Idle, InvoiceInv, InvoiceOfAccepted, EditSteps, Live, Sent
<1>4. NobodyEdits => []NobodyEdits
  BY DEF NobodyEdits
<1> QED BY <1>1, <1>2, <1>3, <1>4, Invariance, PTL DEF Spec
=============================================================================
