--------------------------- MODULE DevisLifecycle ---------------------------
(***************************************************************************)
(* The life of one quote, from draft to invoice, under the concurrent      *)
(* requests of the craftsman's dashboard and of the client's public link   *)
(* (src/src/lib/services/devis.ts, createFactureFromDevis in facture.ts,   *)
(* api/public/devis/[token]/route.ts).                                     *)
(*                                                                         *)
(* Each request reads the quote, awaits, and writes: between two awaits    *)
(* any other request may run.  A single SQL statement is atomic (READ      *)
(* COMMITTED).  The archived PDFs live outside the database, one key for   *)
(* the quote sent and one for the quote signed.                            *)
(***************************************************************************)
EXTENDS Naturals, FiniteSets

CONSTANTS
    Requests,   \* the requests handled at the same time
    Contents,   \* what the lines and totals of the quote can say
    MaxOf,      \* for each operation, how many requests run it at the same time
    Refs,       \* how the public link names the quote
    Faults,     \* what may fail
    Null        \* SQL NULL, an absent file

Operations == {"update", "send", "public", "dashboard", "delete", "convert"}

ASSUME RequestsAssumption == IsFiniteSet(Requests)
ASSUME MaxOfAssumption == MaxOf \in [Operations -> Nat]
ASSUME RefsAssumption == Refs \subseteq {"slug", "token"}
ASSUME FaultsAssumption == Faults \subseteq {"storage", "database", "death"}

VARIABLES
    status, lines, totals, contentHash, signature, deleted,  \* Devis, DevisLigne
    facture,     \* the content of the invoice made from the quote, or Null
    pdf,         \* the content printed in the archived PDF, or Null
    signedPdf,   \* the signature printed in the archived signed PDF, or Null
    expired,     \* the link is past its date
    log,         \* number of journal entries of each action
    loggedHash,  \* content hashes in the entries of the client's decision
    mailed,      \* signatures whose signed PDF was sent by e-mail
    req          \* the requests in progress

row == <<status, lines, totals, contentHash, signature, deleted>>
files == <<pdf, signedPdf>>
journal == <<log, loggedHash>>
vars == <<row, facture, files, expired, journal, mailed, req>>

-----------------------------------------------------------------------------
(* The values                                                              *)

DevisStatus == {"BROUILLON", "ENVOYE", "ACCEPTE", "REFUSE", "FACTURE"}
Decisions == {"ACCEPTE", "REFUSE"}

\* The entries of updates, of which there may be any number, are left out.
AuditAction == {"LOCK", "SEND", "ACCEPT", "REFUSE", "SOFT_DELETE",
                "CONVERT_TO_FACTURE", "CREATE"}

\* A batch is the rows of DevisLigne that one request wrote in one createMany.
Batches == [content: Contents, by: Requests \union {Null}]

\* What is hashed and printed: the lines, and the totals on the quote.  The hash
\* is collision-free: it is modelled by what it covers.
Hashes == [lines: SUBSET Batches, totals: Contents]
BuildDevisPayload == [lines |-> lines, totals |-> totals]

\* The evidence binds the signer (here: the request) to the content hash.
Signatures == [by: Requests, hash: Hashes]

ASSUME NullAssumption ==
    Null \notin Hashes /\ Null \notin Signatures /\ Null \notin Contents /\ Null \notin Requests

Idle == [op |-> "none", pc |-> "idle", decision |-> Null, ref |-> Null,
         content |-> Null, seen |-> Null]

At(r, pc) == req[r].pc = pc
GotoWith(r, pc, seen) ==
    req' = [req EXCEPT ![r] = [op |-> @.op, pc |-> pc, decision |-> @.decision, ref |-> @.ref,
                               content |-> @.content, seen |-> seen]]
Goto(r, pc) == GotoWith(r, pc, req[r].seen)
Finish(r) == req' = [req EXCEPT ![r] = Idle]
Running(op) == {r \in Requests: req[r].op = op}
Accepts(r) == req[r].op = "public" /\ req[r].decision = "ACCEPTE"

\* A request that only reads and moves on.
Reads == UNCHANGED <<row, facture, files, expired, journal, mailed>>

Start(r, request) ==
    /\ At(r, "idle")
    /\ Cardinality(Running(request.op)) < MaxOf[request.op]
    /\ req' = [req EXCEPT ![r] = request]
    /\ Reads

Log(action) == log' = [log EXCEPT ![action] = @ + 1]

-----------------------------------------------------------------------------
(* The where clauses                                                       *)

Live == ~deleted

\* The mutant keeps only the id.
WhereId == TRUE
SendWhere == status = "BROUILLON" /\ Live
DecideWhere == status = "ENVOYE" /\ Live

\* publicShareLookupWhere finds the quote by its slug or by its token,
\* shareTokenLookupWhere by its token only: it hashes a slug as if it were one.
\* The mutant compares the token itself with the stored hash.
NoLookup(ref) == FALSE
ShareTokenLookupWhere(ref) == ref = "token"

\* softDeleteDevis updates by id.
DeleteWhere == TRUE

-----------------------------------------------------------------------------
Init ==
    \E c \in Contents:
        /\ status = "BROUILLON"
        /\ lines = {[content |-> c, by |-> Null]}
        /\ totals = c
        /\ contentHash = Null
        /\ signature = Null
        /\ deleted = FALSE
        /\ facture = Null
        /\ pdf = Null
        /\ signedPdf = Null
        /\ expired = FALSE
        /\ log = [a \in AuditAction |-> 0]
        /\ loggedHash = {}
        /\ mailed = {}
        /\ req = [r \in Requests |-> Idle]

\* min(validUntil, sentAt + 90 days) passes.
Expire ==
    /\ ~expired
    /\ expired' = TRUE
    /\ UNCHANGED <<row, facture, files, journal, mailed, req>>

-----------------------------------------------------------------------------
(* updateDevis: checks what it read, then replaces the lines in a          *)
(* transaction.                                                            *)

BeginUpdate(r, c) ==
    /\ Live /\ status = "BROUILLON" /\ contentHash = Null
    /\ Start(r, [Idle EXCEPT !.op = "update", !.pc = "deleteLines", !.content = c])

\* deleteMany works on the rows committed when it starts.
SnapshotLines(r) ==
    /\ At(r, "deleteLines")
    /\ GotoWith(r, "awaitLines", BuildDevisPayload)
    /\ Reads

\* The rows a transaction has deleted stay locked until it ends.
LockedBy(r) == IF At(r, "replace") THEN req[r].seen.lines ELSE {}

\* It waits for the rows that others have locked, and skips those that are gone.
DeleteLines(r) ==
    /\ At(r, "awaitLines")
    /\ \A v \in Requests \ {r}: LockedBy(v) \intersect req[r].seen.lines = {}
    /\ GotoWith(r, "replace", [req[r].seen EXCEPT !.lines = @ \intersect lines])
    /\ Reads

\* createMany, update where {id}, COMMIT.
ReplaceLines(r) ==
    /\ At(r, "replace")
    /\ lines' = (lines \ req[r].seen.lines) \union {[content |-> req[r].content, by |-> r]}
    /\ totals' = req[r].content
    /\ Finish(r)
    /\ UNCHANGED <<status, contentHash, signature, deleted, facture, files, expired, journal, mailed>>

-----------------------------------------------------------------------------
(* sendDevis: archives the PDF of what it read, then locks the quote.      *)

BeginSend(r) ==
    /\ Live /\ status = "BROUILLON"
    /\ Start(r, [Idle EXCEPT !.op = "send", !.pc = "archivePdf", !.seen = BuildDevisPayload])

ArchivePdf(r) ==
    /\ At(r, "archivePdf")
    /\ pdf' = req[r].seen
    /\ Goto(r, "lock")
    /\ UNCHANGED <<row, facture, signedPdf, expired, journal, mailed>>

LockDevis(r) ==
    /\ At(r, "lock") /\ SendWhere
    /\ status' = "ENVOYE"
    /\ contentHash' = req[r].seen
    /\ Goto(r, "logLock")
    /\ UNCHANGED <<lines, totals, signature, deleted, facture, files, expired, journal, mailed>>

\* count = 0: deletes the PDF, throws, and deletes it again in the catch block.
LockFails(r) ==
    /\ At(r, "lock") /\ ~SendWhere
    /\ Goto(r, "dropPdf")
    /\ Reads

DropPdf(r) ==
    /\ \/ At(r, "dropPdf") /\ Goto(r, "catch")
       \/ At(r, "catch") /\ Finish(r)
    /\ pdf' = Null
    /\ UNCHANGED <<row, facture, signedPdf, expired, journal, mailed>>

LogSend(r) ==
    /\ \/ At(r, "logLock") /\ Log("LOCK") /\ Goto(r, "logSend")
       \/ At(r, "logSend") /\ Log("SEND") /\ Finish(r)
    /\ UNCHANGED <<row, facture, files, expired, loggedHash, mailed>>

-----------------------------------------------------------------------------
(* The public link: POST, then transitionDevisStatusFromPublic.            *)

\* The route finds the quote by slug or token and checks its date.
BeginPublic(r, decision, ref) ==
    /\ Live /\ status = "ENVOYE" /\ ~expired
    /\ Start(r, [Idle EXCEPT !.op = "public", !.decision = decision, !.ref = ref,
                         !.pc = IF decision = "ACCEPTE" THEN "verifySigner" ELSE "findAgain"])

\* The one-time code is right, or the request ends.
VerifySigner(r) ==
    /\ At(r, "verifySigner")
    /\ Goto(r, "findAgain") \/ Finish(r)
    /\ Reads

\* The service finds it again by its token; "tooLate" answers that the quote was
\* already processed or is no longer available.
FindAgain(r) ==
    /\ At(r, "findAgain")
    /\ LET found == DecideWhere /\ ShareTokenLookupWhere(req[r].ref) IN
       \/ ~found /\ Goto(r, "tooLate")
       \/ found /\ expired /\ Finish(r)
       \/ /\ found /\ ~expired
          /\ GotoWith(r, IF Accepts(r) THEN "archiveSigned" ELSE "decide", contentHash)
    /\ Reads

Evidence(r) == [by |-> r, hash |-> req[r].seen]

\* One key per quote: a later archive overwrites.
ArchiveSigned(r) ==
    /\ At(r, "archiveSigned")
    /\ signedPdf' = Evidence(r)
    /\ Goto(r, "decide")
    /\ UNCHANGED <<row, facture, pdf, expired, journal, mailed>>

\* The guarded update, of the public link and of the dashboard: only the public
\* link brings a signature.
Decide(r) ==
    /\ At(r, "decide") /\ DecideWhere
    /\ status' = req[r].decision
    /\ signature' = IF Accepts(r) THEN Evidence(r) ELSE signature
    /\ Goto(r, "logDecision")
    /\ UNCHANGED <<lines, totals, contentHash, deleted, facture, files, expired, journal, mailed>>

\* count = 0: whoever archived a signed PDF deletes it.
DecideFails(r) ==
    /\ At(r, "decide") /\ ~DecideWhere
    /\ Goto(r, IF Accepts(r) THEN "dropSigned" ELSE "tooLate")
    /\ Reads

\* The mutant leaves the file.
KeepSigned == UNCHANGED signedPdf
DeleteSigned == signedPdf' = Null

DropSigned(r) ==
    /\ At(r, "dropSigned")
    /\ DeleteSigned
    /\ Goto(r, "tooLate")
    /\ UNCHANGED <<row, facture, pdf, expired, journal, mailed>>

LogDecision(r) ==
    /\ At(r, "logDecision")
    /\ Log(IF req[r].decision = "ACCEPTE" THEN "ACCEPT" ELSE "REFUSE")
    /\ loggedHash' = loggedHash \union {req[r].seen}
    /\ IF Accepts(r) THEN Goto(r, "notify") ELSE Finish(r)
    /\ UNCHANGED <<row, facture, files, expired, mailed>>

\* notifyDevisSigned mails the PDF it has in memory; a failure is only reported.
Notify(r) ==
    /\ At(r, "notify")
    /\ mailed' = mailed \union {Evidence(r)} \/ UNCHANGED mailed
    /\ Finish(r)
    /\ UNCHANGED <<row, facture, files, expired, journal>>

Answer(r) ==
    /\ At(r, "tooLate")
    /\ Finish(r)
    /\ Reads

\* transitionDevisStatus, from the dashboard: reads the quote whatever its status.
BeginDashboard(r, decision) ==
    /\ Live
    /\ Start(r, [Idle EXCEPT !.op = "dashboard", !.pc = "decide", !.decision = decision,
                         !.seen = contentHash])

-----------------------------------------------------------------------------
(* softDeleteDevis and createFactureFromDevis                              *)

BeginDelete(r) ==
    /\ Live /\ status # "FACTURE"
    /\ Start(r, [Idle EXCEPT !.op = "delete", !.pc = "checkFacture"])

CheckFacture(r) ==
    /\ At(r, "checkFacture")
    /\ IF facture = Null THEN Goto(r, "delete") ELSE Finish(r)
    /\ Reads

DeleteDevis(r) ==
    /\ \/ /\ At(r, "delete") /\ DeleteWhere
          /\ deleted' = TRUE
          /\ Goto(r, "logDelete") /\ UNCHANGED log
       \/ At(r, "logDelete") /\ Log("SOFT_DELETE") /\ Finish(r) /\ UNCHANGED deleted
    /\ UNCHANGED <<status, lines, totals, contentHash, signature, facture, files, expired, loggedHash, mailed>>

\* Reads the quote with its lines and its invoice.
BeginConvert(r) ==
    /\ Live /\ status = "ACCEPTE" /\ facture = Null
    /\ Start(r, [Idle EXCEPT !.op = "convert", !.pc = "createFacture", !.seen = BuildDevisPayload])

\* The unique index on Facture.devisId; the mutant has none.
NoIndex == TRUE
DevisIdFree == facture = Null

\* The transaction copies what was read and marks the quote; it does not look at
\* how many rows the second statement changed.  The index rejects a second invoice.
CreateFacture(r) ==
    /\ At(r, "createFacture")
    /\ \/ /\ DevisIdFree
          /\ facture' = req[r].seen
          /\ status' = IF status = "ACCEPTE" /\ Live THEN "FACTURE" ELSE status
          /\ Goto(r, "logConvert")
       \/ ~DevisIdFree /\ Finish(r) /\ UNCHANGED <<status, facture>>
    /\ UNCHANGED <<lines, totals, contentHash, signature, deleted, files, expired, journal, mailed>>

LogConvert(r) ==
    /\ \/ At(r, "logConvert") /\ Log("CONVERT_TO_FACTURE") /\ Goto(r, "logCreate")
       \/ At(r, "logCreate") /\ Log("CREATE") /\ Finish(r)
    /\ UNCHANGED <<row, facture, files, expired, loggedHash, mailed>>

-----------------------------------------------------------------------------
(* Faults                                                                  *)

\* archivePdf throws, and the request ends.
Reject(r) == Finish(r)

StorageFails(r) ==
    /\ "storage" \in Faults
    /\ At(r, "archivePdf") \/ At(r, "archiveSigned")
    /\ Reject(r)
    /\ Reads

\* A statement throws: from its update on, sendDevis catches it and deletes the
\* PDF; the other operations just end, and a transaction rolls back.
DatabaseFails(r) ==
    /\ "database" \in Faults
    /\ \/ req[r].pc \in {"lock", "logLock", "logSend"} /\ Goto(r, "catch")
       \/ /\ req[r].pc \in {"deleteLines", "awaitLines", "replace", "findAgain", "decide", "logDecision",
                            "checkFacture", "delete", "logDelete", "createFacture", "logConvert", "logCreate"}
          /\ Finish(r)
    /\ Reads

\* The process stops: its transactions roll back.
Die(r) ==
    /\ "death" \in Faults
    /\ ~At(r, "idle")
    /\ Finish(r)
    /\ Reads

-----------------------------------------------------------------------------
UpdateStep(r) == SnapshotLines(r) \/ DeleteLines(r) \/ ReplaceLines(r)
SendStep(r) == ArchivePdf(r) \/ LockDevis(r) \/ LockFails(r) \/ DropPdf(r) \/ LogSend(r)
PublicStep(r) == VerifySigner(r) \/ FindAgain(r) \/ ArchiveSigned(r) \/ DropSigned(r) \/ Notify(r)
DecideStep(r) == Decide(r) \/ DecideFails(r) \/ LogDecision(r) \/ Answer(r)
OtherStep(r) == CheckFacture(r) \/ DeleteDevis(r) \/ CreateFacture(r) \/ LogConvert(r)
Step(r) == UpdateStep(r) \/ SendStep(r) \/ PublicStep(r) \/ DecideStep(r) \/ OtherStep(r)

Begin(r) ==
    \/ \E c \in Contents: BeginUpdate(r, c)
    \/ BeginSend(r)
    \/ \E d \in Decisions, ref \in Refs: BeginPublic(r, d, ref)
    \/ \E d \in Decisions: BeginDashboard(r, d)
    \/ BeginDelete(r)
    \/ BeginConvert(r)

Fault(r) == StorageFails(r) \/ DatabaseFails(r) \/ Die(r)

Next == Expire \/ \E r \in Requests: Begin(r) \/ Step(r) \/ Fault(r)

Spec == Init /\ [][Next]_vars

-----------------------------------------------------------------------------
(* Properties                                                              *)

Steps == {"idle", "deleteLines", "awaitLines", "replace",
          "archivePdf", "lock", "dropPdf", "catch", "logLock", "logSend",
          "verifySigner", "findAgain", "archiveSigned", "decide", "dropSigned",
          "logDecision", "notify", "tooLate",
          "checkFacture", "delete", "logDelete", "createFacture", "logConvert", "logCreate"}

Request == [op: Operations \union {"none"}, pc: Steps, decision: Decisions \union {Null},
            ref: {"slug", "token", Null}, content: Contents \union {Null},
            seen: Hashes \union {Null}]

TypeOK ==
    /\ status \in DevisStatus
    /\ lines \subseteq Batches
    /\ totals \in Contents
    /\ contentHash \in Hashes \union {Null}
    /\ signature \in Signatures \union {Null}
    /\ deleted \in BOOLEAN
    /\ facture \in Hashes \union {Null}
    /\ pdf \in Hashes \union {Null}
    /\ signedPdf \in Signatures \union {Null}
    /\ expired \in BOOLEAN
    /\ log \in [AuditAction -> Nat]
    /\ loggedHash \subseteq Hashes \union {Null}
    /\ mailed \subseteq Signatures
    /\ req \in [Requests -> Request]

Sent == contentHash # Null
Quiet(pcs) == \A r \in Requests: req[r].pc \notin pcs

\* The status only moves forward: a quote is sent once, decided once, and becomes an
\* invoice only when accepted; its hash and its signature, once set, never change.
StatusStep ==
    /\ <<status, status'>> \in
         {<<s, s>> : s \in DevisStatus} \union
         {<<"BROUILLON", "ENVOYE">>, <<"ENVOYE", "ACCEPTE">>, <<"ENVOYE", "REFUSE">>,
          <<"ACCEPTE", "FACTURE">>}
    /\ Sent => contentHash' = contentHash
    /\ signature # Null => signature' = signature

StatusMoves == [][StatusStep]_vars

\* The signature binds the hash that was set when the quote was sent, and stands on a
\* quote that is accepted or invoiced.
SignatureBinds ==
    signature # Null =>
        /\ signature.hash = contentHash /\ Sent
        /\ status \in {"ACCEPTE", "FACTURE"}

\* The journal tells at most one decision and the one the quote holds, one send, and
\* one conversion, which made an invoice, whatever died or was retried.  The entry of a
\* decision carries the hash of the quote, or none (the dashboard had read a draft), never
\* another one.
LogTruthful ==
    /\ log["LOCK"] <= 1 /\ log["SEND"] <= log["LOCK"]
    /\ log["LOCK"] + log["ACCEPT"] + log["REFUSE"] > 0 => Sent
    /\ log["ACCEPT"] + log["REFUSE"] <= 1
    /\ log["ACCEPT"] = 1 => status \in {"ACCEPTE", "FACTURE"}
    /\ log["REFUSE"] = 1 => status = "REFUSE"
    /\ log["CREATE"] <= log["CONVERT_TO_FACTURE"] /\ log["CONVERT_TO_FACTURE"] <= 1
    /\ log["CONVERT_TO_FACTURE"] = 1 => facture # Null
    /\ loggedHash \subseteq {contentHash, Null}

\* The signed copy goes by e-mail only to the client whose signature the quote holds.
MailedIsSigned == mailed \subseteq {signature}

\* The client who is told that the quote was already processed or is no longer
\* available has been told the truth.
TooLateIsTrue == \A r \in Running("public"): At(r, "tooLate") => ~DecideWhere

StatusInv ==
    /\ contentHash = Null <=> status = "BROUILLON"
    /\ signature # Null => signature.hash = contentHash /\ status \in {"ACCEPTE", "FACTURE"}

\* What a request r knows: what it read before its last await is still so.
RequestOK(r, q) ==
    /\ q.pc \in {"verifySigner", "findAgain", "archiveSigned", "dropSigned", "notify"} => q.op = "public"
    /\ q.pc \in {"decide", "logDecision"} => q.op \in {"public", "dashboard"}
    /\ q.op \in {"public", "dashboard"} => q.decision \in Decisions
    /\ q.op = "public" => Sent /\ q.ref \in Refs
    /\ q.pc \in {"archiveSigned", "notify"} => q.decision = "ACCEPTE"
    /\ q.op = "public" /\ q.pc \in {"archiveSigned", "decide", "logDecision", "notify"} =>
          q.seen = contentHash
    /\ q.op = "public" /\ q.decision = "ACCEPTE" /\ q.pc \in {"logDecision", "notify"} =>
          signature = [by |-> r, hash |-> q.seen]
    /\ q.pc = "dropSigned" => ~DecideWhere
    /\ q.pc \in {"archivePdf", "lock", "awaitLines", "replace", "createFacture"} => q.seen \in Hashes
    /\ q.pc \in {"deleteLines", "awaitLines", "replace"} => q.content \in Contents

\* The inductive invariant behind the theorems.
IInv == TypeOK /\ StatusInv /\ MailedIsSigned /\ \A r \in Requests: RequestOK(r, req[r])

\* The archived PDF of a quote sent prints the hashed content and, once the requests
\* of the signers are over, the archived signed PDF is the one of the signature the quote
\* holds, and there is none without a signature (deletions of files are taken to succeed).
PapersKept ==
    /\ Sent => pdf = contentHash
    /\ Quiet({"decide", "dropSigned"}) => signedPdf = signature

\* The invoice and the status of the quote go together, and the invoice says what the
\* client accepted.
InvoiceOfAccepted ==
    /\ facture # Null <=> status = "FACTURE"
    /\ facture # Null => facture = contentHash
=============================================================================
