------------------------------ MODULE Signing ------------------------------
(***************************************************************************)
(* How a client answers a quote that was sent: the pages that show the     *)
(* public link (PublicDevisView.tsx, DevisClientAcceptPanel.tsx), the code *)
(* mailed to the signer (devis-signature-otp.ts), and the request that     *)
(* verifies the code, decides the quote and records its answer under the   *)
(* page's idempotency key.  What the decision does to the quote and its    *)
(* PDF is in DevisLifecycle; here it happens at once or not at all.        *)
(***************************************************************************)
EXTENDS Integers, FiniteSets

CONSTANTS
    Pages,          \* the pages open on the link, each with the address its user declares
    Requests,       \* the answers the server handles at the same time
    MaxAttempts,    \* OTP_MAX_VERIFY_ATTEMPTS
    MaxCodes,       \* bound on the codes created
    MaxKeys,        \* bound on the keys a page makes
    Client,         \* the address of the client's record
    Wrong,          \* a code that was not mailed
    Null

ASSUME RequestsAssumption == IsFiniteSet(Requests)
ASSUME AttemptsAssumption == MaxAttempts \in Nat \ {0} /\ MaxCodes \in Nat /\ MaxKeys \in Nat
ASSUME AddressAssumption == /\ Client \notin Pages /\ Wrong \notin Nat
                            /\ Null \notin Nat \union Pages \union {"ACCEPTE", "REFUSE"}

VARIABLES
    devis,       \* the status of the quote, and the address and code it was signed with
    codes,       \* the rows of DevisSignatureOtp that have not expired
    lastCode,    \* the codes are numbered as they are created
    mailed,      \* the codes that arrived, with their addresses
    ask,         \* the request for a code of each page
    page,        \* what each page knows and shows
    req,         \* the answers being handled
    keyLock,     \* holder of the idempotency key's lock
    recorded     \* IdempotencyRecord: the status answered for a key

otp == <<codes, lastCode, mailed>>
keys == <<keyLock, recorded>>
vars == <<devis, otp, ask, page, req, keys>>

-----------------------------------------------------------------------------
(* The values                                                              *)

Keys == Pages \X (1 .. MaxKeys)
Decisions == {"ACCEPTE", "REFUSE"}

NoAsk == [pc |-> "idle", to |-> Null, code |-> 0]
NoReq == [pc |-> "idle", page |-> Null, key |-> Null, status |-> Null, code |-> Null,
          seen |-> 0, attempts |-> 0, signer |-> Null]

Asks(p, pc) == ask[p].pc = pc
At(r, pc) == req[r].pc = pc
To(r, pc) == req' = [req EXCEPT ![r].pc = pc]

\* resolveSignerEmail: the client's record first, then what the signer declares.  The
\* craftsman may edit the record at any time, so each request finds either; the model
\* draws it when it is first used.
ResolveSignerEmail(p) == {Client, p}

Unused == {c \in codes: ~c.used}
\* orderBy createdAt desc, first
Latest(c) == \A d \in Unused: d.id <= c.id

-----------------------------------------------------------------------------
(* The code                                                                *)

\* The panel is there while the quote is open, its buttons while no answer is awaited.
Buttons(p) == page[p].shown = "ENVOYE" /\ ~page[p].waiting

\* The button "Recevoir mon code"; the server finds the quote still open.
RequestOtp(p) ==
    /\ Buttons(p)
    /\ Asks(p, "idle")
    /\ devis.status = "ENVOYE"
    /\ ask' = [ask EXCEPT ![p].pc = "recent"]
    /\ UNCHANGED <<devis, otp, page, req, keys>>

\* The page says that a code was sent.
Sent(p) ==
    /\ ask' = [ask EXCEPT ![p] = NoAsk]
    /\ page' = [page EXCEPT ![p].otpSent = TRUE]

\* An unused code may be less than a minute old: then the answer is the same, and no
\* mail goes out.
CheckRecent(p) ==
    /\ Asks(p, "recent")
    /\ \/ Unused # {} /\ Sent(p)
       \/ ask' = [ask EXCEPT ![p].pc = "delete"] /\ UNCHANGED page
    /\ UNCHANGED <<devis, otp, req, keys>>

DeleteUnused(p) ==
    /\ Asks(p, "delete")
    /\ codes' = codes \ Unused
    /\ ask' = [ask EXCEPT ![p].pc = "create"]
    /\ UNCHANGED <<devis, lastCode, mailed, page, req, keys>>

CreateCode(p) ==
    /\ Asks(p, "create")
    /\ lastCode < MaxCodes
    /\ lastCode' = lastCode + 1
    /\ \E email \in ResolveSignerEmail(p):
           /\ codes' = codes \union {[id |-> lastCode', to |-> email, attempts |-> 0,
                                      used |-> FALSE, tries |-> 0]}
           /\ ask' = [ask EXCEPT ![p] = [pc |-> "mail", to |-> email, code |-> lastCode']]
    /\ UNCHANGED <<devis, mailed, page, req, keys>>

\* The mutant mails the code to whom the signer declares.
MailDeclared(p) == p
MailTo(p) == ask[p].to

MailCode(p) ==
    /\ Asks(p, "mail")
    /\ mailed' = mailed \union {<<MailTo(p), ask[p].code>>}
    /\ Sent(p)
    /\ UNCHANGED <<devis, codes, lastCode, req, keys>>

\* In production a mail that cannot be sent takes every unused code with it.
MailFails(p) ==
    /\ Asks(p, "mail")
    /\ codes' = codes \ Unused
    /\ ask' = [ask EXCEPT ![p] = NoAsk]
    /\ UNCHANGED <<devis, lastCode, mailed, page, req, keys>>

\* The process dies, and the page shows an error.
AskDies(p) ==
    /\ ~Asks(p, "idle")
    /\ ask' = [ask EXCEPT ![p] = NoAsk]
    /\ UNCHANGED <<devis, otp, page, req, keys>>

\* After ten minutes no query finds it any more.  Once the quote is decided no code
\* counts, and the model keeps them.
ExpireCode(c) ==
    /\ devis.status = "ENVOYE"
    /\ codes' = codes \ {c}
    /\ UNCHANGED <<devis, lastCode, mailed, ask, page, req, keys>>

-----------------------------------------------------------------------------
(* The page                                                                *)

NoPage == [shown |-> Null, otpSent |-> FALSE, key |-> 0, made |-> 0, waiting |-> FALSE, sent |-> {}]

\* The page is opened, or opened again: the key it kept and the answers it waits for go.
\* The model lets a request for a code end first.
Load(p) ==
    /\ Asks(p, "idle")
    /\ page' = [page EXCEPT ![p] = [NoPage EXCEPT !.shown = devis.status, !.made = page[p].made]]
    /\ UNCHANGED <<devis, otp, ask, req, keys>>

\* The codes that the user of a page can read: those of the declared address, and
\* those of the client.
Received(p) == {m[2]: m \in {n \in mailed: n[1] \in {p, Client}}}

\* nextIdempotencyKey, unless a key was kept from an answer that got lost.
KeyNo(p) == IF page[p].key = 0 THEN page[p].made + 1 ELSE page[p].key

\* respond: one request at a time, with the page's key.
Respond(p, r, status, code) ==
    /\ Buttons(p)
    /\ At(r, "idle")
    /\ KeyNo(p) <= MaxKeys
    /\ page' = [page EXCEPT ![p].waiting = TRUE, ![p].key = KeyNo(p),
                            ![p].made = IF @ < KeyNo(p) THEN KeyNo(p) ELSE @,
                            ![p].sent = @ \union {status}]
    /\ req' = [req EXCEPT ![r] = [NoReq EXCEPT !.pc = "find", !.page = p, !.key = <<p, KeyNo(p)>>,
                                              !.status = status, !.code = code]]
    /\ UNCHANGED <<devis, otp, ask, keys>>

\* validateAccept wants the mention that a code was sent, and a code.
Accept(p, r) ==
    /\ page[p].otpSent
    /\ \E code \in Received(p) \union {Wrong}: Respond(p, r, "ACCEPTE", code)

Refuse(p, r) == Respond(p, r, "REFUSE", Null)

-----------------------------------------------------------------------------
(* The answer on the server                                                *)

\* The mutant does not look at res.ok.
ErrorUnseen(answer) == FALSE
IsError(answer) == answer = "error"

\* After a success the page shows the status it had asked for, whichever status the
\* answer was recorded for; after an error the next click is a new request.
Answered(p, status, answer) ==
    IF IsError(answer) THEN [page EXCEPT ![p].waiting = FALSE, ![p].key = 0]
                       ELSE [page EXCEPT ![p].waiting = FALSE, ![p].shown = status]

\* The page still waits for this request.
Awaited(r) == page[req[r].page].waiting /\ page[req[r].page].key = req[r].key[2]

\* The handler returns or throws: the transaction of the key ends, the answer arrives.
Finish(r, answer) ==
    /\ req' = [req EXCEPT ![r] = NoReq]
    /\ keyLock' = [k \in Keys |-> IF keyLock[k] = r THEN Null ELSE keyLock[k]]
    /\ page' = IF Awaited(r) THEN Answered(req[r].page, req[r].status, answer) ELSE page

Fail(r) == Finish(r, "error")
GoesOn == UNCHANGED <<keyLock, page>>

\* The route looks for an open quote before anything else.
FindDevis(r) ==
    /\ At(r, "find")
    /\ IF devis.status = "ENVOYE" THEN To(r, "lock") /\ GoesOn ELSE Fail(r)
    /\ UNCHANGED <<devis, otp, ask, recorded>>

\* withIdempotency: the key's lock, then what the key was answered before.
LockKey(r) ==
    /\ At(r, "lock")
    /\ keyLock[req[r].key] = Null
    /\ IF recorded[req[r].key] # Null
       THEN Finish(r, recorded[req[r].key])
       ELSE /\ keyLock' = [keyLock EXCEPT ![req[r].key] = r]
            /\ To(r, IF req[r].status = "ACCEPTE" THEN "read" ELSE "decide")
            /\ UNCHANGED page
    /\ UNCHANGED <<devis, otp, ask, recorded>>

\* verifyDevisSignatureOtp reads the latest unused code.  One that was locked by its
\* wrong answers is not unused.
ReadCode(r) ==
    /\ At(r, "read")
    /\ \/ Unused = {} /\ Fail(r)
       \/ \E c \in Unused:
             /\ Latest(c)
             /\ req' = [req EXCEPT ![r].pc = "verify", ![r].seen = c.id,
                                   ![r].attempts = c.attempts]
             /\ GoesOn
    /\ UNCHANGED <<devis, otp, ask, recorded>>

Row(id) == CHOOSE c \in codes: c.id = id
Update(row, new) == codes' = (codes \ {row}) \union {new}

Locks(attempts) == attempts >= MaxAttempts

\* The row is written with what was read of it before; the update of a row that was
\* deleted meanwhile throws.
VerifyCode(r) ==
    /\ At(r, "verify")
    /\ LET id == req[r].seen
           attempts == req[r].attempts + 1
           used == [Row(id) EXCEPT !.used = TRUE]
           counted == [Row(id) EXCEPT !.attempts = attempts, !.tries = @ + 1,
                                      !.used = @ \/ Locks(attempts)]
           found == \E c \in codes: c.id = id
       IN \/ ~found /\ Fail(r) /\ UNCHANGED codes
          \/ found /\ req[r].code # id /\ Fail(r) /\ Update(Row(id), counted)
          \/ /\ found /\ req[r].code = id
             /\ Update(Row(id), used)
             /\ req' = [req EXCEPT ![r].pc = "decide", ![r].signer = used.to,
                                   ![r].code = Null, ![r].attempts = 0]
             /\ GoesOn
    /\ UNCHANGED <<devis, lastCode, mailed, ask, recorded>>

\* transitionDevisStatusFromPublic: decided where the status is still ENVOYE.
Decide(r) ==
    /\ At(r, "decide")
    /\ IF devis.status = "ENVOYE"
       THEN /\ devis' = [status |-> req[r].status, signer |-> req[r].signer,
                         code |-> req[r].seen]
            /\ To(r, "record")
            /\ GoesOn
       ELSE Fail(r) /\ UNCHANGED devis
    /\ UNCHANGED <<otp, ask, recorded>>

\* Anything throws, or the process dies; a code that was used stays used.
HandlerFails(r) ==
    /\ ~At(r, "idle")
    /\ Fail(r)
    /\ UNCHANGED <<devis, otp, ask, recorded>>

\* The record is part of the transaction that holds the lock, if it is still open.
Record(r) ==
    /\ At(r, "record")
    /\ IF keyLock[req[r].key] = r
       THEN /\ recorded' = [recorded EXCEPT ![req[r].key] = req[r].status]
            /\ Finish(r, req[r].status)
       ELSE Fail(r) /\ UNCHANGED recorded
    /\ UNCHANGED <<devis, otp, ask>>

\* The transaction of the key has been open for too long; its handler goes on.
KeyTimeout(k) ==
    /\ keyLock[k] # Null
    /\ keyLock' = [keyLock EXCEPT ![k] = Null]
    /\ UNCHANGED <<devis, otp, ask, page, req, recorded>>

\* fetch throws: the page keeps its key for the next click, and the request may still
\* be on its way, or its answer have been on its way back.
NetworkError(p) ==
    /\ page[p].waiting
    /\ page' = [page EXCEPT ![p].waiting = FALSE]
    /\ UNCHANGED <<devis, otp, ask, req, keys>>

-----------------------------------------------------------------------------
Init ==
    /\ devis = [status |-> "ENVOYE", signer |-> Null, code |-> 0]
    /\ codes = {} /\ lastCode = 0 /\ mailed = {}
    /\ ask = [p \in Pages |-> NoAsk]
    /\ page = [p \in Pages |-> NoPage]
    /\ req = [r \in Requests |-> NoReq]
    /\ keyLock = [k \in Keys |-> Null]
    /\ recorded = [k \in Keys |-> Null]

Next ==
    \/ \E p \in Pages:
        \/ RequestOtp(p) \/ CheckRecent(p) \/ DeleteUnused(p) \/ CreateCode(p)
        \/ MailCode(p) \/ MailFails(p) \/ AskDies(p)
        \/ Load(p) \/ NetworkError(p)
        \/ \E r \in Requests: Accept(p, r) \/ Refuse(p, r)
    \/ \E c \in codes: ExpireCode(c)
    \/ \E r \in Requests:
        \/ FindDevis(r) \/ LockKey(r) \/ ReadCode(r) \/ VerifyCode(r)
        \/ Decide(r) \/ HandlerFails(r) \/ Record(r)
    \/ \E k \in Keys: KeyTimeout(k)

Spec == Init /\ [][Next]_vars

-----------------------------------------------------------------------------
(* Properties                                                              *)

\* A quote is signed in the name of the address that the code was mailed to, and the
\* code is spent, although codes are replaced, mails fail and the client's record
\* changes between the code and the signature (verifySigner, route.ts).  However two
\* answers overlap and write back what they had read, a code takes a bounded number of
\* wrong ones (devis-signature-otp.ts:207-221): the other answer can undo the count, but
\* to the count it read, and a code that was locked stays locked.  For the three attempts
\* of the code that makes seven.
SignedByMailbox ==
    /\ devis.status = "ACCEPTE" =>
          /\ <<devis.signer, devis.code>> \in mailed
          /\ \A c \in codes: c.id = devis.code => c.used
    /\ Cardinality(Requests) <= 2 =>
          \A c \in codes: c.tries <= 1 + (MaxAttempts * (MaxAttempts + 1)) \div 2

\* What a page shows is what the quote is, after lost answers and repeated requests
\* too, unless its user asked for both: under a key that was kept, the second request
\* is answered with the record of the first, and the page shows the second
\* (PublicDevisView.tsx, respond).
ShownIsTrue ==
    \A p \in Pages: page[p].shown \in Decisions /\ page[p].sent # Decisions =>
        page[p].shown = devis.status
=============================================================================
