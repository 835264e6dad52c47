--------------------------- MODULE Signing_proofs ---------------------------
(***************************************************************************)
(* What the signature of a quote guarantees, for any number of pages,      *)
(* requests, codes and keys: it names the mailbox its code was sent to,    *)
(* the wrong answers to a code are bounded when two requests overlap, and  *)
(* a page that asked for one answer shows what the quote is.               *)
(***************************************************************************)
EXTENDS Signing, FiniteSetTheorems, TLAPS

USE DEF At, Asks

Addresses == Pages \union {Client}
ReqSteps == {"idle", "find", "lock", "read", "verify", "decide", "record"}
AskSteps == {"idle", "recent", "delete", "create", "mail"}

CodeRecord == [id: Nat, to: Addresses, attempts: Nat, used: BOOLEAN, tries: Nat]
AskRecord == [pc: AskSteps, to: Addresses \union {Null}, code: Nat]
PageRecord == [shown: Decisions \union {"ENVOYE", Null}, otpSent: BOOLEAN, key: Nat, made: Nat,
               waiting: BOOLEAN, sent: SUBSET Decisions]
ReqRecord == [pc: ReqSteps, page: Pages \union {Null}, key: Keys \union {Null},
              status: Decisions \union {Null}, code: Nat \union {Wrong, Null},
              seen: Nat, attempts: Nat, signer: Addresses \union {Null}]
DevisRecord == [status: Decisions \union {"ENVOYE"}, signer: Addresses \union {Null}, code: Nat]

\* A request that works answers for a page, under one of its keys.
Working(q) ==
    q.pc # "idle" => /\ q.page \in Pages /\ q.key \in Keys /\ q.key[1] = q.page
                     /\ q.status \in Decisions

TypeOK ==
    /\ devis \in DevisRecord
    /\ codes \subseteq CodeRecord
    /\ lastCode \in Nat
    /\ mailed \subseteq Addresses \X Nat
    /\ ask \in [Pages -> AskRecord]
    /\ page \in [Pages -> PageRecord]
    /\ req \in [Requests -> ReqRecord]
    /\ keyLock \in [Keys -> Requests \union {Null}]
    /\ recorded \in [Keys -> Decisions \union {Null}]
    /\ \A p \in Pages: ask[p].pc = "mail" => ask[p].to \in Addresses
    /\ \A r \in Requests: Working(req[r])

-----------------------------------------------------------------------------
(* What the steps make of the requests and of the pages.                   *)

Others(r) == \A s \in Requests \ {r}: req'[s] = req[s]
OtherPages(p) == \A o \in Pages \ {p}: page'[o] = page[o]

LEMMA NoReqTyped == NoReq \in ReqRecord /\ Working(NoReq)
  BY DEF NoReq, ReqRecord, ReqSteps, Working

\* A step of the handler that changes pc only.
LEMMA GoesTo ==
  ASSUME TypeOK, NEW r \in Requests, NEW pc \in ReqSteps, req[r].pc # "idle", To(r, pc)
  PROVE  /\ req' \in [Requests -> ReqRecord] /\ Others(r)
         /\ req'[r].pc = pc /\ req'[r].page = req[r].page /\ req'[r].key = req[r].key
         /\ req'[r].status = req[r].status /\ req'[r].code = req[r].code
         /\ req'[r].seen = req[r].seen /\ req'[r].attempts = req[r].attempts
         /\ req'[r].signer = req[r].signer
         /\ \A s \in Requests: Working(req'[s])
<1>1. req[r] \in ReqRecord /\ req \in [Requests -> ReqRecord]
  BY DEF TypeOK
<1>2. PICK q \in ReqRecord:
         /\ req' = [req EXCEPT ![r] = q]
         /\ q.pc = pc /\ q.page = req[r].page /\ q.key = req[r].key
         /\ q.status = req[r].status /\ q.code = req[r].code
         /\ q.seen = req[r].seen /\ q.attempts = req[r].attempts /\ q.signer = req[r].signer
  <2> DEFINE q == [req[r] EXCEPT !.pc = pc]
  <2>1. q \in ReqRecord
    BY <1>1 DEF ReqRecord
  <2>2. req' = [req EXCEPT ![r] = q]
    BY <1>1 DEF To
  <2> QED BY <1>1, <2>1, <2>2 DEF ReqRecord
<1>3. req' \in [Requests -> ReqRecord] /\ Others(r) /\ req'[r] = q
  BY <1>1, <1>2 DEF Others
<1>4. Working(req'[r])
  BY <1>2, <1>3 DEF TypeOK, Working
<1>5. \A s \in Requests \ {r}: Working(req'[s])
  BY <1>3 DEF TypeOK, Others
<1> QED BY <1>2, <1>3, <1>4, <1>5

\* The page that waited for the answer hears of it.
Heard(r, answer, p) ==
    /\ p = req[r].page /\ page[p].waiting /\ page[p].key = req[r].key[2]
    /\ page'[p].made = page[p].made /\ page'[p].sent = page[p].sent /\ page'[p].waiting = FALSE
    /\ IF answer = "error" THEN page'[p].shown = page[p].shown /\ page'[p].key = 0
                           ELSE page'[p].shown = req[r].status /\ page'[p].key = page[p].key

LEMMA Finishes ==
  ASSUME TypeOK, NEW r \in Requests, req[r].pc # "idle", NEW answer, Finish(r, answer)
  PROVE  /\ req' \in [Requests -> ReqRecord] /\ Others(r) /\ req'[r] = NoReq
         /\ \A s \in Requests: Working(req'[s])
         /\ page' \in [Pages -> PageRecord]
         /\ \A p \in Pages: page'[p] = page[p] \/ Heard(r, answer, p)
         /\ keyLock' \in [Keys -> Requests \union {Null}]
<1>1. /\ req[r] \in ReqRecord /\ req \in [Requests -> ReqRecord] /\ page \in [Pages -> PageRecord]
      /\ Working(req[r])
  BY DEF TypeOK
<1>2. req' \in [Requests -> ReqRecord] /\ Others(r) /\ req'[r] = NoReq
  BY <1>1, NoReqTyped DEF Finish, Others
<1>3. \A s \in Requests: Working(req'[s])
  BY <1>2, NoReqTyped DEF TypeOK, Others
<1>4. keyLock' \in [Keys -> Requests \union {Null}]
  BY DEF TypeOK, Finish
<1>5. PICK p \in Pages: p = req[r].page
  BY <1>1 DEF Working
<1>6. page[p] \in PageRecord /\ req[r].status \in Decisions
  BY <1>1 DEF Working
<1>7. CASE ~Awaited(r)
  <2>1. page' = page
    BY <1>7 DEF Finish
  <2> QED BY <1>1, <1>2, <1>3, <1>4, <2>1
<1>8. CASE Awaited(r) /\ answer = "error"
  <2> DEFINE new == [page[p] EXCEPT !.waiting = FALSE, !.key = 0]
  <2>1. /\ new \in PageRecord
        /\ new.made = page[p].made /\ new.sent = page[p].sent /\ new.waiting = FALSE
        /\ new.shown = page[p].shown /\ new.key = 0
    BY <1>6 DEF PageRecord
  <2>2. page' = [page EXCEPT ![p] = new]
    BY <1>1, <1>5, <1>8 DEF Finish, Answered, IsError
  <2> HIDE DEF new
  <2>3. page' \in [Pages -> PageRecord] /\ page'[p] = new /\ OtherPages(p)
    BY <1>1, <2>1, <2>2 DEF OtherPages
  <2>4. page[p].waiting /\ page[p].key = req[r].key[2]
    BY <1>5, <1>8 DEF Awaited
  <2>5. Heard(r, answer, p)
    BY <1>5, <1>8, <2>1, <2>3, <2>4 DEF Heard
  <2> QED BY <1>2, <1>3, <1>4, <2>3, <2>5 DEF OtherPages
<1>9. CASE Awaited(r) /\ answer # "error"
  <2> DEFINE new == [page[p] EXCEPT !.waiting = FALSE, !.shown = req[r].status]
  <2>1. /\ new \in PageRecord
        /\ new.made = page[p].made /\ new.sent = page[p].sent /\ new.waiting = FALSE
        /\ new.shown = req[r].status /\ new.key = page[p].key
    BY <1>6 DEF PageRecord
  <2>2. page' = [page EXCEPT ![p] = new]
    BY <1>1, <1>5, <1>9 DEF Finish, Answered, IsError
  <2> HIDE DEF new
  <2>3. page' \in [Pages -> PageRecord] /\ page'[p] = new /\ OtherPages(p)
    BY <1>1, <2>1, <2>2 DEF OtherPages
  <2>4. page[p].waiting /\ page[p].key = req[r].key[2]
    BY <1>5, <1>9 DEF Awaited
  <2>5. Heard(r, answer, p)
    BY <1>5, <1>9, <2>1, <2>3, <2>4 DEF Heard
  <2> QED BY <1>2, <1>3, <1>4, <2>3, <2>5 DEF OtherPages
<1> QED BY <1>7, <1>8, <1>9

\* A request for a code that goes on, and the page that is told of it.
LEMMA AskGoes ==
  ASSUME TypeOK, NEW p \in Pages, NEW pc \in AskSteps \ {"mail"}, ask' = [ask EXCEPT ![p].pc = pc]
  PROVE  /\ ask' \in [Pages -> AskRecord] /\ ask'[p].pc = pc
         /\ \A o \in Pages \ {p}: ask'[o] = ask[o]
         /\ \A o \in Pages: ask'[o].pc = "mail" => ask'[o].to \in Addresses
<1>1. ask[p] \in AskRecord /\ ask \in [Pages -> AskRecord]
  BY DEF TypeOK
<1>2. ask' = [ask EXCEPT ![p] = [ask[p] EXCEPT !.pc = pc]]
  BY <1>1
<1>3. [ask[p] EXCEPT !.pc = pc] \in AskRecord
  BY <1>1 DEF AskRecord
<1>4. ask' \in [Pages -> AskRecord] /\ ask'[p].pc = pc /\ \A o \in Pages \ {p}: ask'[o] = ask[o]
  BY <1>1, <1>2, <1>3 DEF AskRecord
<1> QED BY <1>4 DEF TypeOK

LEMMA AskEnds ==
  ASSUME TypeOK, NEW p \in Pages, ask' = [ask EXCEPT ![p] = NoAsk]
  PROVE  /\ ask' \in [Pages -> AskRecord] /\ ask'[p].pc = "idle"
         /\ \A o \in Pages \ {p}: ask'[o] = ask[o]
         /\ \A o \in Pages: ask'[o].pc = "mail" => ask'[o].to \in Addresses
<1>1. NoAsk \in AskRecord /\ NoAsk.pc = "idle"
  BY DEF NoAsk, AskRecord, AskSteps
<1> QED BY <1>1 DEF TypeOK

\* Only what the page shows of its key, its answers and the quote matters below.
SamePage(p) ==
    /\ page'[p].shown = page[p].shown /\ page'[p].sent = page[p].sent
    /\ page'[p].key = page[p].key /\ page'[p].made = page[p].made

LEMMA CodeSent ==
  ASSUME TypeOK, NEW p \in Pages, Sent(p)
  PROVE  /\ page' \in [Pages -> PageRecord] /\ \A o \in Pages: SamePage(o)
         /\ ask' = [ask EXCEPT ![p] = NoAsk]
<1>1. page[p] \in PageRecord /\ page \in [Pages -> PageRecord]
  BY DEF TypeOK
<1> DEFINE new == [page[p] EXCEPT !.otpSent = TRUE]
<1>2. /\ new \in PageRecord /\ new.shown = page[p].shown /\ new.sent = page[p].sent
      /\ new.key = page[p].key /\ new.made = page[p].made
  BY <1>1 DEF PageRecord
<1>3. page' = [page EXCEPT ![p] = new]
  BY <1>1 DEF Sent
<1> HIDE DEF new
<1> QED BY <1>1, <1>2, <1>3 DEF Sent, SamePage

\* What an answer that leaves a page carries, and what the page keeps of it.
LEMMA Responds ==
  ASSUME TypeOK, NEW p \in Pages, NEW r \in Requests, NEW status \in Decisions,
         NEW code \in Nat \union {Wrong, Null}, Respond(p, r, status, code)
  PROVE  /\ req' \in [Requests -> ReqRecord] /\ Others(r)
         /\ \A s \in Requests: Working(req'[s])
         /\ req'[r].pc = "find" /\ req'[r].page = p /\ req'[r].key = <<p, KeyNo(p)>>
         /\ req'[r].status = status /\ req'[r].code = code
         /\ page' \in [Pages -> PageRecord] /\ OtherPages(p)
         /\ page'[p].shown = page[p].shown /\ page'[p].key = KeyNo(p)
         /\ page'[p].made = (IF page[p].made < KeyNo(p) THEN KeyNo(p) ELSE page[p].made)
         /\ page'[p].sent = page[p].sent \union {status}
         /\ page[p].shown = "ENVOYE" /\ KeyNo(p) \in 1 .. MaxKeys
<1>1. page[p] \in PageRecord /\ page \in [Pages -> PageRecord] /\ req \in [Requests -> ReqRecord]
  BY DEF TypeOK
<1>2. KeyNo(p) \in 1 .. MaxKeys
  BY <1>1, AttemptsAssumption DEF Respond, KeyNo, PageRecord
<1> DEFINE q == [NoReq EXCEPT !.pc = "find", !.page = p, !.key = <<p, KeyNo(p)>>,
                              !.status = status, !.code = code]
           made == IF page[p].made < KeyNo(p) THEN KeyNo(p) ELSE page[p].made
           sent == page[p].sent \union {status}
           new == [page[p] EXCEPT !.waiting = TRUE, !.key = KeyNo(p),
                                  !.made = made, !.sent = sent]
<1>3. /\ q \in ReqRecord /\ Working(q)
      /\ q.pc = "find" /\ q.page = p /\ q.key = <<p, KeyNo(p)>> /\ q.status = status /\ q.code = code
  BY <1>2 DEF NoReq, ReqRecord, ReqSteps, Working, Keys
<1>4. /\ new \in PageRecord /\ new.shown = page[p].shown /\ new.key = KeyNo(p)
      /\ new.made = made /\ new.sent = sent
  <2>1. KeyNo(p) \in Nat /\ made \in Nat /\ sent \in SUBSET Decisions
    BY <1>1, <1>2, AttemptsAssumption DEF PageRecord
  <2> HIDE DEF made, sent
  <2> QED BY <1>1, <2>1 DEF PageRecord
<1>5. req' = [req EXCEPT ![r] = q]
  BY DEF Respond
<1>6. page' = [page EXCEPT ![p] = new]
  BY <1>1 DEF Respond
<1> HIDE DEF q, new
<1>7. req' \in [Requests -> ReqRecord] /\ Others(r) /\ req'[r] = q
  BY <1>1, <1>3, <1>5 DEF Others
<1>8. page' \in [Pages -> PageRecord] /\ OtherPages(p) /\ page'[p] = new
  BY <1>1, <1>4, <1>6 DEF OtherPages
<1>9. \A s \in Requests: Working(req'[s])
  BY <1>3, <1>7 DEF TypeOK, Others
<1> QED BY <1>2, <1>3, <1>4, <1>7, <1>8, <1>9 DEF Respond, Buttons

-----------------------------------------------------------------------------
(* Type correctness                                                        *)

LEMMA InitTyped == Init => TypeOK
<1> SUFFICES ASSUME Init PROVE TypeOK
  OBVIOUS
<1>1. devis \in DevisRecord /\ codes \subseteq CodeRecord /\ lastCode \in Nat
      /\ mailed \subseteq Addresses \X Nat
  BY DEF Init, DevisRecord
<1>2. ask \in [Pages -> AskRecord] /\ \A p \in Pages: ask[p].pc = "mail" => ask[p].to \in Addresses
  BY DEF Init, NoAsk, AskRecord, AskSteps
<1>3. page \in [Pages -> PageRecord]
  BY DEF Init, NoPage, PageRecord
<1>4. req \in [Requests -> ReqRecord] /\ \A r \in Requests: Working(req[r])
  BY NoReqTyped DEF Init
<1>5. keyLock \in [Keys -> Requests \union {Null}] /\ recorded \in [Keys -> Decisions \union {Null}]
  BY DEF Init
<1> QED BY <1>1, <1>2, <1>3, <1>4, <1>5 DEF TypeOK

\* A code that is made, and what ReadCode and VerifyCode do with the one they find.
Made(p, email, c) ==
    /\ c \in CodeRecord /\ c.id = lastCode + 1 /\ c.to = email
    /\ c.attempts = 0 /\ ~c.used /\ c.tries = 0
    /\ codes' = codes \union {c}
    /\ ask' \in [Pages -> AskRecord] /\ \A o \in Pages \ {p}: ask'[o] = ask[o]
    /\ ask'[p].pc = "mail" /\ ask'[p].to = email /\ ask'[p].code = c.id

LEMMA Creates ==
  ASSUME TypeOK, NEW p \in Pages, CreateCode(p)
  PROVE  /\ lastCode' = lastCode + 1 /\ lastCode' \in Nat
         /\ \E email \in Addresses, c \in CodeRecord: Made(p, email, c)
<1>1. PICK email \in Addresses:
        /\ codes' = codes \union {[id |-> lastCode', to |-> email, attempts |-> 0,
                                   used |-> FALSE, tries |-> 0]}
        /\ ask' = [ask EXCEPT ![p] = [pc |-> "mail", to |-> email, code |-> lastCode']]
  BY DEF CreateCode, ResolveSignerEmail, Addresses
<1>2. lastCode' = lastCode + 1 /\ lastCode' \in Nat
  BY DEF CreateCode, TypeOK
<1> DEFINE c == [id |-> lastCode', to |-> email, attempts |-> 0, used |-> FALSE, tries |-> 0]
           a == [pc |-> "mail", to |-> email, code |-> lastCode']
<1>3. /\ c \in CodeRecord /\ c.id = lastCode + 1 /\ c.to = email
      /\ c.attempts = 0 /\ ~c.used /\ c.tries = 0
  BY <1>2 DEF CodeRecord
<1>4. a \in AskRecord /\ a.pc = "mail" /\ a.to = email /\ a.code = c.id
  BY <1>2 DEF AskRecord, AskSteps
<1>5. codes' = codes \union {c} /\ ask' = [ask EXCEPT ![p] = a]
  BY <1>1
<1> HIDE DEF c, a
<1>6. Made(p, email, c)
  BY <1>3, <1>4, <1>5 DEF Made, TypeOK
<1> QED BY <1>2, <1>3, <1>6

\* The rest of a request stays what it was while the handler works on it.
Same(r) ==
    /\ req'[r].page = req[r].page /\ req'[r].key = req[r].key /\ req'[r].status = req[r].status

Reads(r, c) ==
    /\ req[r].pc = "read" /\ c \in Unused /\ c \in CodeRecord
    /\ req' \in [Requests -> ReqRecord] /\ Others(r) /\ Same(r)
    /\ req'[r].pc = "verify" /\ req'[r].seen = c.id /\ req'[r].attempts = c.attempts
    /\ req'[r].code = req[r].code
    /\ \A s \in Requests: Working(req'[s])
    /\ GoesOn

LEMMA ReadsCode ==
  ASSUME TypeOK, NEW r \in Requests, ReadCode(r)
  PROVE  Fail(r) \/ \E c \in codes: Reads(r, c)
<1> SUFFICES ASSUME NEW c \in Unused,
                    req' = [req EXCEPT ![r].pc = "verify", ![r].seen = c.id,
                                       ![r].attempts = c.attempts],
                    GoesOn
             PROVE  \E d \in codes: Reads(r, d)
  BY DEF ReadCode
<1>1. req[r] \in ReqRecord /\ req \in [Requests -> ReqRecord] /\ Working(req[r])
  BY DEF TypeOK
<1>2. c \in codes /\ c \in CodeRecord /\ c.id \in Nat /\ c.attempts \in Nat
  BY DEF TypeOK, Unused, CodeRecord
<1> DEFINE q == [req[r] EXCEPT !.pc = "verify", !.seen = c.id, !.attempts = c.attempts]
<1>3. /\ q \in ReqRecord /\ q.pc = "verify" /\ q.seen = c.id /\ q.attempts = c.attempts
      /\ q.code = req[r].code /\ q.page = req[r].page /\ q.key = req[r].key
      /\ q.status = req[r].status
  BY <1>1, <1>2 DEF ReqRecord, ReqSteps
<1>4. req' = [req EXCEPT ![r] = q]
  BY <1>1
<1> HIDE DEF q
<1>5. req' \in [Requests -> ReqRecord] /\ Others(r) /\ req'[r] = q
  BY <1>1, <1>3, <1>4 DEF Others
<1>6. req[r].pc = "read"
  BY DEF ReadCode
<1>7. \A s \in Requests: Working(req'[s])
  BY <1>1, <1>3, <1>5, <1>6 DEF TypeOK, Others, Working
<1> QED BY <1>2, <1>3, <1>5, <1>6, <1>7 DEF Reads, Same

\* A wrong answer is written into the row, or a right one spends it.
Replaces(row, new) ==
    /\ row \in codes /\ row \in CodeRecord /\ new \in CodeRecord
    /\ new.id = row.id /\ new.to = row.to
    /\ codes' = (codes \ {row}) \union {new}

Counts(r, row, new) ==
    /\ Replaces(row, new) /\ row.id = req[r].seen /\ Fail(r)
    /\ new.attempts = req[r].attempts + 1 /\ new.tries = row.tries + 1
    /\ new.used = (row.used \/ new.attempts >= MaxAttempts)

Spends(r, row, new) ==
    /\ req[r].pc = "verify" /\ Replaces(row, new)
    /\ row.id = req[r].seen /\ req[r].code = row.id
    /\ new.used /\ new.tries = row.tries
    /\ req' \in [Requests -> ReqRecord] /\ Others(r) /\ Same(r)
    /\ req'[r].pc = "decide" /\ req'[r].seen = row.id /\ req'[r].signer = row.to
    /\ \A s \in Requests: Working(req'[s])
    /\ GoesOn

LEMMA Verifies ==
  ASSUME TypeOK, NEW r \in Requests, VerifyCode(r)
  PROVE  \/ Fail(r) /\ codes' = codes
         \/ \E row \in codes, new \in CodeRecord: Counts(r, row, new) \/ Spends(r, row, new)
<1>1. /\ req[r] \in ReqRecord /\ req \in [Requests -> ReqRecord] /\ Working(req[r])
      /\ req[r].pc = "verify" /\ req[r].attempts \in Nat /\ req[r].seen \in Nat
  BY DEF TypeOK, ReqRecord, VerifyCode
<1>2. CASE ~ \E c \in codes: c.id = req[r].seen
  BY <1>2 DEF VerifyCode
<1>3. ASSUME \E c \in codes: c.id = req[r].seen
      PROVE  \E row \in codes, new \in CodeRecord: Counts(r, row, new) \/ Spends(r, row, new)
  <2>1. PICK row \in codes: row = Row(req[r].seen) /\ row.id = req[r].seen
    BY <1>3 DEF Row
  <2>2. row \in CodeRecord
    BY DEF TypeOK
  <2>3. CASE req[r].code # req[r].seen
    <3> DEFINE v == req[r].attempts + 1
               u == row.used \/ Locks(v)
               t == row.tries + 1
               new == [row EXCEPT !.attempts = v, !.tries = t, !.used = u]
    <3>1. Fail(r) /\ Update(row, new)
      BY <1>3, <2>1, <2>2, <2>3 DEF VerifyCode, CodeRecord
    <3>2. v \in Nat /\ u \in BOOLEAN /\ t \in Nat /\ u = (row.used \/ v >= MaxAttempts)
      BY <1>1, <2>2 DEF CodeRecord, Locks
    <3>3. v = req[r].attempts + 1 /\ t = row.tries + 1
      OBVIOUS
    <3> HIDE DEF v, u, t
    <3>4. /\ new \in CodeRecord /\ new.id = row.id /\ new.to = row.to
          /\ new.attempts = v /\ new.tries = t /\ new.used = u
      BY <2>2, <3>2 DEF CodeRecord
    <3> HIDE DEF new
    <3>5. Replaces(row, new)
      BY <2>2, <3>1, <3>4 DEF Replaces, Update
    <3>6. Counts(r, row, new)
      BY <2>1, <3>1, <3>2, <3>3, <3>4, <3>5 DEF Counts
    <3> QED BY <3>4, <3>6
  <2>4. CASE req[r].code = req[r].seen
    <3> DEFINE new == [row EXCEPT !.used = TRUE]
               q == [req[r] EXCEPT !.pc = "decide", !.signer = row.to,
                                   !.code = Null, !.attempts = 0]
    <3>1. /\ new \in CodeRecord /\ new.id = row.id /\ new.to = row.to
          /\ new.used /\ new.tries = row.tries /\ row.to \in Addresses
      BY <2>2 DEF CodeRecord
    <3>2. /\ Update(row, new) /\ GoesOn
          /\ req' = [req EXCEPT ![r].pc = "decide", ![r].signer = new.to,
                                ![r].code = Null, ![r].attempts = 0]
      BY <1>3, <2>1, <2>4 DEF VerifyCode
    <3>3. /\ q \in ReqRecord /\ q.pc = "decide" /\ q.seen = req[r].seen /\ q.signer = row.to
          /\ q.page = req[r].page /\ q.key = req[r].key /\ q.status = req[r].status
      BY <1>1, <3>1 DEF ReqRecord, ReqSteps
    <3>4. req' = [req EXCEPT ![r] = q]
      BY <1>1, <3>1, <3>2
    <3> HIDE DEF new, q
    <3>5. req' \in [Requests -> ReqRecord] /\ Others(r) /\ req'[r] = q
      BY <1>1, <3>3, <3>4 DEF Others
    <3>6. \A s \in Requests: Working(req'[s])
      BY <1>1, <3>3, <3>5 DEF TypeOK, Others, Working
    <3>7. Replaces(row, new)
      BY <2>2, <3>1, <3>2 DEF Replaces, Update
    <3>8. Spends(r, row, new)
      BY <1>1, <2>1, <2>4, <3>1, <3>2, <3>3, <3>5, <3>6, <3>7 DEF Spends, Same
    <3> QED BY <3>1, <3>8
  <2> QED BY <2>3, <2>4
<1> QED BY <1>2, <1>3

LEMMA NextTyped == TypeOK /\ [Next]_vars => TypeOK'
<1> SUFFICES ASSUME TypeOK, [Next]_vars PROVE TypeOK'
  OBVIOUS
<1>1. CASE UNCHANGED vars
  BY <1>1 DEF vars, otp, keys, TypeOK
<1>2. ASSUME NEW p \in Pages, RequestOtp(p) PROVE TypeOK'
  BY <1>2, AskGoes DEF RequestOtp, AskSteps, otp, keys, TypeOK
<1>3. ASSUME NEW p \in Pages, CheckRecent(p) PROVE TypeOK'
  <2>1. CASE Sent(p)
    BY <1>3, <2>1, CodeSent, AskEnds DEF CheckRecent, otp, keys, TypeOK
  <2>2. CASE ask' = [ask EXCEPT ![p].pc = "delete"] /\ UNCHANGED page
    BY <1>3, <2>2, AskGoes DEF CheckRecent, AskSteps, otp, keys, TypeOK
  <2> QED BY <1>3, <2>1, <2>2 DEF CheckRecent
<1>4. ASSUME NEW p \in Pages, DeleteUnused(p) PROVE TypeOK'
  BY <1>4, AskGoes DEF DeleteUnused, AskSteps, keys, TypeOK
<1>5. ASSUME NEW p \in Pages, CreateCode(p) PROVE TypeOK'
  <2>1. PICK email \in Addresses, c \in CodeRecord: Made(p, email, c)
    BY <1>5, Creates
  <2>2. \A o \in Pages: ask'[o].pc = "mail" => ask'[o].to \in Addresses
    BY <2>1 DEF Made, TypeOK
  <2> QED BY <1>5, <2>1, <2>2, Creates DEF CreateCode, Made, keys, TypeOK
<1>6. ASSUME NEW p \in Pages, MailCode(p) PROVE TypeOK'
  <2>1. mailed' \subseteq Addresses \X Nat
    BY <1>6 DEF MailCode, MailTo, AskRecord, TypeOK
  <2> QED BY <1>6, <2>1, CodeSent, AskEnds DEF MailCode, keys, TypeOK
<1>7. ASSUME NEW p \in Pages, MailFails(p) PROVE TypeOK'
  BY <1>7, AskEnds DEF MailFails, keys, TypeOK
<1>8. ASSUME NEW p \in Pages, AskDies(p) PROVE TypeOK'
  BY <1>8, AskEnds DEF AskDies, otp, keys, TypeOK
<1>9. ASSUME NEW p \in Pages, Load(p) PROVE TypeOK'
  <2> DEFINE new == [NoPage EXCEPT !.shown = devis.status, !.made = page[p].made]
  <2>1. new \in PageRecord
    BY DEF NoPage, PageRecord, DevisRecord, TypeOK
  <2>2. page' \in [Pages -> PageRecord]
    BY <1>9, <2>1 DEF Load, TypeOK
  <2> QED BY <1>9, <2>2 DEF Load, otp, keys, TypeOK
<1>10. ASSUME NEW p \in Pages, NetworkError(p) PROVE TypeOK'
  <2>1. [page[p] EXCEPT !.waiting = FALSE] \in PageRecord
    BY DEF PageRecord, TypeOK
  <2>2. page' \in [Pages -> PageRecord]
    BY <1>10, <2>1 DEF NetworkError, TypeOK
  <2> QED BY <1>10, <2>2 DEF NetworkError, otp, keys, TypeOK
<1>11. ASSUME NEW p \in Pages, NEW r \in Requests, Accept(p, r) PROVE TypeOK'
  <2>1. PICK code \in Nat \union {Wrong, Null}: Respond(p, r, "ACCEPTE", code)
    BY <1>11 DEF Accept, Received, TypeOK
  <2> QED BY <2>1, Responds DEF Respond, Decisions, otp, keys, TypeOK
<1>12. ASSUME NEW p \in Pages, NEW r \in Requests, Refuse(p, r) PROVE TypeOK'
  BY <1>12, Responds DEF Refuse, Respond, Decisions, otp, keys, TypeOK
<1>13. ASSUME NEW c \in codes, ExpireCode(c) PROVE TypeOK'
  BY <1>13 DEF ExpireCode, keys, TypeOK
<1>14. ASSUME NEW r \in Requests, FindDevis(r) PROVE TypeOK'
  <2>1. CASE Fail(r)
    BY <1>14, <2>1, Finishes DEF FindDevis, Fail, otp, TypeOK
  <2>2. CASE To(r, "lock") /\ GoesOn
    BY <1>14, <2>2, GoesTo DEF FindDevis, GoesOn, ReqSteps, otp, TypeOK
  <2> QED BY <1>14, <2>1, <2>2 DEF FindDevis
<1>15. ASSUME NEW r \in Requests, LockKey(r) PROVE TypeOK'
  <2>1. CASE Finish(r, recorded[req[r].key])
    BY <1>15, <2>1, Finishes DEF LockKey, otp, TypeOK
  <2>2. ASSUME NEW pc \in ReqSteps, To(r, pc), keyLock' = [keyLock EXCEPT ![req[r].key] = r],
               UNCHANGED page
        PROVE  TypeOK'
    BY <1>15, <2>2, GoesTo DEF LockKey, otp, TypeOK
  <2> QED BY <1>15, <2>1, <2>2 DEF LockKey, ReqSteps
<1>16. ASSUME NEW r \in Requests, ReadCode(r) PROVE TypeOK'
  <2>1. CASE Fail(r)
    BY <1>16, <2>1, Finishes DEF ReadCode, Fail, otp, TypeOK
  <2>2. ASSUME NEW c \in codes, Reads(r, c) PROVE TypeOK'
    BY <1>16, <2>2 DEF ReadCode, Reads, GoesOn, otp, TypeOK
  <2> QED BY <1>16, <2>1, <2>2, ReadsCode
<1>17. ASSUME NEW r \in Requests, VerifyCode(r) PROVE TypeOK'
  <2>1. CASE Fail(r) /\ codes' = codes
    BY <1>17, <2>1, Finishes DEF VerifyCode, Fail, TypeOK
  <2>2. ASSUME NEW row \in codes, NEW new \in CodeRecord, Counts(r, row, new) PROVE TypeOK'
    BY <1>17, <2>2, Finishes DEF VerifyCode, Counts, Replaces, Fail, TypeOK
  <2>3. ASSUME NEW row \in codes, NEW new \in CodeRecord, Spends(r, row, new) PROVE TypeOK'
    BY <1>17, <2>3 DEF VerifyCode, Spends, Replaces, GoesOn, TypeOK
  <2> QED BY <1>17, <2>1, <2>2, <2>3, Verifies
<1>18. ASSUME NEW r \in Requests, Decide(r) PROVE TypeOK'
  <2>1. CASE Fail(r) /\ UNCHANGED devis
    BY <1>18, <2>1, Finishes DEF Decide, Fail, otp, TypeOK
  <2>2. CASE /\ devis' = [status |-> req[r].status, signer |-> req[r].signer, code |-> req[r].seen]
             /\ To(r, "record") /\ GoesOn
    <3>1. devis' \in DevisRecord
      BY <1>18, <2>2 DEF Decide, Working, ReqRecord, DevisRecord, TypeOK
    <3> QED BY <1>18, <2>2, <3>1, GoesTo DEF Decide, GoesOn, ReqSteps, otp, TypeOK
  <2> QED BY <1>18, <2>1, <2>2 DEF Decide
<1>19. ASSUME NEW r \in Requests, HandlerFails(r) PROVE TypeOK'
  BY <1>19, Finishes DEF HandlerFails, Fail, otp, TypeOK
<1>20. ASSUME NEW r \in Requests, Record(r) PROVE TypeOK'
  <2>1. recorded' \in [Keys -> Decisions \union {Null}]
    BY <1>20 DEF Record, Working, TypeOK
  <2>2. PICK answer: Finish(r, answer)
    BY <1>20 DEF Record, Fail
  <2> QED BY <1>20, <2>1, <2>2, Finishes DEF Record, otp, TypeOK
<1>21. ASSUME NEW k \in Keys, KeyTimeout(k) PROVE TypeOK'
  BY <1>21 DEF KeyTimeout, otp, TypeOK
<1> QED
  BY <1>1, <1>2, <1>3, <1>4, <1>5, <1>6, <1>7, <1>8, <1>9, <1>10, <1>11, <1>12, <1>13, <1>14,
     <1>15, <1>16, <1>17, <1>18, <1>19, <1>20, <1>21 DEF Next

\* Every reachable state is a state of the program.
THEOREM Typed == Spec => []TypeOK
<1> QED BY InitTyped, NextTyped, PTL DEF Spec

-----------------------------------------------------------------------------
(* The mailbox of a signature.  A code has one address and one number for  *)
(* as long as it exists, and a number is never given twice: what was once  *)
(* true of the address of a number, or of a code being spent, stays true.  *)

CodesNumbered ==
    /\ \A c \in codes: c.id \in 1 .. lastCode
    /\ \A c, d \in codes: c.id = d.id => c = d

\* The code that a number stands for, if it still exists, was sent to this address.
SentTo(to, id) == id <= lastCode /\ \A c \in codes: c.id = id => c.to = to

Mailing ==
    /\ \A m \in mailed: SentTo(m[1], m[2])
    /\ \A p \in Pages: ask[p].pc = "mail" => SentTo(ask[p].to, ask[p].code)

\* An answer can only hold a code that was mailed to somebody.
Held(q) ==
    q.pc \in {"find", "lock", "read", "verify"} =>
        /\ q.code \in Nat => \E m \in mailed: m[2] = q.code
        /\ q.pc = "verify" => q.seen <= lastCode

\* An acceptance in the name of the mailbox to which its code was sent.
Signed(status, signer, id) ==
    status = "ACCEPTE" =>
        /\ <<signer, id>> \in mailed /\ id <= lastCode
        /\ \A c \in codes: c.id = id => c.used

SignInv ==
    /\ CodesNumbered /\ Mailing
    /\ \A r \in Requests: Held(req[r])
    /\ \A r \in Requests: req[r].pc = "decide" => Signed(req[r].status, req[r].signer, req[r].seen)
    /\ Signed(devis.status, devis.signer, devis.code)

\* What every step leaves of the codes.
Lasting ==
    /\ lastCode \in Nat /\ lastCode' \in Nat /\ lastCode <= lastCode' /\ mailed \subseteq mailed'
    /\ \A c \in codes': \/ c.id = lastCode + 1
                        \/ \E d \in codes: d.id = c.id /\ d.to = c.to /\ (d.used => c.used)

LEMMA StaysSent ==
  ASSUME Lasting, NEW to, NEW id \in Nat, SentTo(to, id)
  PROVE  SentTo(to, id)'
  BY DEF Lasting, SentTo

LEMMA StaysSigned ==
  ASSUME Lasting, NEW status, NEW signer, NEW id \in Nat, Signed(status, signer, id)
  PROVE  /\ status = "ACCEPTE" => <<signer, id>> \in mailed' /\ id <= lastCode'
         /\ \A c \in codes': status = "ACCEPTE" /\ c.id = id => c.used
  BY DEF Lasting, Signed

LEMMA Fewer ==
  ASSUME TypeOK, CodesNumbered, codes' \subseteq codes, UNCHANGED lastCode, mailed \subseteq mailed'
  PROVE  Lasting /\ CodesNumbered'
  BY DEF TypeOK, CodesNumbered, Lasting

LEMMA OneMore ==
  ASSUME TypeOK, CodesNumbered, NEW p \in Pages, NEW email \in Addresses, NEW c \in CodeRecord,
         Made(p, email, c), lastCode' = lastCode + 1, UNCHANGED mailed
  PROVE  Lasting /\ CodesNumbered'
<1>1. lastCode \in Nat /\ codes \subseteq CodeRecord
  BY DEF TypeOK
<1>2. Lasting
  BY <1>1 DEF Made, CodesNumbered, Lasting
<1> QED BY <1>1, <1>2 DEF Made, CodesNumbered

LEMMA Replaced ==
  ASSUME TypeOK, CodesNumbered, NEW row, NEW new, Replaces(row, new), row.used => new.used,
         UNCHANGED <<lastCode, mailed>>
  PROVE  Lasting /\ CodesNumbered'
<1>1. lastCode \in Nat /\ codes \subseteq CodeRecord
  BY DEF TypeOK
<1>2. Lasting
  BY <1>1 DEF Replaces, CodesNumbered, Lasting
<1> QED BY <1>1, <1>2 DEF Replaces, CodesNumbered

LEMMA CodesLast ==
  ASSUME TypeOK, CodesNumbered, [Next]_vars
  PROVE  Lasting /\ CodesNumbered'
<1>1. CASE UNCHANGED <<codes, lastCode, mailed>>
  BY <1>1, Fewer
<1>2. ASSUME NEW p \in Pages, DeleteUnused(p) \/ MailFails(p) PROVE Lasting /\ CodesNumbered'
  BY <1>2, Fewer DEF DeleteUnused, MailFails
<1>3. ASSUME NEW p \in Pages, CreateCode(p) PROVE Lasting /\ CodesNumbered'
  BY <1>3, Creates, OneMore DEF CreateCode
<1>4. ASSUME NEW p \in Pages, MailCode(p) PROVE Lasting /\ CodesNumbered'
  BY <1>4, Fewer DEF MailCode
<1>5. ASSUME NEW c \in codes, ExpireCode(c) PROVE Lasting /\ CodesNumbered'
  BY <1>5, Fewer DEF ExpireCode
<1>6. ASSUME NEW r \in Requests, VerifyCode(r) PROVE Lasting /\ CodesNumbered'
  <2>1. UNCHANGED <<lastCode, mailed>>
    BY <1>6 DEF VerifyCode
  <2>2. CASE codes' = codes
    BY <2>1, <2>2, Fewer
  <2>3. ASSUME NEW row \in codes, NEW new \in CodeRecord, Counts(r, row, new) \/ Spends(r, row, new)
        PROVE  Lasting /\ CodesNumbered'
    BY <2>1, <2>3, Replaced DEF Counts, Spends
  <2> QED BY <1>6, <2>2, <2>3, Verifies
<1>7. CASE UNCHANGED vars
  BY <1>1, <1>7 DEF vars, otp
<1>8. ASSUME NEW p \in Pages,
             \/ RequestOtp(p) \/ CheckRecent(p) \/ AskDies(p) \/ Load(p) \/ NetworkError(p)
             \/ \E r \in Requests: Accept(p, r) \/ Refuse(p, r)
      PROVE  UNCHANGED <<codes, lastCode, mailed>>
  BY <1>8 DEF RequestOtp, CheckRecent, AskDies, Load, NetworkError, Accept, Refuse, Respond, otp
<1>9. ASSUME NEW r \in Requests,
             FindDevis(r) \/ LockKey(r) \/ ReadCode(r) \/ Decide(r) \/ HandlerFails(r) \/ Record(r)
      PROVE  UNCHANGED <<codes, lastCode, mailed>>
  BY <1>9 DEF FindDevis, LockKey, ReadCode, Decide, HandlerFails, Record, otp
<1>10. ASSUME NEW k \in Keys, KeyTimeout(k) PROVE UNCHANGED <<codes, lastCode, mailed>>
  BY <1>10 DEF KeyTimeout, otp
<1> QED BY <1>1, <1>2, <1>3, <1>4, <1>5, <1>6, <1>7, <1>8, <1>9, <1>10 DEF Next


LEMMA MailingLasts ==
  ASSUME TypeOK, SignInv, [Next]_vars
  PROVE  Mailing'
<1>1. Lasting /\ CodesNumbered'
  BY CodesLast DEF SignInv
<1>2. \A m \in mailed: SentTo(m[1], m[2])'
  <2> TAKE m \in mailed
  <2>1. m[2] \in Nat /\ SentTo(m[1], m[2])
    BY DEF TypeOK, SignInv, Mailing
  <2> QED BY <1>1, <2>1, StaysSent
<1>3. ASSUME NEW p \in Pages, ask[p].pc = "mail"
      PROVE  SentTo(ask[p].to, ask[p].code) /\ ask[p].code \in Nat
  BY <1>3 DEF TypeOK, AskRecord, SignInv, Mailing
<1>8. ASSUME NEW p \in Pages, ask'[p] = ask[p], ask[p].pc = "mail"
      PROVE  SentTo(ask[p].to, ask[p].code)'
  <2>1. SentTo(ask[p].to, ask[p].code) /\ ask[p].code \in Nat
    BY <1>3, <1>8
  <2> DEFINE to == ask[p].to
             id == ask[p].code
  <2>2. ask'[p].to = to /\ ask'[p].code = id /\ id \in Nat /\ SentTo(to, id)
    BY <1>8, <2>1
  <2> HIDE DEF to, id
  <2>3. id <= lastCode' /\ \A c \in codes': c.id = id => c.to = to
    BY <1>1, <2>2 DEF Lasting, SentTo
  <2> QED BY <2>2, <2>3 DEF SentTo
<1>4. ASSUME mailed' = mailed,
             \A p \in Pages: ask'[p].pc = "mail" => ask'[p] = ask[p]
      PROVE  Mailing'
  <2>1. \A p \in Pages: ask'[p].pc = "mail" => SentTo(ask[p].to, ask[p].code)'
    BY <1>4, <1>8
  <2> QED BY <1>2, <1>4, <2>1 DEF Mailing
<1>5. ASSUME NEW p \in Pages,
             ask' = [ask EXCEPT ![p] = NoAsk] \/ \E pc \in AskSteps \ {"mail"}: ask' = [ask EXCEPT ![p].pc = pc]
      PROVE  \A o \in Pages: ask'[o].pc = "mail" => ask'[o] = ask[o]
  BY <1>5, AskGoes, AskEnds
<1>6. ASSUME NEW p \in Pages,
             RequestOtp(p) \/ CheckRecent(p) \/ DeleteUnused(p) \/ MailFails(p) \/ AskDies(p)
      PROVE  Mailing'
  <2>1. mailed' = mailed
    BY <1>6 DEF RequestOtp, CheckRecent, DeleteUnused, MailFails, AskDies, otp
  <2>2. ask' = [ask EXCEPT ![p] = NoAsk] \/ \E pc \in AskSteps \ {"mail"}: ask' = [ask EXCEPT ![p].pc = pc]
    BY <1>6 DEF RequestOtp, CheckRecent, DeleteUnused, MailFails, AskDies, Sent, AskSteps
  <2> QED BY <1>4, <1>5, <2>1, <2>2
<1>7. ASSUME NEW p \in Pages, MailCode(p) PROVE Mailing'
  <2>1. /\ ask[p].pc = "mail" /\ mailed' = mailed \union {<<ask[p].to, ask[p].code>>}
        /\ ask' = [ask EXCEPT ![p] = NoAsk]
    BY <1>7 DEF MailCode, MailTo, Sent
  <2>2. \A o \in Pages: ask'[o].pc = "mail" => ask'[o] = ask[o]
    BY <1>5, <2>1
  <2>3. SentTo(ask[p].to, ask[p].code) /\ ask[p].code \in Nat
    BY <1>3, <2>1
  <2> DEFINE to == ask[p].to
             id == ask[p].code
  <2>4. mailed' = mailed \union {<<to, id>>} /\ id \in Nat /\ SentTo(to, id)
    BY <2>1, <2>3
  <2> HIDE DEF to, id
  <2>5. id <= lastCode' /\ \A c \in codes': c.id = id => c.to = to
    BY <1>1, <2>4 DEF Lasting, SentTo
  <2>6. \A m \in mailed': m[2] <= lastCode' /\ \A c \in codes': c.id = m[2] => c.to = m[1]
    BY <1>2, <2>4, <2>5 DEF SentTo
  <2> QED BY <1>1, <1>8, <2>2, <2>6 DEF Mailing, SentTo
<1>9. ASSUME NEW p \in Pages, CreateCode(p) PROVE Mailing'
  <2>1. PICK email \in Addresses, c \in CodeRecord: Made(p, email, c)
    BY <1>9, Creates
  <2>2. mailed' = mailed /\ lastCode' = lastCode + 1
    BY <1>9, Creates DEF CreateCode
  <2>3. \A o \in Pages \ {p}: ask'[o].pc = "mail" => SentTo(ask[o].to, ask[o].code)'
    BY <1>8, <2>1 DEF Made
  <2>4. SentTo(ask[p].to, ask[p].code)'
    <3>1. ask'[p].to = email /\ ask'[p].code = c.id /\ c \in codes' /\ c.id = lastCode' /\ c.to = email
      BY <2>1, <2>2 DEF Made
    <3>2. \A d \in codes': d.id = c.id => d = c
      BY <1>1, <3>1 DEF CodesNumbered
    <3>3. lastCode' \in Nat
      BY <1>1 DEF Lasting
    <3> QED BY <3>1, <3>2, <3>3 DEF SentTo
  <2> QED BY <1>2, <2>2, <2>3, <2>4 DEF Mailing
<1>10. CASE UNCHANGED <<mailed, ask>>
  BY <1>4, <1>10
<1>11. CASE UNCHANGED vars
  BY <1>10, <1>11 DEF vars, otp
<1>12. ASSUME NEW p \in Pages,
              Load(p) \/ NetworkError(p) \/ \E r \in Requests: Accept(p, r) \/ Refuse(p, r)
       PROVE  UNCHANGED <<mailed, ask>>
  BY <1>12 DEF Load, NetworkError, Accept, Refuse, Respond, otp
<1>13. ASSUME NEW r \in Requests,
              \/ FindDevis(r) \/ LockKey(r) \/ ReadCode(r) \/ VerifyCode(r)
              \/ Decide(r) \/ HandlerFails(r) \/ Record(r)
       PROVE  UNCHANGED <<mailed, ask>>
  BY <1>13 DEF FindDevis, LockKey, ReadCode, VerifyCode, Decide, HandlerFails, Record, otp
<1>14. ASSUME NEW c \in codes, ExpireCode(c) PROVE UNCHANGED <<mailed, ask>>
  BY <1>14 DEF ExpireCode
<1>15. ASSUME NEW k \in Keys, KeyTimeout(k) PROVE UNCHANGED <<mailed, ask>>
  BY <1>15 DEF KeyTimeout, otp
<1> QED BY <1>6, <1>7, <1>9, <1>10, <1>11, <1>12, <1>13, <1>14, <1>15 DEF Next

-----------------------------------------------------------------------------
(* What a step makes of one request                                        *)

\* The handler goes on to the next part of its work.
GoesOnTo(r, from, to) ==
    /\ req[r].pc = from /\ req'[r].pc = to /\ Same(r)
    /\ req'[r].code = req[r].code /\ req'[r].seen = req[r].seen /\ req'[r].signer = req[r].signer
    /\ req'[r].attempts = req[r].attempts

Works(r) ==
    \/ GoesOnTo(r, "find", "lock")
    \/ GoesOnTo(r, "lock", "read")
    \/ GoesOnTo(r, "lock", "decide") /\ req[r].status = "REFUSE"
    \/ /\ GoesOnTo(r, "decide", "record")
       /\ devis' = [status |-> req[r].status, signer |-> req[r].signer, code |-> req[r].seen]

Arrives(r) ==
    \E p \in Pages:
        \/ \E code \in Received(p) \union {Wrong}: Respond(p, r, "ACCEPTE", code)
        \/ Respond(p, r, "REFUSE", Null)

Moves(r) ==
    \/ req'[r] = req[r] \/ req'[r] = NoReq
    \/ Arrives(r) \/ Works(r)
    \/ \E c \in codes: Reads(r, c)
    \/ \E row \in codes, new \in CodeRecord: Spends(r, row, new)

LEMMA RequestMoves ==
  ASSUME TypeOK, [Next]_vars, NEW r \in Requests
  PROVE  Moves(r)
<1>1. CASE UNCHANGED req
  BY <1>1 DEF Moves
<1>2. ASSUME NEW p \in Pages, NEW s \in Requests, Accept(p, s) PROVE Moves(r)
  <2>1. PICK code \in Received(p) \union {Wrong}: Respond(p, s, "ACCEPTE", code)
    BY <1>2 DEF Accept
  <2>2. code \in Nat \union {Wrong, Null}
    BY <2>1 DEF Received, TypeOK
  <2>3. Others(s)
    BY <2>1, <2>2, Responds DEF Decisions
  <2>4. CASE r = s
    BY <2>1, <2>4 DEF Arrives, Moves
  <2> QED BY <2>3, <2>4 DEF Others, Moves
<1>3. ASSUME NEW p \in Pages, NEW s \in Requests, Refuse(p, s) PROVE Moves(r)
  <2>1. Respond(p, s, "REFUSE", Null)
    BY <1>3 DEF Refuse
  <2>2. Others(s)
    BY <2>1, Responds DEF Decisions
  <2>3. CASE r = s
    BY <2>1, <2>3 DEF Arrives, Moves
  <2> QED BY <2>2, <2>3 DEF Others, Moves
<1>4. ASSUME NEW s \in Requests, NEW answer, req[s].pc # "idle", Finish(s, answer) PROVE Moves(r)
  <2>1. Others(s) /\ req'[s] = NoReq
    BY <1>4, Finishes
  <2> QED BY <2>1 DEF Others, Moves
<1>5. ASSUME NEW s \in Requests, NEW pc \in ReqSteps, req[s].pc # "idle", To(s, pc)
      PROVE  req'[r] = req[r] \/ (r = s /\ GoesOnTo(r, req[s].pc, pc))
  BY <1>5, GoesTo DEF Others, GoesOnTo, Same
<1>6. ASSUME NEW s \in Requests, FindDevis(s) PROVE Moves(r)
  BY <1>4, <1>5, <1>6 DEF FindDevis, Fail, Works, ReqSteps, Moves
<1>7. ASSUME NEW s \in Requests, LockKey(s) PROVE Moves(r)
  <2>1. CASE Finish(s, recorded[req[s].key])
    BY <1>4, <1>7, <2>1 DEF LockKey
  <2>2. CASE To(s, IF req[s].status = "ACCEPTE" THEN "read" ELSE "decide")
    <3>1. req[s].status \in Decisions /\ req[s].pc = "lock"
      BY <1>7 DEF LockKey, TypeOK, Working
    <3> QED BY <1>5, <2>2, <3>1 DEF Works, ReqSteps, Decisions, Moves
  <2> QED BY <1>7, <2>1, <2>2 DEF LockKey
<1>8. ASSUME NEW s \in Requests, ReadCode(s) PROVE Moves(r)
  <2>1. CASE Fail(s)
    BY <1>4, <1>8, <2>1 DEF ReadCode, Fail
  <2>2. ASSUME NEW c \in codes, Reads(s, c) PROVE Moves(r)
    BY <2>2 DEF Reads, Others, Moves
  <2> QED BY <1>8, <2>1, <2>2, ReadsCode
<1>9. ASSUME NEW s \in Requests, VerifyCode(s) PROVE Moves(r)
  <2>1. CASE Fail(s)
    BY <1>4, <1>9, <2>1 DEF VerifyCode, Fail
  <2>2. ASSUME NEW row \in codes, NEW new \in CodeRecord, Counts(s, row, new) PROVE Moves(r)
    BY <2>1, <2>2 DEF Counts
  <2>3. ASSUME NEW row \in codes, NEW new \in CodeRecord, Spends(s, row, new) PROVE Moves(r)
    BY <2>3 DEF Spends, Others, Moves
  <2> QED BY <1>9, <2>1, <2>2, <2>3, Verifies
<1>10. ASSUME NEW s \in Requests, Decide(s) PROVE Moves(r)
  <2>1. CASE Fail(s)
    BY <1>4, <1>10, <2>1 DEF Decide, Fail
  <2>2. CASE /\ devis' = [status |-> req[s].status, signer |-> req[s].signer, code |-> req[s].seen]
             /\ To(s, "record")
    BY <1>5, <1>10, <2>2 DEF Decide, Works, ReqSteps, Moves
  <2> QED BY <1>10, <2>1, <2>2 DEF Decide
<1>11. ASSUME NEW s \in Requests, HandlerFails(s) PROVE Moves(r)
  BY <1>4, <1>11 DEF HandlerFails, Fail
<1>12. ASSUME NEW s \in Requests, Record(s) PROVE Moves(r)
  BY <1>4, <1>12 DEF Record, Fail
<1>13. CASE UNCHANGED vars
  BY <1>13 DEF vars, Moves
<1>14. ASSUME NEW p \in Pages,
              \/ RequestOtp(p) \/ CheckRecent(p) \/ DeleteUnused(p) \/ CreateCode(p) \/ MailCode(p)
              \/ MailFails(p) \/ AskDies(p) \/ Load(p) \/ NetworkError(p)
       PROVE  Moves(r)
  BY <1>1, <1>14 DEF RequestOtp, CheckRecent, DeleteUnused, CreateCode, MailCode, MailFails, AskDies,
     Load, NetworkError, Moves
<1>15. ASSUME NEW c \in codes, ExpireCode(c) PROVE Moves(r)
  BY <1>1, <1>15 DEF ExpireCode
<1>16. ASSUME NEW k \in Keys, KeyTimeout(k) PROVE Moves(r)
  BY <1>1, <1>16 DEF KeyTimeout
<1>17. ASSUME NEW p \in Pages, NEW s \in Requests, Accept(p, s) \/ Refuse(p, s) PROVE Moves(r)
  BY <1>2, <1>3, <1>17
<1>18. ASSUME NEW s \in Requests,
              \/ FindDevis(s) \/ LockKey(s) \/ ReadCode(s) \/ VerifyCode(s)
              \/ Decide(s) \/ HandlerFails(s) \/ Record(s)
       PROVE  Moves(r)
  BY <1>6, <1>7, <1>8, <1>9, <1>10, <1>11, <1>12, <1>18
<1> QED
  BY <1>13, <1>14, <1>15, <1>16, <1>17, <1>18 DEF Next

\* The quote is decided once.
LEMMA DecidedOnce ==
  ASSUME [Next]_vars
  PROVE  \/ devis' = devis
         \/ /\ devis.status = "ENVOYE"
            /\ \E r \in Requests:
                  /\ req[r].pc = "decide"
                  /\ devis' = [status |-> req[r].status, signer |-> req[r].signer,
                               code |-> req[r].seen]
<1>1. CASE UNCHANGED vars
  BY <1>1 DEF vars
<1>2. ASSUME NEW r \in Requests, Decide(r)
      PROVE  \/ devis' = devis
             \/ /\ devis.status = "ENVOYE" /\ req[r].pc = "decide"
                /\ devis' = [status |-> req[r].status, signer |-> req[r].signer, code |-> req[r].seen]
  BY <1>2 DEF Decide
<1>3. ASSUME NEW p \in Pages,
             \/ RequestOtp(p) \/ CheckRecent(p) \/ DeleteUnused(p) \/ CreateCode(p) \/ MailCode(p)
             \/ MailFails(p) \/ AskDies(p) \/ Load(p) \/ NetworkError(p)
             \/ \E r \in Requests: Accept(p, r) \/ Refuse(p, r)
      PROVE  devis' = devis
  BY <1>3 DEF RequestOtp, CheckRecent, DeleteUnused, CreateCode, MailCode, MailFails, AskDies,
     Load, NetworkError, Accept, Refuse, Respond
<1>4. ASSUME NEW r \in Requests,
             \/ FindDevis(r) \/ LockKey(r) \/ ReadCode(r) \/ VerifyCode(r) \/ HandlerFails(r)
             \/ Record(r)
      PROVE  devis' = devis
  BY <1>4 DEF FindDevis, LockKey, ReadCode, VerifyCode, HandlerFails, Record
<1>5. ASSUME NEW c \in codes, ExpireCode(c) PROVE devis' = devis
  BY <1>5 DEF ExpireCode
<1>6. ASSUME NEW k \in Keys, KeyTimeout(k) PROVE devis' = devis
  BY <1>6 DEF KeyTimeout
<1> QED BY <1>1, <1>2, <1>3, <1>4, <1>5, <1>6 DEF Next

-----------------------------------------------------------------------------
LEMMA HeldLasts ==
  ASSUME TypeOK, SignInv, [Next]_vars, NEW r \in Requests
  PROVE  Held(req[r])'
<1>1. Lasting /\ Held(req[r]) /\ req[r] \in ReqRecord
  BY CodesLast DEF SignInv, TypeOK
<1>2. CASE req'[r] = req[r]
  BY <1>1, <1>2 DEF Held, Lasting, ReqRecord
<1>3. CASE req'[r] = NoReq
  BY <1>3 DEF NoReq, Held
<1>4. CASE Arrives(r)
  <2>1. PICK p \in Pages:
          \E status \in Decisions, code \in Received(p) \union {Wrong, Null}: Respond(p, r, status, code)
    BY <1>4 DEF Arrives, Decisions
  <2>5. PICK status \in Decisions, code \in Received(p) \union {Wrong, Null}:
          Respond(p, r, status, code)
    BY <2>1
  <2>2. code \in Nat => \E m \in mailed: m[2] = code
    BY <2>5, AddressAssumption DEF Received
  <2>3. code \in Nat \union {Wrong, Null}
    BY <2>5 DEF Received, TypeOK
  <2>4. req'[r].pc = "find" /\ req'[r].code = code
    BY <2>5, <2>3, Responds
  <2> QED BY <1>1, <2>2, <2>4 DEF Held, Lasting
<1>5. CASE Works(r)
  BY <1>1, <1>5 DEF Works, GoesOnTo, Held, Lasting
<1>6. ASSUME NEW c \in codes, Reads(r, c) PROVE Held(req[r])'
  <2>1. c.id <= lastCode /\ c.id \in Nat
    BY <1>6 DEF SignInv, CodesNumbered, Reads, CodeRecord, TypeOK
  <2> QED BY <1>1, <1>6, <2>1 DEF Reads, Held, Lasting
<1>7. ASSUME NEW row, NEW new, Spends(r, row, new) PROVE Held(req[r])'
  BY <1>7 DEF Spends, Held
<1> QED BY <1>2, <1>3, <1>4, <1>5, <1>6, <1>7, RequestMoves DEF Moves

LEMMA DecisionSigned ==
  ASSUME TypeOK, SignInv, [Next]_vars, NEW r \in Requests, req'[r].pc = "decide"
  PROVE  Signed(req[r].status, req[r].signer, req[r].seen)'
<1>1. Lasting /\ CodesNumbered' /\ req[r] \in ReqRecord /\ codes \subseteq CodeRecord
  BY CodesLast DEF SignInv, TypeOK
<1>2. CASE req'[r] = req[r]
  <2>1. Signed(req[r].status, req[r].signer, req[r].seen) /\ req[r].seen \in Nat
    BY <1>1, <1>2 DEF SignInv, ReqRecord
  <2> QED BY <1>1, <1>2, <2>1, StaysSigned DEF Signed
<1>3. CASE req'[r] = NoReq
  BY <1>3 DEF NoReq
<1>4. CASE Arrives(r)
  <2>1. PICK p \in Pages, status \in Decisions, code \in Nat \union {Wrong, Null}:
          Respond(p, r, status, code)
    BY <1>4 DEF Arrives, Decisions, Received, TypeOK
  <2> QED BY <2>1, Responds
<1>5. CASE Works(r)
  BY <1>5 DEF Works, GoesOnTo, Same, Signed
<1>6. ASSUME NEW c, Reads(r, c) PROVE Signed(req[r].status, req[r].signer, req[r].seen)'
  BY <1>6 DEF Reads
<1>7. ASSUME NEW row, NEW new, Spends(r, row, new)
      PROVE  Signed(req[r].status, req[r].signer, req[r].seen)'
  <2>1. /\ row \in codes /\ row \in CodeRecord /\ new \in codes' /\ new.id = row.id /\ new.used
        /\ row.id = req[r].seen /\ req[r].code = row.id /\ req[r].pc = "verify"
        /\ req'[r].seen = row.id /\ req'[r].signer = row.to
    BY <1>7 DEF Spends, Replaces
  <2>2. PICK m \in mailed: m[2] = row.id
    BY <2>1 DEF SignInv, Held, CodeRecord
  <2>3. m[1] = row.to /\ m = <<m[1], m[2]>> /\ row.id <= lastCode
    BY <2>1, <2>2 DEF SignInv, Mailing, SentTo, TypeOK
  <2>4. <<row.to, row.id>> \in mailed' /\ row.id <= lastCode'
    BY <1>1, <2>1, <2>2, <2>3 DEF Lasting, CodeRecord
  <2>5. \A c \in codes': c.id = row.id => c.used
    BY <1>1, <2>1 DEF CodesNumbered
  <2> QED BY <2>1, <2>4, <2>5 DEF Signed
<1> QED BY <1>2, <1>3, <1>4, <1>5, <1>6, <1>7, RequestMoves DEF Moves

LEMMA InitSigned == Init => SignInv
  BY DEF Init, SignInv, CodesNumbered, Mailing, Held, Signed, NoAsk, NoReq

LEMMA NextSigned == TypeOK /\ SignInv /\ [Next]_vars => SignInv'
<1> SUFFICES ASSUME TypeOK, SignInv, [Next]_vars PROVE SignInv'
  OBVIOUS
<1>1. Lasting /\ CodesNumbered' /\ Mailing'
  BY CodesLast, MailingLasts DEF SignInv
<1>2. \A r \in Requests: Held(req[r])'
  BY HeldLasts
<1>3. \A r \in Requests: (req[r].pc = "decide" => Signed(req[r].status, req[r].signer, req[r].seen))'
  BY DecisionSigned
<1>4. Signed(devis.status, devis.signer, devis.code)'
  <2>1. CASE devis' = devis
    <3>1. Signed(devis.status, devis.signer, devis.code) /\ devis.code \in Nat
      BY DEF SignInv, TypeOK, DevisRecord
    <3> QED BY <1>1, <2>1, <3>1, StaysSigned DEF Signed
  <2>2. ASSUME NEW r \in Requests, req[r].pc = "decide",
               devis' = [status |-> req[r].status, signer |-> req[r].signer, code |-> req[r].seen]
        PROVE  Signed(devis.status, devis.signer, devis.code)'
    <3>1. Signed(req[r].status, req[r].signer, req[r].seen) /\ req[r].seen \in Nat
      BY <2>2 DEF SignInv, TypeOK, ReqRecord
    <3> QED BY <1>1, <2>2, <3>1, StaysSigned DEF Signed
  <2> QED BY <2>1, <2>2, DecidedOnce
<1> QED BY <1>1, <1>2, <1>3, <1>4 DEF SignInv

-----------------------------------------------------------------------------
(* What a page shows.  The requests of a page carry its keys; a key the    *)
(* page still holds was only used for answers it remembers, and what was   *)
(* recorded for it is what the quote became.                               *)

PageKeys ==
    \A p \in Pages: page[p].key <= page[p].made

RequestKeys ==
    \A r \in Requests: req[r].pc # "idle" =>
        LET p == page[req[r].page] IN
        /\ req[r].key[2] <= p.made
        /\ req[r].key[2] = p.key => req[r].status \in p.sent

Records ==
    \A p \in Pages, n \in 1 .. MaxKeys: recorded[<<p, n>>] # Null =>
        /\ n <= page[p].made
        /\ recorded[<<p, n>>] = devis.status
        /\ n = page[p].key => recorded[<<p, n>>] \in page[p].sent

ShownInv ==
    /\ PageKeys /\ RequestKeys /\ Records /\ ShownIsTrue
    /\ \A r \in Requests: req[r].pc = "record" => devis.status = req[r].status

\* What a step does to a page: it is loaded anew, it sends an answer, it hears of one, or
\* it keeps what matters here.
Loads(p) ==
    /\ page'[p].shown = devis.status /\ page'[p].sent = {}
    /\ page'[p].key = 0 /\ page'[p].made = page[p].made

Hears(r, p, answer) ==
    /\ r \in Requests /\ req[r].pc # "idle" /\ Heard(r, answer, p)
    /\ \/ answer = "error"
       \/ req[r].pc = "lock" /\ answer = recorded[req[r].key] /\ answer # Null
       \/ req[r].pc = "record" /\ answer = req[r].status

Turns(p) ==
    \/ SamePage(p) \/ Loads(p)
    \/ \E r \in Requests, status \in Decisions, code \in Nat \union {Wrong, Null}:
          Respond(p, r, status, code)
    \/ \E r \in Requests, answer \in Decisions \union {"error"}: Hears(r, p, answer)

LEMMA PageTurns ==
  ASSUME TypeOK, [Next]_vars, NEW p \in Pages
  PROVE  Turns(p)
<1>1. CASE page' = page
  BY <1>1 DEF Turns, SamePage
<1>2. ASSUME NEW o \in Pages, NEW r \in Requests, Accept(o, r) \/ Refuse(o, r) PROVE Turns(p)
  <2>1. PICK status \in Decisions, code \in Nat \union {Wrong, Null}: Respond(o, r, status, code)
    BY <1>2 DEF Accept, Refuse, Decisions, Received, TypeOK
  <2>2. OtherPages(o)
    BY <2>1, Responds
  <2>3. CASE p = o
    BY <2>1, <2>3 DEF Turns
  <2> QED BY <2>2, <2>3 DEF Turns, OtherPages, SamePage
<1>3. ASSUME NEW o \in Pages, Sent(o) PROVE Turns(p)
  BY <1>3, CodeSent DEF Turns
<1>4. ASSUME NEW o \in Pages, Load(o) PROVE Turns(p)
  <2> DEFINE new == [NoPage EXCEPT !.shown = devis.status, !.made = page[o].made]
  <2>1. new.shown = devis.status /\ new.sent = {} /\ new.key = 0 /\ new.made = page[o].made
    BY DEF NoPage
  <2>2. page' = [page EXCEPT ![o] = new]
    BY <1>4 DEF Load
  <2> HIDE DEF new
  <2> QED BY <2>1, <2>2 DEF TypeOK, Turns, Loads, SamePage
<1>5. ASSUME NEW o \in Pages, NetworkError(o) PROVE Turns(p)
  <2>1. page' = [page EXCEPT ![o].waiting = FALSE]
    BY <1>5 DEF NetworkError
  <2> QED BY <2>1 DEF TypeOK, PageRecord, Turns, SamePage
<1>6. ASSUME NEW r \in Requests, NEW answer \in Decisions \union {"error"}, req[r].pc # "idle",
             Finish(r, answer),
             \/ answer = "error"
             \/ req[r].pc = "lock" /\ answer = recorded[req[r].key] /\ answer # Null
             \/ req[r].pc = "record" /\ answer = req[r].status
      PROVE  Turns(p)
  <2>1. page'[p] = page[p] \/ Heard(r, answer, p)
    BY <1>6, Finishes
  <2> QED BY <1>6, <2>1 DEF Turns, SamePage, Hears
<1>7. ASSUME NEW r \in Requests, FindDevis(r) \/ ReadCode(r) \/ Decide(r) \/ HandlerFails(r)
      PROVE  Turns(p)
  BY <1>1, <1>6, <1>7 DEF FindDevis, ReadCode, Decide, HandlerFails, Fail, GoesOn
<1>8. ASSUME NEW r \in Requests, LockKey(r) PROVE Turns(p)
  <2>1. req[r].pc = "lock" /\ recorded[req[r].key] \in Decisions \union {Null}
    BY <1>8 DEF LockKey, TypeOK, Working
  <2> QED BY <1>1, <1>6, <1>8, <2>1 DEF LockKey
<1>9. ASSUME NEW r \in Requests, VerifyCode(r) PROVE Turns(p)
  <2>1. Fail(r) \/ page' = page
    BY <1>9, Verifies DEF Counts, Spends, GoesOn
  <2> QED BY <1>1, <1>6, <1>9, <2>1 DEF VerifyCode, Fail
<1>10. ASSUME NEW r \in Requests, Record(r) PROVE Turns(p)
  <2>1. req[r].pc = "record" /\ req[r].status \in Decisions
    BY <1>10 DEF Record, TypeOK, Working
  <2> QED BY <1>6, <1>10, <2>1 DEF Record, Fail
<1>11. ASSUME NEW o \in Pages,
              \/ RequestOtp(o) \/ CheckRecent(o) \/ DeleteUnused(o) \/ CreateCode(o) \/ MailCode(o)
              \/ MailFails(o) \/ AskDies(o)
       PROVE  Turns(p)
  BY <1>1, <1>3, <1>11 DEF RequestOtp, CheckRecent, DeleteUnused, CreateCode, MailCode, MailFails,
     AskDies
<1>12. ASSUME NEW c \in codes, ExpireCode(c) PROVE Turns(p)
  BY <1>1, <1>12 DEF ExpireCode
<1>13. ASSUME NEW k \in Keys, KeyTimeout(k) PROVE Turns(p)
  BY <1>1, <1>13 DEF KeyTimeout
<1>14. CASE UNCHANGED vars
  BY <1>1, <1>14 DEF vars
<1>15. ASSUME NEW r \in Requests,
              \/ FindDevis(r) \/ LockKey(r) \/ ReadCode(r) \/ VerifyCode(r)
              \/ Decide(r) \/ HandlerFails(r) \/ Record(r)
       PROVE  Turns(p)
  BY <1>7, <1>8, <1>9, <1>10, <1>15
<1> QED BY <1>2, <1>4, <1>5, <1>11, <1>12, <1>13, <1>14, <1>15 DEF Next

\* A key a page made stays made, and one it holds was used for what it remembers.
LEMMA KeyKept ==
  ASSUME TypeOK, PageKeys, NEW p \in Pages, NEW n \in 1 .. MaxKeys, NEW status, Turns(p),
         n <= page[p].made, n = page[p].key => status \in page[p].sent
  PROVE  n <= page'[p].made /\ (n = page'[p].key => status \in page'[p].sent)
<1>1. page[p] \in PageRecord /\ page[p].key <= page[p].made /\ MaxKeys \in Nat
      /\ page[p].key \in Nat /\ page[p].made \in Nat
  BY AttemptsAssumption DEF TypeOK, PageKeys, PageRecord
<1>2. CASE SamePage(p) \/ Loads(p)
  BY <1>1, <1>2 DEF SamePage, Loads
<1>3. ASSUME NEW r \in Requests, NEW other \in Decisions, NEW code \in Nat \union {Wrong, Null},
             Respond(p, r, other, code)
      PROVE  n <= page'[p].made /\ (n = page'[p].key => status \in page'[p].sent)
  <2>1. /\ page'[p].key = KeyNo(p) /\ page'[p].sent = page[p].sent \union {other}
        /\ page'[p].made = (IF page[p].made < KeyNo(p) THEN KeyNo(p) ELSE page[p].made)
    BY <1>3, Responds
  <2> QED BY <1>1, <2>1 DEF KeyNo
<1>4. ASSUME NEW r, NEW answer, Hears(r, p, answer)
      PROVE  n <= page'[p].made /\ (n = page'[p].key => status \in page'[p].sent)
  BY <1>1, <1>4 DEF Hears, Heard
<1> QED BY <1>2, <1>3, <1>4 DEF Turns

LEMMA PageKeysKept ==
  ASSUME TypeOK, PageKeys, [Next]_vars
  PROVE  PageKeys'
<1> SUFFICES ASSUME NEW p \in Pages PROVE page'[p].key <= page'[p].made
  BY DEF PageKeys
<1>1. page[p] \in PageRecord /\ page[p].key <= page[p].made
      /\ page[p].key \in Nat /\ page[p].made \in Nat
  BY DEF TypeOK, PageKeys, PageRecord
<1>2. ASSUME NEW r \in Requests, NEW status \in Decisions, NEW code \in Nat \union {Wrong, Null},
             Respond(p, r, status, code)
      PROVE  page'[p].key <= page'[p].made
  BY <1>1, <1>2, Responds DEF KeyNo
<1>3. CASE SamePage(p) \/ Loads(p)
  BY <1>1, <1>3 DEF SamePage, Loads
<1>4. ASSUME NEW r, NEW answer, Hears(r, p, answer) PROVE page'[p].key <= page'[p].made
  BY <1>1, <1>4 DEF Hears, Heard
<1> QED BY <1>2, <1>3, <1>4, PageTurns DEF Turns

LEMMA RequestKeysKept ==
  ASSUME TypeOK, ShownInv, [Next]_vars
  PROVE  RequestKeys'
<1> SUFFICES ASSUME NEW r \in Requests, req'[r].pc # "idle"
             PROVE  /\ req'[r].key[2] <= page'[req'[r].page].made
                    /\ req'[r].key[2] = page'[req'[r].page].key
                          => req'[r].status \in page'[req'[r].page].sent
  BY DEF RequestKeys
<1>1. ASSUME req[r].pc # "idle", Same(r)
      PROVE  /\ req'[r].key[2] <= page'[req'[r].page].made
             /\ req'[r].key[2] = page'[req'[r].page].key
                   => req'[r].status \in page'[req'[r].page].sent
  <2>1. req[r].page \in Pages /\ req[r].key[2] \in 1 .. MaxKeys
    BY <1>1 DEF TypeOK, Working, Keys
  <2>2. /\ req[r].key[2] <= page[req[r].page].made
        /\ req[r].key[2] = page[req[r].page].key => req[r].status \in page[req[r].page].sent
    BY <1>1 DEF ShownInv, RequestKeys
  <2> QED BY <1>1, <2>1, <2>2, KeyKept, PageTurns DEF Same, ShownInv
<1>2. CASE req'[r] = req[r]
  BY <1>1, <1>2 DEF Same
<1>3. CASE req'[r] = NoReq
  BY <1>3 DEF NoReq
<1>4. CASE Arrives(r)
  <2>1. PICK p \in Pages, status \in Decisions, code \in Nat \union {Wrong, Null}:
          Respond(p, r, status, code)
    BY <1>4 DEF Arrives, Decisions, Received, TypeOK
  <2>2. /\ req'[r].page = p /\ req'[r].key = <<p, KeyNo(p)>> /\ req'[r].status = status
        /\ page'[p].made = (IF page[p].made < KeyNo(p) THEN KeyNo(p) ELSE page[p].made)
        /\ page'[p].sent = page[p].sent \union {status} /\ KeyNo(p) \in 1 .. MaxKeys
    BY <2>1, Responds
  <2>3. page[p].made \in Nat
    BY DEF TypeOK, PageRecord
  <2> QED BY <2>2, <2>3, AttemptsAssumption
<1>5. CASE Works(r)
  BY <1>1, <1>5 DEF Works, GoesOnTo
<1>6. ASSUME NEW c, Reads(r, c) PROVE req[r].pc # "idle" /\ Same(r)
  BY <1>6 DEF Reads
<1>7. ASSUME NEW row, NEW new, Spends(r, row, new) PROVE req[r].pc # "idle" /\ Same(r)
  BY <1>7 DEF Spends
<1> QED BY <1>1, <1>2, <1>3, <1>4, <1>5, <1>6, <1>7, RequestMoves DEF Moves

LEMMA DecisionStays ==
  ASSUME [Next]_vars, devis.status \in Decisions
  PROVE  devis' = devis
  BY DecidedOnce DEF Decisions

LEMMA RecordedOnce ==
  ASSUME [Next]_vars
  PROVE  \/ recorded' = recorded
         \/ \E r \in Requests:
               /\ req[r].pc = "record"
               /\ recorded' = [recorded EXCEPT ![req[r].key] = req[r].status]
<1>1. CASE UNCHANGED vars
  BY <1>1 DEF vars, keys
<1>2. ASSUME NEW r \in Requests, Record(r)
      PROVE  \/ recorded' = recorded
             \/ /\ req[r].pc = "record"
                /\ recorded' = [recorded EXCEPT ![req[r].key] = req[r].status]
  BY <1>2 DEF Record
<1>3. ASSUME NEW p \in Pages,
             \/ RequestOtp(p) \/ CheckRecent(p) \/ DeleteUnused(p) \/ CreateCode(p) \/ MailCode(p)
             \/ MailFails(p) \/ AskDies(p) \/ Load(p) \/ NetworkError(p)
             \/ \E r \in Requests: Accept(p, r) \/ Refuse(p, r)
      PROVE  recorded' = recorded
  BY <1>3 DEF RequestOtp, CheckRecent, DeleteUnused, CreateCode, MailCode, MailFails, AskDies,
     Load, NetworkError, Accept, Refuse, Respond, keys
<1>4. ASSUME NEW r \in Requests,
             \/ FindDevis(r) \/ LockKey(r) \/ ReadCode(r) \/ VerifyCode(r) \/ HandlerFails(r)
             \/ Decide(r)
      PROVE  recorded' = recorded
  BY <1>4 DEF FindDevis, LockKey, ReadCode, VerifyCode, HandlerFails, Decide
<1>5. ASSUME NEW c \in codes, ExpireCode(c) PROVE recorded' = recorded
  BY <1>5 DEF ExpireCode, keys
<1>6. ASSUME NEW k \in Keys, KeyTimeout(k) PROVE recorded' = recorded
  BY <1>6 DEF KeyTimeout
<1> QED BY <1>1, <1>2, <1>3, <1>4, <1>5, <1>6 DEF Next

LEMMA RecordsKept ==
  ASSUME TypeOK, ShownInv, [Next]_vars
  PROVE  Records'
<1> SUFFICES ASSUME NEW p \in Pages, NEW n \in 1 .. MaxKeys, recorded'[<<p, n>>] # Null
             PROVE  /\ n <= page'[p].made
                    /\ recorded'[<<p, n>>] = devis'.status
                    /\ n = page'[p].key => recorded'[<<p, n>>] \in page'[p].sent
  BY DEF Records
<1> DEFINE answer == recorded'[<<p, n>>]
<1>1. <<p, n>> \in Keys /\ recorded \in [Keys -> Decisions \union {Null}]
  BY DEF Keys, TypeOK
<1>2. /\ answer \in Decisions /\ answer = devis.status
      /\ n <= page[p].made /\ (n = page[p].key => answer \in page[p].sent)
  <2>1. CASE recorded'[<<p, n>>] = recorded[<<p, n>>]
    BY <1>1, <2>1 DEF ShownInv, Records
  <2>2. ASSUME NEW r \in Requests, req[r].pc = "record", <<p, n>> = req[r].key,
               recorded'[<<p, n>>] = req[r].status
        PROVE  /\ answer \in Decisions /\ answer = devis.status
               /\ n <= page[p].made /\ (n = page[p].key => answer \in page[p].sent)
    <3>1. req[r].page = p /\ req[r].key[2] = n /\ req[r].status \in Decisions
      BY <2>2 DEF TypeOK, Working
    <3> QED BY <2>2, <3>1 DEF ShownInv, RequestKeys
  <2> QED BY <1>1, <2>1, <2>2, RecordedOnce
<1> HIDE DEF answer
<1>3. devis' = devis
  BY <1>2, DecisionStays
<1>4. n <= page'[p].made /\ (n = page'[p].key => answer \in page'[p].sent)
  BY <1>2, KeyKept, PageTurns DEF ShownInv
<1> QED BY <1>2, <1>3, <1>4 DEF answer

LEMMA ShownKept ==
  ASSUME TypeOK, ShownInv, [Next]_vars
  PROVE  ShownIsTrue'
<1> SUFFICES ASSUME NEW p \in Pages, page'[p].shown \in Decisions, page'[p].sent # Decisions
             PROVE  page'[p].shown = devis.status
  BY DecisionStays DEF ShownIsTrue
<1>1. page[p] \in PageRecord
  BY DEF TypeOK
<1>2. CASE page'[p].shown = page[p].shown /\ page'[p].sent = page[p].sent
  BY <1>2 DEF ShownInv, ShownIsTrue
<1>3. CASE Loads(p)
  BY <1>3 DEF Loads
<1>4. ASSUME NEW r \in Requests, NEW status \in Decisions, NEW code \in Nat \union {Wrong, Null},
             Respond(p, r, status, code)
      PROVE  FALSE
  BY <1>4, Responds DEF Decisions
<1>5. ASSUME NEW r, NEW answer \in Decisions \union {"error"}, Hears(r, p, answer), answer # "error"
      PROVE  page'[p].shown = devis.status
  <2>1. /\ r \in Requests /\ req[r].pc # "idle" /\ p = req[r].page /\ page[p].key = req[r].key[2]
        /\ page'[p].sent = page[p].sent /\ page'[p].shown = req[r].status
    BY <1>5 DEF Hears, Heard
  <2>2. /\ req[r].status \in page[p].sent /\ page[p].sent \subseteq Decisions
        /\ req[r].key = <<p, req[r].key[2]>> /\ req[r].key[2] \in 1 .. MaxKeys
    BY <1>1, <2>1 DEF ShownInv, RequestKeys, PageRecord, TypeOK, Working, Keys
  <2>3. CASE req[r].pc = "lock" /\ answer = recorded[req[r].key] /\ answer # Null
    <3>1. answer = devis.status /\ answer \in page[p].sent
      BY <2>1, <2>2, <2>3 DEF ShownInv, Records
    <3> QED BY <2>1, <2>2, <3>1 DEF Decisions
  <2>4. CASE req[r].pc = "record"
    BY <2>1, <2>4 DEF ShownInv
  <2> QED BY <1>5, <2>3, <2>4 DEF Hears
<1>6. ASSUME NEW r, Hears(r, p, "error")
      PROVE  page'[p].shown = page[p].shown /\ page'[p].sent = page[p].sent
  BY <1>6 DEF Hears, Heard
<1> QED BY <1>2, <1>3, <1>4, <1>5, <1>6, PageTurns DEF Turns, SamePage

LEMMA RecordStays ==
  ASSUME TypeOK, ShownInv, [Next]_vars, NEW r \in Requests, req'[r].pc = "record"
  PROVE  devis'.status = req'[r].status
<1>1. CASE req'[r] = req[r]
  <2>1. devis.status = req[r].status /\ req[r].status \in Decisions
    BY <1>1 DEF ShownInv, TypeOK, Working
  <2> QED BY <1>1, <2>1, DecisionStays
<1>2. CASE req'[r] = NoReq
  BY <1>2 DEF NoReq
<1>3. CASE Arrives(r)
  <2>1. PICK p \in Pages, status \in Decisions, code \in Nat \union {Wrong, Null}:
          Respond(p, r, status, code)
    BY <1>3 DEF Arrives, Decisions, Received, TypeOK
  <2> QED BY <2>1, Responds
<1>4. CASE Works(r)
  BY <1>4 DEF Works, GoesOnTo, Same
<1>5. ASSUME NEW c, Reads(r, c) PROVE FALSE
  BY <1>5 DEF Reads
<1>6. ASSUME NEW row, NEW new, Spends(r, row, new) PROVE FALSE
  BY <1>6 DEF Spends
<1> QED BY <1>1, <1>2, <1>3, <1>4, <1>5, <1>6, RequestMoves DEF Moves

LEMMA InitShown == Init => ShownInv
<1> SUFFICES ASSUME Init PROVE ShownInv
  OBVIOUS
<1>1. \A p \in Pages: page[p].shown = Null /\ page[p].key = 0 /\ page[p].made = 0
  BY DEF Init, NoPage
<1>2. \A p \in Pages, n \in 1 .. MaxKeys: recorded[<<p, n>>] = Null
  BY DEF Init, Keys
<1>3. \A r \in Requests: req[r].pc = "idle"
  BY DEF Init, NoReq
<1>4. ShownIsTrue
  BY <1>1, AddressAssumption DEF ShownIsTrue, Decisions
<1> QED BY <1>1, <1>2, <1>3, <1>4 DEF ShownInv, PageKeys, RequestKeys, Records

LEMMA NextShown == TypeOK /\ ShownInv /\ [Next]_vars => ShownInv'
<1> SUFFICES ASSUME TypeOK, ShownInv, [Next]_vars PROVE ShownInv'
  OBVIOUS
<1>1. PageKeys'
  BY PageKeysKept DEF ShownInv
<1>2. \A r \in Requests: req'[r].pc = "record" => devis'.status = req'[r].status
  BY RecordStays
<1> QED BY <1>1, <1>2, RequestKeysKept, RecordsKept, ShownKept DEF ShownInv

\* What a page shows is what the quote is (PublicDevisView.tsx): however many pages answer
\* one quote, however many requests are under way and answers are lost, a page whose user
\* asked for one decision never shows the other.
THEOREM PageIsTrue == Spec => []ShownIsTrue
<1>1. ShownInv => ShownIsTrue
  BY DEF ShownInv
<1> QED BY <1>1, Typed, InitShown, NextShown, PTL DEF Spec

-----------------------------------------------------------------------------
(* The wrong answers to one code.  Each request that verifies counts from  *)
(* what it read, so one of two that overlap can undo the count of the      *)
(* other.  What a request sees of a code is the attempts it will count     *)
(* from; what may still come is bounded by the two views: the later one    *)
(* can be used up once, and then the earlier one starts a new round.       *)

T(n) == n * (n + 1)

Pending(r, c) == req[r].pc = "verify" /\ req[r].seen = c.id
View(r, c) ==
    IF Pending(r, c) /\ req[r].attempts < c.attempts THEN req[r].attempts ELSE c.attempts

\* Twice the wrong answers that may still be counted, for two views x and y.
Left(x, y) ==
    IF x <= y THEN 2 * (MaxAttempts - y) + T(MaxAttempts - x - 1)
              ELSE 2 * (MaxAttempts - x) + T(MaxAttempts - y - 1)

LEMMA TNext == \A n \in Nat: T(n) \in Nat /\ T(n + 1) = T(n) + 2 * (n + 1)
  BY DEF T

LEMMA TGrows == \A m, n \in Nat: m <= n => T(m) <= T(n)
<1> SUFFICES ASSUME NEW m \in Nat, NEW n \in Nat, m <= n PROVE T(m) <= T(n)
  OBVIOUS
<1>1. PICK k \in Nat: n = m + k
  <2>1. n - m \in Nat /\ n = m + (n - m)
    OBVIOUS
  <2> QED BY <2>1
<1>2. T(m + k) = T(m) + (2 * (m * k) + k * k + k)
  BY DEF T
<1>3. m * k \in Nat /\ k * k \in Nat
  OBVIOUS
<1>4. T(m) \in Nat
  BY TNext
<1> QED BY <1>1, <1>2, <1>3, <1>4

\* Views only grow while nothing is counted: what may still come does not.
LEMMA LeftShrinks ==
  ASSUME NEW x \in Nat, NEW y \in Nat, NEW u \in Nat, NEW v \in Nat,
         x <= u, y <= v, u < MaxAttempts, v < MaxAttempts
  PROVE  Left(u, v) <= Left(x, y)
<1>1. MaxAttempts \in Nat
  BY AttemptsAssumption
<1> DEFINE A == MaxAttempts - x - 1
           B == MaxAttempts - y - 1
           C == MaxAttempts - u - 1
           D == MaxAttempts - v - 1
<1>2. A \in Nat /\ B \in Nat /\ C \in Nat /\ D \in Nat /\ C <= A /\ D <= B
      /\ (x <= y <=> B <= A) /\ (u <= v <=> D <= C)
  BY <1>1
<1>3. T(A) \in Nat /\ T(B) \in Nat /\ T(C) \in Nat /\ T(D) \in Nat
  BY <1>2, TNext
<1>4. T(C) <= T(A) /\ T(D) <= T(B) /\ (A <= B => T(A) <= T(B)) /\ (B <= A => T(B) <= T(A))
  BY <1>2, TGrows
<1>5. Left(u, v) = IF u <= v THEN 2 * D + 2 + T(C) ELSE 2 * C + 2 + T(D)
  BY <1>1 DEF Left
<1>6. Left(x, y) = IF x <= y THEN 2 * B + 2 + T(A) ELSE 2 * A + 2 + T(B)
  BY <1>1 DEF Left
<1> HIDE DEF A, B, C, D
<1> QED BY <1>2, <1>3, <1>4, <1>5, <1>6

\* A request that counts sees one attempt more, and so does the other if it must go back.
LEMMA LeftCounted ==
  ASSUME NEW x \in Nat, NEW y \in Nat, NEW u \in Nat, NEW v \in Nat,
         y < MaxAttempts, u < MaxAttempts, v < MaxAttempts,
         \/ x + 1 <= u /\ y <= v
         \/ x <= y /\ u = x + 1 /\ v = x + 1
  PROVE  Left(u, v) + 2 <= Left(x, y)
<1>1. MaxAttempts \in Nat
  BY AttemptsAssumption
<1> DEFINE A == MaxAttempts - x - 1
           B == MaxAttempts - y - 1
           C == MaxAttempts - u - 1
           D == MaxAttempts - v - 1
<1>2. /\ A \in Nat /\ B \in Nat /\ C \in Nat /\ D \in Nat /\ C + 1 <= A
      /\ (x <= y <=> B <= A) /\ (u <= v <=> D <= C)
      /\ D <= B \/ (B <= A /\ D = C)
  BY <1>1
<1>3. T(A) \in Nat /\ T(B) \in Nat /\ T(C) \in Nat /\ T(D) \in Nat
  BY <1>2, TNext
<1>4. /\ T(C) + 2 * C + 2 <= T(A) /\ (A <= B => T(A) <= T(B)) /\ (B <= A => T(B) <= T(A))
      /\ (D <= B => T(D) <= T(B))
  <2> HIDE DEF A, B, C, D
  <2>1. PICK E \in Nat: E = C + 1
    BY <1>2
  <2>3. T(E) = T(C) + 2 * (C + 1)
    BY <1>2, <2>1, TNext
  <2>4. T(E) <= T(A)
    BY <1>2, <2>1, TGrows
  <2>2. (A <= B => T(A) <= T(B)) /\ (B <= A => T(B) <= T(A)) /\ (D <= B => T(D) <= T(B))
    BY <1>2, TGrows
  <2> QED BY <1>2, <1>3, <2>2, <2>3, <2>4
<1>5. Left(u, v) = IF u <= v THEN 2 * D + 2 + T(C) ELSE 2 * C + 2 + T(D)
  BY <1>1 DEF Left
<1>6. Left(x, y) = IF x <= y THEN 2 * B + 2 + T(A) ELSE 2 * A + 2 + T(B)
  BY <1>1 DEF Left
<1> HIDE DEF A, B, C, D
<1> QED BY <1>2, <1>3, <1>4, <1>5, <1>6

LEMMA LeftSymmetric ==
  ASSUME NEW x \in Nat, NEW y \in Nat
  PROVE  Left(x, y) = Left(y, x)
  BY AttemptsAssumption DEF Left

LEMMA LeftAtLeast ==
  ASSUME NEW x \in Nat, NEW y \in Nat, x < MaxAttempts, y < MaxAttempts
  PROVE  Left(x, y) \in Nat /\ Left(x, y) >= 2
<1>1. MaxAttempts - x - 1 \in Nat /\ MaxAttempts - y - 1 \in Nat /\ MaxAttempts \in Nat
  BY AttemptsAssumption
<1>2. T(MaxAttempts - x - 1) \in Nat /\ T(MaxAttempts - y - 1) \in Nat
  BY <1>1, TNext
<1> QED BY <1>1, <1>2 DEF Left

LEMMA LeftAtFirst == Left(0, 0) = T(MaxAttempts) /\ T(MaxAttempts) \in Nat
<1>1. PICK n \in Nat: MaxAttempts = n + 1
  <2>1. MaxAttempts - 1 \in Nat /\ MaxAttempts = (MaxAttempts - 1) + 1
    BY AttemptsAssumption
  <2> QED BY <2>1
<1>2. T(MaxAttempts) = T(n) + 2 * (n + 1) /\ T(n) \in Nat
  BY <1>1, TNext
<1>3. MaxAttempts - 0 - 1 = n
  BY <1>1
<1>4. Left(0, 0) = 2 * (n + 1) + T(n)
  BY <1>1, <1>3 DEF Left
<1> QED BY <1>2, <1>4

\* A code that is open, and one that is spent or locked: nobody reads it any more, and one
\* of two requests may still count on what it read before.
OpenBound(c) ==
    /\ c.attempts < MaxAttempts
    /\ \A r, s \in Requests: Requests = {r, s} =>
          2 * c.tries + Left(View(r, c), View(s, c)) <= T(MaxAttempts)
SpentBound(c) ==
    \A r, s \in Requests: Requests = {r, s} =>
        /\ Pending(r, c) /\ Pending(s, c) => r = s
        /\ 2 * c.tries + (IF Pending(r, c) \/ Pending(s, c) THEN 2 ELSE 0) <= 2 + T(MaxAttempts)
Bound(c) == IF c.used THEN SpentBound(c) ELSE OpenBound(c)
TriesInv ==
    \A c \in codes: Bound(c) /\ (Requests = {} => c.tries = 0)

LEMMA ViewTyped ==
  ASSUME TypeOK, NEW c \in CodeRecord, NEW r \in Requests
  PROVE  View(r, c) \in Nat /\ View(r, c) <= c.attempts
  BY DEF TypeOK, ReqRecord, CodeRecord, View

\* A request that does not count leaves a code alone, stops looking at it, or has just
\* read it.
Leaves(s, c) ==
    req'[s].pc = "verify" /\ req'[s].seen = c.id =>
        \/ Pending(s, c) /\ req'[s].attempts = req[s].attempts
        \/ ~c.used /\ req'[s].attempts = c.attempts

LEMMA AllLeave ==
  ASSUME TypeOK, CodesNumbered, [Next]_vars, NEW c \in codes, NEW s \in Requests
  PROVE  Leaves(s, c)
<1>1. CASE req'[s] = req[s]
  BY <1>1 DEF Leaves, Pending
<1>2. CASE req'[s] = NoReq
  BY <1>2 DEF Leaves, NoReq
<1>3. CASE Arrives(s)
  <2>1. PICK p \in Pages, status \in Decisions, code \in Nat \union {Wrong, Null}:
          Respond(p, s, status, code)
    BY <1>3 DEF Arrives, Decisions, Received, TypeOK
  <2> QED BY <2>1, Responds DEF Leaves
<1>4. CASE Works(s)
  BY <1>4 DEF Works, GoesOnTo, Leaves
<1>5. ASSUME NEW d \in codes, Reads(s, d) PROVE Leaves(s, c)
  BY <1>5 DEF Reads, Leaves, CodesNumbered, Unused
<1>6. ASSUME NEW row, NEW new, Spends(s, row, new) PROVE Leaves(s, c)
  BY <1>6 DEF Spends, Leaves
<1> QED BY <1>1, <1>2, <1>3, <1>4, <1>5, <1>6, RequestMoves DEF Moves

LEMMA LeftAlone ==
  ASSUME TypeOK, TypeOK', NEW c \in CodeRecord, Bound(c), \A s \in Requests: Leaves(s, c)
  PROVE  Bound(c)'
<1>1. CASE c.used
  <2>1. \A s \in Requests: Pending(s, c)' => Pending(s, c)
    BY <1>1 DEF Leaves, Pending
  <2>2. SpentBound(c)'
    <3> SUFFICES ASSUME NEW r \in Requests, NEW s \in Requests, Requests = {r, s}
                 PROVE  /\ Pending(r, c)' /\ Pending(s, c)' => r = s
                        /\ 2 * c.tries + (IF Pending(r, c)' \/ Pending(s, c)' THEN 2 ELSE 0)
                              <= 2 + T(MaxAttempts)
      BY DEF SpentBound
    <3>1. /\ Pending(r, c) /\ Pending(s, c) => r = s
          /\ 2 * c.tries + (IF Pending(r, c) \/ Pending(s, c) THEN 2 ELSE 0) <= 2 + T(MaxAttempts)
      BY <1>1 DEF Bound, SpentBound
    <3>2. c.tries \in Nat /\ T(MaxAttempts) \in Nat
      BY LeftAtFirst DEF CodeRecord
    <3> QED BY <2>1, <3>1, <3>2
  <2> QED BY <1>1, <2>2 DEF Bound
<1>2. CASE ~c.used
  <2>1. ASSUME NEW s \in Requests PROVE View(s, c) <= View(s, c)'
    BY <2>1 DEF Leaves, Pending, View, TypeOK, ReqRecord, CodeRecord
  <2>2. c.attempts < MaxAttempts
    BY <1>2 DEF Bound, OpenBound
  <2>3. ASSUME NEW r \in Requests, NEW s \in Requests, Requests = {r, s}
        PROVE  2 * c.tries + Left(View(r, c)', View(s, c)') <= T(MaxAttempts)
    <3>1. 2 * c.tries + Left(View(r, c), View(s, c)) <= T(MaxAttempts)
      BY <1>2, <2>3 DEF Bound, OpenBound
    <3> DEFINE x == View(r, c)
               y == View(s, c)
               u == View(r, c)'
               v == View(s, c)'
    <3>2. /\ x \in Nat /\ y \in Nat /\ u \in Nat /\ v \in Nat /\ x <= u /\ y <= v
          /\ u < MaxAttempts /\ v < MaxAttempts /\ x < MaxAttempts /\ y < MaxAttempts
      <4>1. u \in Nat /\ v \in Nat /\ u <= c.attempts /\ v <= c.attempts
        BY DEF View, TypeOK, ReqRecord, CodeRecord
      <4>2. MaxAttempts \in Nat /\ c.attempts \in Nat
        BY AttemptsAssumption DEF CodeRecord
      <4> QED BY <2>1, <2>2, <4>1, <4>2, ViewTyped
    <3>3. c.tries \in Nat /\ T(MaxAttempts) \in Nat
      BY LeftAtFirst DEF CodeRecord
    <3> HIDE DEF x, y, u, v
    <3>4. Left(u, v) <= Left(x, y) /\ Left(u, v) \in Nat /\ Left(x, y) \in Nat
      BY <3>2, LeftShrinks, LeftAtLeast
    <3>5. 2 * c.tries + Left(u, v) <= T(MaxAttempts)
      BY <3>1, <3>3, <3>4 DEF x, y
    <3> QED BY <3>5 DEF u, v
  <2> QED BY <1>2, <2>2, <2>3 DEF Bound, OpenBound
<1> QED BY <1>1, <1>2

\* The writer of a row is done with it; the other request looks at it as before.
Written(r, row, new) ==
    /\ row \in CodeRecord /\ new \in CodeRecord /\ new.id = row.id
    /\ Pending(r, row) /\ ~Pending(r, new)'
    /\ Others(r)

LEMMA OtherViews ==
  ASSUME TypeOK, TypeOK', NEW r \in Requests, NEW row, NEW new, Written(r, row, new),
         new.attempts = req[r].attempts + 1, NEW s \in Requests \ {r}
  PROVE  \/ View(r, row) + 1 <= View(r, new)' /\ View(s, row) <= View(s, new)'
         \/ /\ View(r, row) <= View(s, row)
            /\ View(r, new)' = View(r, row) + 1 /\ View(s, new)' = View(r, row) + 1
<1>1. /\ req[r].attempts \in Nat /\ req[s].attempts \in Nat /\ row.attempts \in Nat
      /\ new.attempts \in Nat /\ req'[s] = req[s]
  BY DEF TypeOK, ReqRecord, CodeRecord, Written, Others
<1>2. View(r, new)' = new.attempts
  BY DEF View, Written
<1>3. View(s, new)' = IF Pending(s, row) /\ req[s].attempts < new.attempts
                      THEN req[s].attempts ELSE new.attempts
  BY <1>1 DEF View, Written, Pending
<1>4. View(r, row) = IF req[r].attempts < row.attempts THEN req[r].attempts ELSE row.attempts
  BY DEF View, Written
<1>5. View(s, row) = IF Pending(s, row) /\ req[s].attempts < row.attempts
                     THEN req[s].attempts ELSE row.attempts
  BY DEF View
<1> QED BY <1>1, <1>2, <1>3, <1>4, <1>5

LEMMA OneMoreWrong ==
  ASSUME TypeOK, TypeOK', NEW r \in Requests, NEW row, NEW new, Written(r, row, new),
         new.attempts = req[r].attempts + 1, new.tries = row.tries + 1,
         OpenBound(row), new.attempts < MaxAttempts
  PROVE  OpenBound(new)'
<1>1. row \in CodeRecord /\ new \in CodeRecord /\ row.tries \in Nat /\ new.attempts \in Nat
      /\ row.attempts \in Nat /\ row.attempts < MaxAttempts /\ MaxAttempts \in Nat
  BY AttemptsAssumption DEF Written, CodeRecord, OpenBound
<1>2. \A q \in Requests: /\ View(q, new)' \in Nat /\ View(q, new)' < MaxAttempts
                         /\ View(q, row) \in Nat /\ View(q, row) < MaxAttempts
  <2> TAKE q \in Requests
  <2>1. View(q, new)' \in Nat /\ View(q, new)' <= new.attempts
    BY <1>1 DEF TypeOK, ReqRecord, CodeRecord, View
  <2>2. View(q, row) \in Nat /\ View(q, row) <= row.attempts
    BY <1>1, ViewTyped
  <2> QED BY <1>1, <2>1, <2>2
<1>3. View(r, row) + 1 <= View(r, new)'
  BY <1>1 DEF View, Written, TypeOK, ReqRecord
<1>4. ASSUME NEW s \in Requests
      PROVE  Left(View(r, new)', View(s, new)') + 2 <= Left(View(r, row), View(s, row))
  <2> DEFINE x == View(r, row)
             y == View(s, row)
             u == View(r, new)'
             v == View(s, new)'
  <2>1. /\ x \in Nat /\ y \in Nat /\ u \in Nat /\ v \in Nat
        /\ x < MaxAttempts /\ y < MaxAttempts /\ u < MaxAttempts /\ v < MaxAttempts
    BY <1>2
  <2>2. (x + 1 <= u /\ y <= v) \/ (x <= y /\ u = x + 1 /\ v = x + 1)
    <3>1. CASE s = r
      <4>1. y = x /\ v = u /\ x + 1 <= u
        BY <1>3, <3>1
      <4> HIDE DEF x, y, u, v
      <4> QED BY <2>1, <4>1
    <3>2. CASE s # r
      BY <3>2, OtherViews
    <3> QED BY <3>1, <3>2
  <2> HIDE DEF x, y, u, v
  <2>3. Left(u, v) + 2 <= Left(x, y)
    BY <2>1, <2>2, LeftCounted
  <2> QED BY <2>3 DEF x, y, u, v
<1>5. ASSUME NEW s \in Requests, Requests = {r, s}
      PROVE  2 * new.tries + Left(View(r, new)', View(s, new)') <= T(MaxAttempts)
  <2>1. 2 * row.tries + Left(View(r, row), View(s, row)) <= T(MaxAttempts)
    BY <1>5 DEF OpenBound
  <2>2. Left(View(r, row), View(s, row)) \in Nat /\ Left(View(r, new)', View(s, new)') \in Nat
    BY <1>2, LeftAtLeast
  <2>3. T(MaxAttempts) \in Nat
    BY LeftAtFirst
  <2>4. Left(View(r, new)', View(s, new)') + 2 <= Left(View(r, row), View(s, row))
    BY <1>4
  <2> QED BY <1>1, <2>1, <2>2, <2>3, <2>4
<1>6. ASSUME NEW a \in Requests, NEW b \in Requests, Requests = {a, b}
      PROVE  2 * new.tries + Left(View(a, new)', View(b, new)') <= T(MaxAttempts)
  <2>1. CASE r = a
    BY <1>5, <1>6, <2>1
  <2>2. CASE r = b
    <3>1. Left(View(a, new)', View(b, new)') = Left(View(b, new)', View(a, new)')
      BY <1>2, LeftSymmetric
    <3>2. Requests = {r, a}
      BY <1>6, <2>2
    <3> QED BY <1>5, <2>2, <3>1, <3>2
  <2> QED BY <1>6, <2>1, <2>2
<1> QED BY <1>6 DEF OpenBound

\* A code that is spent or locked by the write: what was left of it pays for the answer
\* that is under way.
LEMMA LastWrite ==
  ASSUME TypeOK, TypeOK', NEW r \in Requests, NEW row, NEW new, Written(r, row, new),
         Bound(row), new.tries \in {row.tries, row.tries + 1}
  PROVE  SpentBound(new)'
<1>1. row.tries \in Nat /\ T(MaxAttempts) \in Nat
  BY LeftAtFirst DEF Written, CodeRecord
<1>2. \A s \in Requests: Pending(s, new)' => s # r /\ Pending(s, row)
  BY DEF Written, Others, Pending
<1> SUFFICES ASSUME NEW a \in Requests, NEW b \in Requests, Requests = {a, b}
             PROVE  /\ Pending(a, new)' /\ Pending(b, new)' => a = b
                    /\ 2 * new.tries + (IF Pending(a, new)' \/ Pending(b, new)' THEN 2 ELSE 0)
                          <= 2 + T(MaxAttempts)
  BY DEF SpentBound
<1>3. r = a \/ r = b
  OBVIOUS
<1>4. CASE row.used
  <2>1. /\ Pending(a, row) /\ Pending(b, row) => a = b
        /\ 2 * row.tries + (IF Pending(a, row) \/ Pending(b, row) THEN 2 ELSE 0)
              <= 2 + T(MaxAttempts)
    BY <1>4 DEF Bound, SpentBound
  <2>2. Pending(r, row)
    BY DEF Written
  <2>3. ~Pending(a, new)' /\ ~Pending(b, new)'
    BY <1>2, <1>3, <2>1, <2>2
  <2>4. 2 * row.tries <= T(MaxAttempts)
    BY <1>1, <1>3, <2>1, <2>2
  <2> QED BY <1>1, <2>3, <2>4
<1>5. CASE ~row.used
  <2>1. 2 * row.tries + Left(View(a, row), View(b, row)) <= T(MaxAttempts)
        /\ row.attempts < MaxAttempts
    BY <1>5 DEF Bound, OpenBound
  <2>2. /\ View(a, row) \in Nat /\ View(a, row) < MaxAttempts
        /\ View(b, row) \in Nat /\ View(b, row) < MaxAttempts
    <3>1. row \in CodeRecord /\ row.attempts \in Nat /\ MaxAttempts \in Nat
      BY AttemptsAssumption DEF Written, CodeRecord
    <3> QED BY <2>1, <3>1, ViewTyped
  <2>3. Left(View(a, row), View(b, row)) \in Nat /\ Left(View(a, row), View(b, row)) >= 2
    BY <2>2, LeftAtLeast
  <2>4. 2 * row.tries + 2 <= T(MaxAttempts)
    BY <1>1, <2>1, <2>3
  <2>5. Pending(a, new)' /\ Pending(b, new)' => a = b
    BY <1>2, <1>3
  <2> QED BY <1>1, <2>4, <2>5
<1> QED BY <1>4, <1>5

\* Where a code of the next state comes from.
Comes(c) ==
    \/ c \in codes
    \/ \E p \in Pages, email \in Addresses: Made(p, email, c)
    \/ \E r \in Requests, row \in codes:
          \/ Counts(r, row, c) /\ req[r].pc = "verify"
          \/ Spends(r, row, c)

LEMMA CodesCome ==
  ASSUME TypeOK, [Next]_vars, NEW c \in codes'
  PROVE  Comes(c)
<1>1. CASE codes' \subseteq codes
  BY <1>1 DEF Comes
<1>2. ASSUME NEW p \in Pages, CreateCode(p) PROVE Comes(c)
  BY <1>2, Creates DEF Made, Comes
<1>3. ASSUME NEW r \in Requests, VerifyCode(r) PROVE Comes(c)
  <2>1. CASE codes' = codes
    BY <1>1, <2>1
  <2>2. ASSUME NEW row \in codes, NEW new \in CodeRecord, Counts(r, row, new) \/ Spends(r, row, new)
        PROVE  Comes(c)
    <3>1. c \in codes \/ c = new
      BY <2>2 DEF Counts, Spends, Replaces
    <3>2. req[r].pc = "verify"
      BY <1>3 DEF VerifyCode
    <3> QED BY <2>2, <3>1, <3>2 DEF Comes
  <2> QED BY <1>3, <2>1, <2>2, Verifies
<1>4. ASSUME NEW p \in Pages,
             \/ RequestOtp(p) \/ CheckRecent(p) \/ DeleteUnused(p) \/ MailCode(p)
             \/ MailFails(p) \/ AskDies(p) \/ Load(p) \/ NetworkError(p)
             \/ \E r \in Requests: Accept(p, r) \/ Refuse(p, r)
      PROVE  codes' \subseteq codes
  BY <1>4 DEF RequestOtp, CheckRecent, DeleteUnused, MailCode, MailFails, AskDies,
     Load, NetworkError, Accept, Refuse, Respond, otp
<1>5. ASSUME NEW r \in Requests,
             \/ FindDevis(r) \/ LockKey(r) \/ ReadCode(r) \/ Decide(r) \/ HandlerFails(r)
             \/ Record(r)
      PROVE  codes' \subseteq codes
  BY <1>5 DEF FindDevis, LockKey, ReadCode, Decide, HandlerFails, Record, otp
<1>6. ASSUME NEW d \in codes, ExpireCode(d) PROVE codes' \subseteq codes
  BY <1>6 DEF ExpireCode
<1>7. ASSUME NEW k \in Keys, KeyTimeout(k) PROVE codes' \subseteq codes
  BY <1>7 DEF KeyTimeout, otp
<1>8. CASE UNCHANGED vars
  BY <1>1, <1>8 DEF vars, otp
<1> QED BY <1>1, <1>2, <1>3, <1>4, <1>5, <1>6, <1>7, <1>8 DEF Next

LEMMA NextTries == TypeOK /\ SignInv /\ TriesInv /\ [Next]_vars => TriesInv'
<1> SUFFICES ASSUME TypeOK, SignInv, TriesInv, [Next]_vars, NEW c \in codes'
             PROVE  Bound(c)' /\ (Requests = {} => c.tries = 0)
  BY DEF TriesInv
<1>1. TypeOK' /\ codes \subseteq CodeRecord /\ c \in CodeRecord
  BY NextTyped DEF TypeOK
<1>2. CASE c \in codes
  <2>1. Bound(c) /\ \A s \in Requests: Leaves(s, c)
    BY <1>2, AllLeave DEF SignInv, TriesInv
  <2> QED BY <1>1, <1>2, <2>1, LeftAlone DEF TriesInv
<1>3. ASSUME NEW p \in Pages, NEW email \in Addresses, Made(p, email, c)
      PROVE  Bound(c)' /\ (Requests = {} => c.tries = 0)
  <2>1. c.attempts = 0 /\ ~c.used /\ c.tries = 0
    BY <1>3 DEF Made
  <2>2. \A r \in Requests: View(r, c)' = 0
    BY <1>1, <2>1 DEF View, TypeOK, ReqRecord
  <2>3. 0 < MaxAttempts
    BY AttemptsAssumption
  <2>4. \A r, s \in Requests: 2 * c.tries + Left(View(r, c)', View(s, c)') <= T(MaxAttempts)
    BY <2>1, <2>2, LeftAtFirst
  <2> QED BY <2>1, <2>3, <2>4 DEF Bound, OpenBound
<1>4. ASSUME NEW r \in Requests, NEW row \in codes, Counts(r, row, c), req[r].pc = "verify"
      PROVE  Bound(c)' /\ (Requests = {} => c.tries = 0)
  <2>1. /\ Replaces(row, c) /\ row.id = req[r].seen /\ Fail(r)
        /\ c.attempts = req[r].attempts + 1 /\ c.tries = row.tries + 1
        /\ c.used = (row.used \/ c.attempts >= MaxAttempts)
    BY <1>4 DEF Counts
  <2>2. Others(r) /\ req'[r] = NoReq
    BY <1>4, <2>1, Finishes DEF Fail
  <2>3. Written(r, row, c)
    BY <1>4, <2>1, <2>2 DEF Replaces, Written, Pending, NoReq
  <2>4. Bound(row)
    BY DEF TriesInv
  <2>5. CASE c.used
    BY <1>1, <2>1, <2>3, <2>4, <2>5, LastWrite DEF Bound
  <2>6. CASE ~c.used
    <3>1. ~row.used /\ c.attempts < MaxAttempts
      BY <1>1, <2>1, <2>6, AttemptsAssumption DEF CodeRecord
    <3> QED BY <1>1, <2>1, <2>3, <2>4, <2>6, <3>1, OneMoreWrong DEF Bound
  <2> QED BY <2>5, <2>6
<1>5. ASSUME NEW r \in Requests, NEW row \in codes, Spends(r, row, c)
      PROVE  Bound(c)' /\ (Requests = {} => c.tries = 0)
  <2>1. Written(r, row, c) /\ c.tries = row.tries /\ c.used
    BY <1>5 DEF Spends, Replaces, Written, Pending
  <2>2. Bound(row)
    BY DEF TriesInv
  <2> QED BY <1>1, <2>1, <2>2, LastWrite DEF Bound
<1> QED BY <1>2, <1>3, <1>4, <1>5, CodesCome DEF Comes

\* At most two requests are none, or the two (perhaps the same) of a pair.
LEMMA TwoAtMost ==
  ASSUME Cardinality(Requests) <= 2
  PROVE  Requests = {} \/ \E r, s \in Requests: Requests = {r, s}
<1> SUFFICES ASSUME Requests # {} PROVE \E r, s \in Requests: Requests = {r, s}
  OBVIOUS
<1>1. PICK r \in Requests: TRUE
  OBVIOUS
<1>2. IsFiniteSet(Requests \ {r}) /\ Cardinality(Requests \ {r}) = Cardinality(Requests) - 1
  BY RequestsAssumption, FS_RemoveElement
<1>3. Cardinality(Requests) \in Nat /\ Cardinality(Requests \ {r}) \in Nat
  BY <1>2, RequestsAssumption, FS_CardinalityType
<1>4. CASE Requests \ {r} = {}
  BY <1>1, <1>4
<1>5. CASE Requests \ {r} # {}
  <2>1. PICK s \in Requests \ {r}: TRUE
    BY <1>5
  <2>2. /\ IsFiniteSet((Requests \ {r}) \ {s})
        /\ Cardinality((Requests \ {r}) \ {s}) = Cardinality(Requests \ {r}) - 1
    BY <1>2, <2>1, FS_RemoveElement
  <2>3. Cardinality((Requests \ {r}) \ {s}) \in Nat
    BY <2>2, FS_CardinalityType
  <2>4. Cardinality((Requests \ {r}) \ {s}) = 0
    BY <1>2, <1>3, <2>2, <2>3
  <2>5. (Requests \ {r}) \ {s} = {}
    BY <2>2, <2>4, FS_EmptySet
  <2> QED BY <1>1, <2>1, <2>5
<1> QED BY <1>4, <1>5

LEMMA TriesBounded ==
  ASSUME TypeOK, TriesInv, Cardinality(Requests) <= 2, NEW c \in codes
  PROVE  c.tries <= 1 + (MaxAttempts * (MaxAttempts + 1)) \div 2
<1>1. c \in CodeRecord /\ c.tries \in Nat /\ T(MaxAttempts) \in Nat
  BY LeftAtFirst DEF TypeOK, CodeRecord
<1>2. 2 * c.tries <= 2 + T(MaxAttempts)
  <2>1. CASE Requests = {}
    BY <1>1, <2>1 DEF TriesInv
  <2>2. ASSUME NEW r \in Requests, NEW s \in Requests, Requests = {r, s}
        PROVE  2 * c.tries <= 2 + T(MaxAttempts)
    <3>1. CASE c.used
      <4>1. 2 * c.tries + (IF Pending(r, c) \/ Pending(s, c) THEN 2 ELSE 0) <= 2 + T(MaxAttempts)
        BY <2>2, <3>1 DEF TriesInv, Bound, SpentBound
      <4> QED BY <1>1, <4>1
    <3>2. CASE ~c.used
      <4>1. 2 * c.tries + Left(View(r, c), View(s, c)) <= T(MaxAttempts)
            /\ c.attempts < MaxAttempts
        BY <2>2, <3>2 DEF TriesInv, Bound, OpenBound
      <4>2. /\ View(r, c) \in Nat /\ View(r, c) < MaxAttempts
            /\ View(s, c) \in Nat /\ View(s, c) < MaxAttempts
        <5>1. c.attempts \in Nat /\ MaxAttempts \in Nat
          BY <1>1, AttemptsAssumption DEF CodeRecord
        <5> QED BY <1>1, <4>1, <5>1, ViewTyped
      <4>3. Left(View(r, c), View(s, c)) \in Nat
        BY <4>2, LeftAtLeast
      <4> QED BY <1>1, <4>1, <4>3
    <3> QED BY <3>1, <3>2
  <2> QED BY <2>1, <2>2, TwoAtMost
<1>3. \A m, n \in Nat: 2 * m <= 2 + n => m <= 1 + n \div 2
  OBVIOUS
<1>4. c.tries <= 1 + T(MaxAttempts) \div 2
  BY <1>1, <1>2, <1>3
<1> QED BY <1>4 DEF T

LEMMA InitTries == Init => TriesInv
  BY DEF Init, TriesInv

\* A quote is accepted in the name of the mailbox that its code was sent to, and the code
\* is spent, for any number of pages and requests; and where two requests can overlap, the
\* wrong answers to a code are bounded, although one of them can undo the count of the
\* other (devis-signature-otp.ts, verifyDevisSignatureOtp).
THEOREM MailboxSigned == Spec => []SignedByMailbox
<1>1. TypeOK /\ SignInv /\ TriesInv => SignedByMailbox
  BY TriesBounded DEF SignInv, Signed, SignedByMailbox
<1>2. Spec => []SignInv
  BY Typed, InitSigned, NextSigned, PTL DEF Spec
<1> QED BY <1>1, <1>2, Typed, InitTries, NextTries, PTL DEF Spec
=============================================================================
