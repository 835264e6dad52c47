------------------------------- MODULE Drafts -------------------------------
(***************************************************************************)
(* The browser's side of creating a quote: the form of a logged-in user    *)
(* with its offline queue (offline-queue.ts, OfflineSyncBar.tsx), and the  *)
(* form of a guest, whose draft lives in localStorage, is signed by the    *)
(* server and is claimed after login (guest-devis-draft.ts,                *)
(* claim-guest-draft-client.ts).                                           *)
(*                                                                         *)
(* The server is what DevisCreation promises: a POST makes one quote or    *)
(* none, and whatever it did, its answer may be lost.  Nothing the browser *)
(* sends carries an idempotency key.                                       *)
(***************************************************************************)
EXTENDS Naturals, Sequences, SequencesExt

CONSTANTS
    Docs,        \* what the user types, each content once
    Flushes,     \* flushOfflineQueue calls that can run at once
    Claims,      \* claimGuestDraftIfPresent calls that can run at once
    Signers,     \* refreshGuestDraftSignature calls of the autosave at once
    MaxQuotes,   \* bound on the quotes made of one content
    Null

ASSUME CallersAssumption == Flushes \intersect Claims = {} /\ "form" \notin Flushes \union Claims
ASSUME NullAssumption == Null \notin Docs \union [doc: Docs, sig: Docs \union {Null}]

VARIABLES
    invalid,     \* the contents that guestDevisDraftSchema refuses: never changes
    online,      \* navigator.onLine
    loggedIn,    \* the session cookie is there
    page,        \* the page the tab shows
    origin,      \* where a content was typed and how far it was kept
    form,        \* the content of the logged-in form
    typed,       \* the content of the guest form
    dirty,       \* the autosave timer runs
    queue,       \* localStorage devispropre-offline-devis
    stored,      \* localStorage devispropre_guest_draft
    pending,     \* devispropre_pending_devis_id is set
    signing,     \* what each signature asked by the autosave is for
    calls,       \* the requests that make quotes, by caller
    quotes,      \* how many quotes the server has made of each content
    excused,     \* contents whose second quote has a cause (history)
    displaced    \* guest drafts that another write took the place of (history)

browser == <<page, typed, dirty, form>>
guest == <<stored, pending, signing, displaced>>
draftsVars == <<invalid, online, loggedIn, browser, origin, queue, guest, calls, quotes, excused>>

-----------------------------------------------------------------------------
(* The calls                                                               *)

FormCall == "form"
Callers == Flushes \union Claims \union {FormCall}
Idle == [pc |-> "idle", todo |-> << >>, sig |-> Null]
At(c, pc) == calls[c].pc = pc
Doc(c) == Head(calls[c].todo)
Call(pc, todo, sig) == [pc |-> pc, todo |-> todo, sig |-> sig]

\* A content with a client of its own posts the client first.
FirstPost(d, newClient) == IF newClient THEN "client" ELSE "post"

\* Another call carries the same content: nothing tells the server they are one.
Carried(d) == \E c \in Callers: ~At(c, "idle") /\ d \in ToSet(calls[c].todo)
Overlapping(todo) == {d \in ToSet(todo): Carried(d)}

-----------------------------------------------------------------------------
(* The server                                                              *)

\* POST /api/clients answers; whatever follows, the client stays.
MakeClient(c) ==
    /\ At(c, "client")
    /\ calls' = [calls EXCEPT ![c].pc = "post"]
    /\ UNCHANGED <<online, loggedIn, browser, origin, queue, guest, quotes, excused>>

\* POST /api/devis, or claim-draft after the signature was verified.
MakeDevis(c) ==
    /\ At(c, "post")
    /\ c \in Claims => calls[c].sig = Doc(c)
    /\ quotes[Doc(c)] < MaxQuotes
    /\ quotes' = [quotes EXCEPT ![Doc(c)] = @ + 1]
    /\ calls' = [calls EXCEPT ![c].pc = "made"]
    /\ UNCHANGED <<online, loggedIn, browser, origin, queue, guest, excused>>

\* Any refusal, or a request that does not arrive.
Refuse(c) ==
    /\ calls[c].pc \in {"client", "post"}
    /\ calls' = [calls EXCEPT ![c].pc = "refused"]
    /\ UNCHANGED <<online, loggedIn, browser, origin, queue, guest, quotes, excused>>

\* The quote is made, but fetch throws.
LoseAnswer(c) ==
    /\ At(c, "made")
    /\ calls' = [calls EXCEPT ![c].pc = "refused"]
    /\ excused' = excused \union {Doc(c)}
    /\ UNCHANGED <<online, loggedIn, browser, origin, queue, guest, quotes>>

-----------------------------------------------------------------------------
(* The logged-in form                                                      *)

Fill(d) ==
    /\ page = "dashboard" /\ form = Null /\ origin[d] = "none"
    /\ form' = d
    /\ origin' = [origin EXCEPT ![d] = "form"]
    /\ UNCHANGED <<online, loggedIn, page, typed, dirty, queue, guest, calls, quotes, excused>>

\* handleSubmit goes on only when the fields that a quote needs are there.
Complete(d) == d \notin invalid

\* submitDevis without network: the payload goes to the queue, the page to the dashboard.
Enqueue ==
    /\ form # Null /\ Complete(form) /\ At(FormCall, "idle") /\ ~online
    /\ queue' = Append(queue, form)
    /\ origin' = [origin EXCEPT ![form] = "queued"]
    /\ form' = Null
    /\ UNCHANGED <<online, loggedIn, page, typed, dirty, guest, calls, quotes, excused>>

SubmitDevis ==
    /\ form # Null /\ Complete(form) /\ At(FormCall, "idle") /\ online
    /\ \E newClient \in BOOLEAN:
           calls' = [calls EXCEPT ![FormCall] = Call(FirstPost(form, newClient), <<form>>, Null)]
    /\ excused' = excused \union Overlapping(<<form>>)
    /\ UNCHANGED <<online, loggedIn, browser, origin, queue, guest, quotes>>

\* The page of the new quote opens; after an error the form stays for another try.
FormAnswered ==
    /\ calls[FormCall].pc \in {"made", "refused"}
    /\ form' = IF At(FormCall, "made") THEN Null ELSE form
    /\ calls' = [calls EXCEPT ![FormCall] = Idle]
    /\ UNCHANGED <<online, loggedIn, page, typed, dirty, origin, queue, guest, quotes, excused>>

-----------------------------------------------------------------------------
(* The offline queue                                                       *)

\* sync: nothing without network or with an empty queue.
SyncCall(isOnline, newClient) ==
    IF isOnline /\ queue # << >>
    THEN Call(FirstPost(Head(queue), newClient), queue, Null) ELSE Idle

\* Each item of the queue has an id of its own: the filter takes out one at most.
Without(items, d) ==
    IF d \in ToSet(items) THEN RemoveAt(items, CHOOSE i \in DOMAIN items: items[i] = d) ELSE items

\* The mutant drops every item it has tried.
RemoveTried(items, f) == Without(items, Doc(f))
RemoveQueued(items, f) == IF At(f, "made") THEN Without(items, Doc(f)) ELSE items

\* flushOfflineQueue goes on with the list it read when it began.
FlushAnswered(f) ==
    /\ calls[f].pc \in {"made", "refused"}
    /\ queue' = RemoveQueued(queue, f)
    /\ LET rest == Tail(calls[f].todo) IN
       \E newClient \in BOOLEAN:
           calls' = [calls EXCEPT ![f] = IF rest = << >> THEN Idle
                                         ELSE Call(FirstPost(Head(rest), newClient), rest, Null)]
    /\ UNCHANGED <<online, loggedIn, browser, origin, guest, quotes, excused>>

GoOffline ==
    /\ online
    /\ online' = FALSE
    /\ UNCHANGED <<loggedIn, browser, origin, queue, guest, calls, quotes, excused>>

\* The event 'online' starts a flush where OfflineSyncBar is mounted, whether or not
\* one is still running.
GoOnline(f) ==
    /\ ~online /\ At(f, "idle")
    /\ online' = TRUE
    /\ \E newClient \in BOOLEAN:
           calls' = [calls EXCEPT ![f] = IF page = "dashboard" THEN SyncCall(TRUE, newClient) ELSE Idle]
    /\ excused' = IF page = "dashboard" THEN excused \union Overlapping(queue) ELSE excused
    /\ UNCHANGED <<loggedIn, browser, origin, queue, guest, quotes>>

-----------------------------------------------------------------------------
(* The guest's form                                                        *)

Draft(d, sig) == [doc |-> d, sig |-> sig]

\* Every write of the draft replaces what was there.
Store(draft) ==
    /\ stored' = draft
    /\ displaced' = IF stored = Null \/ (draft # Null /\ draft.doc = stored.doc)
                    THEN displaced ELSE displaced \union {stored.doc}

\* A draft written back after it was claimed can be claimed again.
Revived(d) == IF origin[d] = "saved" /\ (stored = Null \/ stored.doc # d) THEN {d} ELSE {}

\* The form opens with the stored draft, which it will save again.
OpenGuestForm ==
    /\ page # "form"
    /\ page' = "form"
    /\ typed' = IF stored = Null THEN Null ELSE stored.doc
    /\ dirty' = (stored # Null)
    /\ form' = Null
    /\ UNCHANGED <<online, loggedIn, origin, queue, guest, calls, quotes, excused>>

Type(d) ==
    /\ page = "form" /\ origin[d] = "none"
    /\ typed' = d
    /\ dirty' = TRUE
    /\ origin' = [origin EXCEPT ![d] = "typed"]
    /\ UNCHANGED <<online, loggedIn, page, form, queue, guest, calls, quotes, excused>>

\* Nine hundred milliseconds later: saved without its signature, and one is asked for.
Autosave(s) ==
    /\ page = "form" /\ dirty /\ signing[s] = Null
    /\ dirty' = FALSE
    /\ Store(Draft(typed, Null))
    /\ excused' = excused \union Revived(typed)
    /\ origin' = [origin EXCEPT ![typed] = "saved"]
    /\ signing' = [signing EXCEPT ![s] = typed]
    /\ UNCHANGED <<online, loggedIn, page, typed, form, queue, pending, calls, quotes>>

\* The mutant signs what is stored now with the signature of what was sent.
WithDraftOfNow(d) == IF stored = Null THEN Draft(d, d) ELSE Draft(stored.doc, d)
SignedDraft(d) == Draft(d, d)

\* The answer writes back the draft that was sent, whatever is stored by now.
SignAnswered(s) ==
    /\ signing[s] # Null
    /\ signing' = [signing EXCEPT ![s] = Null]
    /\ \/ /\ signing[s] \notin invalid
          /\ Store(SignedDraft(signing[s]))
          /\ excused' = excused \union Revived(signing[s])
       \/ UNCHANGED <<stored, displaced, excused>>
    /\ UNCHANGED <<online, loggedIn, browser, origin, queue, pending, calls, quotes>>

\* submitGuestDraft: saved unsigned, then the preview; leaving the form stops the timer.
SubmitGuestDraft ==
    /\ page = "form" /\ typed # Null /\ Complete(typed)
    /\ Store(Draft(typed, Null))
    /\ excused' = excused \union Revived(typed)
    /\ origin' = [origin EXCEPT ![typed] = "saved"]
    /\ page' = "preview"
    /\ typed' = Null /\ dirty' = FALSE
    /\ UNCHANGED <<online, loggedIn, form, queue, pending, signing, calls, quotes>>

-----------------------------------------------------------------------------
(* The claim                                                               *)

\* claimGuestDraftIfPresent, up to its first request.
ClaimCall ==
    IF stored = Null \/ stored.doc \in invalid THEN Idle
    ELSE Call(IF stored.sig = Null THEN "sign" ELSE "post", <<stored.doc>>, stored.sig)

\* An invalid draft is removed.
BeginClaim ==
    IF stored # Null /\ stored.doc \in invalid
    THEN Store(Null)
    ELSE UNCHANGED <<stored, displaced>>

ClaimOverlaps == Overlapping(ClaimCall.todo)

OpenLogin ==
    /\ page # "login" /\ ~loggedIn
    /\ page' = "login"
    /\ form' = Null /\ typed' = Null /\ dirty' = FALSE
    /\ UNCHANGED <<online, loggedIn, origin, queue, guest, calls, quotes, excused>>

\* LoginForm and RegisterForm claim as soon as the session is open; the page they
\* are on does it again when it becomes visible with a session.
LogIn(c) ==
    /\ page = "login" /\ At(c, "idle")
    /\ loggedIn' = TRUE
    /\ calls' = [calls EXCEPT ![c] = ClaimCall]
    /\ BeginClaim
    /\ excused' = excused \union ClaimOverlaps
    /\ UNCHANGED <<online, browser, origin, queue, pending, signing, quotes>>

\* The dashboard mounts: a claim, unless a claimed quote is still pending, and a flush.
OpenDashboard(f, c) ==
    /\ loggedIn /\ page # "dashboard" /\ At(f, "idle") /\ At(c, "idle")
    /\ page' = "dashboard"
    /\ form' = Null /\ typed' = Null /\ dirty' = FALSE
    /\ \E newClient \in BOOLEAN:
           calls' = [calls EXCEPT ![f] = SyncCall(online, newClient),
                                  ![c] = IF pending THEN Idle ELSE ClaimCall]
    /\ IF pending THEN UNCHANGED <<stored, displaced>> ELSE BeginClaim
    /\ excused' = excused \union (IF online THEN Overlapping(queue) ELSE {})
                          \union (IF pending THEN {} ELSE ClaimOverlaps)
    /\ UNCHANGED <<online, loggedIn, origin, queue, pending, signing, quotes>>

\* A draft without a signature is signed first, and written back as it was sent.
SignClaim(c) ==
    /\ At(c, "sign")
    /\ \/ /\ Store(SignedDraft(Doc(c)))
          /\ excused' = excused \union Revived(Doc(c))
          /\ calls' = [calls EXCEPT ![c].pc = "post", ![c].sig = Doc(c)]
       \/ /\ calls' = [calls EXCEPT ![c] = Idle]
          /\ UNCHANGED <<stored, displaced, excused>>
    /\ UNCHANGED <<online, loggedIn, browser, origin, queue, pending, signing, quotes>>

\* The mutant leaves the claimed draft where it is.
NeverClears(c) == FALSE
ClaimSucceeds(c) == At(c, "made")

\* Clears whatever draft is stored by now, and notes the quote it is waiting for.
ClaimAnswered(c) ==
    /\ calls[c].pc \in {"made", "refused"}
    /\ calls' = [calls EXCEPT ![c] = Idle]
    /\ IF ClaimSucceeds(c)
       THEN /\ stored' = Null
            /\ displaced' = IF stored # Null /\ stored.doc # Doc(c)
                            THEN displaced \union {stored.doc} ELSE displaced
            /\ pending' = TRUE
       ELSE UNCHANGED <<stored, displaced, pending>>
    /\ UNCHANGED <<online, loggedIn, browser, origin, queue, signing, quotes, excused>>

\* PendingDevisRedirect after a checkout.
OpenPending ==
    /\ page = "dashboard" /\ pending
    /\ pending' = FALSE
    /\ UNCHANGED <<online, loggedIn, browser, origin, queue, stored, signing, displaced,
                   calls, quotes, excused>>

\* The tab closes or reloads: what was in flight is not waited for any more.
CloseTab ==
    /\ page # "closed"
    /\ page' = "closed"
    /\ form' = Null /\ typed' = Null /\ dirty' = FALSE
    /\ signing' = [s \in Signers |-> Null]
    /\ calls' = [c \in Callers |-> Idle]
    /\ excused' = excused \union {Doc(c): c \in {d \in Callers: At(d, "made")}}
    /\ UNCHANGED <<online, loggedIn, origin, queue, stored, pending, displaced, quotes>>

-----------------------------------------------------------------------------
DraftsInit ==
    /\ invalid \in SUBSET Docs
    /\ online = TRUE /\ loggedIn = FALSE /\ page = "closed"
    /\ origin = [d \in Docs |-> "none"]
    /\ form = Null /\ typed = Null /\ dirty = FALSE
    /\ queue = << >>
    /\ stored = Null /\ pending = FALSE
    /\ signing = [s \in Signers |-> Null]
    /\ calls = [c \in Callers |-> Idle]
    /\ quotes = [d \in Docs |-> 0]
    /\ excused = {} /\ displaced = {}

DraftsStep ==
    \/ \E c \in Callers: MakeClient(c) \/ MakeDevis(c) \/ Refuse(c) \/ LoseAnswer(c)
    \/ \E d \in Docs: Fill(d) \/ Type(d)
    \/ Enqueue \/ SubmitDevis \/ FormAnswered
    \/ \E f \in Flushes: FlushAnswered(f) \/ GoOnline(f)
    \/ GoOffline \/ OpenGuestForm \/ SubmitGuestDraft
    \/ \E s \in Signers: Autosave(s) \/ SignAnswered(s)
    \/ OpenLogin \/ OpenPending \/ CloseTab
    \/ \E c \in Claims: LogIn(c) \/ SignClaim(c) \/ ClaimAnswered(c)
    \/ \E f \in Flushes, c \in Claims: OpenDashboard(f, c)

DraftsNext == DraftsStep /\ UNCHANGED invalid


-----------------------------------------------------------------------------
(* Properties                                                              *)

\* What was typed offline is in the queue until the server has a quote of it; a
\* valid guest draft that was saved is stored until the server has a quote of it or
\* another write takes its place, and so it is whichever requests fail, overlap or
\* outlive their page (offline-queue.ts, claim-guest-draft-client.ts).
NothingLost ==
    \A d \in Docs: quotes[d] = 0 =>
        /\ origin[d] = "queued" => d \in ToSet(queue)
        /\ origin[d] = "saved" /\ d \notin invalid \union displaced =>
               stored # Null /\ stored.doc = d

\* A content becomes two quotes only if an answer was lost, two calls carried it at
\* once, or a late signature or an open form wrote a claimed draft back.
OneQuoteEach == \A d \in Docs: quotes[d] > 1 => d \in excused

\* The signature stored with a draft, and the one a claim sends, are of that draft,
\* although drafts and signatures are written by requests that overlap.
ClaimsAreSigned ==
    /\ stored # Null => stored.sig \in {Null, stored.doc}
    /\ \A c \in Claims: At(c, "post") => calls[c].sig = Doc(c)
=============================================================================
