---------------------------- MODULE PublicLinks ----------------------------
(***************************************************************************)
(* The public links of quotes and invoices (share-slug.ts,                 *)
(* share-token-storage.ts): sending a document draws a token and searches  *)
(* for a readable slug that nobody has; the row keeps the slug and the     *)
(* hash of the token; whoever shows the link again builds it from the row. *)
(* Numbers are counted per workspace, so all the documents here have the   *)
(* same number and ask for the same slug.                                  *)
(***************************************************************************)
EXTENDS Naturals, Sequences, FiniteSets

CONSTANTS
    Devis, Factures,   \* quotes and invoices, each of a workspace of its own
    Tokens,            \* what randomBytes draws: sequences of the same length
    Senders,           \* requests that send or issue at the same time
    MaxDeleted,        \* bound on the quotes deleted
    NoLink             \* SQL NULL

Docs == Devis \union Factures

VARIABLES
    row,         \* shareTokenHash and shareSlug, whether it is sent, deleted
    sending,     \* the requests
    given        \* the links that somebody was given, and what for (history)

linksVars == <<row, sending, given>>

-----------------------------------------------------------------------------
(* Tokens and slugs                                                        *)

Path(d) == IF d \in Devis THEN "devis" ELSE "facture"

HashShareToken(token) == <<"sha256", token>>

\* ensureUniqueShareSlug: the number alone, then with more and more of the token.
Suffixed(d, token, attempt) == <<Path(d)>> \o SubSeq(token, 1, attempt)
TokenLength == Len(CHOOSE t \in Tokens: TRUE)
Slugs == {Suffixed(d, t, n) : d \in Docs, t \in Tokens, n \in 0..TokenLength}

\* Slugs start with devis or facture, tokens are digits: publicShareLookupWhere tells them
\* apart.  Nobody draws a token that is the hash of another; NULL is neither.
ASSUME LinksAssumption ==
    /\ Slugs \intersect Tokens = {}
    /\ \A t, u \in Tokens: HashShareToken(t) # u
    /\ \A t \in Tokens: NoLink # t /\ NoLink # HashShareToken(t)
    /\ TokenLength \in Nat /\ \A t \in Tokens: Len(t) = TokenLength
    /\ MaxDeleted \in Nat

ShareSlugExists(slug) == \E e \in Docs: row[e].slug = slug

\* Both tables have unique indexes on the slug and on the hash.
Unique(d, new) ==
    \A e \in Docs \ {d}: Path(e) = Path(d) => row[e].slug # new.slug /\ row[e].hash # new.hash

\* resolvePublicShareRef: every row that was sent has a slug, so the token is not needed.
ResolvePublicShareRef(d) == row[d].slug

\* shareTokenLookupWhere: by the hash, or as rows of before the hash have it.
ShareTokenLookupWhere(d, token) == row[d].hash \in {HashShareToken(token), token}

PublicShareLookupWhere(d, ref) ==
    IF ref \in Tokens THEN ShareTokenLookupWhere(d, ref) ELSE row[d].slug = ref

\* What the pages of a link find; they ask for a document that is sent and not deleted.
Found(link) ==
    {d \in Docs: Path(d) = link.path /\ row[d].sent /\ ~row[d].deleted
                 /\ PublicShareLookupWhere(d, link.ref)}

Given(d, ref) == given' = given \union {[link |-> [path |-> Path(d), ref |-> ref], doc |-> d]}

-----------------------------------------------------------------------------
(* Sending: sendDevis, issueFacture                                        *)

NotSending == [pc |-> "idle", doc |-> NoLink, token |-> NoLink, attempt |-> 0]
Sends(s, pc) == sending[s].pc = pc
SendAt(s, pc) == sending' = [sending EXCEPT ![s].pc = pc]
SendEnds(s) == sending' = [sending EXCEPT ![s] = NotSending]
Slug(s) == Suffixed(sending[s].doc, sending[s].token, sending[s].attempt)

\* The mutant sends whatever the row has become.
AnyRow(d) == TRUE
IsDraft(d) == ~row[d].sent /\ ~row[d].deleted

\* issueShareTokenPair never draws a token twice.
Fresh(token) ==
    /\ \A d \in Docs: row[d].hash \notin {token, HashShareToken(token)}
    /\ \A s \in Senders: sending[s].token # token

BeginSend(s, d) ==
    /\ Sends(s, "idle") /\ ~row[d].sent /\ ~row[d].deleted
    /\ \E token \in Tokens:
           /\ Fresh(token)
           /\ sending' = [sending EXCEPT ![s] =
                 [pc |-> "search", doc |-> d, token |-> token, attempt |-> 0]]
    /\ UNCHANGED <<row, given>>

\* There is nothing longer than the whole token.
SearchSlug(s) ==
    /\ Sends(s, "search")
    /\ IF ShareSlugExists(Slug(s))
       THEN /\ sending[s].attempt < TokenLength
            /\ sending' = [sending EXCEPT ![s].attempt = @ + 1]
       ELSE SendAt(s, "lock")
    /\ UNCHANGED <<row, given>>

\* The guarded update; an index that is violated throws.
LockDocument(s) ==
    /\ Sends(s, "lock")
    /\ LET d == sending[s].doc
           new == [sent |-> TRUE, deleted |-> row[d].deleted, slug |-> Slug(s),
                   hash |-> HashShareToken(sending[s].token)]
       IN IF IsDraft(d) /\ Unique(d, new)
          THEN row' = [row EXCEPT ![d] = new] /\ SendAt(s, "answer")
          ELSE SendEnds(s) /\ UNCHANGED row
    /\ UNCHANGED given

\* The answer carries the slug of the request.
AnswerSend(s) ==
    /\ Sends(s, "answer")
    /\ Given(sending[s].doc, Slug(s))
    /\ SendEnds(s)
    /\ UNCHANGED row

\* Storage, the database or the process fails, and the link is not given.
SendFails(s) ==
    /\ ~Sends(s, "idle")
    /\ SendEnds(s)
    /\ UNCHANGED <<row, given>>

\* The page of the document, its reminder, the link sent again.
ShowLink(d) ==
    /\ row[d].sent /\ ~row[d].deleted
    /\ Given(d, ResolvePublicShareRef(d))
    /\ UNCHANGED <<row, sending>>

\* Its slug stays taken.  Invoices are never deleted.
SoftDeleteDevis(d) ==
    /\ d \in Devis /\ ~row[d].deleted
    /\ Cardinality({e \in Docs: row[e].deleted}) < MaxDeleted
    /\ row' = [row EXCEPT ![d].deleted = TRUE]
    /\ UNCHANGED <<sending, given>>

-----------------------------------------------------------------------------
Draft == [sent |-> FALSE, deleted |-> FALSE, hash |-> NoLink, slug |-> NoLink]

\* At most one document was sent before links had slugs and tokens were hashed: the
\* migrations gave it the slug of its number, and left its token as it was.
SentBefore(d, token) ==
    [sent |-> TRUE, deleted |-> FALSE, hash |-> token, slug |-> Suffixed(d, token, 0)]

AllDrafts == row = [d \in Docs |-> Draft] /\ given = {}

LinksInit ==
    /\ \/ AllDrafts
       \/ \E old \in Docs, token \in Tokens:
              /\ row = [d \in Docs |-> IF d = old THEN SentBefore(d, token) ELSE Draft]
              /\ given = {[link |-> [path |-> Path(old), ref |-> token], doc |-> old]}
    /\ sending = [s \in Senders |-> NotSending]

LinksNext ==
    \/ \E s \in Senders:
        \/ \E d \in Docs: BeginSend(s, d)
        \/ SearchSlug(s) \/ LockDocument(s) \/ AnswerSend(s) \/ SendFails(s)
    \/ \E d \in Docs: ShowLink(d) \/ SoftDeleteDevis(d)

LinksSpec == LinksInit /\ [][LinksNext]_linksVars

-----------------------------------------------------------------------------
(* Properties                                                              *)

\* A link that somebody was given finds the document it was given for and no other, as
\* long as the document is not deleted: whoever else searched for the same slug, found it
\* free too (share-slug.ts:68-72) or sent the same document meanwhile, and for the links
\* of before the slugs as well.
LinkLeadsHome ==
    \A g \in given: Found(g.link) = IF row[g.doc].deleted THEN {} ELSE {g.doc}

(* The strengthening that TLAPS proves inductive.                          *)

LinksTypeOK ==
    /\ row \in [Docs -> [sent : BOOLEAN, deleted : BOOLEAN, slug : Slugs \union {NoLink},
                         hash : {HashShareToken(t) : t \in Tokens} \union Tokens \union {NoLink}]]
    /\ sending \in [Senders -> [pc : {"idle", "search", "lock", "answer"}, doc : Docs \union {NoLink},
                                token : Tokens \union {NoLink}, attempt : Nat]]
    /\ given \subseteq [link : [path : {"devis", "facture"}, ref : Slugs \union Tokens], doc : Docs]

\* A request knows what it sends; the one that answers has given the row its slug.
SendersInv ==
    \A s \in Senders: ~Sends(s, "idle") =>
        /\ sending[s].doc \in Docs /\ sending[s].token \in Tokens
        /\ sending[s].attempt \in 0..TokenLength
        /\ Sends(s, "answer") =>
              row[sending[s].doc].sent /\ row[sending[s].doc].slug = Slug(s)

SlugsInv ==
    \A d \in Docs: row[d].sent =>
        /\ row[d].slug \in Slugs
        /\ \A e \in Docs \ {d}: row[e].sent /\ Path(e) = Path(d) => row[e].slug # row[d].slug

\* Nobody else has, or is about to have, the token of a link given out.
TokenIsOf(ref, d) ==
    /\ row[d].hash = ref
    /\ \A e \in Docs \ {d}: row[e].hash \notin {ref, HashShareToken(ref)}
    /\ \A s \in Senders: ~Sends(s, "idle") => sending[s].token # ref

GivenInv ==
    \A g \in given:
        /\ row[g.doc].sent /\ g.link.path = Path(g.doc)
        /\ \/ g.link.ref = row[g.doc].slug
           \/ g.link.ref \in Tokens /\ TokenIsOf(g.link.ref, g.doc)

LinksInv == LinksTypeOK /\ SendersInv /\ SlugsInv /\ GivenInv
=============================================================================
