# DevisPropre: verification

DevisPropre lets an artisan write quotes (*devis*), send them, have them signed online, turn an
accepted quote into an invoice (*facture*), and issue invoices that French law forbids to alter.
It is a Next.js application with one PostgreSQL database (Prisma, READ COMMITTED), an archive of PDFs
outside the database (R2, or the local disk), an e-mail provider, Stripe, and a browser that keeps
drafts of its own. Handlers run concurrently and interleave at every `await`; pages show what they
read some time ago. That is where most of what can go wrong lives.

This directory holds TLA+ models of that code, TLC configurations that check them on small
instances, and proofs that TLAPS checks for every value of the constants. `PROJECT.json` maps each
definition to the lines it models, and lists the hazards with the properties that cover them.

    tlc -workers 2 -config DevisLifecycle_all.cfg MCDevisLifecycle.tla     # a run
    tlapm DevisLifecycle_proofs.tla                                        # the proofs of a module

## 1. Inventory

Paths are under `src/src/lib` unless they say otherwise (`api` is `src/src/app/api`, `ui` is
`src/src/components`).

| Part | State it keeps | What is hard | What makes it correct | Module |
|---|---|---|---|---|
| Quotes: edit, send, sign, decide, delete, convert (`services/devis.ts`, `api/devis/**`, `api/public/devis/[token]`) | `Devis`, `DevisLigne`, two PDFs per quote | every operation reads, awaits, then writes; the PDFs are written before the guarded update and deleted when it fails | the content sent is the content signed; one decision; PDFs print what was hashed and signed | `DevisLifecycle` |
| Quotes: creation (`services/devis.ts`, `numbers.ts`, `plan-limits.ts`, `idempotency.ts`) | `Devis`, `DocumentCounter`, `IdempotencyRecord`, three kinds of locks | a keyed request holds a lock in one transaction while its handler commits others; roll-backs; the turn of the year; races at the quota | numbers without gap or double; one quote per key; the quota holds | `DevisCreation` |
| Amounts (`numbers.ts`, `tva.ts`, `ui/devis/DevisForm.tsx`) | the lines of the form | two modes, the franchise, drafts, each rewrites the lines | the quote stored has the total that was shown | `QuoteForm` |
| PDFs (`pdf-document.ts`) | the cursor of a page | fixed distances, automatic page breaks | no text over another, no stray page | `Paper` |
| Signature codes and the page of the link (`devis-signature-otp.ts`, `ui/devis/PublicDevisView.tsx`, `ui/devis/DevisClientAcceptPanel.tsx`) | `DevisSignatureOtp`, the page | attempts and single use under concurrency; lost answers and kept keys | the signature names the mailbox that received the code; the page tells what was decided | `Signing` |
| Invoices (`services/facture.ts`) | `Facture`, `Attestation`, two PDFs per invoice, a hash chain per workspace | files outside the transaction, concurrent issues, a cancel without condition | the chain is a line; issued invoices never change and keep their files | `FactureChain` |
| Audit journal (`audit.ts`, migration `audit_chain`) | `AuditLog`, chained by hash | concurrent appends, failures between read and insert, rows changed in the database | no fork, no gap, changes show | `AuditChain`, `AuditTamper` |
| Archive (`object-storage.ts`) | PDFs, a queue file, a dead-letter file | the queue file is read, awaited on, and rewritten; readers prefer R2 | a PDF that could not be uploaded is kept and queued, and the PDF routes serve the last one | `Archive` |
| Public links (`share-slug.ts`, `share-token-storage.ts`) | slug and hash of the token on each document | the slug is searched for without a lock; documents sent twice, deleted, or sent before slugs existed | a link given out leads to its document and to no other | `PublicLinks` |
| Reminders (`services/reminders.ts`) | reminder dates on quotes | overlapping runs, claims given back | nobody is reminded twice | `Reminders` |
| Stripe, plan and team (`stripe-*.ts`, `billing-status.ts`, `account-context.ts`, `api/team`) | `StripeWebhookEvent`, the plan, the past-due flag, members | repeated, concurrent and late events, failures half-way | the plan ends as the subscription says | `Billing` |
| Activation (`billing.ts`, `stripe-checkout.ts`, `proxy.ts`, pages that offer a plan) | checkout sessions, the trial | checkouts abandoned, repeated, open twice | one trial per user; no subscriber is held back | `Activation` |
| Accounts (`user-session.ts`, `magic-link.ts`, `email-verification.ts`, `api/auth`, `services/account.ts`) | sessions, links, version of the account | links used twice, sessions that outlive a change | a link works once; a change of the password ends all sessions | `Accounts` |
| Sign-in forms (`ui/auth`, `turnstile.ts`) | the token of the robot check | a token is spent by the first request that carries it | no refused token is sent again | `SignIn` |
| Rate limits (`rate-limit.ts`) | `RateLimitBucket` | read then increment without a lock | the excess is bounded | `RateLimit` |
| Drafts of the browser (`offline-queue.ts`, `guest-devis-draft.ts`, `claim-guest-draft-client.ts`, `ui/pwa/OfflineSyncBar.tsx`) | a queue and a guest draft in `localStorage` | lost answers, overlapping flushes and claims, late signatures | nothing typed is lost; nothing twice but for named causes | `Drafts` |
| Pages of a quote and an invoice (`ui/devis/DevisActions.tsx`, `ui/facture`) | what a tab shows | two tabs, a client who answers meanwhile, replayed answers | what a tab tells is so | `Dashboard` |
| Settings and logo (`ui/settings/SettingsForm.tsx`, `logo-storage.ts`) | the company's row, the image | unlink, write and update are three steps | the row leads to a whole image | `Settings` |
| Lists (`ui/settings/*Panel.tsx`, `ui/audit`) | what a panel read | reads answered out of order | a panel shows what its own buttons did | `Panels` |
| Statistics (`services/stats.ts`) | none | one query per month, each at its own time | an invoice is counted once | `Stats` |
| Clients, purges | rows | - | - | in part, see section 5 |

**How they interact.** A route authenticates, checks rate limits, opens the idempotency transaction
when the request has a key, and calls a service. The services read and write documents in short
transactions of their own, archive PDFs before them, and call `logAudit` after them, each in its own
transaction. The public route finds a quote by its link, has the code verified, and calls the quote
service. Stripe events change the plan that quotas and teams are checked against. Nothing is shared in
memory: the server's parts meet in the database and in the archive, and the browser meets them by
requests whose answer may be lost.

## 2. Modules

One action stands for what happens between two awaits. A request or a call is a record with a program
counter; a page is a record of what it shows and waits for.

| Module | State and actions |
|---|---|
| `FactureChain` | columns of `Facture` as functions of the invoice, the two archived files, the advisory lock, a count of journal entries per action, one program counter per request: issue, pay, cancel, verify, edit of the client |
| `AuditChain`, `AppendOnlyLog`, `AuditTamper` | the rows, the lock, the calls in progress; the sequence that the journal promises to be; changes made in the database, which `Views` runs |
| `DevisLifecycle` | columns and lines of one quote, its invoice, files, link date, journal, mails, one record per request: update, send, sign or refuse by link, dashboard, delete, convert |
| `DevisCreation` | clock, rows, counters, the three locks, the records of the keys, one record per request: from the POST to its answer, with failures, roll-backs, the timeout of the keyed transaction and the death of the process |
| `QuoteForm`, `Paper` | the form and the amounts, in cents and sixths of a cent; the marks that the draw functions leave on the pages |
| `PublicLinks` | hash and slug of each row, the sends in progress (search, guarded update, answer), the links given out so far |
| `Quotes` | the sum of the four above |
| `Signing` | the codes of one quote, the requests that answer it, the pages that send them, the records of their keys |
| `Archive`, `Reminders`, `CronJobs` | R2, disk, queue and dead letters with the daily job; the runs of the reminders; their sum |
| `Billing`, `Accounts`, `RateLimit`, `SignIn`, `Activation`, `Access` | subscription, plan and team under deliveries of events; links, sessions and visits; one bucket; the form and its token; checkouts; their sum |
| `Drafts`, `Dashboard`, `Settings`, `Panels`, `Stats`, `Views` | the browser's queue, draft and calls; tabs on a quote and its invoice; the settings and the logo; a list; the queries of the statistics; their sum, with `AuditTamper` as the page of the journal |
| `MC*` | what the configurations need: symmetry, instances |
| `*_proofs` | theorems about the modules they extend |

**Sums.** `Quotes`, `CronJobs`, `Access` and `Views` put components that share no state side by side: a
variable `part` (or `job`) chosen in `Init` says which of them runs. A behaviour of the sum is a
behaviour of one component, so the states add up instead of multiplying, and one run checks several
modules without a loss: a property that speaks of one component's variables holds of the sum exactly
when it holds of the component.

**Composition by promise.** Where components do interact, the caller's module contains what the other
one promises. `Drafts` and `Dashboard` take a request to have its effect or none and its answer to be
lost at any time: that is what `DevisCreation` and `DevisLifecycle` show. `Signing` decides a
quote at once; `DevisLifecycle` has the steps. `FactureChain` and `DevisLifecycle` count journal
entries; `AuditChain` has the journal. `AuditChain` is shown to implement `AppendOnlyLog` by a
refinement mapping, both by TLC and by proof.

**Abstraction.** Data are abstracted, control is not. A hash is the record of what it covers, so
equal hashes mean equal content. A PDF is the hash or the evidence it prints. A content is a model value;
where two writers may write the same text and both leave their rows, the batch of lines remembers its
writer. READ COMMITTED is modelled where it shows: `deleteMany` takes the rows committed when it
starts (`SnapshotLines`), waits for locked rows and skips those gone (`DeleteLines`); a transaction
shows its inserts only at commit; an upsert holds its row until then (`rowLock`). Reads of several
tables by one `findFirst` are one step.

## 3. Runs

| Run | Instance | Shows |
|---|---|---|
| `FactureChain_all` | 2 invoices, 2 requests that may do anything, failing archive and database | `IInv`; `ChainSound`: no fork, and links verify while nothing issued was cancelled; `AuditTruthful`; `NoOrphanPdf`; `LockedForGood`; `RequestsEnd`, also behind a holder of the lock that fails |
| `FactureChain_sequential` | one request issues at a time, 1 edit of the client, 1 request may die | `PapersAgree`: attestation and both files exist and say the locked content |
| `FactureChain_cancel_race` (violation) | as `FactureChain_all` | a cancel overwrites the issue it did not see, against `facture.ts:394` |
| `AuditChain_all` | 3 calls, 2 events, 4 entries | `JournalInv`: the invariant of the proofs, and the journal verifies whenever it is read; `ImplementsLog`, `CallsEnd` |
| `DevisLifecycle_all` | 2 requests, any operations, storage, database and process may fail | `IInv`; `StatusMoves`: forward only, hash and signature set once; `LogTruthful`; `TooLateIsTrue` |
| `DevisLifecycle_slug` (violation) | 2 public requests by slug, no faults | the client of an open quote is told that it was processed (`TooLateIsTrue`), against `DevisSharePanel.tsx:20` |
| `DevisLifecycle_orderly` | one sender and one signer at a time, the dashboard, two conversions, failing storage | `PapersKept`; `InvoiceOfAccepted` |
| `Quotes_all` | 2 requests, 1 key, a quota of 1, 2 months that are 2 years; 2 lines; papers on both sides of every limit; 3 quotes and an invoice that ask for one slug, 3 tokens, 2 sends, 1 deletion | `ServerInv`, `OncePerKey`, `QuotaKept`; `QuoteAgrees`; `LaidOut`; `LinkLeadsHome` |
| `Signing_all` | 1 page, 2 requests, 2 codes, 1 attempt, 1 key | `SignedByMailbox`, `ShownIsTrue` |
| `CronJobs_all` | 2 keys, 2 PDFs (the second always of the same key, the other cases are mirror images), 2 failures, 1 death; 2 quotes, 2 runs | `KeptAndQueued`, `QueueDrains`; `RemindedOnce` |
| `Access_all` | 2 deliveries of 3 events; 2 visits, 1 session allowed, 2 links; 2 calls on a bucket of 3; 3 tokens; 2 checkouts from 2 pages | `InSync`; `SessionsSound`; `WindowBounded`; `NoDeadToken`; `TrialOnce` |
| `Views_all` | 2 contents, 2 flushes, 2 claims; 2 tabs; 2 windows; 3 rows, 2 buttons at once; 3 months, 2 invoices; a journal of 3 entries and 2 changes | `NothingLost`, `OneQuoteEach`, `ClaimsAreSigned`; `ToldIsTrue`; `LogoKept`; `ShowsItsEffects`; `CountedOnce`; `JournalDetectsChanges`: a change before an entry that is left alone is found; the end of the chain can be cut or rewritten without a trace, and the property says no more than that |

Each property has a mutant of the code (`PROJECT.json`, `mutants`), a dropped guard, a missing lock, a
reset left out, that the run must find.

**Bounds.** Almost every hazard is a race of two requests (or tabs, runs, deliveries), so two or three
are enough for each to happen. Requests begin again after they end, so histories are not bounded
by their number, but by what they leave: `MaxDevis`, `MaxCodes`, `MaxPdfs`, `MaxEvents`, `MaxRows`,
`MaxQuotes`, `MaxSeq` and the like stop new work, never work in progress. The limits of the code are
small in the instances (a quota of 1 for 5, 1 session for 10, 1 attempt for 3) so that they are reached
and crossed. Two invoices are the fewest for a fork or a skipped predecessor, three events for
a purchase that fails and ends. `DevisLifecycle` has one content, because its properties compare hashes
and batches that differ by their author. `CHECK_DEADLOCK FALSE` is set where documents come to their
end and bounded work runs out.

**Fairness.** `FactureChain` and `AuditChain`: weak fairness of the steps of a request, since Node runs
the continuation of an await that is ready, and strong fairness of taking an advisory lock, since
PostgreSQL queues the waiters. `Archive`: weak fairness of the steps of the daily job, which the
scheduler starts again every day. Faults, timeouts, deaths, new requests, edits and clicks have no
fairness: they may happen, nothing relies on them. No other module has a liveness property: the
browser's requests may never be answered, and nothing in the code retries them but its user.

**What the code does not promise.** Properties are stated as strong as the code makes them. Where it
is weaker than one would wish, the property names the exception, or the instance leaves the
race out, and the hazard says so:

* two editors at a time leave the lines of both (`updateDevis` takes no lock); an editor that had read
  the draft overwrites a quote that was sent meanwhile;
* two senders, or two signers, share one PDF key, and the loser deletes the file of the winner; the
  same holds of two issues of one invoice. `PapersKept` and `PapersAgree` have one at a time;
* the public page is given a readable slug by default, and the signing service looks the quote up by the
  hash of a token, which finds nothing: `TooLateIsTrue` is checked, and proved, for token links, and
  `DevisLifecycle_slug` shows that it fails for the others;
* a deletion checked before a conversion leaves a deleted quote with an invoice;
* `outlived`: a quote made under a key whose record was never written (the process died, the journal
  failed, the keyed transaction timed out) or has expired; a retry then makes another;
* `lost`, `late` in `Archive`: an entry of the queue written over by the job that had read the file
  before; an old PDF uploaded over a newer one;
* `stray` in `Archive`: an older version that R2 did not delete, that a dead process left, or that the job
  uploaded again after a deletion is what a reader gets, since `readArchivedPdf` prefers R2;
* `disorder` in `Billing`: events applied out of order leave the older state;
* `excused`, `displaced` in `Drafts`: a lost answer, two calls at once, a late signature that writes an
  older draft back; neither the form nor the flush sends an `Idempotency-Key`;
* `early` in `Activation`: two checkouts open at once give two trials;
* `spoiled` in `Settings`: two uploads at once, or one that died between unlink and write;
* `ToldIsTrue` and `ShownIsTrue` except the case of a user who asked for both decisions under one key:
  the answer of the first is replayed to the second;
* `Stats`: an invoice issued within the last second of a month is in no month's sum (`stats.ts:14`);
* `Paper` says what fits: a client's e-mail below a name and an address, a portrait logo above 100
  points or a long note overprint what follows; the hash of an issued invoice always has a page to
  itself.

## 4. Proofs

Each `*_proofs` module proves an invariant inductive and derives the rest from it, for any sets and
bounds the assumptions of its module allow (`NullAssumption`: NULL is not a value; `RequestsAssumption`,
`CallsAssumption`, `VisitsAssumption`: at any time finitely many requests are at work; `CallersAssumption`:
the callers of `Drafts` are told apart; `MonthsAssumption`: a report has at least one month;
`FormAssumption` and `PapersAssumption`: the amounts and sizes that are entered are natural numbers;
`BoundsAssumption`, `IssuersAssumption`, `RefsAssumption`, ...).

* **`FactureChain_proofs`**: `TypeCorrect`, `Invariance`, `ChainInOrder`, `ChainIsSound`,
  `LockedContentIsFinal`. The order of the chain alone is not inductive: a request in the transaction
  carries a hash it read before. `LockInv` says that only the holder of the advisory lock is there,
  `StampInv` that hashes and dates identify invoices, and `ChainedInv` that what the holder read is
  still the last issue, up to cancellations, which do not take the lock. `JournalIsTrue` adds
  `ReportInv`: whoever is about to write a journal entry has changed the invoice, and nobody else reports
  the same change. `NoFileIsOrphan` adds `OrphanInv`: the files of an invoice that is not issued belong to
  a request that will issue it or drop them. `OneIssuerPapers` assumes `OneIssuer`, as
  the run `FactureChain_sequential` does: two issues of one invoice share its files.
* **`AuditChain_proofs`**: `Invariance`, `JournalVerifies` (`JournalInv`), `IndexIsIdle`, `Refinement`,
  `ChangesShow`. `LockInv` and `ReadInv` make the inserted entry the successor of the last one, which keeps
  `Linked`; `Linked` gives the verification of every position and the value of the abstract sequence. The
  refinement maps `Insert` to `Append1` and every other step to a stutter. `ChangesShow` is about
  `AuditTamper`: `TamperInv` remembers the line that was there before any change; a hash contains the hash
  before it, so a row left alone in a chain that verifies fixes all that precedes it, seq by seq down to
  the first. That descent takes the least counterexample of a set of numbers (`Least`): the
  library's theorems of induction take an operator, which these provers cannot instantiate.
* **`DevisLifecycle_proofs`**: `Invariance`, `SignatureBindsHash`, `CopyToSignerOnly`,
  `StatusMovesForward`, `TokenLinkTooLate`. There is no lock to lean on: `RequestOK` says what a
  request may still rely on from its last read. A public request has seen the quote sent, and a sent
  hash never changes (`StatusInv` ties it to the status), so the hash it signs is still the hash; the
  guarded update lets one decision through, so whoever is past it is the signer the quote holds.
  `JournalIsTrue` counts: for each kind of entry, the entries written and the requests about to write
  one are as many as the changes made. Two theorems have the hypothesis of the run
  `DevisLifecycle_orderly`, because the code promises nothing beyond it: `PapersFollow` assumes
  `OneAtATime` (one sender, one signer, only the storage fails), where the loser of a race would delete
  the file of the winner; `InvoiceSaysAccepted` assumes `NobodyEdits`, since an editor that
  had read the draft overwrites what was sent.
* **`Quotes_proofs`**, one invariant for each part of the sum, and `QuoteComesToBe` for the whole of it
  (`PartsRun`: a behaviour of the sum is one of each part).
  `Server`, `KeyMakesOne`, `QuotaHolds`, for any number
  of concurrent requests, keys, months and any quota. `CreationInv` has four parts. `LockInv` puts the holder of each lock
  where the code holds it. `GaplessNumbers` says that the numbers of a year run from 1 to its counter and
  that whoever is about to insert has the next one, which needs the row's lock. `KeyInv` says that
  a keyed quote is in the record of its key, or held by the request that has the key's lock, or
  `outlived`; with unique numbers this makes two such quotes one (`OncePerKey`). `QuotaInv` adds that
  whoever was counted under the quota's lock still finds room: a month is only added to by the holder,
  deletions make it smaller, and the month the clock moves to is empty. The steps are grouped by lemmas:
  a request that only changes its own step (`GoingOnKeeps`, `StepCounts`) or ends
  (`EndingKeeps`), then one lemma for each of `LockKey`, `NextSequence`, `Insert` and `Record`.
  `LinksInvariance`, `LinksLeadHome`, for any documents, tokens and concurrent sends: no lock covers the
  search for a slug; what holds is what the guarded update and the unique indexes leave, `SlugsInv` (slugs
  identify the rows that were sent), `SendersInv` (a request that answers has given its row the slug it
  carries) and `GivenInv` (a link given out is the slug of its row, or an old token that nobody else has
  or will draw).
  `FormAgrees`, for any lines, rates and prices: the totals are sums over sequences, so what a fold computes
  has to be proved first. A fold is a function chosen by its equation; `FoldExists` shows that there is
  one, and `SumRuns` and `PickRuns` that it gives the running sums and the lines that are kept, step by
  step, by the least step that would fail. The form shows the sum of all its lines and stores a draft of
  those that are filled: `FilledTotals` says that the others add nothing (`SumAppend`, one line at a time).
  `FormInv` is `QuoteAgrees` with the same about the draft (`DraftTrue`), which becomes the quote after it
  was kept, opened again or claimed under another regime; a price typed with VAT is one line, whose two
  roundings `PriceKept` bounds.
  `PaperLaidOut`, for any number of rows and of lines of the issuer, of the notes and of the register:
  `PaperInv` is needed because `LaidOut` speaks of the end only. `OnTrack` says that what is left to draw is
  the end of the document's list of functions, and `Stage` what each function finds: the height it draws at
  and, per column, how far down the page is used (`Clear`). What a function draws lies below that, in a
  column of its own, or apart from what it draws itself (`Stacked`, `Placed`, `Written`), so it overprints
  nothing and no text breaks the page except where the document ends one.
* **`Signing_proofs`**: `Typed`, `PageIsTrue`, `MailboxSigned`, for any pages, requests, codes and keys.
  `SignInv` follows a code by its number: the number names one mailbox, and what was once true of it stays
  true, so an acceptance that carries it names who received it. `ShownInv` ties the keys of a page to
  the answers it sent under them: what is recorded under a key the page still holds is what the quote
  became. The bound on wrong answers is the hard part: two requests that overlap each write the count they
  had read plus one, so the count can fall back. `TriesInv` is a potential: the wrong answers given, plus
  what the attempts that each request last saw can still let through, stays below
  `1 + MaxAttempts (MaxAttempts + 1) / 2`.
* **`CronJobs_proofs`**: `PdfsKept`, `NobodyTwice`, for any keys, versions, quotes, runs and deaths. A
  request and the daily job both read the queue file, wait, and write it back. `KeyInv` follows one key:
  where its last version is while a request works on it (`Keeps`), and that an item of that version
  the job has taken will have gone up, be given up, or be written back (`Works`); keys do not disturb
  each other except through a queue written over, which is `lost`. `RemindersInv` says that a quote that
  is claimed has one run that holds it, and that a quote that is due again had no mail.
* **`Access_proofs`**: one invariant for each part of the sum.
  `TokensFresh`: what the form holds may be sent, or was spent by the request whose answer is about to
  reset it. `OneTrial`: while no checkout is `early`, at most one is open or paid for, and one that asks
  for a trial was made before the user was a customer.
  `RateBounded`: a potential again; each call that has read the bucket may still let itself
  through, and a window that expires under several calls is begun again by each of them.
  `SessionsBounded`: `TokenInv` (a link in use is in the hands of one visit), `VisitOk` and `RowOk` (a
  version that was read is never ahead of the account's, and a row of an older one is marked), `StillIn`
  (a session is there or about to be), and `Room`, a count with a witness of its history: for each visit
  about to insert a row, the visits that have inserted one since it read them (`OldestMany` counts what
  the revocation of the oldest takes away).
  `PlanInSync`: while nothing is in `disorder`, `Turn(k)` holds for some `k`: the first `k` events were
  processed and at most one handler is at work, on the next. `PlanAfter` and `FlagAfter` say what the user
  has after an event unless a later event will set it, so the claim needs no look at the history; when `k`
  is the last event nothing is left that could set it, which is `InSync`.

* **`Views_proofs`**: one invariant for each part of the sum, for any contents, tabs, windows, calls,
  rows, months and entries.
  `SignaturesMatch`, `DraftsAreKept`, `NoSecondQuote`: `DraftsInv` says what a call that is under way carries:
  no content twice, and only contents from where its caller takes them (`CallOk`, `OriginOf`); where each
  content is as long as it has no quote (`Kept`); that `origin` tells where a content may rest, and that
  the queue holds it once (`Places`); and, for a content without an excuse, that one call at most carries it, and once it
  has its quote that call is past the POST and is the reason why the content still rests somewhere
  (`MadeOnce`). The callers are treated by what they do to a call: `BeginKeeps`, `CallGoesOn`, `CallEnds`.
  `TabsTellTheTruth`: what a tab was told, and what a stored answer will tell, is of a kind that stays so
  (`Done`, `DocumentsAgree`), though the documents move on under it.
  `LogoStays`: unless the file is `spoiled`, one upload at most is between unlink and write, and when none
  is, the file is there for whoever will say so in the row.
  `EffectsAreShown`: only the youngest read counts; it has found the list as it is, or a change was made
  whose answer will be followed by a younger read.
  `SumsAreRight`: what is issued once the report is asked for is dated then or later, so each query knows
  all that is older, and the months do not overlap.
  `ChangesAreDetected`: the argument of `ChangesShow`, by an instance of `AuditChain_proofs`.

**Model-checked only**: liveness (`RequestsEnd`, `CallsEnd`, `QueueDrains`), out of reach with fairness and
`ENABLED`. Every invariant and every action property of the passing runs is stated by a theorem.

## 5. What is not modelled

* **SEO texts, marketing pages, mail templates, the drawing of a signature, copying a link**: no state,
  or none that a property is about.
* **Binary floating point**: `QuoteForm` counts exactly, in units fine enough for what the code rounds.
  A line whose price with VAT is 3 modulo 6 cents is stored one cent higher, which the model has.
* **The pool of database connections** (10 by default): as many keyed requests as it has connections
  wait for each other until their transactions time out; only the timeout is modelled (`KeyTimeout`).
* **The free quota of sends** (`services/devis.ts:52`) is a count without a lock; sends of different quotes
  can exceed it. `DevisLifecycle` has one quote.
* **Team**: the limit of members (`api/team/route.ts:93-97`, counted without a lock) and the choice among
  several invitations.
* **The encrypted copy of the token** (`shareTokenEnc`) and its re-encryption at start: the copy is read only
  for a row without a slug, and every row that was sent has one. **Deletion of a client**: two
  statements, a count and a delete. **Purges** other than that of the keys delete expired rows that no
  query returns.
* **Rate limits**: one bucket is modelled, not which route uses which.
* **`softDeleteFacture`** has no caller; the activation and the checkout of development builds are left out.

What would come next: the quota of sends with several quotes, and the members of a team as a set.
