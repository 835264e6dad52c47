------------------------------- MODULE Panels -------------------------------
(***************************************************************************)
(* The lists that a page reads by itself: the members of the team          *)
(* (TeamPanel.tsx), the sessions of the account (AccountSessionsPanel.tsx) *)
(* and the journal of a document (DocumentAuditTrail.tsx).  The buttons of *)
(* a row send a request and read the list again; nothing tells a panel     *)
(* what happens elsewhere, and two reads may be answered in any order.     *)
(***************************************************************************)
EXTENDS Naturals, FiniteSets, Sequences, SequencesExt

CONSTANTS
    Rows,       \* members, sessions or entries
    Own,        \* the session of this browser, which has no button
    Requests,   \* requests that the panel may have sent at once
    MaxReads,   \* bound on the reads under way
    Unread      \* nothing read yet

VARIABLES
    panel,      \* which of the three lists
    list,       \* what the database holds
    shown,      \* what the panel shows
    open,       \* the journal is unfolded
    asked,      \* the requests of the panel's buttons
    reads,      \* the reads under way, oldest first
    stale       \* what is shown is old, and a cause is known (history)

panelsVars == <<panel, list, shown, open, asked, reads, stale>>

NoChange == [pc |-> "none", adds |-> {}, drops |-> {}]
Read == [found |-> Unread, old |-> FALSE]
Displayed == IF shown = Unread THEN {} ELSE shown

\* What an answer already on its way does not know.
AgeServed == [i \in DOMAIN reads |-> [reads[i] EXCEPT !.old = @ \/ reads[i].found # Unread]]

-----------------------------------------------------------------------------
(* The buttons                                                             *)

\* Only the sessions' buttons wait for the answer of the one before.
Busy == panel = "sessions" /\ \E q \in Requests: asked[q] # NoChange

Ask(q, adds, drops) ==
    /\ asked[q] = NoChange /\ ~Busy
    /\ asked' = [asked EXCEPT ![q] = [pc |-> "sent", adds |-> adds, drops |-> drops]]
    /\ UNCHANGED <<panel, list, shown, open, reads, stale>>

\* The form is there while the list that is shown has room.
InviteMember(q, row) ==
    /\ panel = "team" /\ Cardinality(Displayed) < Cardinality(Rows)
    /\ Ask(q, {row}, {})

RemoveRow(q, row) ==
    /\ panel # "trail" /\ row \in Displayed \ (IF panel = "sessions" THEN {Own} ELSE {})
    /\ Ask(q, {}, {row})

RevokeOthers(q) ==
    /\ panel = "sessions" /\ Cardinality(Displayed) > 1
    /\ Ask(q, {}, Rows \ {Own})

\* The journal is read on the first click, and never again; later clicks fold it.
ShowTrail ==
    /\ panel = "trail"
    /\ IF shown = Unread
       THEN Len(reads) < MaxReads /\ reads' = Append(reads, Read) /\ UNCHANGED open
       ELSE open' = ~open /\ UNCHANGED reads
    /\ UNCHANGED <<panel, list, shown, asked, stale>>

-----------------------------------------------------------------------------
(* The server                                                              *)

Change(q) ==
    /\ asked[q].pc = "sent"
    /\ list' = (list \union asked[q].adds) \ asked[q].drops
    /\ asked' = [asked EXCEPT ![q].pc = "done"]
    /\ UNCHANGED <<panel, shown, open, reads, stale>>

\* The team is full, the plan has lapsed, too many requests, no right to it.
RefuseChange(q) ==
    /\ asked[q].pc = "sent"
    /\ asked' = [asked EXCEPT ![q].pc = "refused"]
    /\ UNCHANGED <<panel, list, shown, open, reads, stale>>

\* The member is added, then the mail or the journal entry fails: the answer is an error.
InviteHalfDone(q) ==
    /\ asked[q].pc = "sent" /\ asked[q].adds # {}
    /\ list' = list \union asked[q].adds
    /\ asked' = [asked EXCEPT ![q].pc = "refused"]
    /\ stale' = TRUE
    /\ reads' = AgeServed
    /\ UNCHANGED <<panel, shown, open>>

ServeRead(i) ==
    /\ reads[i].found = Unread
    /\ reads' = [reads EXCEPT ![i].found = list]
    /\ UNCHANGED <<panel, list, shown, open, asked, stale>>

\* An invitation is accepted, another device signs in or out, a step is journaled.
Elsewhere(row) ==
    /\ row # Own
    /\ list' = IF row \in list /\ panel # "trail" THEN list \ {row} ELSE list \union {row}
    /\ list' # list
    /\ stale' = TRUE
    /\ reads' = AgeServed
    /\ UNCHANGED <<panel, shown, open, asked>>

-----------------------------------------------------------------------------
(* The answers                                                             *)

\* remove() reads the list again whatever the answer, the others after a success.
\* The mutant trusts the list it has.
NeverReloads(q) == FALSE
Reloads(q) ==
    \/ asked[q].pc = "done"
    \/ panel = "team" /\ asked[q].drops # {}

ChangeAnswered(q) ==
    /\ asked[q].pc \in {"done", "refused"}
    /\ asked' = [asked EXCEPT ![q] = NoChange]
    /\ IF Reloads(q)
       THEN Len(reads) < MaxReads /\ reads' = Append(reads, Read)
       ELSE UNCHANGED reads
    /\ UNCHANGED <<panel, list, shown, open, stale>>

\* fetch throws: no handler goes on, and the sessions' buttons stay disabled.
ChangeLost(q) ==
    /\ asked[q].pc = "done"
    /\ asked' = IF panel = "sessions" THEN [asked EXCEPT ![q].pc = "stuck"]
                ELSE [asked EXCEPT ![q] = NoChange]
    /\ stale' = TRUE
    /\ reads' = AgeServed
    /\ UNCHANGED <<panel, list, shown, open>>

\* A read that ends leaves the older ones behind it.
EndRead(i) ==
    reads' = RemoveAt([j \in DOMAIN reads |-> [reads[j] EXCEPT !.old = @ \/ j < i]], i)

\* The answer that arrives last is the one that is shown.
ReadAnswered(i) ==
    /\ reads[i].found # Unread
    /\ shown' = reads[i].found
    /\ stale' = reads[i].old
    /\ open' = (open \/ panel = "trail")
    /\ EndRead(i)
    /\ UNCHANGED <<panel, list, asked>>

\* A refusal empties the list of the sessions; the other lists stay as they are.
ReadFailed(i) ==
    /\ \/ panel = "sessions" /\ shown' = {}
       \/ UNCHANGED shown
    /\ stale' = TRUE
    /\ EndRead(i)
    /\ UNCHANGED <<panel, list, open, asked>>

OpenPanel ==
    /\ shown' = Unread /\ open' = FALSE
    /\ asked' = [q \in Requests |-> NoChange]
    /\ reads' = IF panel = "trail" THEN << >> ELSE <<Read>>
    /\ stale' = TRUE
    /\ UNCHANGED <<panel, list>>

PanelsInit ==
    /\ panel \in {"team", "sessions", "trail"}
    /\ list = IF panel = "sessions" THEN {Own} ELSE {}
    /\ shown = Unread /\ open = FALSE /\ stale = TRUE
    /\ asked = [q \in Requests |-> NoChange]
    /\ reads = << >>

PanelsNext ==
    \/ \E q \in Requests:
           \/ \E row \in Rows \ {Own}: InviteMember(q, row) \/ RemoveRow(q, row)
           \/ RevokeOthers(q) \/ Change(q) \/ InviteHalfDone(q) \/ RefuseChange(q)
           \/ ChangeAnswered(q) \/ ChangeLost(q)
    \/ \E i \in DOMAIN reads: ServeRead(i) \/ ReadAnswered(i) \/ ReadFailed(i)
    \/ \E row \in Rows: Elsewhere(row)
    \/ ShowTrail \/ OpenPanel

\* When nothing is on its way, a panel shows what the database holds, unless a read
\* failed or was overtaken, a change was made elsewhere or its answer was lost since
\* the read: a button's own effect is always shown, however the requests and the
\* reads of several buttons interleave (TeamPanel.tsx, AccountSessionsPanel.tsx).
ShowsItsEffects ==
    (\A q \in Requests: asked[q] = NoChange) /\ reads = << >> /\ ~stale =>
        shown = list
=============================================================================
