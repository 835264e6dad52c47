------------------------------ MODULE Accounts ------------------------------
(***************************************************************************)
(* The ways into one account and out of it: links sent by mail             *)
(* (magic-link.ts, email-verification.ts), the password (api/auth),        *)
(* sessions kept as rows that a version of the account ends all at once    *)
(* (user-session.ts), their list with its buttons (api/auth/sessions), and *)
(* the deletion of the account (services/account.ts).                      *)
(***************************************************************************)
EXTENDS Naturals, Sequences, FiniteSets

CONSTANTS
    Visits,         \* the requests under way at the same time
    MaxSessions,    \* MAX_ACTIVE_SESSIONS, 10
    MaxTokens,      \* bound on the links
    MaxRows,        \* bound on the sessions
    MaxVersion      \* bound on the version of the account

ASSUME SessionsAssumption == MaxSessions \in Nat \ {0}
ASSUME VisitsAssumption == IsFiniteSet(Visits)

VARIABLES
    account,    \* [version: sessionVersion, verified, deleted]
    tokens,     \* MagicLinkToken: the links in the order of their creation
    rows,       \* UserSession: the rows in the order of their creation
    visit,      \* what each request is doing
    entered     \* a session was opened with the present version, and since then none expired or
                \* was ended on demand, and no request failed

accountVars == <<account, tokens, rows, visit, entered>>

Purposes == {"MAGIC_LINK", "EMAIL_VERIFICATION"}
Idle == [pc |-> "idle", way |-> "none", token |-> 0, version |-> 0, ends |-> {}, old |-> FALSE]

isSessionActive(s) == ~rows[s].ended /\ rows[s].version = account.version

\* getSession: a token also needs an account that is verified and not deleted.
Active(s) == isSessionActive(s) /\ ~account.deleted /\ account.verified

\* Of an ended row nothing else matters any more.
Ended == [version |-> 0, ended |-> TRUE, old |-> FALSE]
EndRows(set) == [s \in DOMAIN rows |-> IF s \in set THEN Ended ELSE rows[s]]

Open == {s \in DOMAIN rows: ~rows[s].ended}

Doing(v, pc) == visit[v].pc = pc
Move(v, pc) == visit' = [visit EXCEPT ![v].pc = pc]
Begin(v, pc, way, token) ==
    visit' = [visit EXCEPT ![v] = [Idle EXCEPT !.pc = pc, !.way = way, !.token = token]]

-----------------------------------------------------------------------------
(* Links                                                                   *)

\* A used link is kept; the others of the purpose are deleted before a new one is stored.
Recent(purpose) ==
    \E t \in DOMAIN tokens: tokens[t].purpose = purpose /\ tokens[t].state = "fresh"

RequestLink(v, purpose) ==
    /\ Doing(v, "idle") /\ ~account.deleted
    /\ purpose = "EMAIL_VERIFICATION" => ~account.verified
    /\ Len(tokens) < MaxTokens /\ ~Recent(purpose)
    /\ Begin(v, "clean", purpose, 0)
    /\ UNCHANGED <<account, tokens, rows, entered>>

DeleteUnused(v) ==
    /\ Doing(v, "clean")
    /\ tokens' = [t \in DOMAIN tokens |->
                    IF tokens[t].purpose = visit[v].way /\ tokens[t].state \in {"fresh", "sent"}
                    THEN [tokens[t] EXCEPT !.state = "gone"] ELSE tokens[t]]
    /\ Move(v, "create")
    /\ UNCHANGED <<account, rows, entered>>

\* The row, then the mail with the link.
CreateToken(v) ==
    /\ Doing(v, "create")
    /\ Len(tokens) < MaxTokens
    /\ tokens' = Append(tokens, [purpose |-> visit[v].way, state |-> "fresh", opened |-> 0])
    /\ visit' = [visit EXCEPT ![v] = Idle]
    /\ UNCHANGED <<account, rows, entered>>

CooldownEnds(t) ==
    /\ tokens[t].state = "fresh"
    /\ tokens' = [tokens EXCEPT ![t].state = "sent"]
    /\ UNCHANGED <<account, rows, visit, entered>>

LinkExpires(t) ==
    /\ tokens[t].state = "sent"
    /\ tokens' = [tokens EXCEPT ![t].state = "gone"]
    /\ UNCHANGED <<account, rows, visit, entered>>

\* consumeMagicLink, consumeEmailVerification: one update takes an unused link.
Usable(state) == state \in {"fresh", "sent"}
OpenLink(v, t) ==
    /\ Doing(v, "idle") /\ Usable(tokens[t].state)
    /\ tokens' = [tokens EXCEPT ![t].state = "used"]
    /\ Begin(v, "verified", tokens[t].purpose, t)
    /\ UNCHANGED <<account, rows, entered>>

\* A link to a deleted account ends there; the other verification marks it all the same.
MarkVerified(v) ==
    /\ Doing(v, "verified")
    /\ account' = [account EXCEPT !.verified = @ \/ ~account.deleted
                                                \/ visit[v].way = "EMAIL_VERIFICATION"]
    /\ visit' = [visit EXCEPT ![v] =
                    IF account.deleted THEN Idle
                    ELSE [@ EXCEPT !.pc = IF visit[v].way = "MAGIC_LINK" THEN "bump" ELSE "session"]]
    /\ UNCHANGED <<tokens, rows, entered>>

-----------------------------------------------------------------------------
(* Sessions                                                                *)

\* The mutant changes the password without a new version.
SameVersion == account
NextVersion == [account EXCEPT !.version = @ + 1]

\* bumpUserSessionVersion, its first statement.
BumpVersion(v) ==
    /\ Doing(v, "bump") /\ account.version < MaxVersion
    /\ account' = NextVersion
    /\ rows' = [s \in DOMAIN rows |-> [rows[s] EXCEPT !.old = ~rows[s].ended]]
    /\ visit' = [w \in Visits |->
                    IF w = v THEN [visit[v] EXCEPT !.pc = "revoke"]
                    ELSE IF Doing(w, "insert") THEN [visit[w] EXCEPT !.old = TRUE] ELSE visit[w]]
    /\ UNCHANGED <<tokens, entered>>

\* Its second: every row, those of the new version that others opened included.
RevokeAll(v) ==
    /\ Doing(v, "revoke")
    /\ rows' = EndRows(DOMAIN rows)
    /\ CASE visit[v].way = "password" -> Move(v, "hash")
         [] visit[v].way = "delete" -> visit' = [visit EXCEPT ![v] = Idle]
         [] OTHER -> Move(v, "session")
    /\ UNCHANGED <<account, tokens, entered>>

\* createUserSession: the oldest open rows that leave no room for one more are to end.
Oldest(n) == {s \in Open: Cardinality({o \in Open: o < s}) < n}
Overflow == Oldest(Cardinality(Open) + 1 - MaxSessions)
Overflowing == IF Cardinality(Open) < MaxSessions THEN {} ELSE Overflow

ReadSessions(v) ==
    /\ Doing(v, "session")
    /\ visit' = [visit EXCEPT ![v] =
                    IF account.deleted THEN Idle
                    ELSE [@ EXCEPT !.pc = "insert", !.version = account.version,
                                   !.ends = Overflowing]]
    /\ UNCHANGED <<account, tokens, rows, entered>>

InsertSession(v) ==
    /\ Doing(v, "insert")
    /\ Len(rows) < MaxRows
    /\ rows' = Append(EndRows(visit[v].ends),
                      [version |-> visit[v].version, ended |-> FALSE, old |-> visit[v].old])
    /\ tokens' = [t \in DOMAIN tokens |->
                    IF t = visit[v].token THEN [tokens[t] EXCEPT !.opened = @ + 1] ELSE tokens[t]]
    /\ visit' = [visit EXCEPT ![v] = Idle]
    /\ entered' = (entered \/ ~visit[v].old)
    /\ UNCHANGED account

\* login: the password is the present one when it is compared.
Login(v) ==
    /\ Doing(v, "idle") /\ account.verified /\ ~account.deleted
    /\ Begin(v, "session", "login", 0)
    /\ UNCHANGED <<account, tokens, rows, entered>>

ChangePassword(v) ==
    /\ Doing(v, "idle")
    /\ \E s \in DOMAIN rows: Active(s)
    /\ Begin(v, "bump", "password", 0)
    /\ UNCHANGED <<account, tokens, rows, entered>>

StoreHash(v) ==
    /\ Doing(v, "hash")
    /\ Move(v, "session")
    /\ UNCHANGED <<account, tokens, rows, entered>>

BeginEnd(v, way, named) ==
    /\ Doing(v, "idle")
    /\ visit' = [visit EXCEPT ![v] = [Idle EXCEPT !.pc = "end", !.way = way, !.ends = named]]
    /\ UNCHANGED <<account, tokens, rows, entered>>

\* revoke, revoke-others, revoke-all by an active session.  What is named is ended
\* ("one"), or spared ("others", nothing by "all").
AskToEnd(v, s, way, named) == Active(s) /\ BeginEnd(v, way, named)

\* logoutSession needs the cookie only.
logoutSession(v, s) == BeginEnd(v, "one", {s})

EndSessions(v) ==
    /\ Doing(v, "end")
    /\ rows' = EndRows(IF visit[v].way = "one" THEN visit[v].ends ELSE DOMAIN rows \ visit[v].ends)
    /\ visit' = [visit EXCEPT ![v] = Idle]
    /\ entered' = FALSE
    /\ UNCHANGED <<account, tokens>>

SessionExpires(s) ==
    /\ ~rows[s].ended
    /\ rows' = EndRows({s})
    /\ entered' = FALSE
    /\ UNCHANGED <<account, tokens, visit>>

\* softDeleteAccount: an active session was seen; every link goes with the account.
AskDeletion(v) ==
    /\ Doing(v, "idle")
    /\ \E s \in DOMAIN rows: Active(s)
    /\ Begin(v, "delete", "delete", 0)
    /\ UNCHANGED <<account, tokens, rows, entered>>

DeleteAccount(v) ==
    /\ Doing(v, "delete")
    /\ account' = [account EXCEPT !.deleted = TRUE]
    /\ tokens' = [t \in DOMAIN tokens |-> [tokens[t] EXCEPT !.state = "gone"]]
    /\ Move(v, "bump")
    /\ entered' = FALSE
    /\ UNCHANGED rows

\* An exception or the end of the process, between two statements.
VisitFails(v) ==
    /\ ~Doing(v, "idle")
    /\ visit' = [visit EXCEPT ![v] = Idle]
    /\ entered' = FALSE
    /\ UNCHANGED <<account, tokens, rows>>

-----------------------------------------------------------------------------
AccountsInit ==
    /\ account = [version |-> 0, verified |-> FALSE, deleted |-> FALSE]
    /\ tokens = <<>> /\ rows = <<>>
    /\ visit = [v \in Visits |-> Idle]
    /\ entered = FALSE

AccountsNext ==
    \/ \E v \in Visits:
        \/ \E purpose \in Purposes: RequestLink(v, purpose)
        \/ DeleteUnused(v) \/ CreateToken(v) \/ MarkVerified(v)
        \/ \E t \in DOMAIN tokens: OpenLink(v, t)
        \/ BumpVersion(v) \/ RevokeAll(v) \/ ReadSessions(v) \/ InsertSession(v)
        \/ Login(v) \/ ChangePassword(v) \/ StoreHash(v)
        \/ \E s \in DOMAIN rows:
            \/ \E t \in DOMAIN rows: AskToEnd(v, s, "one", {t})
            \/ AskToEnd(v, s, "others", {s}) \/ AskToEnd(v, s, "others", {})
            \/ logoutSession(v, s)
        \/ EndSessions(v) \/ AskDeletion(v) \/ DeleteAccount(v) \/ VisitFails(v)
    \/ \E t \in DOMAIN tokens: CooldownEnds(t) \/ LinkExpires(t)
    \/ \E s \in DOMAIN rows: SessionExpires(s)

-----------------------------------------------------------------------------
(* Properties                                                              *)

\* The rows are counted before the new one is inserted: each concurrent opening can exceed
\* the limit by one (user-session.ts:40-55).
Capped ==
    Cardinality({s \in DOMAIN rows: Active(s)}) <= MaxSessions + Cardinality(Visits) - 1

OpenedOnce == \A t \in DOMAIN tokens: tokens[t].opened <= 1

\* No session that was there when the version was raised, nor one that was about to be
\* inserted, is accepted afterwards.
SignedOut == \A s \in DOMAIN rows: rows[s].old => ~Active(s)

\* Links and passwords used at the same time end each other's sessions, but not all.
SomeoneIn ==
    entered /\ ~account.deleted /\ (\A v \in Visits: Doing(v, "idle")) => \E s \in DOMAIN rows: Active(s)

\* The promises of the sessions: bounded in number, one for a link (magic-link.ts:63),
\* ended by a link or a change of the password (user-session.ts:110-135), and not so that
\* two who log in at the same time lock each other out.
SessionsSound == Capped /\ OpenedOnce /\ SignedOut /\ SomeoneIn
=============================================================================
