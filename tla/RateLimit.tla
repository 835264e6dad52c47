------------------------------ MODULE RateLimit ------------------------------
(***************************************************************************)
(* One bucket of checkRateLimit (rate-limit.ts): it is read, then written  *)
(* in the same transaction at READ COMMITTED, so that calls at the same    *)
(* time decide on the same count, and a call that found the window over    *)
(* can start it again when others have used the new one.                   *)
(***************************************************************************)
EXTENDS Naturals, FiniteSets

CONSTANTS
    Calls,          \* the calls with the same key at the same time
    MaxAttempts     \* what a window allows

ASSUME AttemptsAssumption == MaxAttempts \in Nat \ {0}
ASSUME CallsAssumption == IsFiniteSet(Calls)

VARIABLES
    bucket,     \* the row: its count, and whether its window is over (or there is none)
    call,       \* what each call decided on the row it read
    passed      \* the calls let through since the window started

rateVars == <<bucket, call, passed>>

\* The mutant goes on when the count is reached.
OneMore(row) == IF row.over THEN "restart" ELSE IF row.count > MaxAttempts THEN "refuse" ELSE "count"
Decision(row) == IF row.over THEN "restart" ELSE IF row.count >= MaxAttempts THEN "refuse" ELSE "count"

\* A refused call writes nothing.
ReadBucket(c) ==
    /\ call[c] = "idle"
    /\ call' = [call EXCEPT ![c] = IF Decision(bucket) = "refuse" THEN "idle" ELSE Decision(bucket)]
    /\ UNCHANGED <<bucket, passed>>

Pass(c, count) ==
    /\ bucket' = [count |-> count, over |-> FALSE]
    /\ passed' = (IF bucket.over THEN 1 ELSE passed + 1)
    /\ call' = [call EXCEPT ![c] = "idle"]

\* The upsert: the row is created, or overwritten whatever it holds by then.
RestartWindow(c) ==
    /\ call[c] = "restart"
    /\ Pass(c, 1)

\* The increment leaves the end of the window as it is; the count of a window that is
\* over is not kept here: the next call starts another.
CountAttempt(c) ==
    /\ call[c] = "count"
    /\ IF bucket.over
       THEN /\ call' = [call EXCEPT ![c] = "idle"]
            /\ UNCHANGED <<bucket, passed>>
       ELSE Pass(c, bucket.count + 1)

WindowEnds ==
    /\ ~bucket.over
    /\ bucket' = [count |-> 0, over |-> TRUE]
    /\ UNCHANGED <<call, passed>>

RateInit ==
    /\ bucket = [count |-> 0, over |-> TRUE]
    /\ call = [c \in Calls |-> "idle"]
    /\ passed = 0

RateNext ==
    \/ WindowEnds
    \/ \E c \in Calls: ReadBucket(c) \/ RestartWindow(c) \/ CountAttempt(c)

-----------------------------------------------------------------------------
\* However the calls interleave, a window lets through at most its attempts once for every
\* call at a time, for each may start it again with a count of 1 after the others used it
\* up, and the calls that were let through on an older count: Calls = 1 gives MaxAttempts
\* (rate-limit.ts:19-40).
WindowBounded ==
    LET n == Cardinality(Calls) IN passed <= n * MaxAttempts + (n * (n - 1)) \div 2
=============================================================================
