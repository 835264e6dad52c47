-------------------------------- MODULE Stats --------------------------------
(***************************************************************************)
(* The statistics of a user (services/stats.ts): one query for each of the *)
(* last months and one for the best clients of the whole period, each at a  *)
(* time of its own while invoices are issued.                               *)
(*                                                                         *)
(* A month has four instants: its first, one within, 23:59:59 of its last  *)
(* day, and the fraction of a second that follows.                          *)
(***************************************************************************)
EXTENDS Integers, Sequences

CONSTANTS
    MonthsShown,   \* 6
    LastMonth,     \* bound on the clock
    MaxInvoices,   \* bound on the invoices
    NotRead

ASSUME MonthsAssumption == MonthsShown \in Nat \ {0} /\ LastMonth \in Nat

VARIABLES
    clock,         \* the instant, month after month
    issuedAt,      \* Facture.issuedAt of the issued invoices
    reportAt,         \* when the statistics were asked for
    monthly,       \* the invoices that each month's query found
    best           \* those that the query of the clients counted

statsVars == <<clock, issuedAt, reportAt, monthly, best>>

Length == 4
Month(t) == t \div Length
Start(m) == m * Length
LastSecond(m) == Start(m) + 2

Found(from, to) == {f \in DOMAIN issuedAt: issuedAt[f] \in from .. to}

\* The months of the report by their age; day 0 of the next month is the last of this one.
\* The mutant takes its first day.
NextMonthsDay(i) == LastSecond(Month(reportAt) - i) + 2
EndOf(i) == LastSecond(Month(reportAt) - i)
StartOf(i) == Start(Month(reportAt) - i)

MonthsBack == 0 .. (MonthsShown - 1)
Unasked == [i \in MonthsBack |-> NotRead]

-----------------------------------------------------------------------------
Advance ==
    /\ Month(clock + 1) <= LastMonth
    /\ clock' = clock + 1
    /\ UNCHANGED <<issuedAt, reportAt, monthly, best>>

Issue ==
    /\ Len(issuedAt) < MaxInvoices
    /\ issuedAt' = Append(issuedAt, clock)
    /\ UNCHANGED <<clock, reportAt, monthly, best>>

getAdvancedStats ==
    /\ reportAt' = clock
    /\ monthly' = Unasked /\ best' = NotRead
    /\ UNCHANGED <<clock, issuedAt>>

\* Both ends belong to the month.
ReadMonth(i) ==
    /\ monthly[i] = NotRead
    /\ monthly' = [monthly EXCEPT ![i] = Found(StartOf(i), EndOf(i))]
    /\ UNCHANGED <<clock, issuedAt, reportAt, best>>

\* The period has a first instant and no last one.
ReadBest ==
    /\ best = NotRead
    /\ best' = Found(StartOf(MonthsShown - 1), clock)
    /\ UNCHANGED <<clock, issuedAt, reportAt, monthly>>

\* The clock begins late enough for every month of the report.
StatsInit ==
    /\ clock = Start(MonthsShown - 1) /\ issuedAt = << >>
    /\ reportAt = clock /\ monthly = Unasked /\ best = NotRead

StatsNext ==
    Advance \/ Issue \/ getAdvancedStats \/ ReadBest \/ \E i \in MonthsBack: ReadMonth(i)

-----------------------------------------------------------------------------
(* Properties                                                              *)

\* Of the invoices issued before the report was asked for, in its period, each is in the
\* sum of one month and in those of the clients, but for one issued in the fraction of a
\* second after 23:59:59 of the last day of a month, which is in no month's sum; one issued
\* while the queries run is in one month's at most (services/stats.ts:12-20, 24-55).
CountedOnce ==
    (\A i \in MonthsBack: monthly[i] # NotRead) /\ best # NotRead =>
        \A f \in DOMAIN issuedAt:
            LET t == issuedAt[f]
                months == {i \in MonthsBack: f \in monthly[i]}
            IN /\ \A i, j \in months: i = j
               /\ t < reportAt /\ t >= StartOf(MonthsShown - 1) =>
                      /\ f \in best
                      /\ months = {} <=> t = LastSecond(Month(t)) + 1
=============================================================================
