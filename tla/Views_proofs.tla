---------------------------- MODULE Views_proofs ----------------------------
(***************************************************************************)
(* What a browser keeps and shows, for any number of contents, tabs,       *)
(* windows, requests and months.  The six parts share no state, so each    *)
(* has an inductive invariant of its own.                                  *)
(***************************************************************************)
EXTENDS Views, SequenceTheorems, TLAPS

\* Every step is a step of one part, and leaves the others alone.
LEMMA Parts ==
  ASSUME [Next]_vars
  PROVE  /\ DraftsNext \/ UNCHANGED draftsVars
         /\ DashboardNext \/ UNCHANGED dashboardVars
         /\ SettingsNext \/ UNCHANGED settingsVars
         /\ PanelsNext \/ UNCHANGED panelsVars
         /\ StatsNext \/ UNCHANGED statsVars
<1>1. CASE UNCHANGED vars
  BY <1>1 DEF vars, lists
<1>2. CASE Next
  BY <1>2 DEF Next, lists
<1> QED BY <1>1, <1>2

-----------------------------------------------------------------------------
(* The logo.  Unless it is spoiled, one upload is at the file at most, and *)
(* when none is, the file is there for whoever will say so.                *)

Steps == {"none", "unlink", "open", "write", "upsert"}
FormState == [insured: BOOLEAN, saving: SUBSET Sections, told: {"nothing", "logo", "delete"}]

SettingsTypes ==
    /\ account \in {"open", "deleted"}
    /\ company \in [logo: BOOLEAN, insured: BOOLEAN]
    /\ upload \in [Windows -> Steps]
    /\ linked \subseteq Windows
    /\ settings \in [Windows -> FormState]
    /\ spoiled \in BOOLEAN

OneAtTheFile ==
    /\ \A v, w \in Touching: v = w
    /\ \A w \in Windows: upload[w] = "write" => file = "empty" /\ w \in linked

FileThere ==
    /\ \A w \in Windows: upload[w] \notin {"open", "write"}
    /\ company.logo \/ \E w \in Windows: upload[w] = "upsert"
    => file \in Windows

ToldSo == \A w \in Windows:
    /\ settings[w].told = "logo" => company.logo
    /\ settings[w].told = "delete" => account = "deleted"

SettingsInv == SettingsTypes /\ ToldSo /\ (~spoiled => OneAtTheFile /\ FileThere)

LEMMA SettingsFirst == Init => SettingsInv
<1> SUFFICES ASSUME SettingsInit PROVE SettingsInv
  BY DEF Init
<1>1. SettingsTypes
  BY DEF SettingsInit, SettingsTypes, Loaded, Steps, FormState
<1>2. \A w \in Windows: settings[w].told = "nothing" /\ upload[w] = "none"
  BY DEF SettingsInit, Loaded
<1> QED
  BY <1>1, <1>2 DEF SettingsInit, SettingsInv, ToldSo, OneAtTheFile, FileThere, Touching

\* The forms leave the file and its uploads alone.
LEMMA FormsKeep ==
  ASSUME SettingsInv, UNCHANGED <<file, upload, linked, spoiled>>,
         SettingsTypes', ToldSo', company'.logo = company.logo
  PROVE  SettingsInv'
  BY DEF SettingsInv, OneAtTheFile, FileThere, Touching

LEMMA FormStep ==
  ASSUME SettingsInv, NEW w \in Windows,
         \/ OpenSettings(w) \/ TickBtp(w) \/ SaveProfile(w) \/ SaveCompany(w) \/ DeleteAccount(w)
         \/ \E section \in Sections: Submits(w, section) \/ SaveRefused(w, section)
  PROVE  SettingsInv'
<1> USE DEF SettingsTypes, ToldSo, FormState
<1>0. SettingsTypes /\ ToldSo
  BY DEF SettingsInv
<1>1. CASE OpenSettings(w)
  BY <1>0, <1>1, FormsKeep DEF OpenSettings, Loaded
<1>2. CASE TickBtp(w)
  BY <1>0, <1>2, FormsKeep DEF TickBtp
<1>3. CASE SaveProfile(w)
  BY <1>0, <1>3, FormsKeep DEF SaveProfile
<1>4. CASE SaveCompany(w)
  BY <1>0, <1>4, FormsKeep DEF SaveCompany
<1>5. CASE DeleteAccount(w)
  BY <1>0, <1>5, FormsKeep DEF DeleteAccount
<1>6. ASSUME NEW section \in Sections, Submits(w, section) PROVE SettingsInv'
  <2> DEFINE new == [settings[w] EXCEPT !.saving = @ \union {section}, !.told = "nothing"]
  <2>1. settings' = [settings EXCEPT ![w] = new]
    BY <1>0, <1>6 DEF Submits
  <2>2. new \in FormState /\ new.told = "nothing"
    <3>1. settings[w] \in FormState /\ settings[w].saving \union {section} \in SUBSET Sections
      BY <1>0
    <3> QED BY <3>1
  <2>3. SettingsTypes' /\ ToldSo'
    <3> HIDE DEF new, FormState
    <3>1. UNCHANGED <<account, company, upload, linked, spoiled>>
      BY <1>6 DEF Submits
    <3>2. settings \in [Windows -> FormState]
      BY <1>0
    <3>3. settings' \in [Windows -> FormState]
      BY <2>1, <2>2, <3>2
    <3>4. \A v \in Windows: settings'[v] = IF v = w THEN new ELSE settings[v]
      BY <2>1, <3>2
    <3> QED BY <1>0, <2>2, <3>1, <3>3, <3>4
  <2> QED BY <1>6, <2>3, FormsKeep DEF Submits
<1>7. ASSUME NEW section \in Sections, SaveRefused(w, section) PROVE SettingsInv'
  BY <1>0, <1>7, FormsKeep DEF SaveRefused
<1> QED
  BY <1>1, <1>2, <1>3, <1>4, <1>5, <1>6, <1>7

LEMMA UploadStep ==
  ASSUME SettingsInv, NEW w \in Windows,
         \/ UploadLogo(w) \/ UploadRefused(w) \/ Unlink(w) \/ OpenFile(w) \/ WriteFile(w)
         \/ UpsertLogo(w) \/ ServerDies
  PROVE  SettingsInv'
<1> USE DEF SettingsInv, SettingsTypes, ToldSo, OneAtTheFile, FileThere, Touching, FormState, Steps,
            Uploading, After
<1>1. CASE UploadLogo(w)
  BY <1>1 DEF UploadLogo
<1>2. CASE UploadRefused(w)
  BY <1>2 DEF UploadRefused
<1>3. CASE Unlink(w)
  BY <1>3 DEF Unlink
<1>4. CASE OpenFile(w)
  BY <1>4 DEF OpenFile
<1>5. CASE WriteFile(w)
  BY <1>5 DEF WriteFile
<1>6. CASE UpsertLogo(w)
  BY <1>6 DEF UpsertLogo
<1>7. CASE ServerDies
  BY <1>7 DEF ServerDies
<1> QED
  BY <1>1, <1>2, <1>3, <1>4, <1>5, <1>6, <1>7

LEMMA SettingsStep == SettingsInv /\ [Next]_vars => SettingsInv'
<1> SUFFICES ASSUME SettingsInv, [Next]_vars PROVE SettingsInv'
  OBVIOUS
<1>1. CASE UNCHANGED settingsVars
  BY <1>1 DEF settingsVars, SettingsInv, SettingsTypes, ToldSo, OneAtTheFile, FileThere, Touching
<1>2. CASE SettingsNext
  BY <1>2, FormStep, UploadStep DEF SettingsNext
<1> QED BY <1>1, <1>2, Parts

\* The path in the company's row leads to a whole image, except between the steps of an
\* upload, after one that died there, or when two windows uploaded at once; what a window
\* tells of the logo and of the account is so (logo-storage.ts, SettingsForm.tsx).
THEOREM LogoStays == Spec => []LogoKept
<1>1. SettingsInv => LogoKept
  BY DEF SettingsInv, LogoKept, FileThere, ToldSo
<1> QED BY <1>1, SettingsFirst, SettingsStep, PTL DEF Spec

-----------------------------------------------------------------------------
(* The statistics.  What is issued once the report is asked for has its    *)
(* date at that moment or later, so each query knows all that is older.    *)

StatsTypes ==
    /\ clock \in Nat /\ reportAt \in 0 .. clock
    /\ issuedAt \in Seq(Nat) /\ \A f \in DOMAIN issuedAt: issuedAt[f] <= clock
    /\ DOMAIN monthly = MonthsBack

MonthRead(i) == monthly[i] # NotRead =>
    /\ \A f \in monthly[i]: f \in DOMAIN issuedAt /\ issuedAt[f] \in StartOf(i) .. EndOf(i)
    /\ \A f \in DOMAIN issuedAt:
           issuedAt[f] < reportAt /\ issuedAt[f] \in StartOf(i) .. EndOf(i) => f \in monthly[i]

BestRead == best # NotRead =>
    \A f \in DOMAIN issuedAt:
        issuedAt[f] < reportAt /\ issuedAt[f] >= StartOf(MonthsShown - 1) => f \in best

StatsInv == StatsTypes /\ (\A i \in MonthsBack: MonthRead(i)) /\ BestRead

LEMMA StatsFirst == Init => StatsInv
  BY MonthsAssumption DEF Init, StatsInit, StatsInv, StatsTypes, MonthRead, BestRead, Unasked, Start, Length

LEMMA StatsStep == StatsInv /\ [Next]_vars => StatsInv'
<1> SUFFICES ASSUME StatsInv, [Next]_vars PROVE StatsInv'
  OBVIOUS
<1> USE DEF StatsInv, StatsTypes, MonthRead, BestRead, StartOf, EndOf, MonthsBack
<1>1. CASE UNCHANGED statsVars
  BY <1>1 DEF statsVars
<1>2. CASE Advance
  BY <1>2 DEF Advance
<1>3. CASE Issue
  <2>1. /\ DOMAIN issuedAt = 1 .. Len(issuedAt) /\ Len(issuedAt) \in Nat
        /\ issuedAt' = Append(issuedAt, clock) /\ issuedAt' \in Seq(Nat)
        /\ DOMAIN issuedAt' = 1 .. (Len(issuedAt) + 1)
        /\ \A f \in DOMAIN issuedAt: issuedAt'[f] = issuedAt[f]
        /\ issuedAt'[Len(issuedAt) + 1] = clock
    BY <1>3 DEF Issue
  <2>2. UNCHANGED <<clock, reportAt, monthly, best>>
    BY <1>3 DEF Issue
  <2> QED BY <2>1, <2>2
<1>4. CASE getAdvancedStats
  BY <1>4 DEF getAdvancedStats, Unasked
<1>5. ASSUME NEW i \in MonthsBack, ReadMonth(i) PROVE StatsInv'
  BY <1>5 DEF ReadMonth, Found
<1>6. CASE ReadBest
  BY <1>6 DEF ReadBest, Found
<1> QED BY <1>1, <1>2, <1>3, <1>4, <1>5, <1>6, Parts DEF StatsNext

\* Of the invoices issued in the period before the report was asked for, each is in the sum
\* of one month and among those of the clients, except in the fraction of a second after
\* 23:59:59 of the last day of a month (services/stats.ts:12-55).
THEOREM SumsAreRight == Spec => []CountedOnce
<1>1. ASSUME StatsInv PROVE CountedOnce
  <2> SUFFICES ASSUME \A i \in MonthsBack: monthly[i] # NotRead, best # NotRead,
                      NEW f \in DOMAIN issuedAt
               PROVE  LET t == issuedAt[f]
                          months == {i \in MonthsBack: f \in monthly[i]}
                      IN /\ \A i, j \in months: i = j
                         /\ t < reportAt /\ t >= StartOf(MonthsShown - 1) =>
                                /\ f \in best
                                /\ months = {} <=> t = LastSecond(Month(t)) + 1
    BY DEF CountedOnce
  <2> DEFINE t == issuedAt[f]
             q == t \div 4
             m == reportAt \div 4
             months == {i \in MonthsBack: f \in monthly[i]}
  <2>1. t \in Nat /\ reportAt \in Nat
    BY <1>1 DEF StatsInv, StatsTypes
  <2>2. /\ q \in Nat /\ m \in Nat
        /\ 4 * q <= t /\ t <= 4 * q + 3 /\ 4 * m <= reportAt /\ reportAt <= 4 * m + 3
    BY <2>1
  <2>3. \A i \in MonthsBack: i \in Nat /\ StartOf(i) = (m - i) * 4 /\ EndOf(i) = (m - i) * 4 + 2
    BY <2>2, MonthsAssumption DEF StartOf, EndOf, Start, LastSecond, Month, Length, MonthsBack
  <2>4. \A i \in months: t \in StartOf(i) .. EndOf(i)
    BY <1>1 DEF StatsInv, MonthRead
  <2>5. \A i \in months: i \in Nat /\ i = m - q /\ t # 4 * q + 3
    <3> SUFFICES ASSUME NEW i \in months PROVE i \in Nat /\ i = m - q /\ t # 4 * q + 3
      OBVIOUS
    <3>1. i \in Nat /\ (m - i) * 4 <= t /\ t <= (m - i) * 4 + 2
      BY <2>1, <2>2, <2>3, <2>4
    <3> HIDE DEF t, q, m
    <3> QED BY <2>1, <2>2, <3>1
  <2>6. ASSUME t < reportAt, t >= StartOf(MonthsShown - 1)
        PROVE  f \in best /\ (months = {} <=> t = 4 * q + 3)
    <3>1. f \in best
      BY <1>1, <2>6 DEF StatsInv, BestRead
    <3>2. MonthsShown - 1 \in MonthsBack /\ MonthsShown \in Nat
      BY MonthsAssumption DEF MonthsBack
    <3>3. (m - (MonthsShown - 1)) * 4 <= t
      BY <2>2, <2>3, <2>6, <3>2
    <3>4. m - q \in Nat /\ m - q <= MonthsShown - 1
      <4> HIDE DEF t, q, m
      <4> QED BY <2>1, <2>2, <2>6, <3>2, <3>3
    <3>5. m - q \in MonthsBack
      BY <3>2, <3>4 DEF MonthsBack
    <3>6. t # 4 * q + 3 => t \in StartOf(m - q) .. EndOf(m - q)
      <4>1. StartOf(m - q) = (m - (m - q)) * 4 /\ EndOf(m - q) = (m - (m - q)) * 4 + 2
        BY <2>3, <3>5
      <4> HIDE DEF t, q, m
      <4> QED BY <2>1, <2>2, <4>1
    <3>7. t # 4 * q + 3 => f \in monthly[m - q]
      BY <1>1, <2>6, <3>5, <3>6 DEF StatsInv, MonthRead
    <3> QED BY <2>5, <3>1, <3>5, <3>7
  <2>7. LastSecond(Month(t)) + 1 = 4 * q + 3
    BY <2>2 DEF LastSecond, Start, Month, Length
  <2> QED BY <2>5, <2>6, <2>7
<1> QED BY <1>1, StatsFirst, StatsStep, PTL DEF Spec

-----------------------------------------------------------------------------
(* The pages of a quote and its invoice.  What a tab was told is of the    *)
(* kind that stays so: a quote that is sent, a decision of some tab, an    *)
(* invoice that is made, an issued one.                                    *)

Pressed == {"send", "facture", "facture-issue", "issue", "cancel", "pay", "resend"} \union Decisions
QuoteStates == {"BROUILLON", "ENVOYE", "FACTURE"} \union Decisions
InvoiceStates == {"none", "BROUILLON", "ANNULEE"} \union Issued

TabState ==
    [on: {"devis", "facture"}, sees: QuoteStates \union InvoiceStates, paid: BOOLEAN,
     dialog: BOOLEAN, loading: Pressed \union {"no"}, reply: {"no", "ok", "error", "lost"},
     toast: Pressed \union {"none", "error"}, verdict: {"none", "intact", "altered"},
     resent: BOOLEAN]

DashboardTypes ==
    /\ tampered \in BOOLEAN /\ active \in BOOLEAN
    /\ quote \in QuoteStates /\ invoice \in InvoiceStates
    /\ decidedBy \in {"nobody", "tab", "client"}
    /\ kept \subseteq {"status", "facture"}
    /\ tab \in [Tabs -> TabState]

\* A stored answer is of what was done; a tab decides what was sent.
DocumentsAgree ==
    /\ invoice # "none" <=> quote = "FACTURE"
    /\ decidedBy = "tab" => quote \in Decisions \union {"FACTURE"}
    /\ "status" \in kept => decidedBy = "tab"
    /\ "facture" \in kept => quote = "FACTURE"

Done(b) ==
    /\ b = "send" => quote # "BROUILLON"
    /\ b \in Decisions => decidedBy = "tab"
    /\ b \in {"facture", "facture-issue"} => quote = "FACTURE"
    /\ b = "issue" => quote = "FACTURE" /\ invoice \in Issued
    /\ b = "resend" => invoice \in Issued

TabOk(x) ==
    /\ x.loading = "no" => x.reply = "no"
    /\ x.on = "facture" => quote = "FACTURE"
    /\ x.on = "facture" /\ x.sees \in Issued => invoice \in Issued
    /\ x.on = "devis" /\ x.loading = "issue" => quote = "FACTURE"
    /\ x.reply = "ok" => Done(x.loading)
    /\ Done(x.toast)
    /\ x.verdict = "intact" => ~tampered
    /\ x.verdict = "altered" => tampered \/ ~active

DashboardInv == DashboardTypes /\ DocumentsAgree /\ \A t \in Tabs: TabOk(tab[t])

\* What a step never takes back.
Onward ==
    /\ tampered' = tampered /\ (active' => active)
    /\ quote # "BROUILLON" => quote' # "BROUILLON"
    /\ quote = "FACTURE" => quote' = "FACTURE"
    /\ decidedBy = "tab" => decidedBy' = "tab"
    /\ invoice \in Issued => invoice' \in Issued

LEMMA StaysOk ==
  ASSUME Onward, NEW x, TabOk(x)
  PROVE  TabOk(x)'
  BY DEF Onward, TabOk, Done

LEMMA DashboardFirst == Init => DashboardInv
<1> SUFFICES ASSUME DashboardInit PROVE DashboardInv
  BY DEF Init
<1>1. Tab("devis", "BROUILLON", TRUE) \in TabState
  BY DEF Tab, TabState, QuoteStates
<1>2. DashboardTypes /\ DocumentsAgree
  BY <1>1 DEF DashboardInit, DashboardTypes, DocumentsAgree, QuoteStates, InvoiceStates, Decisions
<1>3. TabOk(Tab("devis", "BROUILLON", TRUE))
  BY DEF DashboardInit, TabOk, Done, Tab, Decisions
<1> QED BY <1>2, <1>3 DEF DashboardInit, DashboardInv

\* The documents go on, and one tab becomes what they allow.
LEMMA TabKeeps ==
  ASSUME DashboardInv, Onward, NEW t \in Tabs, NEW y \in TabState,
         tab' = [tab EXCEPT ![t] = y], TabOk(y)', DocumentsAgree',
         active' \in BOOLEAN, quote' \in QuoteStates, invoice' \in InvoiceStates,
         decidedBy' \in {"nobody", "tab", "client"}, kept' \subseteq {"status", "facture"}
  PROVE  DashboardInv'
<1>1. DashboardTypes'
  BY DEF DashboardInv, DashboardTypes, Onward
<1>2. ASSUME NEW v \in Tabs PROVE TabOk(tab[v])'
  <2>1. CASE v = t
    <3>1. tab'[v] = y
      BY <2>1 DEF DashboardInv, DashboardTypes
    <3> QED BY <3>1 DEF TabOk, Done
  <2>2. CASE v # t
    <3>1. PICK x: x = tab[v]
      OBVIOUS
    <3>2. tab'[v] = x
      BY <2>2, <3>1 DEF DashboardInv, DashboardTypes
    <3>3. TabOk(x)'
      BY <3>1, StaysOk DEF DashboardInv
    <3> QED BY <3>2, <3>3 DEF TabOk, Done
  <2> QED BY <2>1, <2>2
<1> QED BY <1>1, <1>2 DEF DashboardInv, TabOk, Done

LEMMA DocumentsKeep ==
  ASSUME DashboardInv, Onward, tab' = tab, DocumentsAgree', DashboardTypes'
  PROVE  DashboardInv'
<1>1. ASSUME NEW v \in Tabs PROVE TabOk(tab[v])'
  <2>1. PICK x: x = tab[v]
    OBVIOUS
  <2>2. TabOk(x)'
    BY <2>1, StaysOk DEF DashboardInv
  <2> QED BY <2>1, <2>2 DEF TabOk, Done
<1> QED BY <1>1 DEF DashboardInv, TabOk, Done

\* Only the tab changes.
LEMMA TabAlone ==
  ASSUME DashboardInv, UNCHANGED <<tampered, documents, active>>, NEW t \in Tabs,
         NEW y \in TabState, TabOk(y), tab' = [tab EXCEPT ![t] = y]
  PROVE  DashboardInv'
<1>1. Onward
  BY DEF documents, Onward
<1>2. TabOk(y)'
  BY <1>1, StaysOk
<1>3. DocumentsAgree'
  BY DEF documents, DashboardInv, DocumentsAgree
<1> QED BY <1>1, <1>2, <1>3, TabKeeps DEF documents, DashboardInv, DashboardTypes

LEMMA RenderedOk ==
  ASSUME DashboardInv, NEW on \in {"devis", "facture"}, on = "facture" => quote = "FACTURE"
  PROVE  /\ Rendered(on) \in TabState /\ TabOk(Rendered(on))
         /\ Rendered(on).on = on /\ Rendered(on).loading = "no" /\ Rendered(on).reply = "no"
<1> USE DEF Rendered, Tab
<1>1. Rendered(on) \in TabState
  BY DEF DashboardInv, DashboardTypes, TabState
<1> QED BY <1>1 DEF TabOk, Done, Decisions, Pressed

LEMMA PageStep ==
  ASSUME DashboardInv, NEW t \in Tabs,
         \/ \E on \in {"devis", "facture"}: Open(t, on)
         \/ Confirm(t) \/ Dismiss(t) \/ Verify(t)
         \/ \E b \in Buttons(tab[t]): Press(t, b)
  PROVE  DashboardInv'
<1> DEFINE x == tab[t]
<1>0. x \in TabState /\ TabOk(x)
  BY DEF DashboardInv, DashboardTypes
<1>1. ASSUME NEW on \in {"devis", "facture"}, Open(t, on) PROVE DashboardInv'
  <2>1. on = "facture" => quote = "FACTURE"
    BY <1>1 DEF Open, DashboardInv, DocumentsAgree
  <2> QED BY <1>1, <2>1, RenderedOk, TabAlone DEF Open
<1>2. CASE Confirm(t)
  <2> DEFINE y == [x EXCEPT !.dialog = TRUE]
  <2>1. y \in TabState /\ TabOk(y)
    BY <1>0 DEF TabState, TabOk
  <2> QED BY <1>2, <2>1, TabAlone DEF Confirm
<1>3. CASE Dismiss(t)
  <2> DEFINE y == [x EXCEPT !.dialog = FALSE]
  <2>1. y \in TabState /\ TabOk(y)
    BY <1>0 DEF TabState, TabOk
  <2> QED BY <1>3, <2>1, TabAlone DEF Dismiss
<1>4. CASE Verify(t)
  <2> DEFINE y == [x EXCEPT !.verdict = IF active /\ ~tampered THEN "intact" ELSE "altered"]
  <2>1. y \in TabState /\ TabOk(y)
    BY <1>0 DEF TabState, TabOk
  <2> QED BY <1>4, <2>1, TabAlone DEF Verify
<1>5. ASSUME NEW b \in Buttons(x), Press(t, b) PROVE DashboardInv'
  <2> DEFINE y == [x EXCEPT !.loading = b, !.toast = "none"]
  <2>1. /\ b \in Pressed /\ x.loading = "no" /\ (x.on = "devis" => b # "issue")
    BY <1>0 DEF Buttons, DevisButtons, FactureButtons, Pressed, Decisions, TabState
  <2>2. x.reply = "no"
    BY <1>0, <2>1 DEF TabOk
  <2>3. y \in TabState /\ TabOk(y)
    BY <1>0, <2>1, <2>2 DEF TabState, TabOk, Done, Decisions
  <2>4. tab' = [tab EXCEPT ![t] = y]
    BY <1>5 DEF Press
  <2> QED BY <1>5, <2>3, <2>4, TabAlone DEF Press
<1> QED BY <1>1, <1>2, <1>3, <1>4, <1>5

\* What a handler does to the documents.
LEMMA Served ==
  ASSUME DashboardInv, NEW b \in Pressed \ {"resend"}, Allowed(b), Effect(b), active' = active,
         tampered' = tampered, KeyOf(b) \notin kept,
         kept' = kept \/ kept' = kept \union ({KeyOf(b)} \ {"none"})
  PROVE  /\ Onward /\ DocumentsAgree' /\ Done(b)'
         /\ quote' \in QuoteStates /\ invoice' \in InvoiceStates
         /\ decidedBy' \in {"nobody", "tab", "client"} /\ kept' \subseteq {"status", "facture"}
<1> USE DEF DashboardInv, DashboardTypes, DocumentsAgree, Onward, Done, QuoteStates, InvoiceStates,
            Decisions, Issued
<1>1. CASE b = "send"
  <2>1. /\ quote = "BROUILLON" /\ quote' = "ENVOYE" /\ invoice' = invoice /\ decidedBy' = decidedBy
        /\ kept' = kept
    BY <1>1 DEF Allowed, Effect, KeyOf
  <2> QED BY <1>1, <2>1
<1>2. CASE b \in Decisions
  <2>1. /\ quote = "ENVOYE" /\ quote' = b /\ invoice' = invoice /\ decidedBy' = "tab"
        /\ kept' = kept \/ kept' = kept \union {"status"}
    BY <1>2 DEF Allowed, Effect, KeyOf
  <2> QED BY <1>2, <2>1
<1>3. CASE b \in {"facture", "facture-issue"}
  <2>1. /\ quote = "ACCEPTE" /\ quote' = "FACTURE" /\ invoice' = "BROUILLON" /\ decidedBy' = decidedBy
        /\ kept' = kept \/ kept' = kept \union {"facture"}
    BY <1>3 DEF Allowed, Effect, KeyOf
  <2> QED BY <1>3, <2>1
<1>4. CASE b = "issue"
  <2>1. /\ invoice = "BROUILLON" /\ quote' = quote /\ invoice' = "EMISE" /\ decidedBy' = decidedBy
        /\ kept' = kept
    BY <1>4 DEF Allowed, Effect, KeyOf
  <2> QED BY <1>4, <2>1
<1>5. CASE b = "cancel"
  <2>1. /\ invoice = "BROUILLON" /\ quote' = quote /\ invoice' = "ANNULEE" /\ decidedBy' = decidedBy
        /\ kept' = kept
    BY <1>5 DEF Allowed, Effect, KeyOf
  <2> QED BY <1>5, <2>1
<1>6. CASE b = "pay"
  <2>1. /\ invoice = "EMISE" /\ quote' = quote /\ invoice' = "PAYEE" /\ decidedBy' = decidedBy
        /\ kept' = kept
    BY <1>6 DEF Allowed, Effect, KeyOf
  <2> QED BY <1>6, <2>1
<1> QED BY <1>1, <1>2, <1>3, <1>4, <1>5, <1>6 DEF Pressed

\* An answer that is not a success claims nothing.
LEMMA RouteStep ==
  ASSUME DashboardInv, NEW t \in Tabs,
         Serve(t) \/ ResendLink(t) \/ Replay(t) \/ Deny(t) \/ LoseReply(t)
  PROVE  DashboardInv'
<1> DEFINE x == tab[t]
           y(answer) == [x EXCEPT !.reply = answer]
<1>0. x \in TabState /\ TabOk(x)
  BY DEF DashboardInv, DashboardTypes
<1>1. \A answer \in {"ok", "error", "lost"}:
          /\ y(answer) \in TabState
          /\ x.loading # "no" /\ (answer = "ok" => Done(x.loading)) => TabOk(y(answer))
  BY <1>0 DEF TabState, TabOk
<1>2. CASE Serve(t)
  <2> DEFINE b == x.loading
  <2>1. /\ b \in Pressed \ {"resend"} /\ Allowed(b) /\ Effect(b) /\ active' = active
        /\ tampered' = tampered /\ KeyOf(b) \notin kept
        /\ kept' = kept \/ kept' = kept \union ({KeyOf(b)} \ {"none"})
        /\ tab' = [tab EXCEPT ![t] = y("ok")]
    BY <1>0, <1>2 DEF Serve, Waiting, Reply, TabState
  <2>2. PICK z: z = y("ok")
    OBVIOUS
  <2>3. PICK w: w = x
    OBVIOUS
  <2>4. /\ Onward /\ DocumentsAgree' /\ Done(w.loading)'
        /\ quote' \in QuoteStates /\ invoice' \in InvoiceStates
        /\ decidedBy' \in {"nobody", "tab", "client"} /\ kept' \subseteq {"status", "facture"}
    <3>1. PICK c \in Pressed \ {"resend"}: c = b
      BY <2>1
    <3>2. Onward /\ DocumentsAgree' /\ Done(c)'
      BY <2>1, <3>1, Served
    <3>3. /\ quote' \in QuoteStates /\ invoice' \in InvoiceStates
          /\ decidedBy' \in {"nobody", "tab", "client"} /\ kept' \subseteq {"status", "facture"}
      BY <2>1, Served
    <3>4. w.loading = c
      BY <2>3, <3>1
    <3> QED BY <3>2, <3>3, <3>4 DEF Done
  <2>5. TabOk(w)'
    BY <1>0, <2>3, <2>4, StaysOk
  <2>6. /\ z \in TabState /\ z.on = w.on /\ z.sees = w.sees /\ z.loading = w.loading
        /\ z.toast = w.toast /\ z.verdict = w.verdict /\ w.loading # "no"
    BY <1>0, <1>1, <2>1, <2>2, <2>3 DEF TabState, Pressed, Decisions
  <2>7. TabOk(z)'
    BY <2>4, <2>5, <2>6 DEF TabOk, Done
  <2>8. active' \in BOOLEAN
    BY <2>1 DEF DashboardInv, DashboardTypes
  <2> QED BY <2>1, <2>2, <2>4, <2>6, <2>7, <2>8, TabKeeps
<1>3. CASE ResendLink(t)
  <2>1. Done(x.loading) /\ x.loading # "no"
    BY <1>3 DEF ResendLink, Readable, Done, Decisions
  <2> QED BY <1>1, <1>3, <2>1, TabAlone DEF ResendLink, Reply
<1>4. CASE Replay(t)
  <2>1. x.loading # "no" /\ KeyOf(x.loading) \in kept
    BY <1>4 DEF Replay, Waiting
  <2>2. Done(x.loading)
    BY <2>1 DEF DashboardInv, DashboardTypes, DocumentsAgree, KeyOf, Done, Decisions
  <2> QED BY <1>1, <1>4, <2>1, <2>2, TabAlone DEF Replay, Reply
<1>5. CASE Deny(t)
  <2>1. x.loading # "no"
    BY <1>5 DEF Deny, Waiting
  <2> QED BY <1>1, <1>5, <2>1, TabAlone DEF Deny, Reply
<1>6. CASE LoseReply(t)
  <2>1. x.loading # "no"
    BY <1>0, <1>6 DEF LoseReply, Waiting, TabOk
  <2> QED BY <1>1, <1>6, <2>1, TabAlone DEF LoseReply, Reply
<1> QED BY <1>2, <1>3, <1>4, <1>5, <1>6

LEMMA AnswerStep ==
  ASSUME DashboardInv, NEW t \in Tabs, Answered(t) \/ FactureMade(t) \/ IssueNowAnswered(t)
  PROVE  DashboardInv'
<1> DEFINE x == tab[t]
           b == x.loading
           seen(on) == Rendered(on)
<1>0. x \in TabState /\ TabOk(x)
  BY DEF DashboardInv, DashboardTypes
<1>1. \A toast \in Pressed \union {"none", "error"}:
          Done(toast) => Refreshed(t, toast) \in TabState /\ TabOk(Refreshed(t, toast))
  <2> SUFFICES ASSUME NEW toast \in Pressed \union {"none", "error"}, Done(toast)
               PROVE  Refreshed(t, toast) \in TabState /\ TabOk(Refreshed(t, toast))
    OBVIOUS
  <2>1. CASE toast = "error" \/ toast = "resend"
    <3>1. PICK r \in BOOLEAN: r = (x.resent \/ toast = "resend")
      OBVIOUS
    <3> DEFINE y == [x EXCEPT !.loading = "no", !.reply = "no", !.dialog = FALSE,
                              !.toast = toast, !.resent = r]
    <3>2. Refreshed(t, toast) = y
      BY <2>1, <3>1 DEF Refreshed
    <3>3. y \in TabState
      BY <1>0 DEF TabState
    <3>4. /\ y.on = x.on /\ y.sees = x.sees /\ y.loading = "no" /\ y.reply = "no" /\ y.toast = toast
          /\ y.verdict = x.verdict
      BY <1>0 DEF TabState
    <3> HIDE DEF y
    <3> QED BY <1>0, <3>2, <3>3, <3>4 DEF TabOk
  <2>2. CASE ~(toast = "error" \/ toast = "resend")
    <3>1. x.on \in {"devis", "facture"} /\ (x.on = "facture" => quote = "FACTURE")
      BY <1>0 DEF TabState, TabOk
    <3>2. seen(x.on) \in TabState /\ TabOk(seen(x.on)) /\ seen(x.on).loading = "no" /\ seen(x.on).reply = "no"
      BY <3>1, RenderedOk
    <3>3. PICK o: o = seen(x.on)
      OBVIOUS
    <3>4. PICK v \in {"none", "intact", "altered"}, r \in BOOLEAN: v = x.verdict /\ r = x.resent
      BY <1>0 DEF TabState
    <3> DEFINE y == [o EXCEPT !.toast = toast, !.verdict = v, !.resent = r]
    <3>5. Refreshed(t, toast) = y
      BY <2>2, <3>3, <3>4 DEF Refreshed
    <3> HIDE DEF seen
    <3>6. y \in TabState
      <4>1. o \in TabState
        BY <3>2, <3>3
      <4> QED BY <4>1 DEF TabState
    <3>7. /\ y.on = o.on /\ y.sees = o.sees /\ y.loading = "no" /\ y.reply = "no" /\ y.toast = toast
          /\ y.verdict = x.verdict
      BY <3>2, <3>3, <3>4 DEF TabState
    <3> HIDE DEF y
    <3> QED BY <1>0, <3>2, <3>3, <3>5, <3>6, <3>7 DEF TabOk
  <2> QED BY <2>1, <2>2
<1>2. ASSUME NEW toast \in Pressed, Done(toast), quote = "FACTURE"
      PROVE  LET y == [Rendered("facture") EXCEPT !.toast = toast] IN y \in TabState /\ TabOk(y)
  <2>1. seen("facture") \in TabState /\ TabOk(seen("facture"))
    BY <1>2, RenderedOk
  <2> HIDE DEF seen
  <2>2. LET y == [seen("facture") EXCEPT !.toast = toast] IN y \in TabState /\ TabOk(y)
    BY <1>2, <2>1 DEF TabState, TabOk, Done
  <2> QED BY <2>2 DEF seen
<1>3. CASE Answered(t)
  <2>1. Told(b, x.reply) \in Pressed \union {"none", "error"} /\ Done(Told(b, x.reply))
    BY <1>0, <1>3 DEF Answered, Told, TabState, TabOk, Done, Pressed, Decisions
  <2> QED BY <1>1, <1>3, <2>1, TabAlone DEF Answered
<1>4. CASE FactureMade(t)
  <2>1. CASE x.reply = "error"
    <3>1. Done("error")
      BY DEF Done, Decisions
    <3> QED BY <1>1, <1>4, <2>1, <3>1, TabAlone DEF FactureMade
  <2>2. CASE x.reply = "ok"
    <3>1. quote = "FACTURE" /\ b \in {"facture", "facture-issue"} /\ Done(b)
      BY <1>0, <1>4, <2>2 DEF FactureMade, TabOk, Done
    <3>2. CASE b = "facture"
      <4>1. tab' = [tab EXCEPT ![t] = [Rendered("facture") EXCEPT !.toast = b]]
        BY <1>4, <2>2, <3>2 DEF FactureMade
      <4>2. b \in Pressed
        BY <3>2 DEF Pressed
      <4> QED BY <1>2, <1>4, <3>1, <4>1, <4>2, TabAlone DEF FactureMade
    <3>3. CASE b = "facture-issue"
      <4> DEFINE y == [x EXCEPT !.loading = "issue", !.reply = "no"]
      <4>1. /\ y \in TabState /\ y.on = x.on /\ y.sees = x.sees /\ y.loading = "issue"
            /\ y.reply = "no" /\ y.toast = x.toast /\ y.verdict = x.verdict
        BY <1>0 DEF TabState, Pressed
      <4>2. TabOk(y)
        <5> HIDE DEF y
        <5> QED BY <1>0, <3>1, <4>1 DEF TabOk
      <4>3. tab' = [tab EXCEPT ![t] = y]
        BY <1>4, <2>2, <3>3 DEF FactureMade
      <4> QED BY <1>4, <4>1, <4>2, <4>3, TabAlone DEF FactureMade
    <3> QED BY <3>1, <3>2, <3>3
  <2> QED BY <1>4, <2>1, <2>2 DEF FactureMade
<1>5. CASE IssueNowAnswered(t)
  <2> DEFINE toast == IF x.reply = "ok" THEN "issue" ELSE "facture"
  <2>1. quote = "FACTURE" /\ Done(toast) /\ toast \in Pressed
    BY <1>0, <1>5 DEF IssueNowAnswered, TabOk, Done, Pressed, Decisions
  <2>2. tab' = [tab EXCEPT ![t] = [Rendered("facture") EXCEPT !.toast = toast]]
    BY <1>5 DEF IssueNowAnswered
  <2> HIDE DEF toast
  <2> QED BY <1>2, <1>5, <2>1, <2>2, TabAlone DEF IssueNowAnswered
<1> QED BY <1>3, <1>4, <1>5

LEMMA DashboardStep == DashboardInv /\ [Next]_vars => DashboardInv'
<1> SUFFICES ASSUME DashboardInv, [Next]_vars PROVE DashboardInv'
  OBVIOUS
<1> USE DEF DashboardTypes, DocumentsAgree, Onward
<1>1. CASE UNCHANGED dashboardVars
  BY <1>1, DocumentsKeep DEF dashboardVars, documents, DashboardInv
<1>2. ASSUME NEW k \in kept, ForgetAnswer(k) PROVE DashboardInv'
  BY <1>2, DocumentsKeep DEF ForgetAnswer, DashboardInv
<1>3. ASSUME NEW s \in Decisions, ClientDecides(s) PROVE DashboardInv'
  BY <1>3, DocumentsKeep DEF ClientDecides, DashboardInv, QuoteStates, Decisions
<1>4. CASE Lapse
  BY <1>4, DocumentsKeep DEF Lapse, documents, DashboardInv
<1>5. ASSUME NEW t \in Tabs, Act(t) PROVE DashboardInv'
  BY <1>5, PageStep, RouteStep, AnswerStep DEF Act
<1> QED BY <1>1, <1>2, <1>3, <1>4, <1>5, Parts DEF DashboardNext

\* What a tab tells is so, whatever other tabs and the client do meanwhile: a document told
\* as sent, made or issued is; a decision told against the one taken is the replay of the
\* other button's answer (DevisActions.tsx, FactureSharePanel.tsx).
THEOREM TabsTellTheTruth == Spec => []ToldIsTrue
<1>1. ASSUME DashboardInv PROVE ToldIsTrue
  <2> SUFFICES ASSUME NEW t \in Tabs, NEW told, told = tab[t].toast
               PROVE  /\ told = "send" => quote # "BROUILLON"
                      /\ told \in Decisions => decidedBy = "tab"
                      /\ told \in {"facture", "issue"} => quote = "FACTURE" /\ invoice # "none"
                      /\ told = "issue" => invoice \in Issued
                      /\ told = "resend" \/ (tab[t].on = "facture" /\ ShareUrl(tab[t])) => Readable
                      /\ tab[t].verdict = "intact" => ~tampered
                      /\ tab[t].verdict = "altered" => tampered \/ ~active
    BY DEF ToldIsTrue, Decisions
  <2>1. TabOk(tab[t]) /\ DocumentsAgree
    BY <1>1 DEF DashboardInv
  <2> QED BY <2>1 DEF TabOk, Done, DocumentsAgree, ShareUrl, Readable
<1> QED BY <1>1, DashboardFirst, DashboardStep, PTL DEF Spec

-----------------------------------------------------------------------------
(* The drafts.  What a call carries tells who carries it: the form what    *)
(* was never kept, a flush what was queued, a claim what was saved.  A     *)
(* content that has its quote, and no excuse for a second one, is carried  *)
(* by the call that made it or rests nowhere.                              *)

Origins == {"none", "form", "queued", "typed", "saved"}
CallState ==
    [pc: {"idle", "client", "sign", "post", "made", "refused"},
     todo: Seq(Docs), sig: Docs \union {Null}]
StoredDrafts == [doc: Docs, sig: Docs \union {Null}]

Distinct(s) == \A i, j \in DOMAIN s: s[i] = s[j] => i = j

DraftsTypes ==
    /\ invalid \subseteq Docs /\ excused \subseteq Docs /\ displaced \subseteq Docs
    /\ origin \in [Docs -> Origins]
    /\ form \in Docs \union {Null} /\ typed \in Docs \union {Null}
    /\ queue \in Seq(Docs)
    /\ stored \in StoredDrafts \union {Null}
    /\ signing \in [Signers -> Docs \union {Null}]
    /\ calls \in [Callers -> CallState]
    /\ quotes \in [Docs -> Nat]

\* Where a content is tells its origin; a stored signature is its own.
Places ==
    /\ form # Null => origin[form] = "form"
    /\ typed # Null => origin[typed] \in {"typed", "saved"}
    /\ dirty => typed # Null
    /\ \A d \in ToSet(queue): origin[d] = "queued"
    /\ Distinct(queue)
    /\ stored # Null => origin[stored.doc] = "saved" /\ stored.sig \in {Null, stored.doc}
    /\ \A s \in Signers: signing[s] # Null => origin[signing[s]] = "saved"

OriginOf(c) == IF c = FormCall THEN "form" ELSE IF c \in Flushes THEN "queued" ELSE "saved"
Carries(c, d) == ~At(c, "idle") /\ d \in ToSet(calls[c].todo)

CallOk(c) == ~At(c, "idle") =>
    /\ calls[c].todo # << >> /\ Distinct(calls[c].todo)
    /\ \A d \in ToSet(calls[c].todo): origin[d] = OriginOf(c)
    /\ At(c, "made") => quotes[Doc(c)] > 0
    /\ c \in Claims => ~At(c, "client") /\ (At(c, "post") => calls[c].sig = Doc(c))

Rests(d) == form = d \/ d \in ToSet(queue) \/ (stored # Null /\ stored.doc = d)

Kept(d) ==
    /\ origin[d] \in {"none", "typed"} => quotes[d] = 0
    /\ quotes[d] = 0 =>
           /\ origin[d] = "queued" => d \in ToSet(queue)
           /\ origin[d] = "saved" /\ d \notin invalid \union displaced =>
                  stored # Null /\ stored.doc = d

MadeOnce(d) == d \notin excused =>
    /\ \A b, c \in Callers: Carries(b, d) /\ Carries(c, d) => b = c
    /\ quotes[d] > 0 =>
           /\ quotes[d] = 1
           /\ \A c \in Callers: Carries(c, d) => At(c, "made") /\ Doc(c) = d
           /\ Rests(d) => \E c \in Callers: Carries(c, d)

DraftsInv ==
    /\ DraftsTypes /\ Places
    /\ \A c \in Callers: CallOk(c)
    /\ \A d \in Docs: Kept(d) /\ MadeOnce(d)

\* One element is taken out of a sequence.
LEMMA Taken ==
  ASSUME NEW S, NEW s \in Seq(S), NEW i \in 1 .. Len(s)
  PROVE  /\ RemoveAt(s, i) \in Seq(S) /\ Len(RemoveAt(s, i)) = Len(s) - 1
         /\ \A j \in 1 .. (Len(s) - 1): RemoveAt(s, i)[j] = IF j < i THEN s[j] ELSE s[j + 1]
<1> DEFINE a == SubSeq(s, 1, i - 1)
           b == SubSeq(s, i + 1, Len(s))
<1>1. /\ a \in Seq(S) /\ Len(a) = i - 1 /\ \A j \in 1 .. (i - 1): a[j] = s[j]
  <2>1. /\ a \in Seq(S) /\ Len(a) = (IF 1 <= i - 1 THEN (i - 1) - 1 + 1 ELSE 0)
        /\ \A j \in 1 .. ((i - 1) - 1 + 1): a[j] = s[1 + j - 1]
    BY SubSeqProperties
  <2> HIDE DEF a
  <2> QED BY <2>1
<1>2. /\ b \in Seq(S) /\ Len(b) = Len(s) - i /\ \A j \in 1 .. (Len(s) - i): b[j] = s[i + j]
  <2>1. /\ b \in Seq(S) /\ Len(b) = (IF i + 1 <= Len(s) THEN Len(s) - (i + 1) + 1 ELSE 0)
        /\ \A j \in 1 .. (Len(s) - (i + 1) + 1): b[j] = s[(i + 1) + j - 1]
    BY SubSeqProperties
  <2> HIDE DEF b
  <2> QED BY <2>1
<1> HIDE DEF a, b
<1>3. /\ a \o b \in Seq(S) /\ Len(a \o b) = Len(a) + Len(b)
      /\ \A j \in 1 .. (Len(a) + Len(b)): (a \o b)[j] = IF j <= Len(a) THEN a[j] ELSE b[j - Len(a)]
  BY <1>1, <1>2, ConcatProperties
<1>4. RemoveAt(s, i) = a \o b
  BY DEF RemoveAt, a, b
<1>5. ASSUME NEW j \in 1 .. (Len(s) - 1)
      PROVE  (a \o b)[j] = IF j < i THEN s[j] ELSE s[j + 1]
  <2>1. CASE j < i
    <3>1. j \in 1 .. (i - 1) /\ j \in 1 .. (Len(a) + Len(b)) /\ j <= Len(a)
      BY <1>1, <1>2, <2>1
    <3>2. (a \o b)[j] = a[j] /\ a[j] = s[j]
      BY <1>1, <1>3, <3>1
    <3> QED BY <2>1, <3>2
  <2>2. CASE j >= i
    <3>1. j - Len(a) \in 1 .. (Len(s) - i) /\ i + (j - Len(a)) = j + 1 /\ j > Len(a)
          /\ j \in 1 .. (Len(a) + Len(b))
      BY <1>1, <1>2, <2>2
    <3>2. (a \o b)[j] = b[j - Len(a)]
      BY <1>1, <1>2, <1>3, <3>1
    <3>3. b[j - Len(a)] = s[j + 1]
      BY <1>2, <3>1
    <3>4. ~(j < i)
      BY <2>2
    <3> QED BY <3>2, <3>3, <3>4
  <2>3. j < i \/ j >= i
    OBVIOUS
  <2> QED BY <2>1, <2>2, <2>3
<1>6. Len(a \o b) = Len(s) - 1
  BY <1>1, <1>2, <1>3
<1> QED BY <1>3, <1>4, <1>5, <1>6

LEMMA NoneIn == ToSet(<< >>) = {} /\ Distinct(<< >>)
  BY DEF ToSet, Distinct

LEMMA OneIn == \A d: ToSet(<<d>>) = {d} /\ Distinct(<<d>>) /\ Head(<<d>>) = d /\ <<d>> # << >>
  BY DEF ToSet, Distinct

LEMMA SetOf ==
  ASSUME NEW S, NEW s \in Seq(S)
  PROVE  /\ ToSet(s) \in SUBSET S
         /\ \A d \in S: /\ Append(s, d) \in Seq(S) /\ ToSet(Append(s, d)) = ToSet(s) \union {d}
                        /\ Distinct(s) /\ d \notin ToSet(s) => Distinct(Append(s, d))
<1>1. ToSet(s) \in SUBSET S
  BY DEF ToSet
<1>2. ASSUME NEW d \in S
      PROVE  /\ Append(s, d) \in Seq(S) /\ ToSet(Append(s, d)) = ToSet(s) \union {d}
             /\ Distinct(s) /\ d \notin ToSet(s) => Distinct(Append(s, d))
  <2>1. PICK t: t = Append(s, d)
    OBVIOUS
  <2>2. /\ t \in Seq(S) /\ DOMAIN t = 1 .. (Len(s) + 1) /\ DOMAIN s = 1 .. Len(s) /\ Len(s) \in Nat
        /\ t[Len(s) + 1] = d /\ \A i \in 1 .. Len(s): t[i] = s[i]
    BY <2>1
  <2>3. ToSet(t) = ToSet(s) \union {d}
    BY <2>2 DEF ToSet
  <2>4. Distinct(s) /\ d \notin ToSet(s) => Distinct(t)
    BY <2>2 DEF ToSet, Distinct
  <2> QED BY <2>1, <2>2, <2>3, <2>4
<1> QED BY <1>1, <1>2

LEMMA HeadAndTail ==
  ASSUME NEW S, NEW s \in Seq(S), s # << >>
  PROVE  /\ Head(s) \in S /\ Tail(s) \in Seq(S) /\ ToSet(s) = {Head(s)} \union ToSet(Tail(s))
         /\ Distinct(s) => Distinct(Tail(s)) /\ Head(s) \notin ToSet(Tail(s))
<1>1. PICK t: t = Tail(s)
  OBVIOUS
<1>2. /\ t \in Seq(S) /\ Len(s) \in Nat /\ Len(s) >= 1 /\ DOMAIN s = 1 .. Len(s) /\ Head(s) = s[1]
      /\ DOMAIN t = 1 .. (Len(s) - 1) /\ (\A i \in 1 .. (Len(s) - 1): t[i] = s[i + 1]) /\ s[1] \in S
  BY <1>1, HeadTailProperties, EmptySeq
<1>3. ToSet(s) = {s[1]} \union ToSet(t)
  <2>1. ASSUME NEW i \in DOMAIN s PROVE s[i] \in {s[1]} \union ToSet(t)
    <3>1. CASE i = 1
      BY <3>1
    <3>2. CASE i # 1
      <4>1. i - 1 \in DOMAIN t /\ t[i - 1] = s[i]
        BY <1>2, <3>2
      <4> QED BY <4>1 DEF ToSet
    <3> QED BY <3>1, <3>2
  <2>2. ASSUME NEW i \in DOMAIN t PROVE t[i] \in ToSet(s)
    <3>1. i + 1 \in DOMAIN s /\ t[i] = s[i + 1]
      BY <1>2
    <3> QED BY <3>1 DEF ToSet
  <2>3. s[1] \in ToSet(s)
    BY <1>2 DEF ToSet
  <2> QED BY <2>1, <2>2, <2>3 DEF ToSet
<1>4. ASSUME Distinct(s) PROVE Distinct(t) /\ s[1] \notin ToSet(t)
  <2>1. \A i \in DOMAIN t: i + 1 \in DOMAIN s /\ t[i] = s[i + 1] /\ i + 1 # 1 /\ i \in Nat
    BY <1>2
  <2>2. 1 \in DOMAIN s
    BY <1>2
  <2>3. \A i, j \in DOMAIN t: t[i] = t[j] => i = j
    BY <1>4, <2>1 DEF Distinct
  <2>4. \A i \in DOMAIN t: t[i] # s[1]
    BY <1>4, <2>1, <2>2 DEF Distinct
  <2> QED BY <2>3, <2>4 DEF ToSet, Distinct
<1> QED BY <1>1, <1>2, <1>3, <1>4

LEMMA WithoutOne ==
  ASSUME NEW s \in Seq(Docs), NEW d
  PROVE  /\ Without(s, d) \in Seq(Docs)
         /\ ToSet(Without(s, d)) \subseteq ToSet(s)
         /\ ToSet(s) \ {d} \subseteq ToSet(Without(s, d))
         /\ Distinct(s) => Distinct(Without(s, d)) /\ d \notin ToSet(Without(s, d))
<1>1. CASE d \notin ToSet(s)
  BY <1>1 DEF Without
<1>2. CASE d \in ToSet(s)
  <2>1. PICK i \in DOMAIN s: s[i] = d /\ Without(s, d) = RemoveAt(s, i)
    <3>1. \E i \in DOMAIN s: s[i] = d
      BY <1>2 DEF ToSet
    <3> QED BY <1>2, <3>1 DEF Without
  <2>2. DOMAIN s = 1 .. Len(s) /\ Len(s) \in Nat
    OBVIOUS
  <2>3. PICK t: t = RemoveAt(s, i)
    OBVIOUS
  <2>4. /\ t \in Seq(Docs) /\ DOMAIN t = 1 .. (Len(s) - 1)
        /\ \A j \in 1 .. (Len(s) - 1): t[j] = IF j < i THEN s[j] ELSE s[j + 1]
    <3>1. /\ t \in Seq(Docs) /\ Len(t) = Len(s) - 1
          /\ \A j \in 1 .. (Len(s) - 1): t[j] = IF j < i THEN s[j] ELSE s[j + 1]
      <4>1. i \in 1 .. Len(s)
        BY <2>2
      <4> QED BY <2>3, <4>1, Taken
    <3> QED BY <3>1
  <2>5. ToSet(t) \subseteq ToSet(s)
    BY <2>2, <2>4 DEF ToSet
  <2>6. ToSet(s) \ {d} \subseteq ToSet(t)
    <3> SUFFICES ASSUME NEW j \in DOMAIN s, s[j] # d PROVE s[j] \in ToSet(t)
      BY DEF ToSet
    <3>1. CASE j < i
      BY <2>1, <2>2, <2>4, <3>1 DEF ToSet
    <3>2. CASE j > i
      <4>1. j - 1 \in 1 .. (Len(s) - 1) /\ t[j - 1] = s[j]
        BY <2>1, <2>2, <2>4, <3>2
      <4> QED BY <2>4, <4>1 DEF ToSet
    <3> QED BY <2>1, <2>2, <3>1, <3>2
  <2>7. ASSUME Distinct(s) PROVE Distinct(t) /\ d \notin ToSet(t)
    <3> DEFINE k(j) == IF j < i THEN j ELSE j + 1
    <3>1. \A j \in DOMAIN t: j \in Nat /\ k(j) \in DOMAIN s /\ t[j] = s[k(j)] /\ k(j) # i
      BY <2>1, <2>2, <2>4
    <3>2. \A j, l \in Nat: k(j) = k(l) => j = l
      BY <2>1, <2>2
    <3> HIDE DEF k
    <3>3. \A j, l \in DOMAIN t: t[j] = t[l] => j = l
      BY <2>7, <3>1, <3>2 DEF Distinct
    <3>4. \A j \in DOMAIN t: t[j] # d
      BY <2>1, <2>7, <3>1 DEF Distinct
    <3> QED BY <3>3, <3>4 DEF ToSet, Distinct
  <2> QED BY <2>1, <2>3, <2>4, <2>5, <2>6, <2>7
<1> QED BY <1>1, <1>2

-----------------------------------------------------------------------------
(* What a step of the drafts leaves as it is                               *)

Grown == \A d \in Docs: quotes'[d] \in Nat /\ quotes'[d] >= quotes[d]

LEMMA CallStays ==
  ASSUME DraftsTypes, Grown, NEW b \in Callers, CallOk(b), calls'[b] = calls[b],
         \A d \in Docs: Carries(b, d) => origin'[d] = origin[d]
  PROVE  CallOk(b)'
<1>1. calls[b] \in CallState
  BY DEF DraftsTypes
<1>2. ~At(b, "idle") => Doc(b) \in ToSet(calls[b].todo) /\ ToSet(calls[b].todo) \subseteq Docs
  BY <1>1, HeadAndTail, SetOf DEF CallState, CallOk, Doc
<1> QED
  BY <1>1, <1>2 DEF CallOk, At, Doc, Carries, Grown, DraftsTypes

\* No other call comes to carry a content, and what has its quote rests nowhere new.
LEMMA OnceStays ==
  ASSUME NEW d \in Docs, MadeOnce(d), d \notin excused' => d \notin excused, quotes'[d] = quotes[d],
         d \notin excused' => \A c \in Callers: Carries(c, d)' =>
             Carries(c, d) /\ (At(c, "made") /\ Doc(c) = d => At(c, "made")' /\ Doc(c)' = d),
         d \notin excused' /\ quotes[d] > 0 /\ Rests(d)' =>
             Rests(d) /\ \A c \in Callers: Carries(c, d) => Carries(c, d)'
  PROVE  MadeOnce(d)'
<1> SUFFICES ASSUME d \notin excused'
             PROVE  /\ \A b, c \in Callers: Carries(b, d)' /\ Carries(c, d)' => b = c
                    /\ quotes'[d] > 0 =>
                        /\ quotes'[d] = 1
                        /\ \A c \in Callers: Carries(c, d)' => At(c, "made")' /\ Doc(c)' = d
                        /\ Rests(d)' => \E c \in Callers: Carries(c, d)'
  BY DEF MadeOnce
<1> QED BY DEF MadeOnce

\* A content that nobody carried and that has no quote goes with one call.
LEMMA OnceBegins ==
  ASSUME NEW d \in Docs, quotes'[d] = 0,
         d \notin excused' => \A b, c \in Callers: Carries(b, d)' /\ Carries(c, d)' => b = c
  PROVE  MadeOnce(d)'
  BY DEF MadeOnce

-----------------------------------------------------------------------------
(* The server and the logged-in form                                       *)

LEMMA OneCall ==
  ASSUME DraftsTypes, NEW c \in Callers, NEW k \in CallState, calls' = [calls EXCEPT ![c] = k]
  PROVE  /\ calls' \in [Callers -> CallState] /\ calls'[c] = k
         /\ \A b \in Callers \ {c}: calls'[b] = calls[b]
  BY DEF DraftsTypes

LEMMA DocCarried ==
  ASSUME DraftsTypes, NEW c \in Callers, CallOk(c), ~At(c, "idle")
  PROVE  /\ calls[c] \in CallState /\ calls[c].todo # << >>
         /\ Doc(c) \in Docs /\ Doc(c) \in ToSet(calls[c].todo) /\ Carries(c, Doc(c))
         /\ ToSet(calls[c].todo) \subseteq Docs
<1>1. calls[c] \in CallState /\ calls[c].todo # << >> /\ calls[c].todo \in Seq(Docs)
  BY DEF DraftsTypes, CallOk, CallState
<1> QED BY <1>1, HeadAndTail, SetOf DEF Doc, Carries

\* A call changes, and with it no place but the form.
LEMMA CallsOnly ==
  ASSUME DraftsInv, NEW c \in Callers, NEW k \in CallState, calls' = [calls EXCEPT ![c] = k],
         UNCHANGED <<invalid, origin, queue, typed, dirty, stored, signing, displaced>>,
         form' \in {form, Null}, Grown, quotes' \in [Docs -> Nat],
         \A d \in Docs: origin[d] \in {"none", "typed"} => quotes'[d] = quotes[d],
         excused \subseteq excused', excused' \subseteq Docs,
         CallOk(c)', \A d \in Docs: MadeOnce(d)'
  PROVE  DraftsInv'
<1>1. DraftsTypes'
  BY OneCall DEF DraftsInv, DraftsTypes
<1>2. Places'
  BY DEF DraftsInv, Places
<1>3. ASSUME NEW b \in Callers PROVE CallOk(b)'
  <2>1. CASE b = c
    BY <2>1
  <2>2. CASE b # c
    BY <2>2, OneCall, CallStays DEF DraftsInv
  <2> QED BY <2>1, <2>2
<1>4. ASSUME NEW d \in Docs PROVE Kept(d)'
  BY DEF DraftsInv, DraftsTypes, Kept, Grown
<1> QED BY <1>1, <1>2, <1>3, <1>4 DEF DraftsInv

\* A call that goes on with the same contents.
LEMMA CallGoesOn ==
  ASSUME DraftsInv, NEW c \in Callers, ~At(c, "idle"),
         NEW pc \in {"client", "sign", "post", "made", "refused"},
         c \in Claims => pc \notin {"client", "post"},
         pc = "made" => quotes'[Doc(c)] > 0,
         calls' = [calls EXCEPT ![c].pc = pc], Grown, UNCHANGED origin
  PROVE  /\ [calls[c] EXCEPT !.pc = pc] \in CallState
         /\ calls' = [calls EXCEPT ![c] = [calls[c] EXCEPT !.pc = pc]]
         /\ CallOk(c)' /\ Doc(c)' = Doc(c) /\ calls'[c].pc = pc
         /\ \A b \in Callers: \A d \in Docs: Carries(b, d)' <=> Carries(b, d)
         /\ \A b \in Callers \ {c}: calls'[b] = calls[b]
<1>1. calls[c] \in CallState /\ CallOk(c) /\ calls \in [Callers -> CallState]
  BY DEF DraftsInv, DraftsTypes
<1>2. PICK k: k = [calls[c] EXCEPT !.pc = pc]
  OBVIOUS
<1>3. k \in CallState /\ k.pc = pc /\ k.todo = calls[c].todo /\ k.sig = calls[c].sig
  BY <1>1, <1>2 DEF CallState
<1>4. calls' = [calls EXCEPT ![c] = k] /\ calls'[c] = k
  BY <1>1, <1>2
<1>5. \A b \in Callers \ {c}: calls'[b] = calls[b]
  BY <1>1, <1>4
<1>6. \A b \in Callers: \A d \in Docs: Carries(b, d)' <=> Carries(b, d)
  BY <1>3, <1>4, <1>5 DEF Carries, At
<1>7. CallOk(c)'
  BY <1>1, <1>3, <1>4 DEF CallOk, At, Doc
<1>8. Doc(c)' = Doc(c) /\ calls'[c].pc = pc
  BY <1>3, <1>4 DEF Doc
<1> QED BY <1>2, <1>3, <1>4, <1>5, <1>6, <1>7, <1>8

LEMMA MakeClientKeeps ==
  ASSUME DraftsInv, NEW c \in Callers, MakeClient(c), invalid' = invalid
  PROVE  DraftsInv'
<1>1. /\ At(c, "client") /\ ~At(c, "idle") /\ calls' = [calls EXCEPT ![c].pc = "post"]
      /\ UNCHANGED <<origin, queue, form, typed, dirty, stored, signing, displaced, quotes, excused>>
  BY DEF MakeClient, browser, guest, At
<1>2. Grown /\ c \notin Claims /\ quotes' \in [Docs -> Nat] /\ excused' \subseteq Docs
  BY <1>1 DEF Grown, DraftsInv, DraftsTypes, CallOk
<1>3. /\ [calls[c] EXCEPT !.pc = "post"] \in CallState
      /\ calls' = [calls EXCEPT ![c] = [calls[c] EXCEPT !.pc = "post"]]
      /\ CallOk(c)' /\ Doc(c)' = Doc(c)
      /\ \A b \in Callers: \A d \in Docs: Carries(b, d)' <=> Carries(b, d)
      /\ \A b \in Callers \ {c}: calls'[b] = calls[b]
  BY <1>1, <1>2, CallGoesOn
<1>4. ASSUME NEW d \in Docs PROVE MadeOnce(d)'
  <2>1. \A b \in Callers: At(b, "made") => At(b, "made")' /\ Doc(b)' = Doc(b)
    BY <1>1, <1>3 DEF At, Doc
  <2>2. Rests(d)' <=> Rests(d)
    BY <1>1 DEF Rests
  <2> QED BY <1>1, <1>3, <2>1, <2>2, OnceStays DEF DraftsInv
<1> QED BY <1>1, <1>2, <1>3, <1>4, CallsOnly

LEMMA RefuseKeeps ==
  ASSUME DraftsInv, NEW c \in Callers, Refuse(c) \/ LoseAnswer(c), invalid' = invalid
  PROVE  DraftsInv'
<1>1. /\ ~At(c, "idle") /\ calls' = [calls EXCEPT ![c].pc = "refused"]
      /\ UNCHANGED <<origin, queue, form, typed, dirty, stored, signing, displaced, quotes>>
      /\ excused \subseteq excused' /\ excused' \subseteq excused \union {Doc(c)}
      /\ At(c, "made") => Doc(c) \in excused'
  BY DEF Refuse, LoseAnswer, browser, guest, At
<1>2. Grown /\ quotes' \in [Docs -> Nat] /\ excused' \subseteq Docs /\ Doc(c) \in Docs
  BY <1>1, DocCarried DEF Grown, DraftsInv, DraftsTypes
<1>3. /\ [calls[c] EXCEPT !.pc = "refused"] \in CallState
      /\ calls' = [calls EXCEPT ![c] = [calls[c] EXCEPT !.pc = "refused"]]
      /\ CallOk(c)' /\ Doc(c)' = Doc(c)
      /\ \A b \in Callers: \A d \in Docs: Carries(b, d)' <=> Carries(b, d)
      /\ \A b \in Callers \ {c}: calls'[b] = calls[b]
  BY <1>1, <1>2, CallGoesOn
<1>4. ASSUME NEW d \in Docs PROVE MadeOnce(d)'
  <2>1. d \notin excused' => \A b \in Callers: At(b, "made") /\ Doc(b) = d => At(b, "made")' /\ Doc(b)' = d
    BY <1>1, <1>3 DEF At, Doc
  <2>2. Rests(d)' <=> Rests(d)
    BY <1>1 DEF Rests
  <2>3. d \notin excused' => d \notin excused
    BY <1>1
  <2> QED BY <1>1, <1>3, <2>1, <2>2, <2>3, OnceStays DEF DraftsInv
<1> QED BY <1>1, <1>2, <1>3, <1>4, CallsOnly

LEMMA MakeDevisKeeps ==
  ASSUME DraftsInv, NEW c \in Callers, MakeDevis(c), invalid' = invalid
  PROVE  DraftsInv'
<1> DEFINE made == Doc(c)
<1>0. DraftsTypes /\ Places /\ CallOk(c)
  BY DEF DraftsInv
<1>1. /\ At(c, "post") /\ ~At(c, "idle") /\ calls' = [calls EXCEPT ![c].pc = "made"]
      /\ UNCHANGED <<origin, queue, form, typed, dirty, stored, signing, displaced, excused>>
      /\ quotes' = [quotes EXCEPT ![made] = @ + 1]
  BY DEF MakeDevis, browser, guest, At
<1>2. /\ made \in Docs /\ Carries(c, made) /\ made \in ToSet(calls[c].todo)
      /\ quotes' \in [Docs -> Nat] /\ quotes'[made] = quotes[made] + 1 /\ quotes[made] \in Nat
      /\ \A d \in Docs \ {made}: quotes'[d] = quotes[d]
      /\ Grown /\ excused' \subseteq Docs
  <2>1. made \in Docs /\ Carries(c, made) /\ made \in ToSet(calls[c].todo)
    BY <1>0, <1>1, DocCarried
  <2> HIDE DEF made
  <2> QED BY <1>0, <1>1, <2>1 DEF Grown, DraftsTypes
<1>3. /\ [calls[c] EXCEPT !.pc = "made"] \in CallState
      /\ calls' = [calls EXCEPT ![c] = [calls[c] EXCEPT !.pc = "made"]]
      /\ CallOk(c)' /\ Doc(c)' = made /\ At(c, "made")'
      /\ \A b \in Callers: \A d \in Docs: Carries(b, d)' <=> Carries(b, d)
      /\ \A b \in Callers \ {c}: calls'[b] = calls[b]
  <2>1. quotes'[Doc(c)] > 0
    BY <1>2
  <2> QED BY <1>1, <1>2, <2>1, CallGoesOn DEF At
<1>4. ASSUME NEW d \in Docs PROVE MadeOnce(d)'
  <2>1. Rests(d)' <=> Rests(d)
    BY <1>1 DEF Rests
  <2>2. CASE d # made
    <3>1. \A b \in Callers: At(b, "made") => At(b, "made")' /\ Doc(b)' = Doc(b)
      BY <1>1, <1>3 DEF At, Doc
    <3> QED BY <1>1, <1>2, <1>3, <2>1, <2>2, <3>1, OnceStays DEF DraftsInv
  <2>3. CASE d = made
    <3> SUFFICES ASSUME d \notin excused PROVE MadeOnce(d)'
      BY <1>1 DEF MadeOnce
    <3>1. \A b \in Callers: Carries(b, d) => b = c
      BY <1>2, <2>3 DEF DraftsInv, MadeOnce
    <3>2. quotes[d] = 0
      <4>1. Carries(c, d) /\ ~At(c, "made") /\ MadeOnce(d) /\ quotes[d] \in Nat
        BY <1>1, <1>2, <2>3 DEF DraftsInv, At
      <4> QED BY <4>1 DEF MadeOnce
    <3>3. quotes'[d] = 1 /\ Carries(c, d)'
      BY <1>2, <1>3, <2>3, <3>2
    <3>4. \A b \in Callers: Carries(b, d)' => b = c /\ At(b, "made")' /\ Doc(b)' = d
      BY <1>3, <2>3, <3>1
    <3> QED BY <3>3, <3>4 DEF MadeOnce
  <2> QED BY <2>2, <2>3
<1>5. origin[made] \notin {"none", "typed"}
  BY <1>0, <1>1, <1>2 DEF CallOk, OriginOf
<1> HIDE DEF made
<1> QED BY <1>1, <1>2, <1>3, <1>4, <1>5, CallsOnly

\* A call ends: nothing is carried any more.
LEMMA CallEnds ==
  ASSUME DraftsTypes, NEW c \in Callers, calls' = [calls EXCEPT ![c] = Idle]
  PROVE  /\ Idle \in CallState /\ CallOk(c)' /\ calls' \in [Callers -> CallState]
         /\ \A d \in Docs: ~Carries(c, d)'
         /\ \A b \in Callers \ {c}: calls'[b] = calls[b]
<1>1. Idle \in CallState /\ Idle.pc = "idle"
  BY DEF Idle, CallState
<1>2. calls' \in [Callers -> CallState] /\ calls'[c] = Idle /\ \A b \in Callers \ {c}: calls'[b] = calls[b]
  BY <1>1, OneCall
<1> QED BY <1>1, <1>2 DEF CallOk, Carries, At

LEMMA FormAnsweredKeeps ==
  ASSUME DraftsInv, FormAnswered, invalid' = invalid
  PROVE  DraftsInv'
<1> DEFINE c == FormCall
<1>0. c \in Callers /\ DraftsTypes /\ Places /\ CallOk(c)
  BY DEF DraftsInv, Callers
<1>1. /\ ~At(c, "idle") /\ calls' = [calls EXCEPT ![c] = Idle]
      /\ UNCHANGED <<origin, queue, typed, dirty, stored, signing, displaced, quotes, excused>>
      /\ form' = IF At(c, "made") THEN Null ELSE form
  BY DEF FormAnswered, guest, At
<1>2. Grown /\ quotes' \in [Docs -> Nat] /\ excused' \subseteq Docs
  BY <1>0, <1>1 DEF Grown, DraftsTypes
<1>3. /\ Idle \in CallState /\ CallOk(c)' /\ \A d \in Docs: ~Carries(c, d)'
      /\ \A b \in Callers \ {c}: calls'[b] = calls[b]
  BY <1>0, <1>1, CallEnds
<1>4. ASSUME NEW d \in Docs PROVE MadeOnce(d)'
  <2>1. \A b \in Callers: Carries(b, d)' =>
            Carries(b, d) /\ b # c /\ (At(b, "made") => At(b, "made")' /\ Doc(b)' = Doc(b))
    BY <1>3 DEF Carries, At, Doc
  <2>2. ASSUME d \notin excused', quotes[d] > 0, Rests(d)'
        PROVE  Rests(d) /\ \A b \in Callers: Carries(b, d) => Carries(b, d)'
    <3>1. Rests(d)
      BY <1>1, <2>2, NullAssumption DEF Rests
    <3>2. Carries(c, d) => At(c, "made") /\ origin[d] = "form"
      BY <1>0, <1>1, <2>2 DEF DraftsInv, MadeOnce, CallOk, Carries, OriginOf
    <3>3. ~Carries(c, d)
      BY <1>0, <1>1, <2>2, <3>2, NullAssumption DEF Rests, Places
    <3>4. \A b \in Callers \ {c}: Carries(b, d) => Carries(b, d)'
      BY <1>3 DEF Carries, At
    <3> QED BY <3>1, <3>3, <3>4
  <2> QED BY <1>1, <2>1, <2>2, OnceStays DEF DraftsInv
<1>5. form' \in {form, Null}
  BY <1>1
<1> QED BY <1>0, <1>1, <1>2, <1>3, <1>4, <1>5, CallsOnly

-----------------------------------------------------------------------------
(* Calls that begin                                                        *)

\* A call begins with contents that rest where its kind looks for them.
WellBegun(c, k) == k.pc # "idle" =>
    /\ k.pc \in {"client", "sign", "post"} /\ k.todo # << >> /\ Distinct(k.todo)
    /\ \A d \in ToSet(k.todo): origin[d] = OriginOf(c) /\ Rests(d)
    /\ c \in Claims => k.pc # "client" /\ (k.pc = "post" => k.sig = Head(k.todo))

\* Each call stays, or begins alone of its kind; what overlaps is excused.
CallsBegin ==
    /\ calls' \in [Callers -> CallState]
    /\ \A b \in Callers: calls'[b] # calls[b] => At(b, "idle") /\ WellBegun(b, calls'[b])
    /\ \A b, c \in Callers: calls'[b] # calls[b] /\ calls'[c] # calls[c] /\ OriginOf(b) = OriginOf(c)
           => b = c
    /\ \A b \in Callers: calls'[b] # calls[b] => Overlapping(calls'[b].todo) \subseteq excused'

LEMMA OnceBegun ==
  ASSUME DraftsInv, CallsBegin, excused \subseteq excused', quotes' = quotes,
         NEW d \in Docs, Rests(d)' => Rests(d)
  PROVE  MadeOnce(d)'
<1> SUFFICES ASSUME d \notin excused' PROVE MadeOnce(d)'
  BY DEF MadeOnce
<1>0. MadeOnce(d) /\ d \notin excused /\ quotes[d] \in Nat
  BY DEF DraftsInv, DraftsTypes
<1>1. ASSUME NEW b \in Callers, calls'[b] = calls[b]
      PROVE  /\ Carries(b, d)' <=> Carries(b, d)
             /\ At(b, "made") => At(b, "made")' /\ Doc(b)' = Doc(b)
  BY <1>1 DEF Carries, At, Doc
<1>2. ASSUME NEW b \in Callers, calls'[b] # calls[b], Carries(b, d)'
      PROVE  ~Carried(d) /\ Rests(d) /\ origin[d] = OriginOf(b)
  <2>1. At(b, "idle") /\ WellBegun(b, calls'[b]) /\ Overlapping(calls'[b].todo) \subseteq excused'
    BY <1>2 DEF CallsBegin
  <2>2. d \in ToSet(calls'[b].todo) /\ calls'[b].pc # "idle"
    BY <1>2 DEF Carries, At
  <2> QED BY <2>1, <2>2 DEF Overlapping, WellBegun
<1>3. CASE \E b \in Callers: calls'[b] # calls[b] /\ Carries(b, d)'
  <2>1. ~Carried(d) /\ Rests(d)
    BY <1>2, <1>3
  <2>2. quotes[d] = 0
    BY <1>0, <2>1 DEF MadeOnce, Carried, Carries
  <2>3. ASSUME NEW b \in Callers, NEW c \in Callers, Carries(b, d)', Carries(c, d)' PROVE b = c
    <3>1. calls'[b] # calls[b] /\ calls'[c] # calls[c]
      BY <1>1, <2>1, <2>3 DEF Carried, Carries
    <3>2. OriginOf(b) = OriginOf(c)
      BY <1>2, <2>3, <3>1
    <3> QED BY <3>1, <3>2 DEF CallsBegin
  <2> QED BY <2>2, <2>3, OnceBegins
<1>4. CASE \A b \in Callers: calls'[b] # calls[b] => ~Carries(b, d)'
  <2>1. \A b \in Callers: Carries(b, d)' =>
            Carries(b, d) /\ (At(b, "made") /\ Doc(b) = d => At(b, "made")' /\ Doc(b)' = d)
    BY <1>1, <1>4
  <2>2. \A b \in Callers: Carries(b, d) => Carries(b, d)'
    BY <1>1 DEF CallsBegin, Carries
  <2> QED BY <1>0, <2>1, <2>2, OnceStays
<1> QED BY <1>3, <1>4

\* Calls begin, the forms are left or stay, and a draft that no claim would take may go.
LEMMA BeginKeeps ==
  ASSUME DraftsInv, CallsBegin, UNCHANGED <<invalid, origin, queue, signing, quotes>>,
         form' = form \/ form' = Null,
         typed' = Null \/ typed' = typed \/ (stored # Null /\ typed' = stored.doc),
         dirty' => typed' # Null,
         \/ UNCHANGED <<stored, displaced>>
         \/ /\ stored # Null /\ stored.doc \in invalid
            /\ stored' = Null /\ displaced' = displaced \union {stored.doc},
         excused \subseteq excused', excused' \subseteq Docs
  PROVE  DraftsInv'
<1>0. DraftsTypes /\ Places
  BY DEF DraftsInv
<1>1. Grown
  BY <1>0 DEF Grown, DraftsTypes
<1>2. DraftsTypes'
  BY <1>0 DEF DraftsTypes, StoredDrafts, CallsBegin
<1>3. Places'
  BY <1>0, NullAssumption DEF Places, DraftsTypes
<1>4. ASSUME NEW b \in Callers PROVE CallOk(b)'
  <2>1. CASE calls'[b] = calls[b]
    BY <1>0, <1>1, <2>1, CallStays DEF DraftsInv
  <2>2. CASE calls'[b] # calls[b]
    <3>1. WellBegun(b, calls'[b])
      BY <2>2 DEF CallsBegin
    <3> QED BY <3>1 DEF WellBegun, CallOk, At, Doc
  <2> QED BY <2>1, <2>2
<1>5. ASSUME NEW d \in Docs PROVE Kept(d)' /\ MadeOnce(d)'
  <2>1. Kept(d)'
    BY DEF DraftsInv, Kept
  <2>2. Rests(d)' => Rests(d)
    BY <1>0, NullAssumption DEF Rests
  <2> QED BY <2>1, <2>2, OnceBegun
<1> QED BY <1>2, <1>3, <1>4, <1>5 DEF DraftsInv

LEMMA NothingBegins ==
  ASSUME DraftsTypes, calls' = calls
  PROVE  CallsBegin
  BY DEF CallsBegin, DraftsTypes

LEMMA Overlaps ==
  ASSUME NEW s \in Seq(Docs)
  PROVE  Overlapping(s) \subseteq Docs
  BY SetOf DEF Overlapping

LEMMA OriginsOf ==
  /\ OriginOf(FormCall) = "form" /\ FormCall \in Callers
  /\ \A f \in Flushes: f \in Callers /\ f \notin Claims /\ OriginOf(f) = "queued"
  /\ \A c \in Claims: c \in Callers /\ OriginOf(c) = "saved"
  /\ FormCall \notin Claims
  BY CallersAssumption DEF OriginOf, FormCall, Callers

LEMMA FlushBegins ==
  ASSUME DraftsInv, NEW f \in Flushes, NEW on, NEW n \in BOOLEAN
  PROVE  /\ SyncCall(on, n) \in CallState /\ WellBegun(f, SyncCall(on, n))
         /\ SyncCall(on, n).pc # "idle" => on /\ SyncCall(on, n).todo = queue
<1>1. queue \in Seq(Docs) /\ Distinct(queue) /\ \A d \in ToSet(queue): origin[d] = "queued" /\ Rests(d)
  BY DEF DraftsInv, DraftsTypes, Places, Rests
<1>2. Idle \in CallState /\ Idle.pc = "idle"
  BY DEF Idle, CallState
<1>3. CASE on /\ queue # << >>
  <2>1. PICK pc \in {"client", "post"}: pc = FirstPost(Head(queue), n)
    BY DEF FirstPost
  <2>2. PICK k: k = SyncCall(on, n)
    OBVIOUS
  <2>3. k \in CallState /\ k.pc = pc /\ k.todo = queue
    BY <1>1, <1>3, <2>1, <2>2 DEF SyncCall, Call, CallState
  <2>4. WellBegun(f, k)
    BY <1>1, <1>3, <2>3, OriginsOf DEF WellBegun
  <2> QED BY <1>3, <2>2, <2>3, <2>4
<1>4. CASE ~(on /\ queue # << >>)
  BY <1>2, <1>4 DEF SyncCall, WellBegun
<1> QED BY <1>3, <1>4

LEMMA ClaimBegins ==
  ASSUME DraftsInv, NEW c \in Claims
  PROVE  ClaimCall \in CallState /\ WellBegun(c, ClaimCall)
<1>0. DraftsTypes /\ Places
  BY DEF DraftsInv
<1>1. CASE stored = Null \/ stored.doc \in invalid
  BY <1>1, EmptySeq DEF ClaimCall, Idle, CallState, WellBegun
<1>2. CASE ~(stored = Null \/ stored.doc \in invalid)
  <2>1. PICK d \in Docs, sig \in Docs \union {Null}:
            d = stored.doc /\ sig = stored.sig /\ sig \in {Null, d} /\ origin[d] = "saved" /\ Rests(d)
    BY <1>0, <1>2 DEF DraftsTypes, StoredDrafts, Places, Rests
  <2>2. PICK k: k = ClaimCall
    OBVIOUS
  <2>3. k = Call(IF sig = Null THEN "sign" ELSE "post", <<d>>, sig)
    BY <1>2, <2>1, <2>2 DEF ClaimCall
  <2>4. /\ k \in CallState /\ k.pc \in {"sign", "post"} /\ k.todo = <<d>> /\ k.sig = sig
        /\ k.pc = "post" => sig # Null
    BY <2>3 DEF Call, CallState
  <2>5. ToSet(<<d>>) = {d} /\ Distinct(<<d>>) /\ Head(<<d>>) = d /\ <<d>> # << >>
    BY OneIn
  <2> QED BY <2>1, <2>2, <2>4, <2>5, OriginsOf DEF WellBegun
<1> QED BY <1>1, <1>2

LEMMA SubmitDevisKeeps ==
  ASSUME DraftsInv, SubmitDevis, invalid' = invalid
  PROVE  DraftsInv'
<1>0. DraftsTypes /\ Places /\ form \in Docs
  BY DEF DraftsInv, DraftsTypes, SubmitDevis
<1>1. PICK n \in BOOLEAN: calls' = [calls EXCEPT ![FormCall] = Call(FirstPost(form, n), <<form>>, Null)]
  BY DEF SubmitDevis
<1>2. PICK k: k = Call(FirstPost(form, n), <<form>>, Null)
  OBVIOUS
<1>3. k \in CallState /\ k.pc \in {"client", "post"} /\ k.todo = <<form>>
  BY <1>0, <1>2 DEF Call, FirstPost, CallState
<1>4. ToSet(<<form>>) = {form} /\ Distinct(<<form>>) /\ <<form>> # << >> /\ <<form>> \in Seq(Docs)
  BY <1>0, OneIn
<1>5. WellBegun(FormCall, k)
  BY <1>0, <1>3, <1>4, OriginsOf, NullAssumption DEF WellBegun, Places, Rests
<1>6. /\ calls' \in [Callers -> CallState] /\ calls'[FormCall] = k
      /\ \A b \in Callers \ {FormCall}: calls'[b] = calls[b]
  BY <1>0, <1>1, <1>2, <1>3, OneCall, OriginsOf
<1>7. excused' = excused \union Overlapping(<<form>>) /\ At(FormCall, "idle")
  BY DEF SubmitDevis
<1>8. CallsBegin
  BY <1>3, <1>5, <1>6, <1>7 DEF CallsBegin
<1>9. excused \subseteq excused' /\ excused' \subseteq Docs
  BY <1>0, <1>4, <1>7, Overlaps DEF DraftsTypes
<1> QED BY <1>8, <1>9, BeginKeeps DEF SubmitDevis, browser, guest, DraftsInv, Places

LEMMA GoOnlineKeeps ==
  ASSUME DraftsInv, NEW f \in Flushes, GoOnline(f), invalid' = invalid
  PROVE  DraftsInv'
<1>0. DraftsTypes /\ f \in Callers /\ queue \in Seq(Docs) /\ At(f, "idle")
  BY OriginsOf DEF DraftsInv, DraftsTypes, GoOnline
<1>1. CASE page = "dashboard"
  <2>1. PICK n \in BOOLEAN: calls' = [calls EXCEPT ![f] = SyncCall(TRUE, n)]
    BY <1>1 DEF GoOnline
  <2>2. PICK k: k = SyncCall(TRUE, n)
    OBVIOUS
  <2>3. k \in CallState /\ WellBegun(f, k) /\ (k.pc # "idle" => k.todo = queue)
    BY <2>2, FlushBegins
  <2>4. calls' \in [Callers -> CallState] /\ calls'[f] = k /\ \A b \in Callers \ {f}: calls'[b] = calls[b]
    BY <1>0, <2>1, <2>2, <2>3, OneCall
  <2>5. excused' = excused \union Overlapping(queue)
    BY <1>1 DEF GoOnline
  <2>6. Overlapping(k.todo) \subseteq excused'
    <3>1. CASE k.pc = "idle"
      <4>1. k = Idle
        BY <2>2, <3>1 DEF SyncCall, Call, FirstPost
      <4> QED BY <4>1, NoneIn DEF Idle, Overlapping
    <3> QED BY <2>3, <2>5, <3>1
  <2>7. CallsBegin
    BY <1>0, <2>3, <2>4, <2>6 DEF CallsBegin
  <2>8. excused \subseteq excused' /\ excused' \subseteq Docs
    BY <1>0, <2>5, Overlaps DEF DraftsTypes
  <2> QED BY <2>7, <2>8, BeginKeeps DEF GoOnline, browser, guest, DraftsInv, Places
<1>2. CASE page # "dashboard"
  <2>1. calls' = [calls EXCEPT ![f] = Idle] /\ excused' = excused
    BY <1>2 DEF GoOnline
  <2>2. Idle \in CallState /\ calls'[f] = Idle /\ calls' \in [Callers -> CallState]
        /\ \A b \in Callers \ {f}: calls'[b] = calls[b]
    BY <1>0, <2>1, CallEnds, OneCall
  <2>3. CallsBegin
    <3>1. WellBegun(f, Idle) /\ Overlapping(Idle.todo) = {}
      BY NoneIn DEF WellBegun, Idle, Overlapping
    <3> QED BY <1>0, <2>2, <3>1 DEF CallsBegin
  <2>4. excused' \subseteq Docs
    BY <1>0, <2>1 DEF DraftsTypes
  <2> QED BY <2>1, <2>3, <2>4, BeginKeeps DEF GoOnline, browser, guest, DraftsInv, Places
<1> QED BY <1>1, <1>2

\* What a claim finds invalid goes, everything else stays.
LEMMA BeginClaimIs ==
  ASSUME BeginClaim
  PROVE  \/ UNCHANGED <<stored, displaced>>
         \/ /\ stored # Null /\ stored.doc \in invalid
            /\ stored' = Null /\ displaced' = displaced \union {stored.doc}
  BY DEF BeginClaim, Store

LEMMA LogInKeeps ==
  ASSUME DraftsInv, NEW c \in Claims, LogIn(c), invalid' = invalid
  PROVE  DraftsInv'
<1>0. DraftsTypes /\ c \in Callers /\ At(c, "idle")
  BY OriginsOf DEF DraftsInv, LogIn
<1>1. PICK k: k = ClaimCall
  OBVIOUS
<1>2. /\ k \in CallState /\ WellBegun(c, k) /\ calls' = [calls EXCEPT ![c] = k]
      /\ excused' = excused \union Overlapping(k.todo)
  BY <1>1, ClaimBegins DEF LogIn, ClaimOverlaps
<1>3. calls' \in [Callers -> CallState] /\ calls'[c] = k /\ \A b \in Callers \ {c}: calls'[b] = calls[b]
  BY <1>0, <1>2, OneCall
<1>4. CallsBegin
  BY <1>0, <1>2, <1>3 DEF CallsBegin
<1>5. excused \subseteq excused' /\ excused' \subseteq Docs
  BY <1>0, <1>2, Overlaps DEF DraftsTypes, CallState
<1>6. BeginClaim
  BY DEF LogIn
<1> QED BY <1>4, <1>5, <1>6, BeginClaimIs, BeginKeeps DEF LogIn, browser, DraftsInv, Places

LEMMA OpenDashboardKeeps ==
  ASSUME DraftsInv, NEW f \in Flushes, NEW c \in Claims, OpenDashboard(f, c), invalid' = invalid
  PROVE  DraftsInv'
<1>0. /\ DraftsTypes /\ f \in Callers /\ c \in Callers /\ f # c /\ At(f, "idle") /\ At(c, "idle")
      /\ queue \in Seq(Docs) /\ OriginOf(f) # OriginOf(c)
  BY OriginsOf DEF DraftsInv, DraftsTypes, OpenDashboard
<1>1. PICK n \in BOOLEAN: calls' = [calls EXCEPT ![f] = SyncCall(online, n),
                                                 ![c] = IF pending THEN Idle ELSE ClaimCall]
  BY DEF OpenDashboard
<1>2. PICK k: k = SyncCall(online, n)
  OBVIOUS
<1>3. PICK l: l = IF pending THEN Idle ELSE ClaimCall
  OBVIOUS
<1>4. /\ k \in CallState /\ WellBegun(f, k) /\ (k.pc # "idle" => online /\ k.todo = queue)
  BY <1>2, FlushBegins
<1>5. Idle \in CallState /\ WellBegun(c, Idle) /\ Overlapping(Idle.todo) = {} /\ Idle.pc = "idle"
  BY NoneIn DEF WellBegun, Idle, CallState, Overlapping
<1>6. l \in CallState /\ WellBegun(c, l)
  BY <1>3, <1>5, ClaimBegins
<1>7. /\ calls' \in [Callers -> CallState] /\ calls'[f] = k /\ calls'[c] = l
      /\ \A b \in Callers \ {f, c}: calls'[b] = calls[b]
  BY <1>0, <1>1, <1>2, <1>3, <1>4, <1>6 DEF DraftsTypes
<1>8. excused' = excused \union (IF online THEN Overlapping(queue) ELSE {})
                         \union (IF pending THEN {} ELSE Overlapping(ClaimCall.todo))
  BY DEF OpenDashboard, ClaimOverlaps
<1>9. Overlapping(k.todo) \subseteq excused'
  <2>1. CASE k.pc = "idle"
    <3>1. k = Idle
      BY <1>2, <2>1 DEF SyncCall, Call, FirstPost
    <3> QED BY <1>5, <3>1
  <2> QED BY <1>4, <1>8, <2>1
<1>10. Overlapping(l.todo) \subseteq excused'
  BY <1>3, <1>5, <1>8
<1>11. CallsBegin
  BY <1>0, <1>4, <1>6, <1>7, <1>9, <1>10 DEF CallsBegin
<1>12. excused \subseteq excused' /\ excused' \subseteq Docs
  <2>1. Overlapping(queue) \subseteq Docs /\ Overlapping(ClaimCall.todo) \subseteq Docs
    BY <1>0, ClaimBegins, Overlaps DEF CallState
  <2> QED BY <1>0, <1>8, <2>1 DEF DraftsTypes
<1>13. \/ UNCHANGED <<stored, displaced>>
       \/ /\ stored # Null /\ stored.doc \in invalid
          /\ stored' = Null /\ displaced' = displaced \union {stored.doc}
  BY BeginClaimIs DEF OpenDashboard
<1> QED BY <1>11, <1>12, <1>13, BeginKeeps DEF OpenDashboard

\* Leaving a page, the network, opening the quote that was pending.
LEMMA PagesKeep ==
  ASSUME DraftsInv, OpenLogin \/ OpenPending \/ GoOffline, invalid' = invalid
  PROVE  DraftsInv'
<1>1. CallsBegin
  BY NothingBegins DEF DraftsInv, OpenLogin, OpenPending, GoOffline
<1> QED
  BY <1>1, BeginKeeps DEF OpenLogin, OpenPending, GoOffline, browser, guest, DraftsInv, DraftsTypes, Places

LEMMA OpenGuestFormKeeps ==
  ASSUME DraftsInv, OpenGuestForm, invalid' = invalid
  PROVE  DraftsInv'
<1>1. CallsBegin
  BY NothingBegins DEF DraftsInv, OpenGuestForm
<1>2. stored # Null => stored.doc # Null
  BY NullAssumption DEF DraftsInv, DraftsTypes, StoredDrafts
<1> QED BY <1>1, <1>2, BeginKeeps DEF OpenGuestForm, guest, DraftsInv, DraftsTypes

-----------------------------------------------------------------------------
(* What is typed, queued and saved                                         *)

\* The origin of what is carried stays.
LEMMA OriginMoves ==
  ASSUME DraftsInv, calls' = calls, quotes' = quotes,
         \A b \in Callers: \A d \in Docs: Carries(b, d) => origin'[d] = origin[d]
  PROVE  /\ \A b \in Callers: CallOk(b)'
         /\ \A d \in Docs: excused' = excused /\ (Rests(d)' /\ quotes[d] > 0 => Rests(d)) => MadeOnce(d)'
<1>1. Grown
  BY DEF Grown, DraftsInv, DraftsTypes
<1>2. \A b \in Callers: CallOk(b)'
  BY <1>1, CallStays DEF DraftsInv
<1>4. ASSUME NEW d \in Docs, excused' = excused, Rests(d)' /\ quotes[d] > 0 => Rests(d)
      PROVE  MadeOnce(d)'
  <2>1. MadeOnce(d)
    BY DEF DraftsInv
  <2>2. ASSUME NEW c \in Callers
        PROVE  /\ Carries(c, d)' => Carries(c, d) /\ (At(c, "made") /\ Doc(c) = d => At(c, "made")' /\ Doc(c)' = d)
               /\ Carries(c, d) => Carries(c, d)'
    <3>1. (Carries(c, d)' <=> Carries(c, d)) /\ (At(c, "made")' <=> At(c, "made")) /\ Doc(c)' = Doc(c)
      BY DEF Carries, At, Doc
    <3> QED BY <3>1
  <2> QED BY <1>4, <2>1, <2>2, OnceStays
<1> QED BY <1>2, <1>4

\* What nobody kept yet is carried by no call.
LEMMA CarriedOrigin ==
  ASSUME DraftsInv, NEW b \in Callers, NEW d \in Docs, Carries(b, d)
  PROVE  /\ origin[d] \in {"form", "queued", "saved"} /\ origin[d] = OriginOf(b)
         /\ origin[d] = "form" => b = FormCall
  BY DEF DraftsInv, CallOk, Carries, OriginOf

LEMMA NewContentKeeps ==
  ASSUME DraftsInv, NEW d \in Docs, Fill(d) \/ Type(d), invalid' = invalid
  PROVE  DraftsInv'
<1>0. DraftsTypes /\ Places /\ Kept(d) /\ quotes[d] \in Nat
  BY DEF DraftsInv, DraftsTypes
<1>1. /\ origin[d] = "none" /\ quotes[d] = 0
      /\ UNCHANGED <<queue, stored, signing, displaced, calls, quotes, excused>>
      /\ \/ form' = d /\ origin' = [origin EXCEPT ![d] = "form"] /\ UNCHANGED <<typed, dirty>>
         \/ typed' = d /\ dirty' = TRUE /\ origin' = [origin EXCEPT ![d] = "typed"] /\ UNCHANGED form
  BY <1>0 DEF Fill, Type, guest, Kept
<1>2. \A e \in Docs: e # d => origin'[e] = origin[e]
  BY <1>0, <1>1 DEF DraftsTypes
<1>3. \A b \in Callers: \A e \in Docs: Carries(b, e) => origin'[e] = origin[e]
  BY <1>1, <1>2, CarriedOrigin
<1>4. \A b \in Callers: CallOk(b)'
  BY <1>1, <1>3, OriginMoves
<1>5. ASSUME NEW e \in Docs PROVE Kept(e)' /\ MadeOnce(e)'
  <2>1. MadeOnce(e)'
    <3>1. Rests(e)' /\ quotes[e] > 0 => Rests(e)
      BY <1>1 DEF Rests
    <3> QED BY <1>1, <1>3, <3>1, OriginMoves
  <2>2. Kept(e)'
    <3>1. Kept(e) /\ (e = d => origin'[e] \in {"form", "typed"})
      BY <1>0, <1>1 DEF DraftsInv, DraftsTypes
    <3> QED BY <1>1, <1>2, <3>1 DEF Kept
  <2> QED BY <2>1, <2>2
<1>6. DraftsTypes'
  BY <1>0, <1>1 DEF DraftsTypes, Origins
<1>7. Places'
  <2>1. \A e \in ToSet(queue): e # d /\ e \in Docs
    BY <1>0, <1>1, SetOf DEF Places, DraftsTypes
  <2>2. stored # Null => stored.doc # d /\ stored.doc \in Docs
    BY <1>0, <1>1 DEF Places, DraftsTypes, StoredDrafts
  <2>3. \A s \in Signers: signing[s] # Null => signing[s] # d /\ signing[s] \in Docs
    BY <1>0, <1>1 DEF Places, DraftsTypes
  <2>4. /\ form # Null => form # d /\ form \in Docs
        /\ typed # Null => typed # d /\ typed \in Docs
    BY <1>0, <1>1 DEF Places, DraftsTypes
  <2>5. d # Null /\ origin' \in [Docs -> Origins] /\ origin'[d] \in {"form", "typed"}
        /\ (form' = d => origin'[d] = "form") /\ (typed' = d => origin'[d] = "typed")
    BY <1>0, <1>1, <1>6, <2>4, NullAssumption DEF DraftsTypes
  <2> QED BY <1>0, <1>1, <1>2, <2>1, <2>2, <2>3, <2>4, <2>5 DEF Places
<1> QED BY <1>4, <1>5, <1>6, <1>7 DEF DraftsInv

LEMMA EnqueueKeeps ==
  ASSUME DraftsInv, Enqueue, invalid' = invalid
  PROVE  DraftsInv'
<1> DEFINE d == form
<1>0. DraftsTypes /\ Places /\ d \in Docs /\ queue \in Seq(Docs)
  BY DEF DraftsInv, DraftsTypes, Enqueue
<1>1. /\ At(FormCall, "idle") /\ queue' = Append(queue, d) /\ form' = Null
      /\ origin' = [origin EXCEPT ![d] = "queued"]
      /\ UNCHANGED <<typed, dirty, stored, signing, displaced, calls, quotes, excused>>
  BY DEF Enqueue, guest
<1>2. origin[d] = "form" /\ d \notin ToSet(queue) /\ d # Null
  BY <1>0, NullAssumption DEF Places
<1>3. /\ queue' \in Seq(Docs) /\ ToSet(queue') = ToSet(queue) \union {d} /\ Distinct(queue')
  BY <1>0, <1>1, <1>2, SetOf DEF Places
<1>4. origin'[d] = "queued" /\ \A e \in Docs: e # d => origin'[e] = origin[e]
  BY <1>0, <1>1 DEF DraftsTypes
<1>5. \A b \in Callers: \A e \in Docs: Carries(b, e) => origin'[e] = origin[e]
  <2>1. ASSUME NEW b \in Callers, Carries(b, d) PROVE FALSE
    <3>1. b = FormCall
      BY <1>0, <1>2, <2>1, CarriedOrigin
    <3> QED BY <1>1, <2>1, <3>1 DEF Carries
  <2> QED BY <1>4, <2>1
<1>6. \A b \in Callers: CallOk(b)'
  BY <1>1, <1>5, OriginMoves
<1>7. ASSUME NEW e \in Docs PROVE Kept(e)' /\ MadeOnce(e)'
  <2>1. MadeOnce(e)'
    <3>1. Rests(e)' => Rests(e)
      BY <1>1, <1>2, <1>3, <1>7, NullAssumption DEF Rests
    <3> QED BY <1>1, <1>5, <3>1, OriginMoves
  <2>2. Kept(e)'
    BY <1>1, <1>3, <1>4 DEF DraftsInv, Kept
  <2> QED BY <2>1, <2>2
<1>8. DraftsTypes'
  BY <1>0, <1>1, <1>3 DEF DraftsTypes, Origins
<1>9. Places'
  <2>1. stored # Null => stored.doc # d /\ stored.doc \in Docs
    BY <1>0, <1>2 DEF Places, DraftsTypes, StoredDrafts
  <2>2. \A s \in Signers: signing[s] # Null => signing[s] # d /\ signing[s] \in Docs
    BY <1>0, <1>2 DEF Places, DraftsTypes
  <2>3. typed # Null => typed # d /\ typed \in Docs
    BY <1>0, <1>2 DEF Places, DraftsTypes
  <2>4. ToSet(queue) \subseteq Docs
    BY <1>0, SetOf
  <2> HIDE DEF d
  <2> QED BY <1>0, <1>1, <1>3, <1>4, <2>1, <2>2, <2>3, <2>4 DEF Places
<1> QED BY <1>6, <1>7, <1>8, <1>9 DEF DraftsInv

\* What a write of the draft replaces is displaced; what it brings back has an excuse.
LEMMA StoreIs ==
  ASSUME DraftsInv, NEW d \in Docs, NEW sig \in {Null, d}, Store(Draft(d, sig))
  PROVE  /\ stored' \in StoredDrafts /\ stored' # Null /\ stored'.doc = d /\ stored'.sig = sig
         /\ displaced \subseteq displaced' /\ displaced' \subseteq Docs
         /\ stored # Null => stored.doc = d \/ stored.doc \in displaced'
         /\ d \notin Revived(d) /\ origin[d] = "saved" => stored # Null /\ stored.doc = d
         /\ Revived(d) \subseteq Docs
<1>1. stored \in StoredDrafts \union {Null} /\ displaced \subseteq Docs
  BY DEF DraftsInv, DraftsTypes
<1>2. stored' = [doc |-> d, sig |-> sig]
  BY DEF Store, Draft
<1>3. [doc |-> d, sig |-> sig] \in StoredDrafts
  BY DEF StoredDrafts
<1>4. Null \notin StoredDrafts
  BY NullAssumption DEF StoredDrafts
<1>5. Draft(d, sig).doc = d /\ Draft(d, sig) # Null
  BY <1>3, <1>4 DEF Draft
<1>6. displaced' = IF stored = Null \/ d = stored.doc THEN displaced ELSE displaced \union {stored.doc}
  BY <1>5 DEF Store
<1>7. stored # Null => stored.doc \in Docs
  BY <1>1 DEF StoredDrafts
<1> QED BY <1>1, <1>2, <1>3, <1>4, <1>6, <1>7 DEF Revived

\* A draft is saved, and the calls stay.
LEMMA StoreKeeps ==
  ASSUME DraftsInv, NEW d \in Docs, NEW sig \in {Null, d}, Store(Draft(d, sig)),
         UNCHANGED <<invalid, form, queue, calls, quotes>>,
         origin[d] \in {"typed", "saved"}, origin' = [origin EXCEPT ![d] = "saved"],
         excused' = excused \union Revived(d),
         typed' \in {typed, Null}, dirty' => typed' # Null,
         signing' \in [Signers -> Docs \union {Null}],
         \A s \in Signers: signing'[s] \in {signing[s], d, Null}
  PROVE  DraftsInv'
<1>0. DraftsTypes /\ Places
  BY DEF DraftsInv
<1>1. /\ stored' \in StoredDrafts /\ stored' # Null /\ stored'.doc = d /\ stored'.sig = sig
      /\ displaced \subseteq displaced' /\ displaced' \subseteq Docs
      /\ stored # Null => stored.doc = d \/ stored.doc \in displaced'
      /\ d \notin Revived(d) /\ origin[d] = "saved" => stored # Null /\ stored.doc = d
      /\ Revived(d) \subseteq Docs
  BY StoreIs
<1>2. origin'[d] = "saved" /\ \A e \in Docs: e # d => origin'[e] = origin[e]
  BY <1>0 DEF DraftsTypes
<1>3. \A b \in Callers: \A e \in Docs: Carries(b, e) => origin'[e] = origin[e]
  BY <1>2, CarriedOrigin
<1>4. \A b \in Callers: CallOk(b)'
  BY <1>3, OriginMoves
<1>5. DraftsTypes'
  BY <1>0, <1>1 DEF DraftsTypes, Origins
<1>6. Places'
  <2>1. \A e \in ToSet(queue): e # d /\ e \in Docs
    BY <1>0, SetOf DEF Places, DraftsTypes
  <2>2. form # Null => form # d /\ form \in Docs
    BY <1>0 DEF Places, DraftsTypes
  <2>3. \A e \in Docs: origin[e] \in {"typed", "saved"} => origin'[e] \in {"typed", "saved"}
    BY <1>2
  <2>4. typed' # Null => origin'[typed'] \in {"typed", "saved"}
    BY <1>0, <2>3 DEF Places, DraftsTypes
  <2>5. \A e \in Docs: origin[e] = "saved" => origin'[e] = "saved"
    BY <1>2
  <2>6. \A s \in Signers: signing'[s] # Null => origin'[signing'[s]] = "saved"
    BY <1>0, <1>2, <2>5 DEF Places, DraftsTypes
  <2> QED BY <1>0, <1>1, <1>2, <2>1, <2>2, <2>4, <2>6 DEF Places
<1>7. ASSUME NEW e \in Docs PROVE Kept(e)' /\ MadeOnce(e)'
  <2>1. Kept(e)'
    BY <1>1, <1>2 DEF DraftsInv, Kept
  <2>2. ASSUME e \notin excused', quotes[e] > 0, Rests(e)' PROVE Rests(e)
    <3>1. CASE e # d
      BY <1>1, <2>2, <3>1 DEF Rests
    <3>2. CASE e = d
      <4>1. origin[d] # "typed"
        BY <2>2, <3>2 DEF DraftsInv, DraftsTypes, Kept
      <4> QED BY <1>1, <2>2, <3>2, <4>1 DEF Rests
    <3> QED BY <3>1, <3>2
  <2>3. \A b \in Callers: /\ Carries(b, e)' <=> Carries(b, e)
                          /\ At(b, "made")' <=> At(b, "made")
                          /\ Doc(b)' = Doc(b)
    BY DEF Carries, At, Doc
  <2>4. MadeOnce(e)'
    BY <2>2, <2>3, OnceStays DEF DraftsInv
  <2> QED BY <2>1, <2>4
<1> QED BY <1>4, <1>5, <1>6, <1>7 DEF DraftsInv

LEMMA GuestKeeps ==
  ASSUME DraftsInv, invalid' = invalid,
         SubmitGuestDraft \/ \E s \in Signers: Autosave(s) \/ SignAnswered(s)
  PROVE  DraftsInv'
<1>0. DraftsTypes /\ Places
  BY DEF DraftsInv
<1>1. CASE SubmitGuestDraft
  <2>1. typed \in Docs /\ origin[typed] \in {"typed", "saved"}
    BY <1>0, <1>1 DEF SubmitGuestDraft, DraftsTypes, Places
  <2> QED BY <1>0, <1>1, <2>1, StoreKeeps DEF SubmitGuestDraft, DraftsTypes
<1>2. ASSUME NEW s \in Signers, Autosave(s) PROVE DraftsInv'
  <2>1. typed \in Docs /\ origin[typed] \in {"typed", "saved"}
    BY <1>0, <1>2 DEF Autosave, DraftsTypes, Places
  <2>2. /\ signing' \in [Signers -> Docs \union {Null}]
        /\ \A v \in Signers: signing'[v] \in {signing[v], typed, Null}
    BY <1>0, <1>2, <2>1 DEF Autosave, DraftsTypes
  <2> QED BY <1>2, <2>1, <2>2, StoreKeeps DEF Autosave
<1>3. ASSUME NEW s \in Signers, SignAnswered(s) PROVE DraftsInv'
  <2> DEFINE d == signing[s]
  <2>1. d \in Docs /\ origin[d] = "saved" /\ signing' = [signing EXCEPT ![s] = Null]
    BY <1>0, <1>3 DEF SignAnswered, DraftsTypes, Places
  <2>2. /\ signing' \in [Signers -> Docs \union {Null}]
        /\ \A v \in Signers: signing'[v] \in {signing[v], Null}
    BY <1>0, <2>1 DEF DraftsTypes
  <2>3. /\ UNCHANGED <<form, typed, dirty, origin, queue, calls, quotes>>
        /\ \/ Store(SignedDraft(d)) /\ excused' = excused \union Revived(d)
           \/ UNCHANGED <<stored, displaced, excused>>
    BY <1>3 DEF SignAnswered, browser
  <2>4. CASE Store(SignedDraft(d)) /\ excused' = excused \union Revived(d)
    <3>1. Store(Draft(d, d))
      BY <2>4 DEF SignedDraft
    <3>2. origin' = [origin EXCEPT ![d] = "saved"]
      BY <1>0, <2>1, <2>3 DEF DraftsTypes
    <3>3. dirty' => typed' # Null
      BY <1>0, <2>3 DEF Places
    <3> HIDE DEF d
    <3> QED BY <2>1, <2>2, <2>3, <2>4, <3>1, <3>2, <3>3, StoreKeeps
  <2>5. CASE UNCHANGED <<stored, displaced, excused>>
    <3>1. DraftsTypes'
      BY <1>0, <2>2, <2>3, <2>5 DEF DraftsTypes
    <3>2. Places'
      BY <1>0, <2>2, <2>3, <2>5 DEF Places
    <3>3. \A b \in Callers: CallOk(b)'
      BY <2>3, OriginMoves
    <3>4. ASSUME NEW e \in Docs PROVE Kept(e)' /\ MadeOnce(e)'
      <4>1. Kept(e)'
        BY <2>3, <2>5 DEF DraftsInv, Kept
      <4>2. Rests(e)' => Rests(e)
        BY <2>3, <2>5 DEF Rests
      <4> QED BY <2>3, <2>5, <4>1, <4>2, OriginMoves
    <3> QED BY <3>1, <3>2, <3>3, <3>4 DEF DraftsInv
  <2> QED BY <2>3, <2>4, <2>5
<1> QED BY <1>1, <1>2, <1>3

-----------------------------------------------------------------------------
(* The answers of the queue and of the claims                              *)

\* Nothing that has its quote, and no excuse, is carried by a call that is not past it.
LEMMA MadeHere ==
  ASSUME DraftsInv, NEW c \in Callers, NEW d \in Docs, Carries(c, d), quotes[d] > 0, d \notin excused
  PROVE  At(c, "made") /\ Doc(c) = d
  BY DEF DraftsInv, MadeOnce

LEMMA FlushAnsweredKeeps ==
  ASSUME DraftsInv, NEW f \in Flushes, FlushAnswered(f), invalid' = invalid
  PROVE  DraftsInv'
<1> DEFINE d == Doc(f)
<1>0. /\ DraftsTypes /\ Places /\ f \in Callers /\ f \notin Claims /\ OriginOf(f) = "queued"
      /\ CallOk(f) /\ queue \in Seq(Docs)
  BY OriginsOf DEF DraftsInv, DraftsTypes
<1>1. /\ ~At(f, "idle") /\ queue' = RemoveQueued(queue, f)
      /\ UNCHANGED <<form, typed, dirty, origin, stored, signing, displaced, quotes, excused>>
  BY DEF FlushAnswered, browser, guest, At
<1>2. PICK todo \in Seq(Docs): todo = calls[f].todo
  BY <1>0, <1>1, DocCarried DEF CallState
<1>3. PICK rest \in Seq(Docs): rest = Tail(todo) /\ d = Head(todo) /\ d \in Docs /\ todo # << >>
  BY <1>0, <1>1, <1>2, DocCarried, HeadAndTail DEF Doc
<1>4. ToSet(todo) = {d} \union ToSet(rest) /\ Distinct(rest) /\ d \notin ToSet(rest)
  BY <1>0, <1>1, <1>2, <1>3, HeadAndTail DEF CallOk
<1>5. PICK k: /\ calls' = [calls EXCEPT ![f] = k]
              /\ \/ k = Idle
                 \/ \E pc \in {"client", "post"}: rest # << >> /\ k = Call(pc, rest, Null)
  <2>1. PICK n \in BOOLEAN: calls' = [calls EXCEPT ![f] =
            IF rest = << >> THEN Idle ELSE Call(FirstPost(Head(rest), n), rest, Null)]
    BY <1>2, <1>3 DEF FlushAnswered
  <2> QED BY <2>1 DEF FirstPost
<1>6. /\ k \in CallState /\ k.pc \notin {"made"}
      /\ k.pc # "idle" => k.todo = rest /\ rest # << >>
  <2>1. CASE k = Idle
    BY <2>1 DEF Idle, CallState
  <2>2. CASE k # Idle
    <3>1. PICK pc \in {"client", "post"}: rest # << >> /\ k = Call(pc, rest, Null)
      BY <1>5, <2>2
    <3> QED BY <1>3, <3>1 DEF Call, CallState
  <2> QED BY <2>1, <2>2
<1>7. calls' \in [Callers -> CallState] /\ calls'[f] = k /\ \A b \in Callers \ {f}: calls'[b] = calls[b]
  BY <1>0, <1>5, <1>6, OneCall
<1>8. Grown
  BY <1>0, <1>1 DEF Grown, DraftsTypes
<1>9. /\ queue' \in Seq(Docs) /\ ToSet(queue') \subseteq ToSet(queue) /\ Distinct(queue')
      /\ ToSet(queue) \ {d} \subseteq ToSet(queue')
      /\ IF At(f, "made") THEN d \notin ToSet(queue') ELSE queue' = queue
  <2>1. CASE At(f, "made")
    <3>1. queue' = Without(queue, d)
      BY <1>1, <2>1 DEF RemoveQueued
    <3> HIDE DEF d
    <3> QED BY <1>0, <2>1, <3>1, WithoutOne DEF Places
  <2>2. CASE ~At(f, "made")
    BY <1>0, <1>1, <2>2 DEF RemoveQueued, Places
  <2> QED BY <2>1, <2>2
<1>10. ASSUME NEW b \in Callers PROVE CallOk(b)'
  <2>1. CASE b = f
    <3>1. \A e \in ToSet(rest): origin'[e] = OriginOf(f)
      BY <1>0, <1>1, <1>2, <1>4 DEF CallOk
    <3> QED BY <1>0, <1>4, <1>6, <1>7, <2>1, <3>1 DEF CallOk, At
  <2>2. CASE b # f
    BY <1>0, <1>1, <1>7, <1>8, <2>2, CallStays DEF DraftsInv
  <2> QED BY <2>1, <2>2
<1>11. DraftsTypes'
  BY <1>0, <1>1, <1>7, <1>9 DEF DraftsTypes
<1>12. Places'
  BY <1>0, <1>1, <1>9 DEF Places
<1>13. ASSUME NEW e \in Docs PROVE Kept(e)'
  <2>1. e = d /\ At(f, "made") => quotes[e] > 0
    BY <1>0 DEF CallOk, At
  <2> QED BY <1>0, <1>1, <1>9, <2>1 DEF DraftsInv, DraftsTypes, Kept
<1>14. ASSUME NEW e \in Docs PROVE MadeOnce(e)'
  <2>1. ASSUME NEW b \in Callers, b # f
        PROVE  /\ Carries(b, e)' <=> Carries(b, e)
               /\ At(b, "made") => At(b, "made")' /\ Doc(b)' = Doc(b)
    BY <1>7, <2>1 DEF Carries, At, Doc
  <2>2. Carries(f, e)' => Carries(f, e) /\ e # d
    BY <1>1, <1>2, <1>4, <1>6, <1>7 DEF Carries, At
  <2>3. \A b \in Callers: Carries(b, e)' =>
            Carries(b, e) /\ (At(b, "made") /\ Doc(b) = e => At(b, "made")' /\ Doc(b)' = e)
    BY <2>1, <2>2
  <2>4. ASSUME e \notin excused', quotes[e] > 0, Rests(e)'
        PROVE  Rests(e) /\ \A b \in Callers: Carries(b, e) => Carries(b, e)'
    <3>1. Rests(e)
      BY <1>1, <1>9, <2>4 DEF Rests
    <3>2. ~Carries(f, e)
      <4> SUFFICES ASSUME Carries(f, e) PROVE FALSE
        OBVIOUS
      <4>1. At(f, "made") /\ d = e /\ origin[e] = "queued"
        BY <1>0, <1>1, <2>4, MadeHere, CarriedOrigin
      <4>2. e \notin ToSet(queue')
        BY <1>9, <4>1
      <4> QED BY <1>0, <1>1, <2>4, <4>1, <4>2, NullAssumption DEF Rests, Places
    <3> QED BY <2>1, <3>1, <3>2
  <2> QED BY <1>1, <2>3, <2>4, OnceStays DEF DraftsInv
<1> QED BY <1>10, <1>11, <1>12, <1>13, <1>14 DEF DraftsInv

LEMMA SignClaimKeeps ==
  ASSUME DraftsInv, NEW c \in Claims, SignClaim(c), invalid' = invalid
  PROVE  DraftsInv'
<1> DEFINE d == Doc(c)
<1>0. /\ DraftsTypes /\ Places /\ c \in Callers /\ OriginOf(c) = "saved" /\ CallOk(c)
      /\ At(c, "sign") /\ ~At(c, "idle") /\ Grown
  BY OriginsOf DEF DraftsInv, DraftsTypes, SignClaim, At, Grown
<1>1. UNCHANGED <<form, typed, dirty, origin, queue, signing, quotes>>
  BY DEF SignClaim, browser
<1>2. /\ d \in Docs /\ d \in ToSet(calls[c].todo) /\ origin[d] = "saved" /\ calls[c] \in CallState
  BY <1>0, DocCarried DEF CallOk
<1>3. CASE calls' = [calls EXCEPT ![c] = Idle] /\ UNCHANGED <<stored, displaced, excused>>
  <2>1. /\ Idle \in CallState /\ CallOk(c)' /\ \A e \in Docs: ~Carries(c, e)'
        /\ \A b \in Callers \ {c}: calls'[b] = calls[b]
    BY <1>0, <1>3, CallEnds
  <2>2. ASSUME NEW e \in Docs PROVE MadeOnce(e)'
    <3>1. \A b \in Callers: Carries(b, e)' =>
              Carries(b, e) /\ b # c /\ (At(b, "made") => At(b, "made")' /\ Doc(b)' = Doc(b))
      BY <2>1 DEF Carries, At, Doc
    <3>2. ASSUME e \notin excused', quotes[e] > 0, Rests(e)'
          PROVE  Rests(e) /\ \A b \in Callers: Carries(b, e) => Carries(b, e)'
      <4>1. Rests(e)
        BY <1>1, <1>3, <3>2 DEF Rests
      <4>2. ~Carries(c, e)
        BY <1>0, <1>3, <3>2, MadeHere DEF At
      <4>3. \A b \in Callers \ {c}: Carries(b, e) => Carries(b, e)'
        BY <2>1 DEF Carries, At
      <4> QED BY <4>1, <4>2, <4>3
    <3> QED BY <1>1, <1>3, <3>1, <3>2, OnceStays DEF DraftsInv
  <2>3. quotes' \in [Docs -> Nat] /\ excused' \subseteq Docs
    BY <1>0, <1>1, <1>3 DEF DraftsTypes
  <2> QED BY <1>0, <1>1, <1>3, <2>1, <2>2, <2>3, CallsOnly
<1>4. CASE /\ Store(SignedDraft(d)) /\ excused' = excused \union Revived(d)
           /\ calls' = [calls EXCEPT ![c].pc = "post", ![c].sig = d]
  <2>1. Store(Draft(d, d))
    BY <1>4 DEF SignedDraft
  <2>2. /\ stored' \in StoredDrafts /\ stored' # Null /\ stored'.doc = d /\ stored'.sig = d
        /\ displaced \subseteq displaced' /\ displaced' \subseteq Docs
        /\ stored # Null => stored.doc = d \/ stored.doc \in displaced'
        /\ d \notin Revived(d) => stored # Null /\ stored.doc = d
        /\ Revived(d) \subseteq Docs
    <3> HIDE DEF d
    <3> QED BY <1>2, <2>1, StoreIs
  <2>3. PICK k: k = [calls[c] EXCEPT !.pc = "post", !.sig = d]
    OBVIOUS
  <2>4. k \in CallState /\ k.pc = "post" /\ k.sig = d /\ k.todo = calls[c].todo
    <3> HIDE DEF d
    <3> QED BY <1>2, <2>3 DEF CallState
  <2>5. calls' = [calls EXCEPT ![c] = k]
    <3> HIDE DEF d
    <3> QED BY <1>0, <1>4, <2>3 DEF DraftsTypes
  <2>6. calls' \in [Callers -> CallState] /\ calls'[c] = k /\ \A b \in Callers \ {c}: calls'[b] = calls[b]
    BY <1>0, <2>4, <2>5, OneCall
  <2>7. Doc(c)' = d
    BY <2>4, <2>6 DEF Doc
  <2>8. ASSUME NEW b \in Callers PROVE CallOk(b)'
    <3>1. CASE b = c
      BY <1>0, <1>1, <2>4, <2>6, <2>7, <3>1 DEF CallOk, At
    <3>2. CASE b # c
      BY <1>0, <1>1, <2>6, <3>2, CallStays DEF DraftsInv
    <3> QED BY <3>1, <3>2
  <2>9. DraftsTypes'
    BY <1>0, <1>1, <1>4, <2>2, <2>6 DEF DraftsTypes
  <2>10. Places'
    BY <1>0, <1>1, <1>2, <2>2 DEF Places
  <2>11. ASSUME NEW e \in Docs PROVE Kept(e)' /\ MadeOnce(e)'
    <3>1. Kept(e)'
      BY <1>1, <2>2 DEF DraftsInv, Kept
    <3>2. ASSUME e \notin excused', quotes[e] > 0, Rests(e)' PROVE Rests(e)
      BY <1>1, <1>4, <2>2, <3>2 DEF Rests
    <3>3. \A b \in Callers: Carries(b, e)' <=> Carries(b, e)
      BY <1>0, <2>4, <2>6 DEF Carries, At
    <3>4. \A b \in Callers: At(b, "made") => At(b, "made")' /\ Doc(b)' = Doc(b)
      BY <1>0, <2>6, <2>7 DEF At, Doc
    <3>5. MadeOnce(e)'
      BY <1>1, <1>4, <3>2, <3>3, <3>4, OnceStays DEF DraftsInv
    <3> QED BY <3>1, <3>5
  <2> QED BY <2>8, <2>9, <2>10, <2>11 DEF DraftsInv
<1> QED BY <1>3, <1>4 DEF SignClaim

LEMMA ClaimAnsweredKeeps ==
  ASSUME DraftsInv, NEW c \in Claims, ClaimAnswered(c), invalid' = invalid
  PROVE  DraftsInv'
<1> DEFINE d == Doc(c)
<1>0. /\ DraftsTypes /\ Places /\ c \in Callers /\ OriginOf(c) = "saved" /\ CallOk(c)
      /\ ~At(c, "idle") /\ Grown
  BY OriginsOf DEF DraftsInv, DraftsTypes, ClaimAnswered, At, Grown
<1>1. /\ UNCHANGED <<form, typed, dirty, origin, queue, signing, quotes, excused>>
      /\ calls' = [calls EXCEPT ![c] = Idle]
      /\ IF At(c, "made")
         THEN /\ stored' = Null
              /\ displaced' = IF stored # Null /\ stored.doc # d
                              THEN displaced \union {stored.doc} ELSE displaced
         ELSE UNCHANGED <<stored, displaced>>
  BY DEF ClaimAnswered, browser, ClaimSucceeds
<1>2. /\ d \in Docs /\ origin[d] = "saved" /\ (At(c, "made") => quotes[d] > 0)
      /\ stored # Null => stored.doc \in Docs
  BY <1>0, DocCarried DEF CallOk, DraftsTypes, StoredDrafts
<1>3. /\ Idle \in CallState /\ CallOk(c)' /\ calls' \in [Callers -> CallState]
      /\ \A e \in Docs: ~Carries(c, e)'
      /\ \A b \in Callers \ {c}: calls'[b] = calls[b]
  BY <1>0, <1>1, CallEnds
<1>4. ASSUME NEW b \in Callers PROVE CallOk(b)'
  BY <1>0, <1>1, <1>3, CallStays DEF DraftsInv
<1>5. DraftsTypes'
  BY <1>0, <1>1, <1>2, <1>3 DEF DraftsTypes
<1>6. Places'
  BY <1>0, <1>1 DEF Places
<1>7. ASSUME NEW e \in Docs PROVE Kept(e)'
  <2>1. Kept(e) /\ (e = d /\ At(c, "made") => quotes[e] # 0)
    BY <1>0, <1>2 DEF DraftsInv, DraftsTypes
  <2> QED BY <1>1, <2>1 DEF Kept
<1>8. ASSUME NEW e \in Docs PROVE MadeOnce(e)'
  <2>1. \A b \in Callers: Carries(b, e)' =>
            Carries(b, e) /\ b # c /\ (At(b, "made") => At(b, "made")' /\ Doc(b)' = Doc(b))
    BY <1>3 DEF Carries, At, Doc
  <2>2. ASSUME e \notin excused', quotes[e] > 0, Rests(e)'
        PROVE  Rests(e) /\ \A b \in Callers: Carries(b, e) => Carries(b, e)'
    <3>1. Rests(e)
      BY <1>1, <2>2 DEF Rests
    <3>2. ~Carries(c, e)
      <4> SUFFICES ASSUME Carries(c, e) PROVE FALSE
        OBVIOUS
      <4>1. At(c, "made") /\ origin[e] = "saved"
        BY <1>0, <1>1, <2>2, MadeHere, CarriedOrigin
      <4> QED BY <1>0, <1>1, <2>2, <4>1, NullAssumption DEF Rests, Places
    <3>3. \A b \in Callers \ {c}: Carries(b, e) => Carries(b, e)'
      BY <1>3 DEF Carries, At
    <3> QED BY <3>1, <3>2, <3>3
  <2> QED BY <1>1, <2>1, <2>2, OnceStays DEF DraftsInv
<1> QED BY <1>4, <1>5, <1>6, <1>7, <1>8 DEF DraftsInv

LEMMA CloseTabKeeps ==
  ASSUME DraftsInv, CloseTab, invalid' = invalid
  PROVE  DraftsInv'
<1>0. DraftsTypes /\ Places /\ Grown
  BY DEF DraftsInv, DraftsTypes, CloseTab, Grown
<1>1. /\ UNCHANGED <<origin, queue, stored, displaced, quotes>>
      /\ form' = Null /\ typed' = Null /\ dirty' = FALSE
      /\ signing' = [s \in Signers |-> Null]
      /\ calls' = [b \in Callers |-> Idle]
      /\ excused' = excused \union {Doc(c): c \in {b \in Callers: At(b, "made")}}
  BY DEF CloseTab
<1>2. Idle \in CallState /\ Idle.pc = "idle"
  BY DEF Idle, CallState
<1>3. ASSUME NEW c \in Callers, At(c, "made") PROVE Doc(c) \in Docs /\ Doc(c) \in excused'
  BY <1>0, <1>1, <1>3, DocCarried DEF At, DraftsInv
<1>4. excused' \subseteq Docs
  BY <1>0, <1>1, <1>3 DEF DraftsTypes
<1>5. \A b \in Callers: CallOk(b)' /\ \A e \in Docs: ~Carries(b, e)'
  BY <1>1, <1>2 DEF CallOk, Carries, At
<1>6. DraftsTypes'
  BY <1>0, <1>1, <1>2, <1>4 DEF DraftsTypes
<1>7. Places'
  BY <1>0, <1>1 DEF Places
<1>8. ASSUME NEW e \in Docs PROVE Kept(e)' /\ MadeOnce(e)'
  <2>1. Kept(e)'
    BY <1>1 DEF DraftsInv, Kept
  <2>2. ASSUME e \notin excused', quotes[e] > 0, Rests(e)'
        PROVE  Rests(e) /\ \A b \in Callers: ~Carries(b, e)
    <3>1. Rests(e)
      BY <1>0, <1>1, <2>2, NullAssumption DEF Rests
    <3>2. \A b \in Callers: ~Carries(b, e)
      BY <1>1, <1>3, <2>2, MadeHere
    <3> QED BY <3>1, <3>2
  <2> QED BY <1>1, <1>5, <2>1, <2>2, OnceStays DEF DraftsInv
<1> QED BY <1>5, <1>6, <1>7, <1>8 DEF DraftsInv

LEMMA DraftsFirst == Init => DraftsInv
<1> SUFFICES ASSUME DraftsInit PROVE DraftsInv
  BY DEF Init
<1>1. Idle \in CallState /\ Idle.pc = "idle"
  BY DEF Idle, CallState
<1>2. DraftsTypes
  BY <1>1 DEF DraftsInit, DraftsTypes, Origins
<1>3. Places
  BY NoneIn DEF DraftsInit, Places
<1>4. \A c \in Callers: CallOk(c) /\ \A d \in Docs: ~Carries(c, d)
  BY <1>1 DEF DraftsInit, CallOk, Carries, At
<1>5. \A d \in Docs: Kept(d) /\ MadeOnce(d)
  BY <1>4 DEF DraftsInit, Kept, MadeOnce
<1> QED BY <1>2, <1>3, <1>4, <1>5 DEF DraftsInv

LEMMA DraftsKeep == DraftsInv /\ [Next]_vars => DraftsInv'
<1> SUFFICES ASSUME DraftsInv, [Next]_vars PROVE DraftsInv'
  OBVIOUS
<1>1. CASE UNCHANGED draftsVars
  <2>1. CallsBegin
    BY <1>1, NothingBegins DEF DraftsInv, draftsVars
  <2> QED
    BY <1>1, <2>1, BeginKeeps DEF draftsVars, browser, guest, DraftsInv, DraftsTypes, Places
<1>2. CASE DraftsNext
  <2>1. invalid' = invalid
    BY <1>2 DEF DraftsNext
  <2>2. ASSUME NEW c \in Callers, MakeClient(c) \/ MakeDevis(c) \/ Refuse(c) \/ LoseAnswer(c)
        PROVE  DraftsInv'
    BY <2>1, <2>2, MakeClientKeeps, MakeDevisKeeps, RefuseKeeps
  <2>3. ASSUME NEW d \in Docs, Fill(d) \/ Type(d) PROVE DraftsInv'
    BY <2>1, <2>3, NewContentKeeps
  <2>4. CASE Enqueue \/ SubmitDevis \/ FormAnswered
    BY <2>1, <2>4, EnqueueKeeps, SubmitDevisKeeps, FormAnsweredKeeps
  <2>5. ASSUME NEW f \in Flushes, FlushAnswered(f) \/ GoOnline(f) PROVE DraftsInv'
    BY <2>1, <2>5, FlushAnsweredKeeps, GoOnlineKeeps
  <2>6. CASE GoOffline \/ OpenLogin \/ OpenPending
    BY <2>1, <2>6, PagesKeep
  <2>7. CASE OpenGuestForm
    BY <2>1, <2>7, OpenGuestFormKeeps
  <2>8. CASE SubmitGuestDraft \/ \E s \in Signers: Autosave(s) \/ SignAnswered(s)
    BY <2>1, <2>8, GuestKeeps
  <2>9. CASE CloseTab
    BY <2>1, <2>9, CloseTabKeeps
  <2>10. ASSUME NEW c \in Claims, LogIn(c) \/ SignClaim(c) \/ ClaimAnswered(c) PROVE DraftsInv'
    BY <2>1, <2>10, LogInKeeps, SignClaimKeeps, ClaimAnsweredKeeps
  <2>11. ASSUME NEW f \in Flushes, NEW c \in Claims, OpenDashboard(f, c) PROVE DraftsInv'
    BY <2>1, <2>11, OpenDashboardKeeps
  <2> QED
    BY <1>2, <2>2, <2>3, <2>4, <2>5, <2>6, <2>7, <2>8, <2>9, <2>10, <2>11 DEF DraftsNext, DraftsStep
<1> QED BY <1>1, <1>2, Parts

\* The signature stored with a draft, and the one a claim sends, are of that draft, however
\* the saves, the signatures and the claims overlap (guest-devis-draft.ts,
\* claim-guest-draft-client.ts).
THEOREM SignaturesMatch == Spec => []ClaimsAreSigned
<1>1. ASSUME DraftsInv PROVE ClaimsAreSigned
  BY <1>1 DEF DraftsInv, ClaimsAreSigned, Places, CallOk, At, Callers
<1> QED BY <1>1, DraftsFirst, DraftsKeep, PTL DEF Spec

\* What was typed offline is queued until the server has a quote of it, and a valid guest
\* draft is stored until then or until another write takes its place (offline-queue.ts).
THEOREM DraftsAreKept == Spec => []NothingLost
<1>1. ASSUME DraftsInv PROVE NothingLost
  BY <1>1 DEF DraftsInv, NothingLost, Kept
<1> QED BY <1>1, DraftsFirst, DraftsKeep, PTL DEF Spec

\* A content becomes two quotes only if an answer was lost, two calls carried it at once, or
\* a late signature or an open form wrote a claimed draft back.
THEOREM NoSecondQuote == Spec => []OneQuoteEach
<1>1. ASSUME DraftsInv PROVE OneQuoteEach
  BY <1>1 DEF DraftsInv, DraftsTypes, OneQuoteEach, MadeOnce
<1> QED BY <1>1, DraftsFirst, DraftsKeep, PTL DEF Spec

-----------------------------------------------------------------------------
(* The lists.  Only the youngest read counts: an older one is behind it,   *)
(* and a change that was made will be followed by a read that is younger.  *)

ReadState == [found: (SUBSET (Rows \union {Own})) \union {Unread}, old: BOOLEAN]
RequestState ==
    [pc: {"none", "sent", "done", "refused", "stuck"}, adds: SUBSET Rows, drops: SUBSET Rows]

PanelsTypes ==
    /\ list \subseteq Rows \union {Own} /\ stale \in BOOLEAN
    /\ asked \in [Requests -> RequestState]
    /\ reads \in Seq(ReadState)

Changed == \E q \in Requests: asked[q].pc = "done"
Behind(i) == i < Len(reads) \/ reads[i].old \/ reads[i].found = Unread

PanelsInv ==
    /\ PanelsTypes
    /\ \A i \in 1 .. Len(reads): reads[i].found = list \/ Changed \/ Behind(i)
    /\ ~stale => shown = list \/ Changed \/ Len(reads) > 0

LEMMA PanelsFirst == Init => PanelsInv
<1> SUFFICES ASSUME PanelsInit PROVE PanelsInv
  BY DEF Init
<1>1. Len(reads) = 0 /\ reads \in Seq(ReadState) /\ stale = TRUE
  BY EmptySeq DEF PanelsInit
<1>2. asked \in [Requests -> RequestState] /\ list \subseteq Rows \union {Own}
  BY DEF PanelsInit, RequestState, NoChange
<1> QED BY <1>1, <1>2 DEF PanelsInv, PanelsTypes

\* A request goes from one state to another.
LEMMA RequestMoves ==
  ASSUME PanelsTypes, NEW q \in Requests, NEW r \in RequestState, asked' = [asked EXCEPT ![q] = r]
  PROVE  /\ asked' \in [Requests -> RequestState]
         /\ asked[q].pc # "done" /\ Changed => Changed'
         /\ r.pc = "done" => Changed'
<1>1. asked' \in [Requests -> RequestState] /\ asked'[q] = r /\ \A p \in Requests \ {q}: asked'[p] = asked[p]
  BY DEF PanelsTypes
<1> QED BY <1>1 DEF Changed

\* A read begins: the others are behind it.
LEMMA ReadBegins ==
  ASSUME PanelsTypes, reads' = Append(reads, Read)
  PROVE  /\ reads' \in Seq(ReadState) /\ Len(reads') > 0
         /\ \A i \in 1 .. Len(reads'): reads'[i].found = list' \/ Changed' \/ Behind(i)'
<1>1. Read \in ReadState /\ Read.found = Unread
  BY DEF Read, ReadState
<1>2. PICK n \in Nat: n = Len(reads)
  BY DEF PanelsTypes
<1>3. /\ reads' \in Seq(ReadState) /\ Len(reads') = n + 1 /\ reads'[n + 1] = Read
  BY <1>1, <1>2 DEF PanelsTypes
<1>4. ASSUME NEW i \in 1 .. (n + 1) PROVE Behind(i)'
  <2>1. CASE i = n + 1
    BY <1>1, <1>3, <2>1 DEF Behind
  <2>2. CASE i < n + 1
    BY <1>3, <2>2 DEF Behind
  <2> QED BY <2>1, <2>2
<1> QED BY <1>3, <1>4

\* A change that no button of the page made, or whose answer is lost: every answer that is on
\* its way is old.
LEMMA ReadsAge ==
  ASSUME PanelsInv, reads' = AgeServed, stale' = TRUE, asked' \in [Requests -> RequestState],
         list' \subseteq Rows \union {Own}
  PROVE  PanelsInv'
<1>1. PICK n \in Nat: n = Len(reads) /\ DOMAIN reads = 1 .. n
  BY DEF PanelsInv, PanelsTypes
<1>2. \A i \in 1 .. n: reads[i] \in ReadState
  BY <1>1 DEF PanelsInv, PanelsTypes
<1>3. \A i \in 1 .. n: reads'[i] = [reads[i] EXCEPT !.old = @ \/ reads[i].found # Unread]
  BY <1>1 DEF AgeServed
<1>4. ASSUME NEW i \in 1 .. n PROVE reads'[i] \in ReadState /\ (reads'[i].old \/ reads'[i].found = Unread)
  BY <1>2, <1>3 DEF ReadState
<1>5. reads' = [i \in 1 .. n |-> reads'[i]]
  BY <1>1 DEF AgeServed
<1>6. reads' \in Seq(ReadState) /\ Len(reads') = n
  BY <1>4, <1>5
<1>7. \A i \in 1 .. n: Behind(i)'
  BY <1>4 DEF Behind
<1> QED BY <1>6, <1>7 DEF PanelsInv, PanelsTypes

\* A read ends: what was asked before it is old, and when it was the youngest nothing that
\* is left counts.
LEMMA ReadEnds ==
  ASSUME PanelsInv, NEW n \in 1 .. Len(reads), EndRead(n), list' = list, asked' = asked
  PROVE  /\ reads' \in Seq(ReadState) /\ Len(reads') = Len(reads) - 1 /\ (Changed' <=> Changed)
         /\ \A i \in 1 .. Len(reads'): reads'[i].found = list' \/ Changed' \/ Behind(i)'
<1>1. PICK m \in Nat: m = Len(reads) /\ DOMAIN reads = 1 .. m /\ \A i \in 1 .. m: reads[i] \in ReadState
  BY DEF PanelsInv, PanelsTypes
<1>2. PICK aged: aged = [j \in DOMAIN reads |-> [reads[j] EXCEPT !.old = @ \/ j < n]]
  OBVIOUS
<1>3. reads' = RemoveAt(aged, n)
  BY <1>2 DEF EndRead
<1>4. ASSUME NEW j \in 1 .. m
      PROVE  /\ aged[j] \in ReadState /\ aged[j].found = reads[j].found
             /\ (reads[j].old \/ j < n => aged[j].old)
  <2>1. aged[j] = [reads[j] EXCEPT !.old = @ \/ j < n] /\ (j < n) \in BOOLEAN
    BY <1>1, <1>2
  <2> QED BY <1>1, <2>1 DEF ReadState
<1>5. aged \in Seq(ReadState) /\ Len(aged) = m
  <2>1. aged = [j \in 1 .. m |-> aged[j]]
    BY <1>1, <1>2
  <2> QED BY <1>4, <2>1
<1>6. /\ reads' \in Seq(ReadState) /\ Len(reads') = m - 1
      /\ \A j \in 1 .. (m - 1): reads'[j] = IF j < n THEN aged[j] ELSE aged[j + 1]
  BY <1>1, <1>3, <1>5, Taken
<1>7. Changed' <=> Changed
  BY DEF Changed
<1>8. ASSUME NEW j \in 1 .. (m - 1) PROVE reads'[j].found = list \/ Changed \/ Behind(j)'
  <2>1. CASE j < n
    <3>1. reads'[j].old
      BY <1>1, <1>4, <1>6, <2>1
    <3> QED BY <3>1 DEF Behind
  <2>2. CASE ~(j < n)
    <3>1. /\ j + 1 \in 1 .. m /\ (j + 1 < m => j < m - 1)
      OBVIOUS
    <3>2. reads'[j] = aged[j + 1] /\ aged[j + 1].found = reads[j + 1].found
          /\ (reads[j + 1].old => aged[j + 1].old)
      BY <1>4, <1>6, <2>2, <3>1
    <3>3. reads[j + 1].found = list \/ Changed \/ Behind(j + 1)
      BY <1>1, <3>1 DEF PanelsInv
    <3>4. Behind(j + 1) => Behind(j)'
      BY <1>1, <1>6, <3>1, <3>2 DEF Behind
    <3> QED BY <3>2, <3>3, <3>4
  <2> QED BY <2>1, <2>2
<1> QED BY <1>1, <1>6, <1>7, <1>8

\* What a button asks for changes nothing yet.
LEMMA AskKeeps ==
  ASSUME PanelsInv, NEW q \in Requests, NEW adds \in SUBSET Rows, NEW drops \in SUBSET Rows,
         Ask(q, adds, drops)
  PROVE  PanelsInv'
<1>1. PICK r: r = [pc |-> "sent", adds |-> adds, drops |-> drops]
  OBVIOUS
<1>2. r \in RequestState /\ asked' = [asked EXCEPT ![q] = r] /\ asked[q].pc # "done"
      /\ UNCHANGED <<list, shown, reads, stale>>
  BY <1>1 DEF Ask, RequestState, NoChange
<1>3. asked' \in [Requests -> RequestState] /\ (Changed => Changed')
  BY <1>2, RequestMoves DEF PanelsInv
<1>4. \A i \in 1 .. Len(reads): Behind(i) => Behind(i)'
  BY <1>2 DEF Behind
<1> QED BY <1>2, <1>3, <1>4 DEF PanelsInv, PanelsTypes

LEMMA ButtonsKeep ==
  ASSUME PanelsInv, NEW q \in Requests,
         \/ \E row \in Rows \ {Own}: InviteMember(q, row) \/ RemoveRow(q, row)
         \/ RevokeOthers(q)
  PROVE  PanelsInv'
<1>1. ASSUME NEW row \in Rows \ {Own}, InviteMember(q, row) PROVE PanelsInv'
  BY <1>1, AskKeeps DEF InviteMember
<1>2. ASSUME NEW row \in Rows \ {Own}, RemoveRow(q, row) PROVE PanelsInv'
  BY <1>2, AskKeeps DEF RemoveRow
<1>3. ASSUME RevokeOthers(q) PROVE PanelsInv'
  BY <1>3, AskKeeps DEF RevokeOthers
<1> QED BY <1>1, <1>2, <1>3

LEMMA ServerKeeps ==
  ASSUME PanelsInv, NEW q \in Requests, Change(q) \/ RefuseChange(q) \/ InviteHalfDone(q)
  PROVE  PanelsInv'
<1>0. PICK r: r = asked[q] /\ r \in RequestState
  BY DEF PanelsInv, PanelsTypes
<1>1. ASSUME Change(q) PROVE PanelsInv'
  <2>1. PICK s: s = [r EXCEPT !.pc = "done"]
    OBVIOUS
  <2>2. s \in RequestState /\ s.pc = "done" /\ asked' = [asked EXCEPT ![q] = s]
    BY <1>0, <1>1, <2>1 DEF Change, RequestState
  <2>3. asked' \in [Requests -> RequestState] /\ Changed'
    BY <2>2, RequestMoves DEF PanelsInv
  <2>4. list' \subseteq Rows \union {Own} /\ UNCHANGED <<shown, reads, stale>>
    BY <1>0, <1>1 DEF Change, PanelsInv, PanelsTypes, RequestState
  <2> QED BY <2>3, <2>4 DEF PanelsInv, PanelsTypes
<1>2. PICK s: s = [r EXCEPT !.pc = "refused"]
  OBVIOUS
<1>3. s \in RequestState
  BY <1>0, <1>2 DEF RequestState
<1>4. ASSUME RefuseChange(q) PROVE PanelsInv'
  <2>1. asked' = [asked EXCEPT ![q] = s] /\ asked[q].pc # "done" /\ UNCHANGED <<list, shown, reads, stale>>
    BY <1>0, <1>2, <1>4 DEF RefuseChange
  <2>2. asked' \in [Requests -> RequestState] /\ (Changed => Changed')
    BY <1>3, <2>1, RequestMoves DEF PanelsInv
  <2>3. \A i \in 1 .. Len(reads): Behind(i) => Behind(i)'
    BY <2>1 DEF Behind
  <2> QED BY <2>1, <2>2, <2>3 DEF PanelsInv, PanelsTypes
<1>5. ASSUME InviteHalfDone(q) PROVE PanelsInv'
  <2>1. asked' = [asked EXCEPT ![q] = s]
    BY <1>0, <1>2, <1>5 DEF InviteHalfDone
  <2>2. asked' \in [Requests -> RequestState]
    BY <1>3, <2>1, RequestMoves DEF PanelsInv
  <2>3. list' \subseteq Rows \union {Own}
    BY <1>0, <1>5 DEF InviteHalfDone, PanelsInv, PanelsTypes, RequestState
  <2> QED BY <1>5, <2>2, <2>3, ReadsAge DEF InviteHalfDone
<1> QED BY <1>1, <1>4, <1>5

\* The answer to a change that was made is followed by a read.
LEMMA ChangeAnsweredKeeps ==
  ASSUME PanelsInv, NEW q \in Requests, ChangeAnswered(q)
  PROVE  PanelsInv'
<1>1. NoChange \in RequestState
  BY DEF NoChange, RequestState
<1>2. asked' = [asked EXCEPT ![q] = NoChange] /\ UNCHANGED <<list, shown, stale>>
  BY DEF ChangeAnswered
<1>3. asked' \in [Requests -> RequestState] /\ (asked[q].pc # "done" /\ Changed => Changed')
  BY <1>1, <1>2, RequestMoves DEF PanelsInv
<1>4. CASE Reloads(q)
  <2>1. reads' = Append(reads, Read)
    BY <1>4 DEF ChangeAnswered
  <2>2. /\ reads' \in Seq(ReadState) /\ Len(reads') > 0
        /\ \A i \in 1 .. Len(reads'): reads'[i].found = list' \/ Changed' \/ Behind(i)'
    BY <2>1, ReadBegins DEF PanelsInv
  <2> QED BY <1>2, <1>3, <2>2 DEF PanelsInv, PanelsTypes
<1>5. CASE ~Reloads(q)
  <2>1. reads' = reads /\ asked[q].pc # "done"
    BY <1>5 DEF ChangeAnswered, Reloads
  <2>2. \A i \in 1 .. Len(reads): Behind(i) => Behind(i)'
    BY <2>1 DEF Behind
  <2> QED BY <1>2, <1>3, <2>1, <2>2 DEF PanelsInv, PanelsTypes
<1> QED BY <1>4, <1>5

LEMMA ElsewhereKeeps ==
  ASSUME PanelsInv, \/ \E q \in Requests: ChangeLost(q)
                    \/ \E row \in Rows: Elsewhere(row)
  PROVE  PanelsInv'
<1>1. ASSUME NEW q \in Requests, ChangeLost(q) PROVE PanelsInv'
  <2>0. PICK r: r = asked[q] /\ r \in RequestState
    BY DEF PanelsInv, PanelsTypes
  <2>1. NoChange \in RequestState /\ [r EXCEPT !.pc = "stuck"] \in RequestState
    BY <2>0 DEF NoChange, RequestState
  <2>2. PICK s \in RequestState: asked' = [asked EXCEPT ![q] = s]
    <3>1. CASE panel = "sessions"
      BY <1>1, <2>0, <2>1, <3>1 DEF ChangeLost
    <3>2. CASE panel # "sessions"
      BY <1>1, <2>1, <3>2 DEF ChangeLost
    <3> QED BY <3>1, <3>2
  <2>3. asked' \in [Requests -> RequestState]
    BY <2>2, RequestMoves DEF PanelsInv
  <2>4. list' \subseteq Rows \union {Own} /\ reads' = AgeServed /\ stale' = TRUE
    BY <1>1 DEF ChangeLost, PanelsInv, PanelsTypes
  <2> QED BY <2>3, <2>4, ReadsAge
<1>2. ASSUME NEW row \in Rows, Elsewhere(row) PROVE PanelsInv'
  <2>1. asked' \in [Requests -> RequestState] /\ list' \subseteq Rows \union {Own}
        /\ reads' = AgeServed /\ stale' = TRUE
    BY <1>2 DEF Elsewhere, PanelsInv, PanelsTypes
  <2> QED BY <2>1, ReadsAge
<1> QED BY <1>1, <1>2

\* A read is served with what the list is at that moment.
LEMMA ServeReadKeeps ==
  ASSUME PanelsInv, NEW n \in 1 .. Len(reads), ServeRead(n)
  PROVE  PanelsInv'
<1>1. PICK m \in Nat: m = Len(reads) /\ DOMAIN reads = 1 .. m /\ \A i \in 1 .. m: reads[i] \in ReadState
  BY DEF PanelsInv, PanelsTypes
<1>2. PICK s: s = [reads[n] EXCEPT !.found = list]
  OBVIOUS
<1>3. s \in ReadState /\ s.found = list
  BY <1>1, <1>2 DEF ReadState, PanelsInv, PanelsTypes
<1>4. reads' = [reads EXCEPT ![n] = s] /\ UNCHANGED <<list, shown, asked, stale>>
  BY <1>2 DEF ServeRead
<1>5. reads' \in Seq(ReadState) /\ Len(reads') = m /\ reads'[n] = s
      /\ \A i \in (1 .. m) \ {n}: reads'[i] = reads[i]
  BY <1>1, <1>3, <1>4 DEF PanelsInv, PanelsTypes
<1>6. Changed' <=> Changed
  BY <1>4 DEF Changed
<1>7. ASSUME NEW i \in 1 .. m PROVE reads'[i].found = list \/ Changed \/ Behind(i)'
  <2>1. CASE i = n
    BY <1>3, <1>5, <2>1
  <2>2. CASE i # n
    <3>1. reads'[i] = reads[i] /\ (Behind(i) => Behind(i)')
      BY <1>1, <1>5, <2>2 DEF Behind
    <3> QED BY <1>1, <3>1 DEF PanelsInv
  <2> QED BY <2>1, <2>2
<1> QED BY <1>1, <1>4, <1>5, <1>6, <1>7 DEF PanelsInv, PanelsTypes

\* What the youngest read brings is the list, unless a change is yet to be answered.
LEMMA ReadEndsKeeps ==
  ASSUME PanelsInv, NEW n \in 1 .. Len(reads), ReadAnswered(n) \/ ReadFailed(n)
  PROVE  PanelsInv'
<1>1. EndRead(n) /\ list' = list /\ asked' = asked
  BY DEF ReadAnswered, ReadFailed
<1>2. PICK m \in Nat: m = Len(reads) /\ \A i \in 1 .. m: reads[i] \in ReadState
  BY DEF PanelsInv, PanelsTypes
<1>3. /\ reads' \in Seq(ReadState) /\ Len(reads') = m - 1 /\ (Changed' <=> Changed)
      /\ \A i \in 1 .. Len(reads'): reads'[i].found = list' \/ Changed' \/ Behind(i)'
  BY <1>1, <1>2, ReadEnds
<1>4. CASE ReadAnswered(n)
  <2>1. shown' = reads[n].found /\ stale' = reads[n].old /\ reads[n].found # Unread /\ stale' \in BOOLEAN
    BY <1>2, <1>4 DEF ReadAnswered, ReadState
  <2>2. reads[n].found = list \/ Changed \/ Behind(n)
    BY DEF PanelsInv
  <2>3. Behind(n) /\ ~reads[n].old => m - 1 > 0
    BY <1>2, <2>1 DEF Behind
  <2> QED BY <1>1, <1>3, <2>1, <2>2, <2>3 DEF PanelsInv, PanelsTypes
<1>5. CASE ReadFailed(n)
  BY <1>1, <1>3, <1>5 DEF ReadFailed, PanelsInv, PanelsTypes
<1> QED BY <1>4, <1>5

LEMMA OpenedKeeps ==
  ASSUME PanelsInv, ShowTrail \/ OpenPanel
  PROVE  PanelsInv'
<1>1. ASSUME ShowTrail PROVE PanelsInv'
  <2>0. UNCHANGED <<list, shown, asked, stale>>
    BY <1>1 DEF ShowTrail
  <2>1. CASE reads' = Append(reads, Read)
    <3>1. /\ reads' \in Seq(ReadState) /\ Len(reads') > 0
          /\ \A i \in 1 .. Len(reads'): reads'[i].found = list' \/ Changed' \/ Behind(i)'
      BY <2>1, ReadBegins DEF PanelsInv
    <3> QED BY <2>0, <3>1 DEF PanelsInv, PanelsTypes
  <2>2. CASE UNCHANGED reads
    BY <2>0, <2>2 DEF PanelsInv, PanelsTypes, Changed, Behind
  <2> QED BY <1>1, <2>1, <2>2 DEF ShowTrail
<1>2. ASSUME OpenPanel PROVE PanelsInv'
  <2>1. Read \in ReadState /\ Read.found = Unread /\ NoChange \in RequestState
    BY DEF Read, ReadState, NoChange, RequestState
  <2>2. asked' \in [Requests -> RequestState] /\ stale' = TRUE /\ list' = list
    BY <1>2, <2>1 DEF OpenPanel
  <2>3. reads' \in Seq(ReadState) /\ \A i \in 1 .. Len(reads'): Behind(i)'
    <3>1. CASE panel = "trail"
      <4>1. reads' = << >>
        BY <1>2, <3>1 DEF OpenPanel
      <4> QED BY <4>1
    <3>2. CASE panel # "trail"
      <4>1. reads' = <<Read>>
        BY <1>2, <3>2 DEF OpenPanel
      <4>2. Len(reads') = 1 /\ reads'[1] = Read
        BY <4>1
      <4> QED BY <2>1, <4>1, <4>2 DEF Behind
    <3> QED BY <3>1, <3>2
  <2> QED BY <2>2, <2>3 DEF PanelsInv, PanelsTypes
<1> QED BY <1>1, <1>2

LEMMA PanelsStep == PanelsInv /\ [Next]_vars => PanelsInv'
<1> SUFFICES ASSUME PanelsInv, [Next]_vars PROVE PanelsInv'
  OBVIOUS
<1>1. CASE UNCHANGED panelsVars
  BY <1>1 DEF panelsVars, PanelsInv, PanelsTypes, Changed, Behind
<1>2. CASE PanelsNext
  <2>1. \A i \in DOMAIN reads: i \in 1 .. Len(reads)
    BY DEF PanelsInv, PanelsTypes
  <2>2. ASSUME NEW i \in DOMAIN reads, ServeRead(i) \/ ReadAnswered(i) \/ ReadFailed(i) PROVE PanelsInv'
    BY <2>1, <2>2, ServeReadKeeps, ReadEndsKeeps
  <2>3. ASSUME NEW q \in Requests,
               \/ \E row \in Rows \ {Own}: InviteMember(q, row) \/ RemoveRow(q, row)
               \/ RevokeOthers(q) \/ Change(q) \/ InviteHalfDone(q) \/ RefuseChange(q)
               \/ ChangeAnswered(q) \/ ChangeLost(q)
        PROVE  PanelsInv'
    BY <2>3, ButtonsKeep, ServerKeeps, ChangeAnsweredKeeps, ElsewhereKeeps
  <2>4. ASSUME \E row \in Rows: Elsewhere(row) PROVE PanelsInv'
    BY <2>4, ElsewhereKeeps
  <2> QED BY <1>2, <2>2, <2>3, <2>4, OpenedKeeps DEF PanelsNext
<1> QED BY <1>1, <1>2, Parts

\* A button's own effect is shown once nothing is on its way, however its request and the
\* reads of several buttons interleave (TeamPanel.tsx, AccountSessionsPanel.tsx).
THEOREM EffectsAreShown == Spec => []ShowsItsEffects
<1>1. ASSUME PanelsInv PROVE ShowsItsEffects
  BY <1>1 DEF PanelsInv, PanelsTypes, ShowsItsEffects, Changed, NoChange
<1> QED BY <1>1, PanelsFirst, PanelsStep, PTL DEF Spec

-----------------------------------------------------------------------------
(* The journal.  Its rows are those of AuditTamper, about which            *)
(* AuditChain_proofs says all there is to say.                             *)

Chain == INSTANCE AuditChain_proofs

\* An instance of a module has its own copy of what FiniteSets defines.
LEMMA SameCount == \A S: Journal!Cardinality(S) = Chain!Cardinality(S)
  BY Zenon DEF Journal!Cardinality, Chain!Cardinality

LEMMA SameBegin ==
  ASSUME NEW w, NEW event
  PROVE  Journal!Begin(w, event) <=> Chain!Begin(w, event)
<1>1. Journal!Idle = Chain!Idle
  BY DEF Journal!Idle, Chain!Idle
<1>2. \A v, pc: Journal!At(v, pc) <=> Chain!At(v, pc)
  BY DEF Journal!At, Chain!At
<1>3. {v \in Writers: ~Journal!At(v, "idle")} = {v \in Writers: ~Chain!At(v, "idle")}
  BY <1>2
<1>4. /\ Journal!Cardinality(entries) = Chain!Cardinality(entries)
      /\ Journal!Cardinality({v \in Writers: ~Journal!At(v, "idle")})
             = Chain!Cardinality({v \in Writers: ~Chain!At(v, "idle")})
  BY Zenon, <1>3, SameCount
<1> QED BY Zenon, <1>1, <1>2, <1>4 DEF Journal!Begin, Chain!Begin

LEMMA SameChain ==
  /\ Journal!TInit => Chain!TInit
  /\ Journal!Next <=> Chain!Next
<1>1. Journal!TInit => Chain!TInit
  BY DEF Journal!TInit, Journal!Init, Journal!Idle, Chain!TInit, Chain!Init, Chain!Idle
<1>2. \A w, event: Journal!Begin(w, event) <=> Chain!Begin(w, event)
  BY SameBegin
<1>3. \A w: Journal!LockAndRead(w) <=> Chain!LockAndRead(w)
  BY Zenon DEF Journal!LockAndRead, Journal!At, Journal!LockFree, Journal!IsLast, Journal!LinkTo,
               Chain!LockAndRead, Chain!At, Chain!LockFree, Chain!IsLast, Chain!LinkTo
<1>4. \A w: Journal!Insert(w) <=> Chain!Insert(w)
  BY DEF Journal!Insert, Journal!At, Journal!Idle, Journal!SeqFree, Journal!Entry, Journal!ReleaseLock,
         Journal!ComputeAuditEntryHash,
         Chain!Insert, Chain!At, Chain!Idle, Chain!SeqFree, Chain!Entry, Chain!ReleaseLock,
         Chain!ComputeAuditEntryHash
<1>5. \A w: Journal!Fail(w) <=> Chain!Fail(w)
  BY DEF Journal!Fail, Journal!At, Journal!Idle, Journal!ReleaseLock,
         Chain!Fail, Chain!At, Chain!Idle, Chain!ReleaseLock
<1> QED BY <1>1, <1>2, <1>3, <1>4, <1>5 DEF Journal!Next, Chain!Next

LEMMA SameChanges == Journal!TNext => Chain!TNext
<1>1. Journal!Append1 => Chain!Append1
  BY SameChain DEF Journal!Append1, Chain!Append1
<1>2. \A old, new: Journal!Replace(old, new) <=> Chain!Replace(old, new)
  BY DEF Journal!Replace, Chain!Replace
<1>3. Journal!Modify => Chain!Modify
  BY <1>2 DEF Journal!Modify, Chain!Modify, Journal!ComputeAuditEntryHash, Chain!ComputeAuditEntryHash
<1>4. Journal!Delete => Chain!Delete
  BY <1>2 DEF Journal!Delete, Chain!Delete
<1>5. Journal!Splice => Chain!Splice
  BY <1>2 DEF Journal!Splice, Chain!Splice
<1>6. Journal!Reorder => Chain!Reorder
  BY <1>2 DEF Journal!Reorder, Chain!Reorder
<1> QED BY <1>1, <1>3, <1>4, <1>5, <1>6 DEF Journal!TNext, Chain!TNext

LEMMA SameRows == Chain!DetectsChanges => Journal!DetectsChanges
<1>1. \A i: Journal!EntryAt(entries, i) = Chain!EntryAt(entries, i)
  BY Zenon DEF Journal!EntryAt, Chain!EntryAt
<1>2. \A i: Journal!PreviousHash(entries, i) = Chain!PreviousHash(entries, i)
  BY <1>1 DEF Journal!PreviousHash, Chain!PreviousHash
<1>3. \A seq, link, event: Journal!ComputeAuditEntryHash(seq, link, event)
                                = Chain!ComputeAuditEntryHash(seq, link, event)
  BY DEF Journal!ComputeAuditEntryHash, Chain!ComputeAuditEntryHash
<1>4. Journal!Verifies(entries) => Chain!Verifies(entries)
  <2> SUFFICES ASSUME Journal!Verifies(entries), NEW i \in 1 .. Chain!Cardinality(entries)
               PROVE  \E e \in entries:
                          /\ e.seq = i /\ e.prevHash = Chain!PreviousHash(entries, i)
                          /\ e.entryHash = Chain!ComputeAuditEntryHash(e.seq, e.prevHash, e.event)
    BY Zenon DEF Chain!Verifies
  <2>1. i \in 1 .. Journal!Cardinality(entries)
    BY SameCount
  <2>2. PICK e \in entries: /\ e.seq = i /\ e.prevHash = Journal!PreviousHash(entries, i)
                            /\ e.entryHash = Journal!ComputeAuditEntryHash(e.seq, e.prevHash, e.event)
    BY Zenon, <2>1 DEF Journal!Verifies
  <2> QED BY <1>2, <1>3, <2>2
<1> QED BY <1>4 DEF Journal!DetectsChanges, Chain!DetectsChanges

LEMMA JournalStep == [Next]_vars => [Chain!TNext]_(Chain!tvars)
<1>1. UNCHANGED journalVars => UNCHANGED Chain!tvars
  BY DEF journalVars, Chain!tvars
<1>2. UNCHANGED vars => UNCHANGED journalVars
  BY DEF vars
<1>3. Next => UNCHANGED journalVars \/ Journal!TNext
  BY DEF Next
<1> QED BY <1>1, <1>2, <1>3, SameChanges

\* Whatever is changed in the database, as long as the page says that the chain verifies, a
\* row that was left alone follows the entries that it followed (audit.ts, verifyAuditChain).
THEOREM ChangesAreDetected == Spec => []JournalDetectsChanges
<1>1. Init => Chain!TamperInv
  BY SameChain, JournalAssumption, Chain!TamperFirst DEF Init
<1>2. Chain!TamperInv /\ [Next]_vars => Chain!TamperInv'
  BY JournalStep, JournalAssumption, Chain!TamperStep
<1>3. Chain!TamperInv => JournalDetectsChanges
  BY SameRows, JournalAssumption, Chain!TamperShows DEF JournalDetectsChanges
<1> QED BY <1>1, <1>2, <1>3, PTL DEF Spec
=============================================================================
