------------------------------ MODULE QuoteForm ------------------------------
(***************************************************************************)
(* What the form of a quote shows and what the server makes of it: the    *)
(* simple and the detailed mode, the franchise of VAT, the draft of a guest *)
(* and its claim (DevisForm.tsx, tva.ts), createDevis and computeTotals     *)
(* (services/devis.ts, numbers.ts).                                         *)
(*                                                                         *)
(* Amounts are cents, quantities hundredths, rates tenths of a percent, and *)
(* a unit price is counted in sixths of a cent, so that a price with VAT of *)
(* 20 % can be divided exactly, as nearly as a double does it.              *)
(***************************************************************************)
EXTENDS Integers, Sequences, SequencesExt

CONSTANTS
    Items,     \* lines that are typed: quantity, cents, rate
    Prices,    \* prices typed in the simple mode, in cents
    MaxItems,  \* bound on the lines
    NoQuote

ASSUME FormAssumption == Items \subseteq [qty: Nat, cents: Nat, tva: Nat] /\ Prices \subseteq Nat

VARIABLES
    visitor,   \* the form of a visitor, or of a user
    up,        \* where a double sends an amount that is half a cent
    regime,    \* company.tvaApplicable
    vat,       \* the regime that the form shows
    simple,    \* the simple mode
    price,     \* its price, zero when empty
    lines,     \* the lines of the detailed mode
    notes,     \* the conditions: none, typed, or the mention of the franchise
    draft,     \* what the guest's browser keeps
    made       \* what the server has made

entry == <<vat, simple, price, lines, notes>>
quoteFormVars == <<visitor, up, regime, entry, draft, made>>

Half(n, d) == IF up THEN (2 * n + d) \div (2 * d) ELSE (2 * n + d - 1) \div (2 * d)

Line(qty, sixths, tva) == [qty |-> qty, price |-> sixths, tva |-> tva]
Rates == {0, 55, 100, 200}

-----------------------------------------------------------------------------
(* Totals                                                                  *)

Plus(a, b) == a + b
SumOf(s) == FoldLeft(Plus, 0, s)
Each(Op(_), s) == [i \in DOMAIN s |-> Op(s[i])]

computeLineTotalHT(l) == Half(l.qty * l.price, 600)
resolveLineTva(tva, applicable) == IF ~applicable THEN 0 ELSE IF tva \in Rates THEN tva ELSE 200
LineTax(l, applicable) == Half(computeLineTotalHT(l) * resolveLineTva(l.tva, applicable), 1000)

Totals(ht, tax) == [HT |-> ht, TVA |-> tax, TTC |-> ht + tax]

\* What the form and the preview show: the rounded tax of each line.
computeDraftTotals(s, applicable) ==
    LET tax(l) == LineTax(l, applicable) IN
    Totals(SumOf(Each(computeLineTotalHT, s)), SumOf(Each(tax, s)))

\* What the server stores.  The mutant rounds the tax of the whole.
TaxOfTotal(s, applicable) ==
    LET tax(l) == computeLineTotalHT(l) * resolveLineTva(l.tva, applicable) IN
    Totals(SumOf(Each(computeLineTotalHT, s)), Half(SumOf(Each(tax, s)), 1000))
computeTotals(s, applicable) ==
    LET tax(l) == LineTax(l, applicable) IN
    Totals(SumOf(Each(computeLineTotalHT, s)), SumOf(Each(tax, s)))

\* A price with VAT is divided by 1.2.
SimpleLine == Line(100, IF vat THEN 5 * price ELSE 6 * price, IF vat THEN 200 ELSE 0)
displayLignes == IF simple THEN <<SimpleLine>> ELSE lines
Shown == computeDraftTotals(displayLignes, vat)

-----------------------------------------------------------------------------
(* The form                                                                *)

NewLine(tva) == Line(100, 0, tva)
Typed(item) == Line(item.qty, 6 * item.cents, IF vat THEN item.tva ELSE 0)

TypePrice ==
    /\ simple
    /\ price' \in Prices /\ price' # price
    /\ UNCHANGED <<visitor, up, regime, vat, simple, lines, notes, draft, made>>

\* updateLigne: where VAT is not applicable, no rate can be chosen.
TypeLine(i, item) ==
    /\ ~simple /\ i \in DOMAIN lines
    /\ lines' = [lines EXCEPT ![i] = [Typed(item) EXCEPT !.tva = IF vat THEN @ ELSE lines[i].tva]]
    /\ UNCHANGED <<visitor, up, regime, vat, simple, price, notes, draft, made>>

\* A new line has the rate of the first one.
AddLine ==
    /\ ~simple /\ Len(lines) < MaxItems
    /\ lines' = Append(lines, NewLine(IF vat THEN lines[1].tva ELSE 0))
    /\ UNCHANGED <<visitor, up, regime, vat, simple, price, notes, draft, made>>

\* Both modes keep what was typed in them; the one shown is the one that counts.
ToggleMode ==
    /\ simple' = ~simple
    /\ UNCHANGED <<visitor, up, regime, vat, price, lines, notes, draft, made>>

TypeNotes ==
    /\ ~simple /\ notes = "none"
    /\ notes' = "typed"
    /\ UNCHANGED <<visitor, up, regime, vat, simple, price, lines, draft, made>>

\* The rates are gone when the box is ticked again.
ToggleFranchise ==
    /\ visitor /\ ~simple
    /\ vat' = ~vat
    /\ lines' = IF vat THEN [i \in DOMAIN lines |-> [lines[i] EXCEPT !.tva = 0]] ELSE lines
    /\ UNCHANGED <<visitor, up, regime, simple, price, notes, draft, made>>

-----------------------------------------------------------------------------
(* The draft                                                               *)

Ready(l) == l.qty > 0 /\ l.price > 0
Filled(l) == l.price > 0
CountedOne(l) == IF l.qty = 0 THEN [l EXCEPT !.qty = 100] ELSE l

\* ensureFranchiseNotes adds the mention, alone or below what was typed.
Mention(text, applicable) == text = "mention" \/ ~applicable

Kept(s, exact) ==
    [lines |-> s, vat |-> vat, notes |-> notes, seen |-> Shown, exact |-> exact,
     typed |-> IF simple /\ vat THEN price ELSE 0]

\* buildAutosaveDraft drops the empty lines and counts an empty quantity as one.
AddFilled(s, l) == IF Filled(l) THEN Append(s, l) ELSE s

Autosaved ==
    /\ visitor
    /\ LET s == IF simple THEN displayLignes ELSE FoldLeft(AddFilled, << >>, lines) IN
       /\ s # << >>
       /\ draft' = Kept(Each(CountedOne, s), \A i \in DOMAIN s: s[i].qty > 0)
    /\ UNCHANGED <<visitor, up, regime, entry, made>>

SubmitGuest ==
    /\ visitor
    /\ \A i \in DOMAIN displayLignes: Ready(displayLignes[i])
    /\ draft' = Kept(displayLignes, TRUE)
    /\ UNCHANGED <<visitor, up, regime, entry, made>>

\* A stored draft always has a date, and opens in the detailed mode.  The mention is taken
\* off the notes only where it stands below something.
Reopen ==
    /\ draft # NoQuote
    /\ vat' = draft.vat /\ simple' = FALSE /\ price' = 0
    /\ lines' = draft.lines
    /\ notes' = IF draft.notes = "none" /\ ~draft.vat THEN "mention" ELSE draft.notes
    /\ UNCHANGED <<visitor, up, regime, draft, made>>

-----------------------------------------------------------------------------
(* The server                                                              *)

\* createDevis under the regime of the company at that time.
createDevis(from, applicable) ==
    [totals |-> computeTotals(from.lines, applicable), vat |-> applicable, from |-> from,
     mention |-> Mention(from.notes, applicable)]

SubmitUser ==
    /\ ~visitor
    /\ \A i \in DOMAIN displayLignes: Ready(displayLignes[i])
    /\ made' = createDevis(Kept(displayLignes, TRUE), regime)
    /\ UNCHANGED <<visitor, up, regime, entry, draft>>

\* A claim can end the VAT of the company, never begin it.
Claim ==
    /\ draft # NoQuote
    /\ regime' = (regime /\ draft.vat)
    /\ made' = createDevis(draft, regime')
    /\ draft' = NoQuote
    /\ UNCHANGED <<visitor, up, entry>>

\* The company is saved in another tab.
ChangeRegime ==
    /\ regime' = ~regime
    /\ UNCHANGED <<visitor, up, entry, draft, made>>

\* A user's form takes the regime of the company when its page is made.
OpenForm ==
    /\ vat' = (visitor \/ regime)
    /\ simple' = TRUE /\ price' = 0 /\ notes' = "none"
    /\ lines' = <<NewLine(IF visitor \/ regime THEN 200 ELSE 0)>>
    /\ made' = NoQuote
    /\ UNCHANGED <<visitor, up, regime, draft>>

QuoteFormInit ==
    /\ visitor \in BOOLEAN /\ up \in BOOLEAN /\ regime = TRUE
    /\ vat = TRUE /\ simple = TRUE /\ price = 0 /\ notes = "none"
    /\ lines = <<NewLine(200)>>
    /\ draft = NoQuote /\ made = NoQuote

\* The page of the quote replaces the form.
QuoteFormNext ==
    \/ /\ made = NoQuote
       /\ \/ TypePrice \/ AddLine \/ ToggleMode \/ TypeNotes \/ ToggleFranchise
          \/ \E i \in 1 .. MaxItems, item \in Items: TypeLine(i, item)
          \/ Autosaved \/ SubmitGuest \/ Reopen
          \/ SubmitUser \/ Claim \/ ChangeRegime
    \/ OpenForm

-----------------------------------------------------------------------------
(* Properties                                                              *)

Distance(a, b) == IF a > b THEN a - b ELSE b - a

\* A quote has the totals that the form showed when it was sent, saved or kept, as long as
\* both count with the same regime of VAT and no quantity was left empty; a price
\* typed with VAT is kept to the cent; and a quote with VAT says that VAT is not applicable
\* only if the mention was left in the notes of a draft that was opened again
\* (DevisForm.tsx, numbers.ts:55-77, tva.ts:32-52).
QuoteAgrees ==
    made # NoQuote =>
        /\ made.vat = made.from.vat /\ made.from.exact => made.totals = made.from.seen
        /\ made.vat /\ made.from.typed > 0 => Distance(made.totals.TTC, made.from.typed) <= 1
        /\ made.mention <=> ~made.vat \/ made.from.notes = "mention"
=============================================================================
