-------------------------------- MODULE Paper --------------------------------
(***************************************************************************)
(* The PDF of a quote, an invoice or an attestation (pdf-document.ts): each *)
(* draw function writes at fixed distances below the one before, without a *)
(* look at what the texts take, and pdfkit starts a page when a text does  *)
(* not end above the bottom margin.                                        *)
(*                                                                         *)
(* Lengths are points; a line of text takes its font size.  The left column *)
(* ends at x = 240, where the quantities begin.  The fixed sentences take   *)
(* one line each, at the widths the functions give.                        *)
(***************************************************************************)
EXTENDS Naturals, FiniteSets, Sequences, SequencesExt

CONSTANT Papers   \* the documents that are printed

ASSUME PapersAssumption ==
    /\ Papers # {}
    /\ Papers \subseteq [kind : {"DEVIS", "FACTURE", "ATTESTATION"}, logo : Nat, issuer : Nat \ {0},
                        franchise : BOOLEAN, contact : Nat, rows : Nat, wraps : Nat, notes : Nat,
                        valid : BOOLEAN, decennale : BOOLEAN, insured : BOOLEAN, register : Nat,
                        signed : BOOLEAN, hashed : BOOLEAN]

VARIABLES
    doc,    \* what is printed
    todo,   \* the functions that are still to draw
    y,      \* where the last one left off
    sheet   \* the page that is drawn on, and all that was drawn

paperVars == <<doc, todo, y, sheet>>

PageTop == 50
PageBottom == 791     \* A4 less a margin of 50, rounded down

Left == {"left"}
Right == {"right"}
Wide == Left \union Right
Boxed == {"boxed"}    \* inside the frame of the signature

Flag(b) == IF b THEN 1 ELSE 0
Larger(a, b) == IF a > b THEN a ELSE b
Smaller(a, b) == IF a < b THEN a ELSE b

-----------------------------------------------------------------------------
(* pdfkit                                                                  *)

Text(cols, top, size, lines) == [cols |-> cols, top |-> top, size |-> size, lines |-> lines]
Mark(page, cols, from, to) == [page |-> page, cols |-> cols, from |-> from, to |-> to]

\* The lines that do not end above the margin go to the top of a new page, which all
\* that follows is drawn on.
Put(s, text) ==
    LET room == IF text.top > PageBottom THEN 0 ELSE (PageBottom - text.top) \div text.size
        here == Smaller(room, text.lines)
        over == text.lines - here
        kept == IF here = 0 THEN {}
                ELSE {Mark(s.page, text.cols, text.top, text.top + here * text.size)}
    IN IF over = 0
       THEN [s EXCEPT !.marks = @ \union kept]
       ELSE [page |-> s.page + 1,
             marks |-> s.marks \union kept
                       \union {Mark(s.page + 1, text.cols, PageTop, PageTop + over * text.size)}]

\* A frame or an image is drawn wherever it is.
Frame(s, cols, top, height) ==
    [s EXCEPT !.marks = @ \union {Mark(s.page, cols, top, top + height)}]

AddPage(s) == [s EXCEPT !.page = @ + 1]

-----------------------------------------------------------------------------
(* The functions                                                           *)

Draw(function) == todo # << >> /\ Head(todo) = function /\ todo' = Tail(todo) /\ UNCHANGED doc

IssuerTop == IF doc.logo > 0 THEN 180 ELSE 130

\* With the franchise of VAT, one more line under the issuer's.
drawHeader ==
    /\ Draw("header")
    /\ LET issuer == [i \in 1 .. doc.issuer |->
                          Text(Left, IssuerTop + (IF i = 1 THEN 0 ELSE 14 + 12 * (i - 2)), 10, 1)]
           end == IssuerTop + 14 + 12 * (doc.issuer - 1)
           titles == <<Text(Left, 50, 20, 1), Text(Right, 50, 16, 1),
                       Text(Right, 72, 10, 1), Text(Right, 86, 10, 1)>>
           mention == IF doc.franchise THEN <<Text(Left, end + 2, 8, 1)>> ELSE << >>
           logo == IF doc.logo > 0 THEN Frame(sheet, Left, 80, doc.logo) ELSE sheet
       IN /\ sheet' = FoldLeft(Put, logo, titles \o issuer \o mention)
          /\ y' = Larger(end + 16 * Flag(doc.franchise) + 8, 200)

drawClient ==
    /\ Draw("client")
    /\ sheet' = FoldLeft(Put, sheet,
                    <<Text(Right, y - 20, 9, 1), Text(Right, y - 6, 10, 1)>>
                    \o [i \in 1 .. doc.contact |-> Text(Right, y + 8 + 12 * (i - 1), 10, 1)])
    /\ UNCHANGED y

\* The mutant forgets that the net to pay stands two lines below the total.
TotalsShort == 32
TotalsHeight == 52

\* Every row takes 22 points, whatever the lines of its description.
RowTop(top, i) == top + 24 + 22 * (i - 1)

drawLinesTable ==
    /\ Draw("table")
    /\ LET top == y + 30
           rows == [i \in 1 .. 2 * doc.rows |->
                       IF i % 2 = 1 THEN Text(Left, RowTop(top, (i + 1) \div 2), 9, doc.wraps)
                       ELSE Text(Right, RowTop(top, i \div 2), 9, 1)]
           end == RowTop(top, doc.rows + 1) + 10
           tax == IF doc.franchise THEN Text(Left, end + 14, 9, 1) ELSE Text(Right, end + 14, 9, 1)
       IN /\ sheet' = FoldLeft(Put, sheet,
                          <<Text(Left, top, 9, 1), Text(Right, top, 9, 1)>> \o rows
                          \o <<Text(Right, end, 9, 1), tax, Text(Right, end + 32, 12, 1)>>)
          /\ y' = end + TotalsHeight

drawNotes ==
    /\ Draw("notes")
    /\ sheet' = IF doc.notes > 0 THEN Put(sheet, Text(Wide, y, 9, doc.notes)) ELSE sheet
    /\ y' = y + 28 * Flag(doc.notes > 0)

drawValidUntil ==
    /\ Draw("validUntil")
    /\ sheet' = IF doc.valid THEN Put(sheet, Text(Wide, y, 9, 1)) ELSE sheet
    /\ y' = y + 18 * Flag(doc.valid)

drawAssuranceDecennale ==
    /\ Draw("assurance")
    /\ sheet' = IF doc.decennale
                THEN FoldLeft(Put, sheet, <<Text(Wide, y, 8, 1), Text(Wide, y + 12, 7, 1)>>)
                ELSE sheet
    /\ y' = y + 36 * Flag(doc.decennale)

drawBonPourAccord ==
    /\ Draw("accord")
    /\ sheet' = FoldLeft(Put, Frame(sheet, Right, y, 110),
                    <<Text(Boxed, y + 10, 7, 1), Text(Boxed, y + 28, 7, 1), Text(Boxed, y + 82, 9, 1)>>
                    \o (IF doc.signed THEN <<Text(Boxed, y + 97, 6, 1)>> ELSE << >>))
    /\ y' = y + 122

\* Three sentences, the franchise of VAT in bold, the other insurance.
drawLegalMentions ==
    /\ Draw("legal")
    /\ LET bold == Flag(doc.franchise)
           first == [i \in 1 .. 3 + bold |-> Text(Wide, y + 12 * (i - 1), 7, 1)]
           end == y + 36 + 14 * bold
       IN /\ sheet' = FoldLeft(Put, sheet, first \o
                          (IF doc.insured THEN <<Text(Wide, end, 7, 1)>> ELSE << >>))
          /\ y' = end + 12 * Flag(doc.insured) + 8

drawIntegrityFooter ==
    /\ Draw("integrity")
    /\ LET footer == Smaller(Larger(y, 720), 760) IN
       sheet' = FoldLeft(Put, sheet, <<Text(Wide, footer, 6, 1)>>
                    \o (IF doc.hashed THEN <<Text(Wide, footer + 10, 6, 1)>> ELSE << >>))
    /\ UNCHANGED y

\* A page of fixed paragraphs, each below the one before.
drawRetractationPage ==
    /\ Draw("retractation")
    /\ sheet' = Put(AddPage(sheet), Text(Wide, PageTop, 9, 45))
    /\ UNCHANGED y

\* Fourteen values, the browser on up to three lines, then the image.
drawSignatureCertificate ==
    /\ Draw("certificate")
    /\ LET values == [i \in 1 .. 14 |-> Text(Wide, 112 + 16 * (i - 1) + (IF i > 11 THEN 16 ELSE 0), 8,
                                             IF i = 11 THEN 3 ELSE 1)]
           end == 112 + 16 * 15 + 8
       IN sheet' = FoldLeft(Put, Frame(FoldLeft(Put, AddPage(sheet), values), Left, end + 12, 70),
                       <<Text(Left, end, 8, 1), Text(Wide, end + 96, 7, 3)>>)
    /\ UNCHANGED y

\* The due date and the notes of an invoice stand where they stand.
drawDates ==
    /\ Draw("dates")
    /\ sheet' = FoldLeft(Put, sheet,
                    (IF doc.valid THEN <<Text(Wide, 660, 9, 1)>> ELSE << >>)
                    \o (IF doc.notes > 0 THEN <<Text(Wide, 675, 9, doc.notes)>> ELSE << >>))
    /\ UNCHANGED y

\* The register, the capital, the insurances and the franchise go before four
\* sentences; then the hash, sixty points below the first line.
FooterLines == 4 + doc.register + Flag(doc.decennale) + Flag(doc.insured) + Flag(doc.franchise)

drawFactureFooter ==
    /\ Draw("footer")
    /\ sheet' = FoldLeft(Put, sheet, <<Text(Wide, 740, 9, FooterLines)>>
                    \o (IF doc.hashed THEN <<Text(Wide, 800, 7, 1)>> ELSE << >>))
    /\ UNCHANGED y

drawAttestation ==
    /\ Draw("attestation")
    /\ sheet' = FoldLeft(Put, sheet, <<Text(Wide, 50, 18, 1), Text(Wide, 78, 10, 1),
                                       Text(Wide, 110, 11, 4), Text(Wide, 170, 11, 2)>>)
    /\ UNCHANGED y

\* generateDevisPdf, generateFacturePdf, generateAttestationPdf.
Functions(d) ==
    IF d.kind = "DEVIS"
    THEN <<"header", "client", "table", "notes", "validUntil", "assurance", "accord", "legal",
           "integrity", "retractation">> \o (IF d.signed THEN <<"certificate">> ELSE << >>)
    ELSE IF d.kind = "FACTURE" THEN <<"header", "client", "table", "dates", "footer">>
    ELSE <<"attestation", "footer">>

PaperInit ==
    /\ todo = Functions(doc)
    /\ y = PageTop
    /\ sheet = [page |-> 1, marks |-> {}]

PaperNext ==
    \/ drawHeader \/ drawClient \/ drawLinesTable \/ drawNotes \/ drawValidUntil
    \/ drawAssuranceDecennale \/ drawBonPourAccord \/ drawLegalMentions \/ drawIntegrityFooter
    \/ drawRetractationPage \/ drawSignatureCertificate \/ drawDates \/ drawFactureFooter
    \/ drawAttestation

-----------------------------------------------------------------------------
(* Properties                                                              *)

Overprint(a, b) ==
    /\ a # b /\ a.page = b.page /\ a.cols \intersect b.cols # {}
    /\ a.from < b.to /\ b.from < a.to

\* What the fixed distances leave room for.
HeaderEnd(d) ==
    Larger((IF d.logo > 0 THEN 180 ELSE 130) + 10 + 12 * d.issuer + 16 * Flag(d.franchise), 200)

Height(d) ==
    HeaderEnd(d) + 116 + 22 * d.rows + 28 * Flag(d.notes > 0) + 18 * Flag(d.valid)
    + 36 * Flag(d.decennale) + 166 + 14 * Flag(d.franchise) + 12 * Flag(d.insured)

Fits(d) ==
    /\ d.logo <= 100 /\ d.contact <= 2 /\ d.wraps <= 2
    /\ d.kind = "DEVIS" => d.notes <= 3 /\ Height(d) <= 772
    /\ d.kind = "FACTURE" => d.notes <= 7 /\ HeaderEnd(d) + 110 + 22 * d.rows <= 660

\* A document that fits is printed without two texts or images on the same spot, and on
\* as many pages as it has parts: one for a quote, one for its withdrawal form, one for
\* the certificate; one for an invoice or an attestation, one more for a footer above
\* five lines, and one more for its hash, which stands below the margin
\* (pdf-document.ts).
LaidOut ==
    todo = << >> /\ (doc.kind = "ATTESTATION" \/ Fits(doc)) =>
        /\ \A a, b \in sheet.marks: ~Overprint(a, b)
        /\ sheet.page = IF doc.kind = "DEVIS" THEN 2 + Flag(doc.signed)
                        ELSE 1 + Flag(FooterLines > 5) + Flag(doc.hashed)
=============================================================================
