------------------------------ MODULE MCQuotes ------------------------------
(* Two requests on one workspace, with one key; a form with two lines, one *)
(* of them without a quantity; documents on both sides of what fits; the   *)
(* links of three quotes and an invoice with the same number.              *)
EXTENDS Quotes, TLC

\* The requests of the links are those of the server.
Symmetry == Permutations(Requests)

\* Two tokens that start alike, and one that does not.
TokensDef == {<<"a", "a">>, <<"a", "b">>, <<"b", "a">>}

ItemsDef == {[qty |-> 0, cents |-> 1999, tva |-> 200], [qty |-> 150, cents |-> 333, tva |-> 55]}
PricesDef == {0, 9999}

Quotes == [kind : {"DEVIS"}, logo : {0, 80}, issuer : {3, 8}, franchise : BOOLEAN, contact : {2, 3},
           rows : {1, 6, 12}, wraps : {2}, notes : {0, 2}, valid : BOOLEAN, decennale : BOOLEAN,
           insured : BOOLEAN, register : {0}, signed : BOOLEAN, hashed : {TRUE}]
Invoices == [kind : {"FACTURE"}, logo : {0, 80, 160}, issuer : {3, 8}, franchise : BOOLEAN, contact : {1},
             rows : {1, 11, 15}, wraps : {2, 3}, notes : {0, 2}, valid : BOOLEAN, decennale : BOOLEAN,
             insured : BOOLEAN, register : {0, 2}, signed : {FALSE}, hashed : BOOLEAN]
Attestations == [kind : {"ATTESTATION"}, logo : {0}, issuer : {3}, franchise : BOOLEAN, contact : {0},
                 rows : {1}, wraps : {1}, notes : {0}, valid : {FALSE}, decennale : BOOLEAN,
                 insured : BOOLEAN, register : {0, 2}, signed : {FALSE}, hashed : {TRUE}]
PapersDef == Quotes \union Invoices \union Attestations
=============================================================================
