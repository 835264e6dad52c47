--------------------------- MODULE MCFactureChain ---------------------------
(* Instances of FactureChain for TLC.                                      *)
EXTENDS FactureChain, TLC

\* Invoices are alike, and so are requests with the same rights.
Symmetry ==
    Permutations(Factures) \union Permutations(Issuers)
        \union Permutations(Requests \ Issuers)
=============================================================================
