----------------------------- MODULE MCCronJobs -----------------------------
(* Two keys and two PDFs.  What happens to one key can happen to the other, so the second *)
(* PDF, if there is one, is always of the same key: the other cases are the mirror images *)
(* of these.                                                                              *)
EXTENDS CronJobs

MaxPdfsDef ==
    LET first == CHOOSE k \in Keys: TRUE
    IN [k \in Keys |-> IF k = first THEN 2 ELSE 1]
=============================================================================
