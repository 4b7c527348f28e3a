--------------------------- MODULE MCQuotaLedger ---------------------------
(***************************************************************************)
(* A small instance of QuotaLedger: two reviews and an assessment, of      *)
(* which the budget allows one review and the assessment.                  *)
(***************************************************************************)
EXTENDS QuotaLedger, TLC

CONSTANTS r1, r2, s1

Costs == [i \in Ids |-> IF i = s1 THEN 1 ELSE 2]

Symmetry == Permutations(Attempts) \cup Permutations({r1, r2})
=============================================================================
