--------------------------- MODULE MCTargetRunner ---------------------------
(***************************************************************************)
(* Instances of PolicyTargetRunner.                                        *)
(***************************************************************************)
EXTENDS PolicyTargetRunner

NoSkip == [p \in Periods |-> 0]

\* One period is skipped from the third on, and from the last on if it could be.
SkipSome == [p \in Periods |-> IF p \in {3, MaxPer - 1} THEN 1 ELSE 0]

\* The flag of a stabilization target, which is no year.
Flag == -1

=============================================================================
