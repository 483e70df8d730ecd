---------------------------- MODULE MCFinalDemand ----------------------------
(***************************************************************************)
(* Instances of CDRFinalDemand.                                            *)
(***************************************************************************)
EXTENDS CDRFinalDemand, TLC

Growing == [p \in Periods |-> p + 2]

\* The first period after calibration is the default start.
Unset == -1

\* Without a carbon price, at one that is too low, and at one that is not.
TwoPrices == 0 :> 0 @@ 1 :> 1 @@ 2 :> 4

\* A fraction that is not allowed, half and all of the stock, and more than all.
SomeFractions == {-1, 1, 2, 3}

\* What the memory of the stock may have held.
Garbage == {-3, 3}

=============================================================================
