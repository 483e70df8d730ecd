--------------------------- MODULE MCDerivatives ---------------------------
(***************************************************************************)
(* Three markets and five activities: a supply and a demand of market 1,   *)
(* of which the demand depends on the supply and on the price of market 2; *)
(* a CDR demand in market 2 that is silent at price 1; an activity of      *)
(* market 2 that depends on the demand of market 1; and one of market 3    *)
(* that depends on that.                                                   *)
(***************************************************************************)
EXTENDS Derivatives

MCReadsPrice == <<1, 2, 2, 1, 3>>
MCInput == <<0, 1, 0, 2, 4>>
MCAddsTo == <<1, 1, 2, 2, 3>>
MCSilent == {3}

MCResult(a, price, input) ==
    CASE a = 1 -> 2 * price
      [] a = 2 -> input * price - 3
      [] a = 3 -> 3 * (price - 1)
      [] a = 4 -> input - price * price
      [] a = 5 -> input + price

=============================================================================
