----------------------------- MODULE MCCoinJoin -----------------------------
(* Three addresses, three coins: c1 is submitted with its true amount or   *)
(* with an inflated one, c2 with its true amount or (a PSBT) with none,    *)
(* c3, too small to pay its share of the fee, only with an inflated one.   *)
EXTENDS CoinJoin

MCTrueValue == [c1 |-> 112, c2 |-> 118, c3 |-> 105]

MCInput ==
  {[coin |-> "c1", amount |-> {112}, over |-> {}],
   [coin |-> "c1", amount |-> {118}, over |-> {}],
   [coin |-> "c2", amount |-> {118}, over |-> {}],
   [coin |-> "c2", amount |-> {}, over |-> {}],
   [coin |-> "c3", amount |-> {118}, over |-> {}]}
=============================================================================
