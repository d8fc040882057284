-------------------------- MODULE MCTradeExecution --------------------------
(***************************************************************************)
(* The instances TLC checks TradeExecution on.  The properties are at the  *)
(* end of that module.                                                     *)
(***************************************************************************)
EXTENDS TradeExecution

AllKalshi == [l \in Legs |-> "kalshi"]
TwoVenues == [l \in Legs |-> IF l = 1 THEN "polymarket" ELSE "kalshi"]
Exchanges == [l \in Legs |-> IF l = 1 THEN "kalshi" ELSE "exchange"]

\* ORDER_TIME_IN_FORCE: "fok", "gtc_first_leg" and "gtc".
NoGTC    == {}
FirstGTC == {1}
AllGTC   == Legs
=============================================================================
