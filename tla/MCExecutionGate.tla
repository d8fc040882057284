-------------------------- MODULE MCExecutionGate --------------------------
(***************************************************************************)
(* The instances TLC checks ExecutionGate on: a selection on an exchange   *)
(* and a quote of the market maker, each in a market of its own; or, in    *)
(* one market, a selection, a whale and a forecast, which is research.     *)
(***************************************************************************)
EXTENDS ExecutionGate

KindTypes   == [k \in Kinds |-> CASE k = "forecast"  -> "JevCrypto"
                                  [] k = "selection" -> "BetfairBackAll"
                                  [] k = "quote"     -> "MarketMake"
                                  [] OTHER           -> "WhaleCopy"]
KindMarkets == [k \in Kinds |-> IF k = "quote" THEN "m2" ELSE "m1"]
=============================================================================
