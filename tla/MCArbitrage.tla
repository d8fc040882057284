---------------------------- MODULE MCArbitrage -----------------------------
(***************************************************************************)
(* The instance TLC checks Arbitrage on: a TriangularCross whose NO leg is *)
(* on a venue with a commission, which is never asked for a fresh price.   *)
(***************************************************************************)
EXTENDS Arbitrage

KalshiAndSmarkets == <<"kalshi", "smarkets">>
=============================================================================
