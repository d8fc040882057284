----------------------------- MODULE MCMMPilot -----------------------------
(***************************************************************************)
(* One market, as the halts, the registry and the fill cursor are the same *)
(* for all; two orders are a bid and an ask or a quote and its             *)
(* replacement, and two fills an order filled in parts.                    *)
(***************************************************************************)
EXTENDS MMPilot
CONSTANT m1
=============================================================================
