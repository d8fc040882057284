----------------------------- MODULE MCTreasury -----------------------------
(***************************************************************************)
(* The instance TLC checks Treasury on: a withdrawal, and a smaller       *)
(* transfer on the corridor that nothing is wired to.                      *)
(***************************************************************************)
EXTENDS Treasury, TLC

Amounts == [t \in Transfers |-> IF t = "out" THEN 2 ELSE 1]
ProcessSymmetry == Permutations(Callers)
=============================================================================
