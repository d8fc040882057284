--------------------------- MODULE MCPolicyBroker ---------------------------
(***************************************************************************)
(* The instances TLC checks the policy broker on.  The properties are at   *)
(* the end of PolicyBroker.                                                *)
(***************************************************************************)
EXTENDS PolicyBroker, TLC

\* Each worker has its own holder name, hostname:pid:uuid.
OwnHolder == [w \in Workers |-> w]

WorkerSymmetry == Permutations(Workers)
=============================================================================
