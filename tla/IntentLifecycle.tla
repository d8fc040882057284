--------------------------- MODULE IntentLifecycle ---------------------------
(***************************************************************************)
(* What the policy broker promises for an intent, whatever runs it: its    *)
(* executor is called at most once, never while a definite outcome is on   *)
(* record, and the outcome is consistent with what the executor did.       *)
(* IN_DOUBT is the only outcome that leaves open whether the side effect   *)
(* happened: a call may still follow it, and it alone may replace another  *)
(* outcome or be replaced by one.                                          *)
(***************************************************************************)
EXTENDS Integers

CONSTANT Intents

VARIABLES submitted, outcome, invocations, verified

avars == <<submitted, outcome, invocations, verified>>

AInit ==
  /\ submitted = {}
  /\ outcome = [i \in Intents |-> "PENDING"]
  /\ invocations = [i \in Intents |-> 0]
  /\ verified = {}

ASubmit(i) ==
  /\ submitted' = submitted \cup {i}
  /\ UNCHANGED <<outcome, invocations, verified>>

\* The one call of the executor, for an intent not yet decided against.
AInvoke(i) ==
  /\ i \in submitted
  /\ invocations[i] = 0
  /\ outcome[i] \in {"PENDING", "IN_DOUBT"}
  /\ invocations' = [invocations EXCEPT ![i] = 1]
  /\ UNCHANGED <<submitted, outcome, verified>>

AVerify(i) ==
  /\ invocations[i] = 1
  /\ outcome[i] \in {"PENDING", "IN_DOUBT"}
  /\ verified' = verified \cup {i}
  /\ UNCHANGED <<submitted, outcome, invocations>>

ADecide(i, status) ==
  /\ i \in submitted
  /\ outcome[i] = "PENDING" \/ "IN_DOUBT" \in {outcome[i], status}
  /\ \/ status = "EXECUTED" /\ i \in verified
     \/ status = "REJECTED" /\ invocations[i] = 0
     \/ status = "HARD_STOP" /\ i \notin verified
     \/ status = "IN_DOUBT"
  /\ outcome' = [outcome EXCEPT ![i] = status]
  /\ UNCHANGED <<submitted, invocations, verified>>

ANext ==
  \E i \in Intents :
    \/ ASubmit(i) \/ AInvoke(i) \/ AVerify(i)
    \/ \E s \in {"EXECUTED", "REJECTED", "HARD_STOP", "IN_DOUBT"} : ADecide(i, s)

ASpec == AInit /\ [][ANext]_avars
=============================================================================
