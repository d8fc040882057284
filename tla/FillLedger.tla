----------------------------- MODULE FillLedger -----------------------------
(***************************************************************************)
(* What a polled inventory promises: fills arrive by themselves, the book  *)
(* takes each of ours once and never takes one back, and when it cannot    *)
(* vouch for itself it says so and starts again from everything that has   *)
(* arrived.                                                                *)
(***************************************************************************)
EXTENDS Integers, Sequences, Functions

CONSTANT Markets

VARIABLES fills,    \* what has arrived: [market, amount, own]
          counted,  \* the fills in the book
          book,     \* market -> signed contracts
          trusted

vars == <<fills, counted, book, trusted>>

Total(m, S) == SumFunctionOnSet([i \in DOMAIN fills |-> fills[i].amount],
                                {i \in S : fills[i].market = m})
Ours == {i \in DOMAIN fills : fills[i].own}

Init == fills = <<>> /\ counted = {} /\ book = [m \in Markets |-> 0] /\ ~trusted

Arrive ==
  /\ Len(fills') = Len(fills) + 1 /\ \A i \in DOMAIN fills : fills'[i] = fills[i]
  /\ UNCHANGED <<counted, book, trusted>>

Count ==
  /\ trusted
  /\ \E i \in Ours \ counted :
       /\ counted' = counted \cup {i}
       /\ book' = [book EXCEPT ![fills[i].market] = @ + fills[i].amount]
  /\ UNCHANGED <<fills, trusted>>

Distrust ==
  /\ trusted' = FALSE /\ counted' = {} /\ book' = [m \in Markets |-> 0]
  /\ UNCHANGED fills

Rebase ==
  /\ ~trusted /\ trusted' = TRUE
  /\ \E S \in SUBSET DOMAIN fills :
       /\ Ours \subseteq S /\ counted' = S
       /\ book' = [m \in Markets |-> Total(m, S)]
  /\ UNCHANGED fills

Next == Arrive \/ Count \/ Distrust \/ Rebase

Spec == Init /\ [][Next]_vars
=============================================================================
