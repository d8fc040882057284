--------------------------- MODULE TransferJournal ---------------------------
(***************************************************************************)
(* What the table of transfers promises: a key is booked once, money moves *)
(* only for a row that is still open and a bounded number of times, and a  *)
(* row is closed once, by a status that is true of what was paid.          *)
(***************************************************************************)
EXTENDS Naturals, Sequences

CONSTANT MaxTries

VARIABLES journal,  \* the rows ever booked: [key, pay, at, status]
          paid      \* the payments made for each row

vars == <<journal, paid>>

Open(i) == journal[i].status = "pending"

Init == journal = <<>> /\ paid = <<>>

Book ==
  LET n == Len(journal) + 1 IN
  /\ Len(journal') = n
  /\ \A i \in DOMAIN journal :
       journal'[i] = journal[i] /\ journal[i].key # journal'[n].key
  /\ journal'[n].status = "pending"
  /\ paid' = Append(paid, 0)

Pay(i) ==
  /\ Open(i) /\ paid[i] < MaxTries
  /\ paid' = [paid EXCEPT ![i] = @ + 1]
  /\ UNCHANGED journal

Close(i) ==
  /\ Open(i)
  /\ \E status \in {"succeeded", "dry_run", "failed"} :
       /\ journal' = [journal EXCEPT ![i].status = status]
       /\ status = "succeeded" => paid[i] > 0
       /\ status = "dry_run" => paid[i] = 0
  /\ UNCHANGED paid

Next == Book \/ \E i \in DOMAIN journal : Pay(i) \/ Close(i)

Spec == Init /\ [][Next]_vars
=============================================================================
