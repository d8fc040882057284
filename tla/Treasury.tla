------------------------------ MODULE Treasury ------------------------------
(***************************************************************************)
(* Programmatic transfers of USDC between Gemini and Polymarket            *)
(* (treasury.py, the transfers table of db.py, GeminiClient.withdraw_usdc).*)
(*                                                                         *)
(* The operator posts a transfer to a dashboard.  A dashboard serves one   *)
(* request at a time, but every process on the host serves one of its own  *)
(* and they share the table: Callers are those processes.  A request looks *)
(* its idempotency key up, reads the kill switch of its process, claims    *)
(* the key under the daily limit in one transaction, calls the exchange    *)
(* and records how that ended.  Steps of other requests, answers that are  *)
(* lost, hours that pass and crashes come in between.                      *)
(***************************************************************************)
EXTENDS Naturals, Sequences, FiniteSets, Functions

CONSTANTS
  Callers,     \* processes that serve a dashboard
  Transfers,   \* payloads: a corridor with an amount
  AmountOf,    \* the amount of each payload, in units of MIN_TRANSFER_AMOUNT
  Withdrawals, \* the payloads Gemini -> Polymarket
  Given,       \* idempotency keys that a caller makes up
  NoKey,       \* the caller gives no key
  Limit,       \* MAX_AUTO_TRANSFER_PER_DAY
  Day,         \* hours in a day
  MaxTries,    \* attempts of _private_request
  MaxHours,    \* bound: hours that pass
  MaxClaims,   \* bound: rows of the table
  MaxCrashes   \* bound: crashes

ASSUME SetsAssumption ==
  /\ Withdrawals \subseteq Transfers
  /\ AmountOf \in [Transfers -> Nat \ {0}]
  /\ NoKey \notin Given
ASSUME BoundsAssumption ==
  Limit \in Nat /\ Day \in Nat /\ MaxTries \in Nat \ {0}
    /\ MaxHours \in Nat /\ MaxClaims \in Nat /\ MaxCrashes \in Nat

VARIABLES
  transfers,  \* the table, in order of id
  now,        \* the hour
  dry,        \* whether each process runs with DRY_RUN
  pc,         \* where each process's request is
  request,    \* its payload and key
  claimed,    \* the id of the row it inserted, 0 if none
  tries,      \* attempts at the withdrawal it has made
  tx,         \* how the corridor ended: the status to record
  reply,      \* the last answer of each process
  moved,      \* the exchange: withdrawals made for each row
  sent,       \* history: dispatches begun for each row
  crashes

table   == <<transfers>>
process == <<dry, pc, request, claimed, tries, tx, reply>>
world   == <<now, moved, sent, crashes>>
vars    == <<table, process, world>>

Keys     == (Given \cup Transfers) \X (0 .. MaxHours)
Requests == [pay : Transfers, key : Keys]
Statuses == {"pending", "dry_run", "succeeded", "failed"}
Rows     == [key : Keys, pay : Transfers, at : 0 .. MaxHours, status : Statuses]
Replies  == [ok : BOOLEAN, dry : BOOLEAN, id : Nat]
Ids      == DOMAIN transfers

\* The type invariant.
TypeOK ==
  /\ transfers \in Seq(Rows)
  /\ now \in 0 .. MaxHours
  /\ dry \in [Callers -> BOOLEAN]
  /\ pc \in [Callers -> {"idle", "gates", "claim", "reread", "dispatch", "send", "record"}]
  /\ request \in [Callers -> Requests \cup {<<>>}]
  /\ claimed \in [Callers -> Nat]
  /\ tries \in [Callers -> 0 .. MaxTries]
  /\ tx \in [Callers -> Statuses]
  /\ reply \in [Callers -> Replies]
  /\ moved \in Seq(Nat) /\ Len(moved) = Len(transfers)
  /\ sent \in Seq(Nat) /\ Len(sent) = Len(transfers)
  /\ crashes \in 0 .. MaxCrashes

-----------------------------------------------------------------------------
(* The table *)

RowsOf(key)  == {i \in Ids : transfers[i].key = key}
Counted(row) == row.status \in {"succeeded", "pending", "dry_run"}
InWindow(row, hour) == row.at + Day >= hour /\ row.at <= hour

\* What the rolling window that ends at an hour has used of the limit.
InUse(hour) == {i \in Ids : Counted(transfers[i]) /\ InWindow(transfers[i], hour)}
Used(hour)  == SumFunctionOnSet([i \in Ids |-> AmountOf[transfers[i].pay]], InUse(hour))

\* Without a key of its own a transfer is known by its payload and the hour.
KeyFor(pay, given) == IF given = NoKey THEN <<pay, now>> ELSE <<given, 0>>

-----------------------------------------------------------------------------
(* Answers *)

Refusal == [ok |-> FALSE, dry |-> FALSE, id |-> 0]

\* The answer to a request whose key has a row already.
MutantExisting(row, id, pay) ==
  [ok |-> row.pay = pay /\ row.status # "failed",
   dry |-> row.pay = pay /\ row.status = "dry_run", id |-> id]
Existing(row, id, pay) ==
  [ok  |-> row.pay = pay /\ row.status \in {"dry_run", "succeeded"},
   dry |-> row.pay = pay /\ row.status = "dry_run",
   id  |-> id]

\* The call returns: of the request only what the answer tells stays.
Answer(c, asked, r) ==
  /\ pc' = [pc EXCEPT ![c] = "idle"]
  /\ reply' = [reply EXCEPT ![c] = r]
  /\ request' = [request EXCEPT ![c] = IF r.ok THEN asked ELSE <<>>]
  /\ claimed' = [claimed EXCEPT ![c] = 0]
  /\ tries' = [tries EXCEPT ![c] = 0]
  /\ tx' = [tx EXCEPT ![c] = "pending"]

Return(c, r) == Answer(c, request[c], r)

Goto(c, step) == pc' = [pc EXCEPT ![c] = step] /\ UNCHANGED <<request, reply>>

-----------------------------------------------------------------------------
(* A request *)

\* The request arrives and its key is looked up.
Known(c, asked) ==
  \E i \in RowsOf(asked.key) : Answer(c, asked, Existing(transfers[i], i, asked.pay))

Unknown(c, asked) ==
  /\ RowsOf(asked.key) = {}
  /\ pc' = [pc EXCEPT ![c] = "gates"]
  /\ reply' = [reply EXCEPT ![c] = Refusal]
  /\ request' = [request EXCEPT ![c] = asked]
  /\ UNCHANGED <<claimed, tries, tx>>

Ask(c, pay, given) ==
  /\ pc[c] = "idle"
  /\ LET asked == [pay |-> pay, key |-> KeyFor(pay, given)]
     IN  Known(c, asked) \/ Unknown(c, asked)
  /\ UNCHANGED <<table, world, dry>>

\* The kill switch of the process is read once, before the claim: on or off.
Gate(c) ==
  /\ pc[c] = "gates"
  /\ Return(c, Refusal) \/ (Goto(c, "claim") /\ UNCHANGED <<claimed, tries, tx>>)
  /\ UNCHANGED <<table, world, dry>>

\* BEGIN IMMEDIATE: the key, the limit and the insert in one transaction.
MutantWithinLimit(pay) == Used(now) < Limit
WithinLimit(pay) == Used(now) + AmountOf[pay] <= Limit

TakenMeanwhile(c) ==
  /\ pc[c] = "claim"
  /\ RowsOf(request[c].key) # {}
  /\ Goto(c, "reread")
  /\ UNCHANGED <<table, world, dry, claimed, tries, tx>>

OverLimit(c) ==
  /\ pc[c] = "claim"
  /\ RowsOf(request[c].key) = {} /\ ~WithinLimit(request[c].pay)
  /\ Return(c, Refusal)
  /\ UNCHANGED <<table, world, dry>>

MutantClaim(c) ==
  /\ pc[c] = "claim"
  /\ WithinLimit(request[c].pay) /\ Len(transfers) < MaxClaims
  /\ transfers' = Append(transfers,
       [key |-> request[c].key, pay |-> request[c].pay, at |-> now, status |-> "pending"])
  /\ moved' = Append(moved, 0) /\ sent' = Append(sent, 0)
  /\ claimed' = [claimed EXCEPT ![c] = Len(transfers) + 1]
  /\ Goto(c, "dispatch")
  /\ UNCHANGED <<now, crashes, dry, tries, tx>>
Claim(c) ==
  /\ pc[c] = "claim"
  /\ RowsOf(request[c].key) = {} /\ WithinLimit(request[c].pay)
  /\ Len(transfers) < MaxClaims
  /\ transfers' = Append(transfers,
       [key |-> request[c].key, pay |-> request[c].pay, at |-> now, status |-> "pending"])
  /\ moved' = Append(moved, 0) /\ sent' = Append(sent, 0)
  /\ claimed' = [claimed EXCEPT ![c] = Len(transfers) + 1]
  /\ Goto(c, "dispatch")
  /\ UNCHANGED <<now, crashes, dry, tries, tx>>

\* Another process inserted the row between the look-up and the claim.
Reread(c) ==
  /\ pc[c] = "reread"
  /\ Known(c, request[c])
  /\ UNCHANGED <<table, world, dry>>

\* The table cannot be read or written: nothing is claimed.
Unavailable(c) ==
  /\ pc[c] \in {"claim", "reread"}
  /\ Return(c, Refusal)
  /\ UNCHANGED <<table, world, dry>>

\* A dry run, and the corridor nothing is wired to, end without a withdrawal.
NoDispatch(c) ==
  /\ pc[c] = "dispatch"
  /\ dry[c] \/ request[c].pay \notin Withdrawals
  /\ tx' = [tx EXCEPT ![c] = IF dry[c] THEN "dry_run" ELSE "failed"]
  /\ Goto(c, "record")
  /\ UNCHANGED <<table, world, dry, claimed, tries>>

Dispatch(c) ==
  /\ pc[c] = "dispatch"
  /\ ~dry[c] /\ request[c].pay \in Withdrawals
  /\ sent' = [sent EXCEPT ![claimed[c]] = @ + 1]
  /\ Goto(c, "send")
  /\ UNCHANGED <<table, now, moved, crashes, dry, claimed, tries, tx>>

Withdraws(i) == moved' = [moved EXCEPT ![i] = @ + 1]
Ends(c, status) == tx' = [tx EXCEPT ![c] = status] /\ Goto(c, "record")

\* One attempt: answered; or timed out or refused, which look alike, whether
\* or not the exchange paid out; or cut off, paid out or not, and then tried
\* again with a new nonce while attempts are left.
Answered(c) ==
  /\ Withdraws(claimed[c])
  /\ Ends(c, "succeeded")

TimedOut(c) ==
  /\ Withdraws(claimed[c]) \/ UNCHANGED moved
  /\ Ends(c, "failed")

MutantCutOff(c) ==
  /\ Withdraws(claimed[c]) \/ UNCHANGED moved
  /\ tries[c] < MaxTries
  /\ Goto(c, "send") /\ UNCHANGED tx
CutOff(c) ==
  /\ Withdraws(claimed[c]) \/ UNCHANGED moved
  /\ tries[c] + 1 < MaxTries
  /\ Goto(c, "send") /\ UNCHANGED tx

Attempt(c) ==
  /\ pc[c] = "send"
  /\ tries' = [tries EXCEPT ![c] = @ + 1]
  /\ Answered(c) \/ TimedOut(c) \/ CutOff(c)
  /\ UNCHANGED <<table, now, sent, crashes, dry, claimed>>

\* update_transfer, and the answer.
Record(c) ==
  /\ pc[c] = "record"
  /\ transfers' = [transfers EXCEPT ![claimed[c]].status = tx[c]]
  /\ Return(c, [ok |-> tx[c] # "failed", dry |-> tx[c] = "dry_run", id |-> claimed[c]])
  /\ UNCHANGED <<world, dry>>

\* The write fails: the request ends with an error and the row stays pending.
RecordFails(c) ==
  /\ pc[c] = "record"
  /\ Return(c, Refusal)
  /\ UNCHANGED <<table, world, dry>>

-----------------------------------------------------------------------------
(* The clock and the host *)

Tick ==
  /\ now < MaxHours /\ now' = now + 1
  /\ UNCHANGED <<table, process, moved, sent, crashes>>

\* A process dies and starts again, live or dry: its request goes unanswered,
\* the table stays.
Crash(c) ==
  /\ crashes < MaxCrashes /\ crashes' = crashes + 1
  /\ Return(c, Refusal)
  /\ \E d \in BOOLEAN : dry' = [dry EXCEPT ![c] = d]
  /\ UNCHANGED <<table, now, moved, sent>>

Init ==
  /\ transfers = <<>> /\ moved = <<>> /\ sent = <<>>
  /\ now = 0 /\ crashes = 0
  /\ dry \in [Callers -> BOOLEAN]
  /\ pc = [c \in Callers |-> "idle"]
  /\ request = [c \in Callers |-> <<>>]
  /\ claimed = [c \in Callers |-> 0]
  /\ tries = [c \in Callers |-> 0]
  /\ tx = [c \in Callers |-> "pending"]
  /\ reply = [c \in Callers |-> Refusal]

Handle(c) ==
  \/ \E pay \in Transfers, given \in Given \cup {NoKey} : Ask(c, pay, given)
  \/ Gate(c) \/ TakenMeanwhile(c) \/ OverLimit(c) \/ Claim(c) \/ Reread(c) \/ Unavailable(c)
  \/ NoDispatch(c) \/ Dispatch(c) \/ Attempt(c)
  \/ Record(c) \/ RecordFails(c)

Next ==
  \/ \E c \in Callers : Handle(c) \/ Crash(c)
  \/ Tick

Spec == Init /\ [][Next]_vars

-----------------------------------------------------------------------------
(* Properties *)

\* In no window of a day do the transfers that were recorded as made, or that
\* are still under way, add up to more than the limit, whatever processes
\* claimed them and whenever in the window (claim_transfer_with_daily_limit).
ClaimedWithinLimit == \A hour \in 0 .. MaxHours : Used(hour) <= Limit

\* An answer of ok is true: the key has one row, of the payload that was asked
\* for, one request alone dispatched it, once, and the exchange paid out; an
\* answer of ok to a dry run stands for a row that no money moved for
\* (_existing_transfer_result, claim_transfer_with_daily_limit, Record).
OkMeansMoved ==
  \A c \in Callers : reply[c].ok =>
    LET i == reply[c].id IN
    /\ RowsOf(request[c].key) = {i}
    /\ transfers[i].pay = request[c].pay
    /\ IF reply[c].dry
       THEN transfers[i].status = "dry_run" /\ sent[i] = 0 /\ moved[i] = 0
       ELSE transfers[i].status = "succeeded" /\ sent[i] = 1 /\ moved[i] > 0

-----------------------------------------------------------------------------
(* The abstract specification *)

Journal == INSTANCE TransferJournal WITH journal <- transfers, paid <- moved

\* The table and the exchange keep to the journal: requests that race, answers
\* that are lost and processes that die between claim, payout and record book no
\* key twice, pay for no row that is closed, no row more often than there are
\* attempts, and close no row again or with a status that is not true.
ImplementsJournal == Journal!Spec
=============================================================================
