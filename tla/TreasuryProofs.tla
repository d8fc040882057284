--------------------------- MODULE TreasuryProofs ---------------------------
(***************************************************************************)
(* Theorems about the treasury's transfers, for any number of processes,   *)
(* payloads, hours, rows and crashes.                                      *)
(***************************************************************************)
EXTENDS Treasury, Sums, SequenceTheorems, TLAPS

-----------------------------------------------------------------------------
(***************************************************************************)
(* The inductive invariant.                                                *)
(***************************************************************************)

\* A request past its look-up is known, and has attempts left while it sends.
Asked(c) == pc[c] # "idle" => request[c] \in Requests
Trying(c) ==
  /\ pc[c] = "send" => tries[c] < MaxTries
  /\ pc[c] \notin {"send", "record"} => tries[c] = 0
TypeInv == TypeOK /\ \A c \in Callers : Asked(c) /\ Trying(c)

\* The idempotency key is unique in the table.
OneRowPerKey ==
  \A i, j \in Ids : transfers[i].key = transfers[j].key => i = j

\* A process between its claim and its record holds a pending row of its own.
Holding(c) == pc[c] \in {"dispatch", "send", "record"}
Held(c) ==
  Holding(c) =>
    /\ claimed[c] \in Ids
    /\ transfers[claimed[c]].status = "pending"
    /\ transfers[claimed[c]].key = request[c].key
    /\ transfers[claimed[c]].pay = request[c].pay
OwnRow == \A c, d \in Callers : Holding(c) /\ Holding(d) /\ claimed[c] = claimed[d] => c = d

\* What the process is about to record is what it did.
Truth(status, i) ==
  /\ status = "dry_run" => sent[i] = 0 /\ moved[i] = 0
  /\ status = "succeeded" => sent[i] = 1 /\ moved[i] > 0
Doing(c) ==
  /\ pc[c] = "dispatch" => sent[claimed[c]] = 0 /\ moved[claimed[c]] = 0
  /\ pc[c] = "send" => sent[claimed[c]] = 1
  /\ pc[c] = "record" => tx[c] # "pending" /\ Truth(tx[c], claimed[c])

\* A settled row is true of the exchange, and an answer of ok is about one.
RowsTrue == \A i \in Ids : Truth(transfers[i].status, i)
AnswerTrue(c) ==
  reply[c].ok =>
    /\ pc[c] = "idle" /\ request[c] \in Requests
    /\ reply[c].id \in Ids
    /\ transfers[reply[c].id].key = request[c].key
    /\ transfers[reply[c].id].pay = request[c].pay
    /\ transfers[reply[c].id].status = IF reply[c].dry THEN "dry_run" ELSE "succeeded"

Booked ==
  /\ OneRowPerKey /\ OwnRow /\ RowsTrue
  /\ \A c \in Callers : Held(c) /\ Doing(c) /\ AnswerTrue(c)
IInv == TypeInv /\ Booked

-----------------------------------------------------------------------------
(***************************************************************************)
(* Types.                                                                  *)
(***************************************************************************)

LEMMA KeyType ==
  ASSUME TypeOK, NEW pay \in Transfers, NEW given \in Given \cup {NoKey}
  PROVE  [pay |-> pay, key |-> KeyFor(pay, given)] \in Requests
  BY BoundsAssumption, SMT DEF TypeOK, KeyFor, Requests, Keys

\* An answer leaves the process idle, and its types right.
LEMMA AnswerType ==
  ASSUME TypeInv, NEW c \in Callers, NEW asked \in Requests \cup {<<>>}, NEW r \in Replies,
         Answer(c, asked, r), dry' \in [Callers -> BOOLEAN],
         transfers' \in Seq(Rows), now' \in 0 .. MaxHours,
         moved' \in Seq(Nat), Len(moved') = Len(transfers'),
         sent' \in Seq(Nat), Len(sent') = Len(transfers'), crashes' \in 0 .. MaxCrashes
  PROVE  TypeInv'
<1>1. /\ pc' \in [Callers -> {"idle", "gates", "claim", "reread", "dispatch", "send", "record"}]
      /\ request' \in [Callers -> Requests \cup {<<>>}]
      /\ claimed' \in [Callers -> Nat]
      /\ tries' \in [Callers -> 0 .. MaxTries]
      /\ tx' \in [Callers -> Statuses]
      /\ reply' \in [Callers -> Replies]
  BY BoundsAssumption, SMT DEF TypeInv, TypeOK, Answer, Statuses
<1>2. \A d \in Callers : Asked(d)' /\ Trying(d)'
  BY SMT DEF TypeInv, TypeOK, Answer, Asked, Trying
<1>3. TypeOK'
  BY <1>1, SMT DEF TypeOK
<1> QED BY <1>2, <1>3 DEF TypeInv

LEMMA ExistingType ==
  ASSUME TypeOK, NEW i \in Ids, NEW pay
  PROVE  Existing(transfers[i], i, pay) \in Replies
  BY SMT DEF TypeOK, Existing, Replies, Ids

LEMMA RefusalType == Refusal \in Replies
  BY SMT DEF Refusal, Replies

LEMMA TypeInit == Init => TypeInv
<1> SUFFICES ASSUME Init PROVE TypeInv
  OBVIOUS
<1>1. transfers \in Seq(Rows) /\ moved \in Seq(Nat) /\ sent \in Seq(Nat)
  BY SMT DEF Init
<1>2. TypeOK
  BY <1>1, BoundsAssumption, RefusalType, SMT DEF Init, TypeOK, Statuses
<1>3. \A c \in Callers : Asked(c) /\ Trying(c)
  BY SMT DEF Init, Asked, Trying
<1> QED BY <1>2, <1>3 DEF TypeInv

LEMMA TypeStep ==
  ASSUME TypeInv, \A c \in Callers : Held(c), [Next]_vars
  PROVE  TypeInv'
<1> USE DEF TypeInv
<1>1. ASSUME NEW c \in Callers, NEW pay \in Transfers, NEW given \in Given \cup {NoKey},
             Ask(c, pay, given)
      PROVE  TypeInv'
  <2> DEFINE asked == [pay |-> pay, key |-> KeyFor(pay, given)]
  <2>1. asked \in Requests
    BY KeyType
  <2> HIDE DEF asked
  <2>2. CASE Known(c, asked)
    <3>1. PICK i \in RowsOf(asked.key) : Answer(c, asked, Existing(transfers[i], i, asked.pay))
      BY <2>2 DEF Known
    <3>2. Existing(transfers[i], i, asked.pay) \in Replies
      BY ExistingType DEF RowsOf
    <3> QED BY <1>1, <2>1, <3>1, <3>2, AnswerType DEF Ask, table, world, TypeOK
  <2>3. CASE Unknown(c, asked)
    BY <1>1, <2>1, <2>3, RefusalType, SMT
    DEF Ask, Unknown, table, world, TypeOK, Asked, Trying
  <2> QED BY <1>1, <2>2, <2>3 DEF Ask, asked
<1>2. ASSUME NEW c \in Callers, Return(c, Refusal), UNCHANGED <<transfers, now, moved, sent>>,
             dry' \in [Callers -> BOOLEAN], crashes' \in 0 .. MaxCrashes
      PROVE  TypeInv'
  BY <1>2, RefusalType, AnswerType DEF Return, TypeOK
<1>3. ASSUME NEW c \in Callers, Gate(c) PROVE TypeInv'
  <2>1. CASE Return(c, Refusal)
    BY <1>2, <1>3, <2>1 DEF Gate, table, world, TypeOK
  <2>2. CASE Goto(c, "claim") /\ UNCHANGED <<claimed, tries, tx>>
    BY <1>3, <2>2, SMT DEF Gate, Goto, table, world, TypeOK, Asked, Trying
  <2> QED BY <1>3, <2>1, <2>2 DEF Gate
<1>4. ASSUME NEW c \in Callers, TakenMeanwhile(c) PROVE TypeInv'
  BY <1>4, SMT DEF TakenMeanwhile, Goto, table, world, TypeOK, Asked, Trying
<1>5. ASSUME NEW c \in Callers, OverLimit(c) \/ Unavailable(c) \/ RecordFails(c) PROVE TypeInv'
  BY <1>2, <1>5 DEF OverLimit, Unavailable, RecordFails, table, world, TypeOK
<1>6. ASSUME NEW c \in Callers, Claim(c) PROVE TypeInv'
  <2> DEFINE row == [key |-> request[c].key, pay |-> request[c].pay,
                     at |-> now, status |-> "pending"]
  <2>1. row \in Rows
    BY <1>6, SMT DEF Claim, TypeOK, Asked, Requests, Rows, Statuses
  <2> HIDE DEF row
  <2>2. transfers' = Append(transfers, row)
    BY <1>6 DEF Claim, row
  <2>3. /\ transfers' \in Seq(Rows) /\ moved' \in Seq(Nat) /\ sent' \in Seq(Nat)
        /\ Len(moved') = Len(transfers') /\ Len(sent') = Len(transfers')
    BY <1>6, <2>1, <2>2, SMT DEF Claim, TypeOK
  <2> QED
    BY <1>6, <2>3, SMT DEF Claim, Goto, TypeOK, Asked, Trying
<1>7. ASSUME NEW c \in Callers, Reread(c) PROVE TypeInv'
  <2>1. PICK i \in RowsOf(request[c].key) :
          Answer(c, request[c], Existing(transfers[i], i, request[c].pay))
    BY <1>7 DEF Reread, Known
  <2>2. Existing(transfers[i], i, request[c].pay) \in Replies
    BY ExistingType DEF RowsOf
  <2> QED BY <1>7, <2>1, <2>2, AnswerType DEF Reread, table, world, TypeOK
<1>8. ASSUME NEW c \in Callers, NoDispatch(c) PROVE TypeInv'
  BY <1>8, SMT DEF NoDispatch, Goto, table, world, TypeOK, Asked, Trying, Statuses
<1>9. ASSUME NEW c \in Callers, Dispatch(c) PROVE TypeInv'
  <2>1. sent' \in Seq(Nat) /\ Len(sent') = Len(sent)
    <3>1. claimed[c] \in 1 .. Len(sent) /\ sent[claimed[c]] + 1 \in Nat
      BY <1>9, SMT DEF Dispatch, Held, Holding, TypeOK, Ids
    <3>2. sent' = [sent EXCEPT ![claimed[c]] = sent[claimed[c]] + 1]
      BY <1>9 DEF Dispatch
    <3> QED BY <3>1, <3>2, ExceptSeq DEF TypeOK
  <2> QED
    BY <1>9, <2>1, BoundsAssumption, SMTT(30) DEF Dispatch, Goto, table, TypeOK, Asked, Trying
<1>10. ASSUME NEW c \in Callers, Attempt(c) PROVE TypeInv'
  <2>1. moved' \in Seq(Nat) /\ Len(moved') = Len(moved)
    <3>1. claimed[c] \in 1 .. Len(moved) /\ moved[claimed[c]] + 1 \in Nat
      BY <1>10, SMTT(30) DEF Attempt, Held, Holding, TypeOK, Ids
    <3>2. \/ moved' = [moved EXCEPT ![claimed[c]] = moved[claimed[c]] + 1]
          \/ UNCHANGED moved
      BY <1>10 DEF Attempt, Answered, TimedOut, CutOff, Withdraws
    <3>3. moved \in Seq(Nat)
      BY DEF TypeOK
    <3>4. CASE UNCHANGED moved
      BY <3>3, <3>4
    <3>5. CASE moved' = [moved EXCEPT ![claimed[c]] = moved[claimed[c]] + 1]
      BY <3>1, <3>3, <3>5, ExceptSeq
    <3> QED BY <3>2, <3>4, <3>5
  <2>2. tx' \in [Callers -> Statuses]
    BY <1>10, SMTT(30) DEF Attempt, Answered, TimedOut, CutOff, Ends, TypeOK, Statuses
  <2>3. /\ pc' \in [Callers -> {"idle", "gates", "claim", "reread", "dispatch", "send", "record"}]
        /\ request' = request /\ reply' = reply
    <3>1. \/ pc' = [pc EXCEPT ![c] = "record"]
          \/ pc' = [pc EXCEPT ![c] = "send"]
      BY <1>10 DEF Attempt, Answered, TimedOut, CutOff, Ends, Goto
    <3>2. request' = request /\ reply' = reply
      BY <1>10 DEF Attempt, Answered, TimedOut, CutOff, Ends, Goto
    <3>3. pc \in [Callers -> {"idle", "gates", "claim", "reread", "dispatch", "send", "record"}]
      BY DEF TypeOK
    <3> QED BY <3>1, <3>2, <3>3
  <2>4. tries[c] + 1 \in 0 .. MaxTries /\ tries' = [tries EXCEPT ![c] = tries[c] + 1]
    <3>1. pc[c] = "send" /\ tries' = [tries EXCEPT ![c] = tries[c] + 1]
      BY <1>10 DEF Attempt
    <3>2. tries[c] \in 0 .. MaxTries /\ tries[c] < MaxTries
      BY <3>1 DEF TypeOK, Trying
    <3> QED BY <3>1, <3>2, BoundsAssumption
  <2>5. tries' \in [Callers -> 0 .. MaxTries]
    BY <2>4, SMT DEF TypeOK
  <2>6. ASSUME NEW d \in Callers PROVE Asked(d)' /\ Trying(d)'
    <3>1. pc[c] = "send" /\ pc \in [Callers -> {"idle", "gates", "claim", "reread", "dispatch", "send", "record"}] /\ tries \in [Callers -> 0 .. MaxTries]
      BY <1>10 DEF Attempt, TypeOK
    <3>2. CASE pc' = [pc EXCEPT ![c] = "record"]
      BY <2>3, <2>4, <3>1, <3>2, SMT DEF Asked, Trying
    <3>3. CASE pc' = [pc EXCEPT ![c] = "send"] /\ tries[c] + 1 < MaxTries
      BY <2>3, <2>4, <3>1, <3>3, BoundsAssumption, SMT DEF Asked, Trying
    <3> QED BY <1>10, <3>2, <3>3 DEF Attempt, Answered, TimedOut, CutOff, Ends, Goto
  <2> QED
    BY <1>10, <2>1, <2>2, <2>3, <2>5, <2>6, SMT DEF Attempt, table, TypeOK
<1>11. ASSUME NEW c \in Callers, Record(c) PROVE TypeInv'
  <2> DEFINE r == [ok |-> tx[c] # "failed", dry |-> tx[c] = "dry_run", id |-> claimed[c]]
  <2>1. r \in Replies
    BY SMT DEF TypeOK, Replies
  <2>2. transfers' \in Seq(Rows) /\ Len(transfers') = Len(transfers)
    <3>1. claimed[c] \in Ids /\ tx[c] \in Statuses
      BY <1>11, SMT DEF Record, Held, Holding, TypeOK
    <3>2. [transfers[claimed[c]] EXCEPT !.status = tx[c]] \in Rows
      <4>1. transfers[claimed[c]] \in Rows
        BY <3>1, ElementOfSeq DEF TypeOK, Ids
      <4>2. PICK row \in Rows : row = transfers[claimed[c]]
        BY <4>1
      <4>3. [row EXCEPT !.status = tx[c]] \in Rows
        BY <3>1 DEF Rows
      <4> QED BY <4>2, <4>3, Zenon
    <3>3. transfers' = [transfers EXCEPT ![claimed[c]] = [transfers[claimed[c]] EXCEPT !.status = tx[c]]]
      BY <1>11, Zenon DEF Record
    <3> QED BY <3>1, <3>2, <3>3, ExceptSeq DEF TypeOK, Ids
  <2> HIDE DEF r
  <2>3. Answer(c, request[c], r) /\ request[c] \in Requests \cup {<<>>}
    BY <1>11 DEF Record, Return, TypeOK, r
  <2> QED
    BY <1>11, <2>1, <2>2, <2>3, AnswerType DEF Record, world, TypeOK
<1>12. ASSUME NEW c \in Callers, Crash(c) PROVE TypeInv'
  <2>1. dry' \in [Callers -> BOOLEAN] /\ crashes' \in 0 .. MaxCrashes
    BY <1>12, BoundsAssumption, SMT DEF Crash, TypeOK
  <2> QED BY <1>2, <1>12, <2>1 DEF Crash, table
<1>13. CASE Tick
  <2>1. now' \in 0 .. MaxHours
    BY <1>13, BoundsAssumption, SMT DEF Tick, TypeOK
  <2>2. UNCHANGED <<transfers, dry, pc, request, claimed, tries, tx, reply, moved, sent, crashes>>
    BY <1>13 DEF Tick, table, process
  <2> QED BY <2>1, <2>2 DEF TypeOK, Asked, Trying
<1>14. CASE UNCHANGED vars
  BY <1>14 DEF vars, table, process, world, TypeOK, Asked, Trying
<1> QED
  BY <1>1, <1>3, <1>4, <1>5, <1>6, <1>7, <1>8, <1>9, <1>10, <1>11, <1>12, <1>13, <1>14
  DEF Next, Handle

-----------------------------------------------------------------------------
(***************************************************************************)
(* Rows and answers.                                                       *)
(***************************************************************************)

\* A process that answers without touching the table tells what a row says.
LEMMA QuietAnswer ==
  ASSUME IInv, NEW c \in Callers, NEW asked, NEW r,
         Answer(c, asked, r), transfers' = transfers, moved' = moved, sent' = sent,
         r.ok => /\ asked \in Requests /\ r.id \in Ids
                 /\ transfers[r.id].key = asked.key /\ transfers[r.id].pay = asked.pay
                 /\ transfers[r.id].status = IF r.dry THEN "dry_run" ELSE "succeeded"
  PROVE  Booked'
<1>1. /\ pc' = [pc EXCEPT ![c] = "idle"]
      /\ reply' = [reply EXCEPT ![c] = r]
      /\ request' = [request EXCEPT ![c] = IF r.ok THEN asked ELSE <<>>]
      /\ claimed' = [claimed EXCEPT ![c] = 0]
      /\ tx' = [tx EXCEPT ![c] = "pending"]
  BY DEF Answer
<1>2. /\ pc \in [Callers -> {"idle", "gates", "claim", "reread", "dispatch", "send", "record"}]
      /\ DOMAIN reply = Callers /\ DOMAIN request = Callers
      /\ DOMAIN claimed = Callers /\ DOMAIN tx = Callers
      /\ reply = [d \in Callers |-> reply[d]]
  BY DEF IInv, TypeInv, TypeOK
<1>3. pc'[c] = "idle" /\ reply'[c] = r /\ request'[c] = (IF r.ok THEN asked ELSE <<>>)
  BY <1>1, <1>2
<1>4. ASSUME NEW d \in Callers, d # c
      PROVE  /\ pc'[d] = pc[d] /\ reply'[d] = reply[d] /\ request'[d] = request[d]
             /\ claimed'[d] = claimed[d] /\ tx'[d] = tx[d]
  BY <1>1, <1>2, <1>4
<1>5. OneRowPerKey' /\ RowsTrue'
  BY DEF IInv, Booked, OneRowPerKey, RowsTrue, Truth, Ids
<1>6. OwnRow'
  BY <1>3, <1>4 DEF IInv, Booked, OwnRow, Holding
<1>7. ASSUME NEW d \in Callers PROVE Held(d)' /\ Doing(d)' /\ AnswerTrue(d)'
  <2>1. CASE d = c
    BY <1>3, <2>1 DEF Held, Holding, Doing, AnswerTrue, Ids
  <2>2. CASE d # c
    BY <1>4, <2>2 DEF IInv, Booked, Held, Holding, Doing, AnswerTrue, Truth, Ids
  <2> QED BY <2>1, <2>2
<1> QED BY <1>5, <1>6, <1>7 DEF Booked

\* A process that has no row goes on without touching the table.
LEMMA QuietGoto ==
  ASSUME IInv, NEW c \in Callers, NEW step \in {"gates", "claim", "reread"},
         pc' = [pc EXCEPT ![c] = step], claimed' = claimed, tx' = tx,
         transfers' = transfers, moved' = moved, sent' = sent,
         ~reply'[c].ok,
         \A d \in Callers : d # c => reply'[d] = reply[d] /\ request'[d] = request[d]
  PROVE  Booked'
<1>1. pc'[c] = step /\ \A d \in Callers : d # c => pc'[d] = pc[d]
  BY DEF IInv, TypeInv, TypeOK
<1>2. OneRowPerKey' /\ RowsTrue'
  BY DEF IInv, Booked, OneRowPerKey, RowsTrue, Truth, Ids
<1>3. OwnRow'
  BY <1>1 DEF IInv, Booked, OwnRow, Holding
<1>4. ASSUME NEW d \in Callers PROVE Held(d)' /\ Doing(d)' /\ AnswerTrue(d)'
  <2>1. CASE d = c
    BY <1>1, <2>1 DEF Held, Holding, Doing, AnswerTrue
  <2>2. CASE d # c
    BY <1>1, <2>2 DEF IInv, Booked, Held, Holding, Doing, AnswerTrue, Truth, Ids
  <2> QED BY <2>1, <2>2
<1> QED BY <1>2, <1>3, <1>4 DEF Booked

\* A process with a request in flight has no answer of ok left over.
LEMMA NotOkYet ==
  ASSUME IInv, NEW c \in Callers, pc[c] # "idle"
  PROVE  ~reply[c].ok
  BY DEF IInv, Booked, AnswerTrue

\* The rows are functions on their ids.
LEMMA Tables ==
  ASSUME TypeOK
  PROVE  /\ Ids = 1 .. Len(transfers) /\ Len(transfers) \in Nat
         /\ DOMAIN moved = Ids /\ DOMAIN sent = Ids
         /\ \A i \in Ids : transfers[i] \in Rows /\ moved[i] \in Nat /\ sent[i] \in Nat
  BY SMT DEF TypeOK, Ids

LEMMA ClaimStep ==
  ASSUME IInv, NEW c \in Callers, Claim(c)
  PROVE  Booked'
<1> DEFINE n == Len(transfers) + 1
           row == [key |-> request[c].key, pay |-> request[c].pay,
                   at |-> now, status |-> "pending"]
<1>1. Ids = 1 .. Len(transfers) /\ Len(transfers) \in Nat /\ TypeOK
  BY Tables DEF IInv, TypeInv
<1>2. transfers' = Append(transfers, row)
  BY DEF Claim
<1>3. /\ Ids' = 1 .. n /\ n \notin Ids /\ n \in Ids'
      /\ transfers'[n] = row
      /\ \A i \in Ids : i \in Ids' /\ transfers'[i] = transfers[i]
  BY <1>1, <1>2, SMT DEF Ids, TypeOK
<1>4. /\ \A i \in Ids : moved'[i] = moved[i] /\ sent'[i] = sent[i]
      /\ moved'[n] = 0 /\ sent'[n] = 0
  <2>1. /\ moved \in Seq(Nat) /\ sent \in Seq(Nat)
        /\ Len(moved) = Len(transfers) /\ Len(sent) = Len(transfers)
    BY <1>1 DEF TypeOK
  <2>2. moved' = Append(moved, 0) /\ sent' = Append(sent, 0)
    BY DEF Claim
  <2> QED BY <1>1, <2>1, <2>2, SMT
<1>5. /\ pc'[c] = "dispatch" /\ claimed'[c] = n
      /\ request' = request /\ reply' = reply /\ tx' = tx /\ pc[c] = "claim"
      /\ \A d \in Callers : d # c => pc'[d] = pc[d] /\ claimed'[d] = claimed[d]
  BY <1>1 DEF Claim, Goto, TypeOK
<1>6. \A i \in Ids' : i = n \/ i \in Ids
  BY <1>1, <1>3
<1> HIDE DEF n
<1>7. OneRowPerKey'
  <2>1. \A i \in Ids : transfers[i].key # row.key
    BY DEF Claim, RowsOf
  <2> QED BY <1>3, <1>6, <2>1 DEF IInv, Booked, OneRowPerKey
<1>8. RowsTrue'
  BY <1>3, <1>4, <1>6 DEF IInv, Booked, RowsTrue, Truth
<1>9. OwnRow'
  BY <1>3, <1>5 DEF IInv, Booked, OwnRow, Held, Holding
<1>10. ASSUME NEW d \in Callers PROVE Held(d)' /\ Doing(d)' /\ AnswerTrue(d)'
  <2>1. CASE d = c
    <3>1. ~reply[c].ok
      BY <1>5, NotOkYet
    <3>2. Held(c)'
      BY <1>3, <1>5 DEF Held, row
    <3>3. Doing(c)'
      BY <1>4, <1>5 DEF Doing
    <3> QED BY <1>5, <2>1, <3>1, <3>2, <3>3 DEF AnswerTrue
  <2>2. CASE d # c
    BY <1>3, <1>4, <1>5, <2>2 DEF IInv, Booked, Held, Holding, Doing, AnswerTrue, Truth
  <2> QED BY <2>1, <2>2
<1> QED BY <1>7, <1>8, <1>9, <1>10 DEF Booked

LEMMA DispatchStep ==
  ASSUME IInv, NEW c \in Callers, Dispatch(c)
  PROVE  Booked'
<1> DEFINE k == claimed[c]
<1>1. k \in Ids /\ transfers[k].status = "pending" /\ sent[k] = 0
  BY DEF IInv, Booked, Dispatch, Held, Holding, Doing
<1>2. /\ transfers' = transfers /\ Ids' = Ids
      /\ moved' = moved /\ claimed' = claimed /\ request' = request
      /\ reply' = reply /\ tx' = tx
  BY DEF Dispatch, Goto, table, Ids
<1>3. sent'[k] = 1 /\ \A i \in Ids : i # k => sent'[i] = sent[i]
  BY <1>1, Tables DEF Dispatch, IInv, TypeInv
<1>4. /\ pc[c] = "dispatch" /\ pc'[c] = "send"
      /\ \A d \in Callers : d # c => pc'[d] = pc[d]
  BY DEF Dispatch, Goto, IInv, TypeInv, TypeOK
<1>5. \A d \in Callers : d # c /\ Holding(d) => claimed[d] \in Ids \ {k}
  BY <1>4 DEF IInv, Booked, OwnRow, Held, Holding
<1> HIDE DEF k
<1>6. OneRowPerKey' /\ OwnRow'
  BY <1>2, <1>4 DEF IInv, Booked, OneRowPerKey, OwnRow, Holding
<1>7. RowsTrue'
  BY <1>1, <1>2, <1>3 DEF IInv, Booked, RowsTrue, Truth
<1>8. ASSUME NEW d \in Callers PROVE Held(d)' /\ Doing(d)' /\ AnswerTrue(d)'
  <2>1. CASE d = c
    <3>1. ~reply[c].ok
      BY <1>4, NotOkYet
    <3> QED BY <1>2, <1>3, <1>4, <2>1, <3>1
            DEF IInv, Booked, Held, Holding, Doing, AnswerTrue, k
  <2>2. CASE d # c
    BY <1>2, <1>3, <1>4, <1>5, <2>2
    DEF IInv, Booked, Held, Holding, Doing, AnswerTrue, Truth
  <2> QED BY <2>1, <2>2
<1> QED BY <1>6, <1>7, <1>8 DEF Booked

LEMMA AttemptStep ==
  ASSUME IInv, NEW c \in Callers, Attempt(c)
  PROVE  Booked'
<1> DEFINE k == claimed[c]
<1>1. k \in Ids /\ transfers[k].status = "pending" /\ sent[k] = 1 /\ pc[c] = "send"
  BY DEF IInv, Booked, Attempt, Held, Holding, Doing
<1>2. /\ transfers' = transfers /\ Ids' = Ids
      /\ sent' = sent /\ claimed' = claimed /\ request' = request /\ reply' = reply
  BY DEF Attempt, Answered, TimedOut, CutOff, Ends, Goto, table, Ids
<1>3. /\ \A i \in Ids : i # k => moved'[i] = moved[i]
      /\ moved' = moved \/ moved'[k] = moved[k] + 1
      /\ Answered(c) => moved'[k] = moved[k] + 1
  BY <1>1, Tables DEF Attempt, Answered, TimedOut, CutOff, Withdraws, IInv, TypeInv
<1>4. /\ pc'[c] \in {"send", "record"}
      /\ pc'[c] = "record" => \/ tx'[c] = "failed"
                              \/ tx'[c] = "succeeded" /\ moved'[k] = moved[k] + 1
      /\ \A d \in Callers : d # c => pc'[d] = pc[d] /\ tx'[d] = tx[d]
  BY <1>3 DEF Attempt, Answered, TimedOut, CutOff, Ends, Goto, IInv, TypeInv, TypeOK
<1>5. \A d \in Callers : d # c /\ Holding(d) => claimed[d] \in Ids \ {k}
  BY <1>1 DEF IInv, Booked, OwnRow, Held, Holding
<1>6. moved[k] \in Nat
  BY <1>1, Tables DEF IInv, TypeInv
<1> HIDE DEF k
<1>7. OneRowPerKey' /\ OwnRow'
  BY <1>1, <1>2, <1>4 DEF IInv, Booked, OneRowPerKey, OwnRow, Holding
<1>8. RowsTrue'
  BY <1>1, <1>2, <1>3 DEF IInv, Booked, RowsTrue, Truth
<1>9. ASSUME NEW d \in Callers PROVE Held(d)' /\ Doing(d)' /\ AnswerTrue(d)'
  <2>1. CASE d = c
    <3>1. ~reply[c].ok
      BY <1>1, NotOkYet
    <3>2. pc'[c] = "record" => tx'[c] # "pending" /\ Truth(tx[c], k)'
      BY <1>1, <1>2, <1>4, <1>6 DEF Truth, k
    <3> QED BY <1>1, <1>2, <1>4, <2>1, <3>1, <3>2
            DEF IInv, Booked, Held, Holding, Doing, AnswerTrue, k
  <2>2. CASE d # c
    BY <1>2, <1>3, <1>4, <1>5, <2>2
    DEF IInv, Booked, Held, Holding, Doing, AnswerTrue, Truth
  <2> QED BY <2>1, <2>2
<1> QED BY <1>7, <1>8, <1>9 DEF Booked

LEMMA RecordStep ==
  ASSUME IInv, NEW c \in Callers, Record(c)
  PROVE  Booked'
<1> DEFINE k == claimed[c]
           r == [ok |-> tx[c] # "failed", dry |-> tx[c] = "dry_run", id |-> k]
<1>1. /\ k \in Ids /\ transfers[k].status = "pending"
      /\ transfers[k].key = request[c].key /\ transfers[k].pay = request[c].pay
      /\ tx[c] \in Statuses /\ tx[c] # "pending" /\ Truth(tx[c], k)
      /\ pc[c] = "record" /\ request[c] \in Requests
  BY DEF IInv, Booked, Record, Held, Holding, Doing, TypeInv, Asked, TypeOK
<1>2. /\ moved' = moved /\ sent' = sent
      /\ Answer(c, request[c], r)
  BY DEF Record, Return, world
<1>3. /\ Ids' = Ids
      /\ \A i \in Ids : i # k => transfers'[i] = transfers[i]
      /\ transfers'[k] = [transfers[k] EXCEPT !.status = tx[c]]
  <2>1. transfers' = [transfers EXCEPT ![k] = [transfers[k] EXCEPT !.status = tx[c]]]
    BY Zenon DEF Record
  <2> QED BY <1>1, <2>1, Zenon DEF Ids
<1>4. /\ transfers'[k].status = tx[c]
      /\ transfers'[k].key = transfers[k].key /\ transfers'[k].pay = transfers[k].pay
  <2>1. transfers[k] \in Rows
    BY <1>1, Tables DEF IInv, TypeInv
  <2> QED BY <1>3, <2>1 DEF Rows
<1>5. \A i \in Ids : transfers'[i].key = transfers[i].key /\ transfers'[i].pay = transfers[i].pay
  BY <1>3, <1>4
<1>6. \A d \in Callers : d # c /\ Holding(d) => claimed[d] \in Ids \ {k}
  BY <1>1 DEF IInv, Booked, OwnRow, Held, Holding
<1>7. /\ pc'[c] = "idle" /\ reply'[c] = r
      /\ request'[c] = IF r.ok THEN request[c] ELSE <<>>
      /\ \A d \in Callers : d # c =>
           /\ pc'[d] = pc[d] /\ reply'[d] = reply[d] /\ request'[d] = request[d]
           /\ claimed'[d] = claimed[d] /\ tx'[d] = tx[d]
  <2>1. /\ DOMAIN pc = Callers /\ DOMAIN reply = Callers /\ DOMAIN request = Callers
        /\ DOMAIN claimed = Callers /\ DOMAIN tx = Callers
    BY DEF IInv, TypeInv, TypeOK
  <2> HIDE DEF r, k
  <2> QED BY <1>2, <2>1 DEF Answer
<1>8. r.ok => tx[c] = IF r.dry THEN "dry_run" ELSE "succeeded"
  BY <1>1 DEF Statuses
<1>9. r.id = k
  OBVIOUS
<1> HIDE DEF k, r
<1>10. OneRowPerKey'
  BY <1>3, <1>5 DEF IInv, Booked, OneRowPerKey
<1>11. OwnRow'
  BY <1>7 DEF IInv, Booked, OwnRow, Holding
<1>12. RowsTrue'
  BY <1>1, <1>2, <1>3, <1>4, ZenonT(40) DEF IInv, Booked, RowsTrue, Truth
<1>13. ASSUME NEW d \in Callers PROVE Held(d)' /\ Doing(d)' /\ AnswerTrue(d)'
  <2>1. CASE d = c
    <3>1. Held(c)' /\ Doing(c)'
      BY <1>7 DEF Held, Holding, Doing
    <3>2. ASSUME r.ok
          PROVE  /\ pc'[c] = "idle" /\ request'[c] = request[c] /\ r.id = k /\ k \in Ids'
                 /\ transfers'[k].key = request[c].key
                 /\ transfers'[k].pay = request[c].pay
                 /\ transfers'[k].status = IF r.dry THEN "dry_run" ELSE "succeeded"
      BY <1>1, <1>3, <1>4, <1>7, <1>8, <1>9, <3>2, Zenon
    <3>3. AnswerTrue(c)'
      <4>1. reply'[c] = r /\ request[c] \in Requests
        BY <1>1, <1>7
      <4>2. CASE ~r.ok
        BY <4>1, <4>2, Zenon DEF AnswerTrue
      <4>3. CASE r.ok
        BY <3>2, <4>1, <4>3, Zenon DEF AnswerTrue
      <4> QED BY <4>2, <4>3
    <3> QED BY <2>1, <3>1, <3>3
  <2>2. CASE d # c
    <3>1. Held(d)' /\ Doing(d)'
      BY <1>2, <1>3, <1>6, <1>7, <2>2 DEF IInv, Booked, Held, Holding, Doing, Truth
    <3>2. AnswerTrue(d)'
      BY <1>1, <1>3, <1>7, <2>2 DEF IInv, Booked, AnswerTrue
    <3> QED BY <3>1, <3>2
  <2> QED BY <2>1, <2>2
<1> QED BY <1>10, <1>11, <1>12, <1>13 DEF Booked

-----------------------------------------------------------------------------
(***************************************************************************)
(* The theorems.                                                           *)
(***************************************************************************)

LEMMA InvInit == Init => IInv
<1> SUFFICES ASSUME Init PROVE IInv
  OBVIOUS
<1>1. Ids = {}
  BY DEF Init, Ids
<1>2. OneRowPerKey /\ RowsTrue
  BY <1>1 DEF OneRowPerKey, RowsTrue
<1>3. \A c \in Callers : pc[c] = "idle" /\ ~reply[c].ok
  BY DEF Init, Refusal
<1>4. OwnRow /\ \A c \in Callers : Held(c) /\ Doing(c) /\ AnswerTrue(c)
  BY <1>3 DEF OwnRow, Held, Holding, Doing, AnswerTrue
<1> QED BY <1>2, <1>4, TypeInit DEF IInv, Booked

LEMMA BookedStep ==
  ASSUME IInv, Next
  PROVE  Booked'
<1>1. ASSUME NEW c \in Callers, NEW asked \in Requests, Known(c, asked),
             UNCHANGED <<table, world>>
      PROVE  Booked'
  <2>1. PICK i \in RowsOf(asked.key) : Answer(c, asked, Existing(transfers[i], i, asked.pay))
    BY <1>1 DEF Known
  <2> DEFINE r == Existing(transfers[i], i, asked.pay)
  <2>2. r.ok => /\ r.id \in Ids
                /\ transfers[r.id].key = asked.key /\ transfers[r.id].pay = asked.pay
                /\ transfers[r.id].status = IF r.dry THEN "dry_run" ELSE "succeeded"
    BY DEF Existing, RowsOf
  <2> HIDE DEF r
  <2> QED BY <1>1, <2>1, <2>2, QuietAnswer DEF r, table, world
<1>2. ASSUME NEW c \in Callers, Return(c, Refusal), UNCHANGED <<transfers, moved, sent>>
      PROVE  Booked'
  BY <1>2, QuietAnswer DEF Return, Refusal
<1>3. ASSUME NEW c \in Callers, NEW pay \in Transfers, NEW given \in Given \cup {NoKey},
             Ask(c, pay, given)
      PROVE  Booked'
  <2> DEFINE asked == [pay |-> pay, key |-> KeyFor(pay, given)]
  <2>1. asked \in Requests
    BY KeyType DEF IInv, TypeInv
  <2> HIDE DEF asked
  <2>2. CASE Known(c, asked)
    BY <1>1, <1>3, <2>1, <2>2 DEF Ask
  <2>3. CASE Unknown(c, asked)
    <3>1. /\ pc' = [pc EXCEPT ![c] = "gates"] /\ claimed' = claimed /\ tx' = tx
          /\ transfers' = transfers /\ moved' = moved /\ sent' = sent
      BY <1>3, <2>3 DEF Ask, Unknown, table, world
    <3>2. /\ ~reply'[c].ok
          /\ \A d \in Callers : d # c => reply'[d] = reply[d] /\ request'[d] = request[d]
      BY <2>3 DEF Unknown, Refusal, IInv, TypeInv, TypeOK
    <3> QED BY <3>1, <3>2, QuietGoto
  <2> QED BY <1>3, <2>2, <2>3 DEF Ask, asked
<1>4. ASSUME NEW c \in Callers, pc[c] # "idle", NEW step \in {"gates", "claim", "reread"},
             Goto(c, step), UNCHANGED <<claimed, tx, transfers, moved, sent>>
      PROVE  Booked'
  BY <1>4, NotOkYet, QuietGoto DEF Goto
<1>5. ASSUME NEW c \in Callers, Gate(c) PROVE Booked'
  BY <1>2, <1>4, <1>5 DEF Gate, table, world
<1>6. ASSUME NEW c \in Callers, TakenMeanwhile(c) PROVE Booked'
  BY <1>4, <1>6 DEF TakenMeanwhile, table, world
<1>7. ASSUME NEW c \in Callers, OverLimit(c) \/ Unavailable(c) \/ RecordFails(c) PROVE Booked'
  BY <1>2, <1>7 DEF OverLimit, Unavailable, RecordFails, table, world
<1>8. ASSUME NEW c \in Callers, Reread(c) PROVE Booked'
  <2>1. request[c] \in Requests
    BY <1>8 DEF Reread, IInv, TypeInv, Asked
  <2> QED BY <1>1, <1>8, <2>1 DEF Reread
<1>9. ASSUME NEW c \in Callers, NoDispatch(c) PROVE Booked'
  <2>1. /\ transfers' = transfers /\ Ids' = Ids /\ moved' = moved /\ sent' = sent
        /\ claimed' = claimed /\ request' = request /\ reply' = reply
    BY <1>9 DEF NoDispatch, Goto, table, world, Ids
  <2>2. /\ pc[c] = "dispatch" /\ pc'[c] = "record" /\ tx'[c] \in {"dry_run", "failed"}
        /\ \A d \in Callers : d # c => pc'[d] = pc[d] /\ tx'[d] = tx[d]
    BY <1>9 DEF NoDispatch, Goto, IInv, TypeInv, TypeOK
  <2>3. OneRowPerKey' /\ OwnRow' /\ RowsTrue'
    BY <2>1, <2>2 DEF IInv, Booked, OneRowPerKey, OwnRow, Holding, RowsTrue, Truth
  <2>4. ASSUME NEW d \in Callers PROVE Held(d)' /\ Doing(d)' /\ AnswerTrue(d)'
    <3>1. CASE d = c
      BY <2>1, <2>2, <3>1, NotOkYet DEF IInv, Booked, Held, Holding, Doing, AnswerTrue, Truth
    <3>2. CASE d # c
      BY <2>1, <2>2, <3>2 DEF IInv, Booked, Held, Holding, Doing, AnswerTrue, Truth
    <3> QED BY <3>1, <3>2
  <2> QED BY <2>3, <2>4 DEF Booked
<1>10. ASSUME NEW c \in Callers, Crash(c) PROVE Booked'
  BY <1>2, <1>10 DEF Crash, table
<1>11. CASE Tick
  <2>1. /\ transfers' = transfers /\ Ids' = Ids /\ moved' = moved /\ sent' = sent
        /\ pc' = pc /\ claimed' = claimed /\ request' = request /\ reply' = reply /\ tx' = tx
    BY <1>11 DEF Tick, table, process, Ids
  <2> QED BY <2>1 DEF IInv, Booked, OneRowPerKey, OwnRow, Held, Holding, RowsTrue, Doing,
                      AnswerTrue, Truth
<1> QED
  BY <1>3, <1>5, <1>6, <1>7, <1>8, <1>9, <1>10, <1>11,
     ClaimStep, DispatchStep, AttemptStep, RecordStep
  DEF Next, Handle

LEMMA InvStep == IInv /\ [Next]_vars => IInv'
<1> SUFFICES ASSUME IInv, [Next]_vars PROVE IInv'
  OBVIOUS
<1>1. TypeInv'
  BY TypeStep DEF IInv, Booked
<1>2. Booked'
  <2>1. CASE Next
    BY <2>1, BookedStep
  <2>2. CASE UNCHANGED vars
    <3>1. /\ transfers' = transfers /\ Ids' = Ids /\ moved' = moved /\ sent' = sent
          /\ pc' = pc /\ claimed' = claimed /\ request' = request /\ reply' = reply
          /\ tx' = tx
      BY <2>2 DEF vars, table, process, world, Ids
    <3> QED BY <3>1 DEF IInv, Booked, OneRowPerKey, OwnRow, Held, Holding, RowsTrue, Doing,
                        AnswerTrue, Truth
  <2> QED BY <2>1, <2>2
<1> QED BY <1>1, <1>2 DEF IInv

LEMMA InvAlways == Spec => []IInv
<1>1. Init => IInv
  BY InvInit
<1>2. IInv /\ [Next]_vars => IInv'
  BY InvStep
<1> QED BY <1>1, <1>2, PTL DEF Spec

\* Every variable keeps its type: the rows of the table among them, whatever
\* requests, crashes and hours come in between (treasury.py, db.py).
THEOREM TypeCorrect == Spec => []TypeOK
<1>1. IInv => TypeOK
  BY DEF IInv, TypeInv
<1> QED BY <1>1, InvAlways, PTL

\* The idempotency key: however many processes ask for a transfer at once, and
\* whatever crashes between claim and record, the table has one row of a key and
\* one process works on it (claim_transfer_with_daily_limit, BEGIN IMMEDIATE).
THEOREM KeysAreClaimedOnce == Spec => [](OneRowPerKey /\ OwnRow)
<1>1. IInv => OneRowPerKey /\ OwnRow
  BY DEF IInv, Booked
<1> QED BY <1>1, InvAlways, PTL

\* An answer of ok is true of the exchange: one row of the key, of the payload
\* that was asked for, dispatched once and paid out; or, of a dry run, a row no
\* money moved for (_existing_transfer_result, execute_transfer).
THEOREM OkMeansMovedAlways == Spec => []OkMeansMoved
<1>1. ASSUME IInv PROVE OkMeansMoved
  <2> SUFFICES ASSUME NEW c \in Callers, reply[c].ok
               PROVE  LET i == reply[c].id IN
                      /\ RowsOf(request[c].key) = {i}
                      /\ transfers[i].pay = request[c].pay
                      /\ IF reply[c].dry
                         THEN transfers[i].status = "dry_run" /\ sent[i] = 0 /\ moved[i] = 0
                         ELSE transfers[i].status = "succeeded" /\ sent[i] = 1 /\ moved[i] > 0
    BY DEF OkMeansMoved
  <2> DEFINE i == reply[c].id
  <2>1. /\ i \in Ids /\ transfers[i].key = request[c].key
        /\ transfers[i].pay = request[c].pay
        /\ transfers[i].status = IF reply[c].dry THEN "dry_run" ELSE "succeeded"
        /\ Truth(transfers[i].status, i)
    BY <1>1 DEF IInv, Booked, AnswerTrue, RowsTrue
  <2>2. RowsOf(request[c].key) = {i}
    BY <1>1, <2>1 DEF IInv, Booked, OneRowPerKey, RowsOf
  <2> QED BY <2>1, <2>2 DEF Truth
<1> QED BY <1>1, InvAlways, PTL

-----------------------------------------------------------------------------
(***************************************************************************)
(* The daily limit.                                                        *)
(***************************************************************************)

\* No row is of the future, so that the rows in the window that ends at a
\* later hour are in the window that ends now: the one a claim looks at.
NotAhead  == \A i \in Ids : transfers[i].at <= now
WindowInv == NotAhead /\ ClaimedWithinLimit

Amount == [i \in Ids |-> AmountOf[transfers[i].pay]]

LEMMA Window ==
  ASSUME TypeOK
  PROVE  /\ IsFiniteSet(Ids) /\ Amount \in [Ids -> Nat]
         /\ now \in 0 .. MaxHours /\ MaxHours \in Nat /\ Day \in Nat /\ Limit \in Nat
         /\ \A i \in Ids : transfers[i].at \in Nat
         /\ \A hour : InUse(hour) \subseteq Ids /\ IsFiniteSet(InUse(hour))
         /\ \A hour : Used(hour) \in Int
<1>1. \A i \in Ids : transfers[i] \in Rows
  BY Tables
<1>2. Amount \in [Ids -> Nat] /\ \A i \in Ids : transfers[i].at \in Nat
  BY <1>1, SetsAssumption, BoundsAssumption DEF Amount, Rows
<1>3. IsFiniteSet(Ids)
  BY Tables, FS_Interval
<1>4. \A hour : InUse(hour) \subseteq Ids /\ IsFiniteSet(InUse(hour))
  BY <1>3, FS_Subset DEF InUse
<1>5. \A hour : Used(hour) \in Int
  <2> TAKE hour
  <2>1. SumFunctionOnSet(Amount, InUse(hour)) \in Int
    BY <1>2, <1>4, SumType
  <2> QED BY <2>1 DEF Used, Amount
<1> QED BY <1>2, <1>3, <1>4, <1>5, BoundsAssumption DEF TypeOK

\* The row of a claim: no earlier window has it, and a later one had no more
\* in use than the window of the claim.
LEMMA ClaimWindow ==
  ASSUME IInv, WindowInv, NEW c \in Callers, Claim(c)
  PROVE  WindowInv'
<1> DEFINE n == Len(transfers) + 1
           row == [key |-> request[c].key, pay |-> request[c].pay,
                   at |-> now, status |-> "pending"]
           amount == AmountOf[request[c].pay]
<1>1. Ids = 1 .. Len(transfers) /\ Len(transfers) \in Nat /\ TypeOK
  BY Tables DEF IInv, TypeInv
<1>2. transfers' = Append(transfers, row) /\ now' = now
  BY DEF Claim
<1>3. /\ Ids' = Ids \cup {n} /\ n \notin Ids /\ transfers'[n] = row
      /\ \A i \in Ids : transfers'[i] = transfers[i]
  BY <1>1, <1>2, SMT DEF Ids, TypeOK
<1>4. NotAhead'
  BY <1>1, <1>2, <1>3, Window DEF WindowInv, NotAhead
<1>5. amount \in Nat
  BY SetsAssumption DEF Claim, IInv, TypeInv, Asked, Requests
<1>6. /\ Amount' \in [Ids \cup {n} -> Nat] /\ Amount'[n] = amount
      /\ \A i \in Ids : Amount'[i] = Amount[i] /\ Amount[i] \in Nat
  BY <1>1, <1>3, <1>5, Window, SMTT(30) DEF Amount
<1> HIDE DEF n, row, amount
<1>7. ASSUME NEW hour \in 0 .. MaxHours PROVE Used(hour)' <= Limit
  <2>1. Used(hour) <= Limit /\ Used(now) + amount <= Limit
    BY DEF WindowInv, ClaimedWithinLimit, Claim, WithinLimit, amount
  <2>2. /\ Used(hour)' = SumFunctionOnSet(Amount', InUse(hour)')
        /\ Used(hour) = SumFunctionOnSet(Amount, InUse(hour))
        /\ Used(now) = SumFunctionOnSet(Amount, InUse(now))
    BY DEF Used, Amount
  <2>3. /\ \A i : InUse(i) \subseteq Ids /\ IsFiniteSet(InUse(i))
        /\ \A i : Used(i) \in Int
    BY <1>1, Window
  <2>4. SumFunctionOnSet(Amount', InUse(hour)) = SumFunctionOnSet(Amount, InUse(hour))
    BY <1>6, <2>3, SumSame
  <2>5. \A i \in Ids : i \in InUse(hour)' <=> i \in InUse(hour)
    BY <1>3 DEF InUse
  <2>6. n \in InUse(hour)' => hour >= now
    BY <1>3, <1>1 DEF InUse, InWindow, row
  <2>7. CASE n \notin InUse(hour)'
    <3>1. InUse(hour)' = InUse(hour)
      BY <1>3, <2>3, <2>5, <2>7 DEF InUse
    <3> QED BY <2>1, <2>2, <2>4, <3>1
  <2>8. CASE n \in InUse(hour)'
    <3>1. InUse(hour)' = InUse(hour) \cup {n} /\ n \notin InUse(hour)
      BY <1>3, <2>3, <2>5, <2>8 DEF InUse
    <3>2. Used(hour)' = amount + Used(hour)
      BY <1>6, <2>2, <2>3, <2>4, <3>1, SumInsert
    <3>3. InUse(hour) \subseteq InUse(now)
      BY <1>1, <2>6, <2>8, Window DEF WindowInv, NotAhead, InUse, InWindow
    <3>4. Used(hour) <= Used(now)
      BY <1>6, <2>2, <2>3, <3>3, SumMonotonic
    <3> QED BY <1>1, <1>5, <2>1, <2>3, <3>2, <3>4, Window
  <2> QED BY <2>7, <2>8
<1> QED BY <1>4, <1>7 DEF WindowInv, ClaimedWithinLimit

\* A row that is settled was pending: it stays in use or leaves.
LEMMA RecordWindow ==
  ASSUME IInv, WindowInv, NEW c \in Callers, Record(c)
  PROVE  WindowInv'
<1> DEFINE k == claimed[c]
<1>1. TypeOK /\ k \in Ids /\ transfers[k].status = "pending" /\ now' = now
  BY DEF IInv, TypeInv, Booked, Record, Held, Holding, world
<1>2. transfers' = [transfers EXCEPT ![k].status = tx[c]]
  BY DEF Record
<1>3. /\ Ids' = Ids
      /\ \A i \in Ids : /\ transfers'[i].at = transfers[i].at
                        /\ transfers'[i].pay = transfers[i].pay
                        /\ i # k => transfers'[i] = transfers[i]
  <2>1. \A i \in Ids : transfers[i] \in Rows
    BY <1>1, Tables
  <2>2. \A i \in Ids : transfers'[i] = IF i = k THEN [transfers[i] EXCEPT !.status = tx[c]]
                                                ELSE transfers[i]
    BY <1>1, <1>2, Tables DEF Ids, TypeOK
  <2>3. ASSUME NEW i \in Ids
        PROVE  /\ transfers'[i].at = transfers[i].at
               /\ transfers'[i].pay = transfers[i].pay
               /\ i # k => transfers'[i] = transfers[i]
    BY <2>1, <2>2 DEF Rows
  <2>4. Ids' = Ids
    BY <1>1, <1>2, Tables DEF Ids
  <2> QED BY <2>3, <2>4
<1>4. NotAhead'
  BY <1>1, <1>3 DEF WindowInv, NotAhead
<1>5. ASSUME NEW hour \in 0 .. MaxHours PROVE Used(hour)' <= Limit
  <2>1. Used(hour) <= Limit /\ Used(hour) \in Int /\ IsFiniteSet(InUse(hour))
        /\ InUse(hour) \subseteq Ids /\ Limit \in Nat
    BY <1>1, Window DEF WindowInv, ClaimedWithinLimit
  <2>2. Amount' = Amount
    BY <1>3 DEF Amount
  <2>3. InUse(hour)' \subseteq InUse(hour)
    BY <1>1, <1>3 DEF InUse, InWindow, Counted
  <2>4. \A i \in InUse(hour) : Amount[i] \in Nat
    BY <1>1, <2>1, Window
  <2>5. SumFunctionOnSet(Amount, InUse(hour)') <= SumFunctionOnSet(Amount, InUse(hour))
    BY <2>1, <2>3, <2>4, SumMonotonic
  <2>6. SumFunctionOnSet(Amount, InUse(hour)') \in Int
    <3>1. IsFiniteSet(InUse(hour)')
      BY <2>1, <2>3, FS_Subset
    <3> QED BY <2>3, <2>4, <3>1, SumType
  <2>7. Used(hour)' = SumFunctionOnSet(Amount, InUse(hour)')
        /\ Used(hour) = SumFunctionOnSet(Amount, InUse(hour))
    BY <2>2 DEF Used, Amount
  <2> QED BY <2>1, <2>5, <2>6, <2>7
<1> QED BY <1>4, <1>5 DEF WindowInv, ClaimedWithinLimit

LEMMA WindowStep ==
  ASSUME IInv, WindowInv, [Next]_vars
  PROVE  WindowInv'
<1>1. ASSUME transfers' = transfers, now' \in Nat, now <= now' PROVE WindowInv'
  <2>1. \A hour \in 0 .. MaxHours : Used(hour)' = Used(hour)
    BY <1>1 DEF Used, InUse, Ids, Counted, InWindow
  <2>2. ClaimedWithinLimit'
    BY <2>1 DEF WindowInv, ClaimedWithinLimit
  <2>3. NotAhead'
    BY <1>1, Window DEF WindowInv, NotAhead, Ids, IInv, TypeInv
  <2> QED BY <2>2, <2>3 DEF WindowInv
<1>2. now \in Nat
  BY Window DEF IInv, TypeInv
<1>3. CASE Tick
  BY <1>1, <1>2, <1>3 DEF Tick, table
<1>4. ASSUME NEW c \in Callers, Handle(c), ~Claim(c), ~Record(c) PROVE WindowInv'
  <2>1. transfers' = transfers /\ now' = now
    BY <1>4 DEF Handle, Ask, Gate, TakenMeanwhile, OverLimit, Reread, Unavailable,
                NoDispatch, Dispatch, Attempt, RecordFails, table, world
  <2> QED BY <1>1, <1>2, <2>1
<1>5. ASSUME NEW c \in Callers, Crash(c) PROVE WindowInv'
  BY <1>1, <1>2, <1>5 DEF Crash, table
<1>6. CASE UNCHANGED vars
  BY <1>1, <1>2, <1>6 DEF vars, table, world
<1> QED BY <1>3, <1>4, <1>5, <1>6, ClaimWindow, RecordWindow DEF Next

\* The daily limit holds in every window of a day, whatever processes claimed
\* the transfers in it and whenever: the look at the window and the insert are
\* one transaction (claim_transfer_with_daily_limit), a row only leaves the
\* count once it is there, and the clock does not go back.
THEOREM LimitHolds == Spec => []ClaimedWithinLimit
<1>1. Init => WindowInv
  <2> SUFFICES ASSUME Init PROVE WindowInv
    OBVIOUS
  <2>1. Ids = {}
    BY SMT DEF Init, Ids
  <2>2. \A hour : Used(hour) = 0
    <3>1. \A hour : InUse(hour) = {}
      BY <2>1 DEF InUse
    <3> QED BY <3>1, SumEmpty DEF Used
  <2> QED BY <2>1, <2>2, BoundsAssumption DEF WindowInv, NotAhead, ClaimedWithinLimit
<1>2. IInv /\ WindowInv /\ [Next]_vars => WindowInv'
  BY WindowStep
<1>3. WindowInv => ClaimedWithinLimit
  BY DEF WindowInv
<1> QED BY <1>1, <1>2, <1>3, InvAlways, PTL DEF Spec

-----------------------------------------------------------------------------
(***************************************************************************)
(* The refinement of the journal.                                          *)
(***************************************************************************)

\* A withdrawal that is under way was paid at most once for each attempt.
PaidPerTry == \A c \in Callers : pc[c] = "send" => moved[claimed[c]] <= tries[c]

\* A payout leaves the rows and the other requests alone: the journal's Pay, or
\* a stutter.
LEMMA AttemptPays ==
  ASSUME IInv, PaidPerTry, NEW c \in Callers, Attempt(c)
  PROVE  PaidPerTry' /\ [Journal!Next]_(Journal!vars)
<1> DEFINE k == claimed[c]
<1>1. /\ TypeOK /\ k \in Ids /\ transfers[k].status = "pending" /\ pc[c] = "send"
      /\ moved[k] \in Nat /\ tries[c] \in Nat /\ moved[k] <= tries[c] /\ tries[c] < MaxTries
  <2>1. TypeOK /\ k \in Ids /\ transfers[k].status = "pending" /\ pc[c] = "send"
    BY DEF IInv, TypeInv, Booked, Attempt, Held, Holding
  <2>2. moved[k] \in Nat
    BY <2>1, Tables
  <2>3. tries[c] \in Nat /\ tries[c] < MaxTries
    BY <2>1 DEF TypeOK, IInv, TypeInv, Trying
  <2> QED BY <2>1, <2>2, <2>3 DEF PaidPerTry
<1>2. /\ transfers' = transfers /\ claimed' = claimed
      /\ moved' = moved \/ moved' = [moved EXCEPT ![k] = @ + 1]
  BY DEF Attempt, Answered, TimedOut, CutOff, Withdraws, table
<1>3. tries'[c] = tries[c] + 1 /\ \A d \in Callers : d # c => tries'[d] = tries[d]
  BY DEF Attempt, IInv, TypeInv, TypeOK
<1>4. \A d \in Callers : d # c => pc'[d] = pc[d]
  BY DEF Attempt, Answered, TimedOut, CutOff, Ends, Goto, IInv, TypeInv, TypeOK
<1>5. \A d \in Callers : d # c /\ Holding(d) => claimed[d] \in Ids \ {k}
  BY <1>1 DEF IInv, Booked, OwnRow, Held, Holding
<1>6. k \in DOMAIN moved /\ DOMAIN moved = Ids
  BY <1>1, Tables
<1>7. moved'[k] \in {moved[k], moved[k] + 1} /\ \A i \in Ids : i # k => moved'[i] = moved[i]
  BY <1>2, <1>6
<1> HIDE DEF k
<1>8. PaidPerTry'
  <2> SUFFICES ASSUME NEW d \in Callers, pc'[d] = "send"
               PROVE  moved'[claimed[d]] <= tries'[d]
    BY <1>2 DEF PaidPerTry
  <2>1. CASE d = c
    BY <1>1, <1>3, <1>7, <2>1 DEF k
  <2>2. CASE d # c
    BY <1>3, <1>4, <1>5, <1>7, <2>2 DEF PaidPerTry, Holding
  <2> QED BY <2>1, <2>2
<1>9. [Journal!Next]_(Journal!vars)
  <2>1. CASE moved' = moved
    BY <1>2, <2>1 DEF Journal!vars
  <2>2. CASE moved' = [moved EXCEPT ![k] = @ + 1]
    <3>1. moved[k] < MaxTries
      BY <1>1, BoundsAssumption DEF k
    <3>2. Journal!Pay(k)
      BY <1>1, <1>2, <2>2, <3>1 DEF Journal!Pay, Journal!Open, k
    <3> QED BY <1>1, <3>2 DEF Journal!Next, Ids, k
  <2> QED BY <1>2, <2>1, <2>2
<1> QED BY <1>8, <1>9

\* The record closes the row that the process holds, with what it did.
LEMMA RecordCloses ==
  ASSUME IInv, NEW c \in Callers, Record(c)
  PROVE  Journal!Next
<1> DEFINE k == claimed[c]
<1>1. /\ k \in Ids /\ transfers[k].status = "pending"
      /\ tx[c] \in Statuses /\ tx[c] # "pending" /\ Truth(tx[c], k)
  BY DEF IInv, Booked, Record, Held, Holding, Doing, TypeInv, TypeOK
<1>2. transfers' = [transfers EXCEPT ![k].status = tx[c]] /\ moved' = moved
  BY DEF Record, world
<1> HIDE DEF k
<1>3. tx[c] \in {"succeeded", "dry_run", "failed"}
  BY <1>1 DEF Statuses
<1>4. Journal!Close(k)
  BY <1>1, <1>2, <1>3 DEF Journal!Close, Journal!Open, Truth
<1> QED BY <1>1, <1>4 DEF Journal!Next, Ids

\* The claim books a row under a key that has none.
LEMMA ClaimBooks ==
  ASSUME IInv, NEW c \in Callers, Claim(c)
  PROVE  Journal!Next
<1> DEFINE n == Len(transfers) + 1
           row == [key |-> request[c].key, pay |-> request[c].pay,
                   at |-> now, status |-> "pending"]
<1>1. transfers \in Seq(Rows) /\ transfers' = Append(transfers, row) /\ moved' = Append(moved, 0)
  BY DEF Claim, IInv, TypeInv, TypeOK
<1>2. /\ Len(transfers') = n /\ transfers'[n] = row
      /\ \A i \in DOMAIN transfers : transfers'[i] = transfers[i]
  BY <1>1, AppendProperties
<1>3. \A i \in DOMAIN transfers : transfers[i].key # row.key
  BY DEF Claim, RowsOf, Ids
<1>4. row.status = "pending"
  OBVIOUS
<1> HIDE DEF row
<1>5. Journal!Book
  BY <1>1, <1>2, <1>3, <1>4 DEF Journal!Book
<1> QED BY <1>5 DEF Journal!Next

LEMMA JournalStep ==
  ASSUME IInv, PaidPerTry, [Next]_vars
  PROVE  PaidPerTry' /\ [Journal!Next]_(Journal!vars)
<1>1. ASSUME UNCHANGED <<transfers, moved>>,
             \A d \in Callers : pc'[d] = "send" =>
               pc[d] = "send" /\ claimed'[d] = claimed[d] /\ tries'[d] = tries[d]
      PROVE  PaidPerTry' /\ [Journal!Next]_(Journal!vars)
  BY <1>1 DEF PaidPerTry, Journal!vars
<1>2. ASSUME NEW c \in Callers, NEW asked, NEW r, Answer(c, asked, r)
      PROVE  \A d \in Callers : pc'[d] = "send" =>
               pc[d] = "send" /\ claimed'[d] = claimed[d] /\ tries'[d] = tries[d]
  <2>1. pc \in [Callers -> {"idle", "gates", "claim", "reread", "dispatch", "send", "record"}]
        /\ DOMAIN claimed = Callers /\ DOMAIN tries = Callers
    BY DEF IInv, TypeInv, TypeOK
  <2>2. /\ pc' = [pc EXCEPT ![c] = "idle"]
        /\ claimed' = [claimed EXCEPT ![c] = 0] /\ tries' = [tries EXCEPT ![c] = 0]
    BY <1>2 DEF Answer
  <2> QED BY <2>1, <2>2
<1>3. ASSUME NEW c \in Callers, NEW step \in {"gates", "claim", "reread", "record"},
             pc' = [pc EXCEPT ![c] = step], claimed' = claimed, tries' = tries
      PROVE  \A d \in Callers : pc'[d] = "send" =>
               pc[d] = "send" /\ claimed'[d] = claimed[d] /\ tries'[d] = tries[d]
  BY <1>3 DEF IInv, TypeInv, TypeOK
<1>4. ASSUME NEW c \in Callers, NEW pay \in Transfers, NEW given \in Given \cup {NoKey},
             Ask(c, pay, given)
      PROVE  PaidPerTry' /\ [Journal!Next]_(Journal!vars)
  <2> DEFINE asked == [pay |-> pay, key |-> KeyFor(pay, given)]
  <2>1. UNCHANGED <<transfers, moved>> /\ (Known(c, asked) \/ Unknown(c, asked))
    BY <1>4 DEF Ask, table, world
  <2> HIDE DEF asked
  <2>2. CASE Known(c, asked)
    BY <1>1, <1>2, <2>1, <2>2 DEF Known
  <2>3. CASE Unknown(c, asked)
    BY <1>1, <1>3, <2>1, <2>3 DEF Unknown
  <2> QED BY <2>1, <2>2, <2>3
<1>5. ASSUME NEW c \in Callers, Gate(c)
      PROVE  PaidPerTry' /\ [Journal!Next]_(Journal!vars)
  BY <1>1, <1>2, <1>3, <1>5 DEF Gate, Goto, Return, table, world
<1>6. ASSUME NEW c \in Callers, OverLimit(c) \/ Unavailable(c) \/ RecordFails(c) \/ Crash(c)
      PROVE  PaidPerTry' /\ [Journal!Next]_(Journal!vars)
  BY <1>1, <1>2, <1>6 DEF OverLimit, Unavailable, RecordFails, Crash, Return, table, world
<1>7. ASSUME NEW c \in Callers, TakenMeanwhile(c)
      PROVE  PaidPerTry' /\ [Journal!Next]_(Journal!vars)
  BY <1>1, <1>3, <1>7 DEF TakenMeanwhile, Goto, table, world
<1>8. ASSUME NEW c \in Callers, Reread(c)
      PROVE  PaidPerTry' /\ [Journal!Next]_(Journal!vars)
  BY <1>1, <1>2, <1>8 DEF Reread, Known, table, world
<1>9. ASSUME NEW c \in Callers, NoDispatch(c)
      PROVE  PaidPerTry' /\ [Journal!Next]_(Journal!vars)
  BY <1>1, <1>3, <1>9 DEF NoDispatch, Goto, table, world
<1>10. ASSUME NEW c \in Callers, Dispatch(c)
       PROVE  PaidPerTry' /\ [Journal!Next]_(Journal!vars)
  <2>1. UNCHANGED <<transfers, moved, claimed, tries>> /\ pc[c] = "dispatch"
        /\ \A d \in Callers : d # c => pc'[d] = pc[d]
    BY <1>10 DEF Dispatch, Goto, table, IInv, TypeInv, TypeOK
  <2>2. moved[claimed[c]] = 0 /\ tries[c] = 0
    BY <2>1 DEF IInv, TypeInv, Booked, Doing, Trying
  <2>3. PaidPerTry'
    BY <2>1, <2>2 DEF PaidPerTry
  <2> QED BY <2>1, <2>3 DEF Journal!vars
<1>11. ASSUME NEW c \in Callers, Claim(c)
       PROVE  PaidPerTry' /\ [Journal!Next]_(Journal!vars)
  <2>1. pc'[c] = "dispatch" /\ tries' = tries
        /\ \A d \in Callers : d # c => pc'[d] = pc[d] /\ claimed'[d] = claimed[d]
    BY <1>11 DEF Claim, Goto, IInv, TypeInv, TypeOK
  <2>2. \A i \in Ids : moved'[i] = moved[i]
    <3>1. moved \in Seq(Nat) /\ Len(moved) = Len(transfers) /\ moved' = Append(moved, 0)
      BY <1>11 DEF Claim, IInv, TypeInv, TypeOK
    <3> QED BY <3>1, Tables, SMT DEF IInv, TypeInv, Ids
  <2>3. \A d \in Callers : pc[d] = "send" => claimed[d] \in Ids
    BY DEF IInv, Booked, Held, Holding
  <2>4. PaidPerTry'
    BY <2>1, <2>2, <2>3 DEF PaidPerTry
  <2> QED BY <1>11, <2>4, ClaimBooks
<1>12. ASSUME NEW c \in Callers, Record(c)
       PROVE  PaidPerTry' /\ [Journal!Next]_(Journal!vars)
  <2>1. PaidPerTry'
    <3>1. Answer(c, request[c], [ok |-> tx[c] # "failed", dry |-> tx[c] = "dry_run",
                                 id |-> claimed[c]])
      BY <1>12 DEF Record, Return
    <3>2. \A d \in Callers : pc'[d] = "send" =>
            pc[d] = "send" /\ claimed'[d] = claimed[d] /\ tries'[d] = tries[d]
      BY <1>2, <3>1
    <3> QED BY <1>12, <3>2 DEF PaidPerTry, Record, world
  <2> QED BY <1>12, <2>1, RecordCloses
<1>13. CASE Tick
  BY <1>1, <1>13 DEF Tick, table, process
<1>14. CASE UNCHANGED vars
  BY <1>1, <1>14 DEF vars, table, process, world
<1> QED
  BY <1>4, <1>5, <1>6, <1>7, <1>8, <1>9, <1>10, <1>11, <1>12, <1>13, <1>14, AttemptPays
  DEF Next, Handle

\* The table and the exchange implement the journal: a claim books a row, an
\* attempt that pays is a payment of an open row that has attempts left, a
\* record closes one row truly, and look-ups, refusals, crashes and hours are
\* stutters (treasury.py, claim_transfer_with_daily_limit, update_transfer).
THEOREM KeepsTheJournal == Spec => ImplementsJournal
<1>1. Init => Journal!Init /\ PaidPerTry
  BY DEF Init, Journal!Init, PaidPerTry
<1>2. IInv /\ PaidPerTry /\ [Next]_vars => PaidPerTry' /\ [Journal!Next]_(Journal!vars)
  BY JournalStep
<1> QED BY <1>1, <1>2, InvAlways, PTL DEF Spec, ImplementsJournal, Journal!Spec

\* What the journal is worth.  No row is paid more often than there are attempts,
\* and a row that is closed is never closed again, never paid and never changed.
PaidInTries == \A i \in Ids : moved[i] <= MaxTries
ClosedStays ==
  \A i \in Ids : transfers[i].status # "pending" =>
    i \in Ids' /\ transfers'[i] = transfers[i] /\ moved'[i] = moved[i]

LEMMA JournalKeeps ==
  ASSUME IInv, IInv', PaidInTries, [Journal!Next]_(Journal!vars)
  PROVE  PaidInTries' /\ ClosedStays
<1>1. /\ Ids = 1 .. Len(transfers) /\ Len(transfers) \in Nat
      /\ Ids' = 1 .. Len(transfers') /\ Len(transfers') \in Nat
      /\ moved \in Seq(Nat) /\ Len(moved) = Len(transfers)
  BY DEF IInv, TypeInv, TypeOK, Ids
<1>2. CASE Journal!Book
  <2>1. /\ Len(transfers') = Len(transfers) + 1
        /\ \A i \in Ids : transfers'[i] = transfers[i]
        /\ moved' = Append(moved, 0)
    BY <1>2 DEF Journal!Book, Ids
  <2>2. moved'[Len(moved) + 1] = 0 /\ \A i \in 1 .. Len(moved) : moved'[i] = moved[i]
    BY <1>1, <2>1, AppendProperties
  <2>3. \A i \in Ids : i \in Ids' /\ moved'[i] = moved[i]
    BY <1>1, <2>1, <2>2
  <2>4. \A i \in Ids' : i \in Ids \/ i = Len(moved) + 1
    BY <1>1, <2>1
  <2>5. ASSUME NEW i \in Ids' PROVE moved'[i] <= MaxTries
    BY <2>2, <2>3, <2>4, <2>5, BoundsAssumption DEF PaidInTries
  <2>6. ClosedStays
    BY <2>1, <2>3 DEF ClosedStays
  <2> QED BY <2>5, <2>6 DEF PaidInTries
<1>3. ASSUME NEW k \in Ids, Journal!Pay(k) PROVE PaidInTries' /\ ClosedStays
  <2>1. /\ transfers[k].status = "pending" /\ moved[k] < MaxTries
        /\ moved' = [moved EXCEPT ![k] = @ + 1] /\ transfers' = transfers
    BY <1>3 DEF Journal!Pay, Journal!Open
  <2>2. DOMAIN moved = Ids /\ moved[k] \in Nat
    BY <1>1, ElementOfSeq
  <2>3. moved'[k] = moved[k] + 1 /\ \A i \in Ids : i # k => moved'[i] = moved[i]
    BY <2>1, <2>2
  <2>4. Ids' = Ids
    BY <2>1 DEF Ids
  <2> QED BY <2>1, <2>2, <2>3, <2>4, BoundsAssumption DEF PaidInTries, ClosedStays
<1>4. ASSUME NEW k \in Ids, Journal!Close(k) PROVE PaidInTries' /\ ClosedStays
  <2>1. PICK status \in {"succeeded", "dry_run", "failed"} :
          transfers' = [transfers EXCEPT ![k].status = status]
    BY <1>4 DEF Journal!Close
  <2>2. transfers[k].status = "pending" /\ moved' = moved
    BY <1>4 DEF Journal!Close, Journal!Open
  <2>3. Ids' = Ids /\ \A i \in Ids : i # k => transfers'[i] = transfers[i]
    BY <2>1 DEF Ids
  <2> QED BY <2>2, <2>3 DEF PaidInTries, ClosedStays
<1>5. CASE UNCHANGED Journal!vars
  <2>1. transfers' = transfers /\ moved' = moved /\ Ids' = Ids
    BY <1>5 DEF Journal!vars, Ids
  <2> QED BY <2>1 DEF PaidInTries, ClosedStays
<1> QED BY <1>2, <1>3, <1>4, <1>5 DEF Journal!Next, Ids

\* Whatever races, dies or is answered late: money leaves for a row while the row
\* is open, at most once an attempt, and what a row says once it is closed stands
\* (_private_request, update_transfer).
THEOREM ClosedRowsStand == Spec => []PaidInTries /\ [][ClosedStays]_vars
<1>1. Init => PaidPerTry /\ PaidInTries
  BY DEF Init, PaidPerTry, PaidInTries, Ids
<1>2. IInv /\ IInv' /\ PaidPerTry /\ PaidInTries /\ [Next]_vars =>
        (PaidPerTry /\ PaidInTries)' /\ ClosedStays
  BY JournalStep, JournalKeeps
<1>3. IInv /\ IInv' /\ PaidPerTry /\ PaidInTries /\ [Next]_vars =>
        (PaidPerTry /\ PaidInTries)' /\ [ClosedStays]_vars
  BY <1>2
<1> QED BY <1>1, <1>3, InvAlways, PTL DEF Spec
=============================================================================
