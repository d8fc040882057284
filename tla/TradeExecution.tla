--------------------------- MODULE TradeExecution ---------------------------
(***************************************************************************)
(* One opportunity from its logged legs to a position, a hedge or a        *)
(* recovery: the leg execution of executor.py, the partial fill hedger of  *)
(* hedger.py and the startup recovery of recovery.py, over the trades,     *)
(* positions and partial_fills tables of db.py and the venues' own orders. *)
(*                                                                         *)
(* A step is the code between two points where a crash, another leg's      *)
(* thread or the venue can be noticed: one call to a venue or one commit   *)
(* to the database.  A leg's thread and the main thread interleave; the    *)
(* venue fills or closes a live order at any time, the process being down  *)
(* included.                                                               *)
(*                                                                         *)
(* An order is for Full units, so that a resting order may be half filled. *)
(***************************************************************************)
EXTENDS Naturals

CONSTANTS NumLegs,      \* legs of the opportunity
          Venue,        \* "polymarket", "kalshi" or "exchange" (the others)
          GTC,          \* legs that rest good-till-cancelled (_use_gtc_for_leg)
          Mode,         \* how execute() runs the legs
          HedgeEnabled, \* HEDGE_ENABLED
          MaxAttempts,  \* HEDGE_MAX_ATTEMPTS
          MaxCrashes,   \* bound on crashes
          MaxLost       \* bound on lost answers and failed commits

Legs  == 1 .. NumLegs
Modes == {"sequential",  \* _execute_legs on one platform
          "threads",     \* _execute_legs across platforms
          "concurrent"}  \* _execute_legs_concurrent
Full  == 2

ASSUME LegAssumption ==
  /\ NumLegs \in Nat \ {0}
  /\ Venue \in [Legs -> {"polymarket", "kalshi", "exchange"}]
  /\ GTC \subseteq {l \in Legs : Venue[l] # "exchange"}
  /\ Mode \in Modes
  /\ HedgeEnabled \in BOOLEAN
ASSUME TradeBoundsAssumption ==
  /\ MaxAttempts \in Nat
  /\ MaxCrashes \in Nat
  /\ MaxLost \in Nat

VARIABLES
  order,       \* the leg's order at the venue
  held,        \* units of it that filled
  sold,        \* times the filled leg was sold again by a hedge
  row,         \* trades.status
  rowId,       \* trades.order_id is set
  position,    \* a positions row exists for the opportunity
  pf,          \* partial_fills.hedge_status of the leg's row
  tries,       \* partial_fills.hedge_attempts
  main,        \* where the main thread stands
  thread,      \* where the leg's thread stands
  knows,       \* leg["_order_id"] is set
  unconfirmed, \* leg["_cancel_unconfirmed"]
  result,      \* results[i]
  cur,         \* the leg the main thread is recording or hedging
  todo,        \* the rows its loop has still to visit
  answer,      \* what the hedge call returned
  crashes, lost

venues == <<order, held, sold>>
ledger == <<row, rowId, position, pf, tries>>
leg    == <<thread, knows, unconfirmed, result>>
loop   == <<cur, todo, answer>>
bounds == <<crashes, lost>>
vars   == <<venues, ledger, main, leg, loop, bounds>>

RowStatus == {"none", "pending", "failed", "filled", "aborted", "orphaned",
              "dedup_skipped", "hedge_pending"}
Threads   == {"wait", "placed", "poll", "cancel", "ok", "failed", "raised"}
Mains     == {"log", "preflight", "run", "record", "abort", "cleanup", "settle",
              "queue", "release", "hedge", "write", "idle", "down", "recover",
              "convert"}

TypeOK ==
  /\ order \in [Legs -> {"none", "live", "closed"}]
  /\ held \in [Legs -> 0 .. Full]
  /\ sold \in [Legs -> Nat]
  /\ row \in [Legs -> RowStatus]
  /\ rowId \in [Legs -> BOOLEAN]
  /\ position \in BOOLEAN
  /\ pf \in [Legs -> {"none", "pending", "hedged", "failed"}]
  /\ tries \in [Legs -> 0 .. MaxAttempts]
  /\ main \in Mains
  /\ thread \in [Legs -> Threads]
  /\ knows \in [Legs -> BOOLEAN]
  /\ unconfirmed \in [Legs -> BOOLEAN]
  /\ result \in [Legs -> {"none", "ok", "bad"}]
  /\ cur \in Legs
  /\ todo \in SUBSET Legs
  /\ answer \in BOOLEAN
  /\ crashes \in 0 .. MaxCrashes
  /\ lost \in 0 .. MaxLost

Init ==
  /\ order = [l \in Legs |-> "none"] /\ held = [l \in Legs |-> 0]
  /\ sold = [l \in Legs |-> 0]
  /\ row = [l \in Legs |-> "none"]   /\ rowId = [l \in Legs |-> FALSE]
  /\ position = FALSE
  /\ pf = [l \in Legs |-> "none"]    /\ tries = [l \in Legs |-> 0]
  /\ main = "log"
  /\ thread = [l \in Legs |-> "wait"]
  /\ knows = [l \in Legs |-> FALSE]  /\ unconfirmed = [l \in Legs |-> FALSE]
  /\ result = [l \in Legs |-> "none"]
  /\ cur = 1 /\ todo = {} /\ answer = FALSE
  /\ crashes = 0 /\ lost = 0

Filled(l)   == held[l] = Full

\* The venue calls the order executed.  The code reads that word alone: but
\* for Polymarket's "matched", it is also the word of an order that closed
\* short (Gemini's "closed", Betfair's "EXECUTION_COMPLETE", Kalshi's
\* "executed" with a smaller fill_count).
Done(l) == order[l] = "closed" /\ (Venue[l] = "polymarket" => Filled(l))

First(S)    == {l \in S : \A k \in S : l <= k}  \* none if S is empty
RowsOf(s)   == {l \in Legs : row[l] = s}
MayLose     == lost < MaxLost
Lose        == lost' = lost + 1 /\ UNCHANGED crashes
NoFault     == UNCHANGED bounds
SetRow(l, s) == row' = [row EXCEPT ![l] = s]

(***************************************************************************)
(* The venue.                                                              *)
(***************************************************************************)

\* Part of a resting order, or the rest of any live order, is matched.
VenueFill(l) ==
  /\ order[l] = "live"
  /\ \E n \in held[l] + 1 .. Full :
       /\ n < Full => l \in GTC \/ Venue[l] = "exchange"
       /\ held' = [held EXCEPT ![l] = n]
       /\ order' = IF n = Full THEN [order EXCEPT ![l] = "closed"] ELSE order
  /\ UNCHANGED <<sold, ledger, main, leg, loop, bounds>>

\* The venue kills or expires a live order.
VenueClose(l) ==
  /\ order[l] = "live"
  /\ order' = [order EXCEPT ![l] = "closed"]
  /\ UNCHANGED <<held, sold, ledger, main, leg, loop, bounds>>

(***************************************************************************)
(* A leg: _execute_single_leg.                                             *)
(***************************************************************************)

\* Mutation: no leg waits for the one before it.
MutantMayStart(l) == main = "run" /\ thread[l] = "wait"

\* Legs on one platform run one after the other and stop at the first
\* failure; legs across platforms, or in concurrent mode, run together.
MayStart(l) ==
  /\ main = "run"
  /\ thread[l] = "wait"
  /\ Mode = "sequential" => \A k \in 1 .. l - 1 : result[k] = "ok"

\* A guard refuses the leg (whitelist, minimum size, missing client or
\* identifiers, live policy) or the venue rejects the order.
PlaceRefused(l) ==
  /\ MayStart(l)
  /\ thread' = [thread EXCEPT ![l] = "failed"]
  /\ UNCHANGED <<venues, ledger, main, knows, unconfirmed, result, loop, bounds>>

\* The venue accepts the order.  Its answer may be lost: the client returns
\* None and the leg fails without an order id.
PlaceOrder(l) ==
  /\ MayStart(l)
  /\ order' = [order EXCEPT ![l] = "live"]
  /\ \/ thread' = [thread EXCEPT ![l] = "placed"] /\ NoFault
     \/ MayLose /\ thread' = [thread EXCEPT ![l] = "failed"] /\ Lose
  /\ UNCHANGED <<held, sold, ledger, main, knows, unconfirmed, result, loop>>

\* A cancel is confirmed only while the order is live; the answer may be
\* lost, which reads as unconfirmed.  CancelAt is the outcome at the venue.
CancelAt(l, confirmed) ==
  \/ /\ order[l] = "live" /\ confirmed
     /\ order' = [order EXCEPT ![l] = "closed"] /\ NoFault
  \/ order[l] = "closed" /\ ~confirmed /\ UNCHANGED order /\ NoFault
  \/ /\ order[l] = "live" /\ ~confirmed /\ MayLose /\ Lose
     /\ order' \in {order, [order EXCEPT ![l] = "closed"]}

\* _persist_order_id: the order id is written before any fill is polled.
PersistOrderId(l) ==
  /\ thread[l] = "placed"
  /\ knows' = [knows EXCEPT ![l] = TRUE]
  /\ SetRow(l, "pending")
  /\ rowId' = [rowId EXCEPT ![l] = TRUE]
  /\ thread' = [thread EXCEPT ![l] = "poll"]
  /\ UNCHANGED <<venues, position, pf, tries, main, unconfirmed, result, loop,
                 bounds>>

\* The write of the order id fails.  Polymarket and Kalshi legs cancel the
\* order and fail whatever the cancel answers; the others poll regardless.
PersistFails(l) ==
  /\ thread[l] = "placed" /\ MayLose /\ Lose
  /\ knows' = [knows EXCEPT ![l] = TRUE]
  /\ IF Venue[l] = "exchange"
     THEN thread' = [thread EXCEPT ![l] = "poll"] /\ UNCHANGED order
     ELSE /\ thread' = [thread EXCEPT ![l] = "failed"]
          /\ order' \in {order, [order EXCEPT ![l] = "closed"]}
  /\ UNCHANGED <<held, sold, ledger, main, unconfirmed, result, loop>>

\* Mutation: the first match of a resting order is taken for its fill.
MutantConfirmFill(l) ==
  /\ thread[l] = "poll" /\ held[l] > 0
  /\ thread' = [thread EXCEPT ![l] = "ok"]
  /\ UNCHANGED <<venues, ledger, main, knows, unconfirmed, result, loop, bounds>>

\* The poll, or Kalshi's immediate answer, reports the order executed: the
\* quantity it reports is not compared with the order's.
ConfirmFill(l) ==
  /\ thread[l] = "poll" /\ Done(l)
  /\ thread' = [thread EXCEPT ![l] = "ok"]
  /\ UNCHANGED <<venues, ledger, main, knows, unconfirmed, result, loop, bounds>>

\* The poll ends without a fill: it timed out, or saw the order closed, or
\* could not read a fill.  A GTC order is then cancelled, another is not, nor
\* is one that Kalshi's immediate answer calls neither executed nor resting.
PollEnds(l) ==
  /\ thread[l] = "poll"
  /\ IF Filled(l) THEN MayLose /\ Lose ELSE NoFault
  /\ \E next \in {"cancel", "failed"} :
       /\ next = "cancel" => l \in GTC
       /\ next = "failed" /\ l \in GTC
            => Venue[l] = "kalshi" /\ order[l] = "closed" /\ held[l] = 0
       /\ thread' = [thread EXCEPT ![l] = next]
  /\ UNCHANGED <<venues, ledger, main, knows, unconfirmed, result, loop>>

\* A call of the poll raises out of the leg.
PollRaises(l) ==
  /\ thread[l] = "poll" /\ MayLose /\ Lose
  /\ thread' = [thread EXCEPT ![l] = "raised"]
  /\ UNCHANGED <<venues, ledger, main, knows, unconfirmed, result, loop>>

CancelTimedOut(l) ==
  /\ thread[l] = "cancel"
  /\ \E confirmed \in BOOLEAN :
       /\ CancelAt(l, confirmed)
       /\ unconfirmed' = [unconfirmed EXCEPT ![l] = ~confirmed]
  /\ thread' = [thread EXCEPT ![l] = "failed"]
  /\ UNCHANGED <<held, sold, ledger, main, knows, result, loop>>

LegStep(l) ==
  \/ PlaceRefused(l) \/ PlaceOrder(l) \/ PersistOrderId(l) \/ PersistFails(l)
  \/ ConfirmFill(l) \/ PollEnds(l) \/ PollRaises(l) \/ CancelTimedOut(l)

(***************************************************************************)
(* The main thread: _execute_legs and _execute_legs_concurrent.            *)
(***************************************************************************)

LogTrade ==
  /\ main = "log"
  /\ \E l \in First(RowsOf("none")) :
       /\ SetRow(l, "pending")
       /\ main' = IF l < NumLegs THEN "log"
                  ELSE IF Mode = "concurrent" THEN "run" ELSE "preflight"
  /\ UNCHANGED <<venues, rowId, position, pf, tries, leg, loop, bounds>>

\* The cached balances cover the cost, or every leg is aborted.
Preflight ==
  /\ main = "preflight"
  /\ \/ main' = "run" /\ UNCHANGED todo
     \/ main' = "cleanup" /\ todo' = Legs
  /\ UNCHANGED <<venues, ledger, leg, cur, answer, bounds>>

\* Mutation: the abort starts at the leg that failed.
MutantBehind(l) == {k \in Legs : Mode = "sequential" /\ k >= l}

\* The legs the loop aborts when leg l has failed.
Behind(l) == {k \in Legs : Mode = "sequential" /\ k > l}

\* They are aborted one by one, whatever their rows say: inside the try block
\* ("abort"), in its handler or by the preflight ("cleanup").
AbortNext ==
  /\ main \in {"abort", "cleanup"}
  /\ \E l \in First(todo) :
       /\ SetRow(l, "aborted")
       /\ todo' = todo \ {l}
       /\ main' = IF todo = {l} THEN "settle" ELSE main
  /\ UNCHANGED <<venues, rowId, position, pf, tries, leg, cur, answer, bounds>>

\* A commit of the try block's abort fails: the handler takes the failed leg
\* for one in an unknown state, and aborts the rest itself, from the start.
AbortFails ==
  /\ main = "abort" /\ MayLose /\ Lose
  /\ SetRow(cur, IF knows[cur] THEN "pending" ELSE "failed")
  /\ main' = "cleanup" /\ todo' = Behind(cur)
  /\ UNCHANGED <<venues, rowId, position, pf, tries, leg, cur, answer>>

Unrecorded(l) == main = "run" /\ result[l] = "none"

AfterFailure(l, abort) ==
  CASE Mode # "sequential" -> "run"
    [] Mode = "sequential" /\ l < NumLegs -> abort
    [] OTHER -> "settle"

\* _finalize_leg_trade of a filled leg.
FinalizeFilled(l) ==
  /\ Unrecorded(l) /\ thread[l] = "ok"
  /\ SetRow(l, "filled")
  /\ rowId' = [rowId EXCEPT ![l] = TRUE]
  /\ result' = [result EXCEPT ![l] = "ok"]
  /\ UNCHANGED <<venues, position, pf, tries, main, thread, knows, unconfirmed,
                 loop, bounds>>

\* _finalize_leg_trade of a failed leg commits "failed" first ...
FinalizeFailed(l) ==
  /\ Unrecorded(l) /\ thread[l] = "failed"
  /\ SetRow(l, "failed")
  /\ rowId' = [rowId EXCEPT ![l] = @ \/ knows[l]]
  /\ main' = "record" /\ cur' = l
  /\ UNCHANGED <<venues, position, pf, tries, leg, todo, answer, bounds>>

\* Mutation: an unconfirmed cancel is a failure like any other.
MutantRecordFailed ==
  /\ main = "record"
  /\ SetRow(cur, "failed")
  /\ result' = [result EXCEPT ![cur] = "bad"]
  /\ main' = AfterFailure(cur, "abort") /\ todo' = Behind(cur)
  /\ UNCHANGED <<venues, rowId, position, pf, tries, thread, knows,
                 unconfirmed, cur, answer, bounds>>

\* ... and _record_failed_leg then makes an unconfirmed cancel pending again,
\* as the handler makes every leg with an order id if that commit fails.
RecordFailed ==
  /\ main = "record"
  /\ \/ /\ SetRow(cur, IF unconfirmed[cur] THEN "pending" ELSE "failed")
        /\ main' = AfterFailure(cur, "abort") /\ NoFault
     \/ /\ SetRow(cur, IF knows[cur] THEN "pending" ELSE "failed")
        /\ main' = AfterFailure(cur, "cleanup") /\ MayLose /\ Lose
  /\ result' = [result EXCEPT ![cur] = "bad"]
  /\ todo' = Behind(cur)
  /\ UNCHANGED <<venues, rowId, position, pf, tries, thread, knows,
                 unconfirmed, cur, answer>>

\* The exception handler: the leg raised, or the commit that records it did.
RecordError(l) ==
  /\ Unrecorded(l)
  /\ \/ thread[l] = "raised" /\ NoFault
     \/ thread[l] \in {"ok", "failed"} /\ MayLose /\ Lose
  /\ SetRow(l, IF knows[l] THEN "pending" ELSE "failed")
  /\ rowId' = [rowId EXCEPT ![l] = @ \/ knows[l]]
  /\ result' = [result EXCEPT ![l] = "bad"]
  /\ main' = AfterFailure(l, "cleanup") /\ todo' = Behind(l)
  /\ UNCHANGED <<venues, position, pf, tries, thread, knows, unconfirmed, cur,
                 answer>>

\* Mutation: any(results) where all(results) is meant.
MutantAllFilled == \E l \in Legs : result[l] = "ok"

AllFilled == \A l \in Legs : result[l] = "ok"
Won       == {l \in Legs : result[l] = "ok"}

\* Every leg filled: the position is created.  Otherwise the filled legs are
\* queued for hedging or, with hedging off, cancelled.
Settle ==
  /\ \/ main = "settle"
     \/ main = "run" /\ \A l \in Legs : result[l] # "none"
  /\ position' = (position \/ AllFilled)
  /\ main' = CASE AllFilled \/ Won = {} -> "idle"
               [] ~AllFilled /\ Won # {} /\ HedgeEnabled -> "queue"
               [] OTHER -> "release"
  /\ UNCHANGED <<venues, row, rowId, pf, tries, leg, loop, bounds>>

\* A filled order cannot be cancelled: the leg is left orphaned.
ReleaseFilled ==
  /\ main = "release"
  /\ LET rest == {l \in Won : row[l] = "filled"} IN
       \E l \in First(rest) :
         /\ SetRow(l, "orphaned")
         /\ main' = IF rest = {l} THEN "idle" ELSE "release"
  /\ UNCHANGED <<venues, rowId, position, pf, tries, leg, loop, bounds>>

(***************************************************************************)
(* The hedger.                                                             *)
(***************************************************************************)

PendingHedges == {l \in Legs : pf[l] = "pending"}
Unqueued == {l \in Won : ~AllFilled /\ pf[l] = "none"}

\* queue_hedge; _execute_legs processes the queue after each filled leg,
\* _execute_legs_concurrent once after the last.
QueueHedge ==
  /\ main = "queue"
  /\ \E l \in First(Unqueued) :
       /\ pf' = [pf EXCEPT ![l] = "pending"]
       /\ main' = IF Mode = "concurrent" /\ Unqueued # {l} THEN "queue" ELSE "hedge"
       /\ todo' = PendingHedges \cup {l}
  /\ UNCHANGED <<venues, row, rowId, position, tries, leg, cur, answer, bounds>>

\* The pass of the continuous loop over process_pending_hedges.
HedgePass ==
  /\ main = "idle" /\ HedgeEnabled /\ PendingHedges # {}
  /\ main' = "hedge" /\ todo' = PendingHedges
  /\ UNCHANGED <<venues, ledger, leg, cur, answer, bounds>>

\* Mutation: one attempt too many.
MutantExhausted(l) == tries[l] > MaxAttempts

Exhausted(l) == tries[l] >= MaxAttempts

GiveUp ==
  /\ main = "hedge"
  /\ \E l \in First(todo) :
       /\ Exhausted(l)
       /\ pf' = [pf EXCEPT ![l] = "failed"]
       /\ todo' = todo \ {l}
  /\ UNCHANGED <<venues, row, rowId, position, tries, main, leg, cur, answer,
                 bounds>>

\* A partial fill made from an orphaned trade carries the order id where the
\* market's identifiers belong, so that no venue can sell it.
Sellable(l) == row[l] # "hedge_pending"

\* A venue's _hedge method: refused (no book, too dear, rejected); sold; sold
\* with the answer lost or unreadable.  Only the Polymarket method asks what
\* became of its order: the others take an accepted order, killed or resting,
\* for a sale.
Sell(l) ==
  \/ answer' = FALSE /\ UNCHANGED sold /\ NoFault
  \/ /\ Sellable(l) /\ sold' = [sold EXCEPT ![l] = @ + 1]
     /\ \/ answer' = TRUE /\ NoFault
        \/ answer' = FALSE /\ MayLose /\ Lose
  \/ /\ Sellable(l) /\ Venue[l] # "polymarket"
     /\ answer' = TRUE /\ UNCHANGED sold /\ NoFault

AttemptHedge ==
  /\ main = "hedge"
  /\ \E l \in First(todo) : ~Exhausted(l) /\ cur' = l /\ Sell(l)
  /\ main' = "write"
  /\ UNCHANGED <<order, held, ledger, leg, todo>>

\* Mutation: the outcome of a sale is not recorded.
MutantRecordHedge ==
  /\ main = "write"
  /\ tries' = [tries EXCEPT ![cur] = @ + 1]
  /\ todo' = todo \ {cur}
  /\ main' = "hedge"
  /\ UNCHANGED <<venues, row, rowId, position, pf, leg, cur, answer, bounds>>

\* Mutation: a refused sale is not counted.
MutantRecordHedgeUncounted ==
  /\ main = "write"
  /\ pf' = [pf EXCEPT ![cur] = IF answer THEN "hedged" ELSE "pending"]
  /\ todo' = todo \ {cur}
  /\ main' = "hedge"
  /\ UNCHANGED <<venues, row, rowId, position, tries, leg, cur, answer, bounds>>

RecordHedge ==
  /\ main = "write"
  /\ pf' = [pf EXCEPT ![cur] = IF answer THEN "hedged" ELSE "pending"]
  /\ tries' = [tries EXCEPT ![cur] = @ + 1]
  /\ todo' = todo \ {cur}
  /\ main' = "hedge"
  /\ UNCHANGED <<venues, row, rowId, position, leg, cur, answer, bounds>>

HedgesDone ==
  /\ main = "hedge" /\ todo = {}
  /\ main' = IF Unqueued # {} THEN "queue" ELSE "idle"
  /\ UNCHANGED <<venues, ledger, leg, loop, bounds>>

(***************************************************************************)
(* Crash and recovery: reconcile_orphaned_positions.                       *)
(***************************************************************************)

\* Everything but the database and the venues is lost.  unconfirmed is kept
\* as history: no code reads it again.
Crash ==
  /\ main # "down" /\ crashes < MaxCrashes
  /\ crashes' = crashes + 1
  /\ main' = "down"
  /\ thread' = [l \in Legs |-> "wait"]
  /\ knows' = [l \in Legs |-> FALSE]
  /\ result' = [l \in Legs |-> "none"]
  /\ cur' = 1 /\ todo' = {} /\ answer' = FALSE
  /\ UNCHANGED <<venues, ledger, unconfirmed, lost>>

\* Mutation: recovery takes up failed rows as well.
MutantRestart ==
  /\ main = "down"
  /\ todo' = RowsOf("pending") \cup RowsOf("failed")
  /\ main' = IF RowsOf("pending") = {} THEN "idle" ELSE "recover"
  /\ UNCHANGED <<venues, ledger, leg, cur, answer, bounds>>

Restart ==
  /\ main = "down"
  /\ todo' = RowsOf("pending")
  /\ main' = IF RowsOf("pending") = {} THEN "idle" ELSE "recover"
  /\ UNCHANGED <<venues, ledger, leg, cur, answer, bounds>>

\* _check_order_status as a new trades.status.  A venue's answer that cannot
\* be read, or whose words are not the expected ones, is "unknown"; an order
\* that closed short may be called executed or canceled.
AskedStatus(l) ==
  {"orphaned"} \cup {s \in {"filled", "pending", "failed"} :
                      /\ s = "filled"  => Done(l)
                      /\ s = "pending" => order[l] = "live"
                      /\ s = "failed"  => order[l] # "live" /\ ~Filled(l)}

RecoveredStatus(l) ==
  IF ~rowId[l] THEN {"failed"}
  ELSE IF RowsOf("filled") \ {l} # {} THEN {"dedup_skipped"}
  ELSE AskedStatus(l)

RecoverRow ==
  /\ main = "recover"
  /\ \E l \in First(todo) : \E s \in RecoveredStatus(l) :
       /\ SetRow(l, s)
       /\ todo' = todo \ {l}
  /\ main' = IF todo' = {} THEN "convert" ELSE "recover"
  /\ UNCHANGED <<venues, rowId, position, pf, tries, leg, cur, answer, bounds>>

\* _convert_orphans_to_partial_fills, one orphan.  The insert and the update
\* are two commits; a second insert after a crash between them adds a row
\* nobody can sell either, and is left out.
ConvertOrphan ==
  /\ main = "convert"
  /\ \E l \in First(RowsOf("orphaned")) :
       /\ pf' = [pf EXCEPT ![l] = "pending"]
       /\ SetRow(l, "hedge_pending")
  /\ UNCHANGED <<venues, rowId, position, tries, main, leg, loop, bounds>>

RecoveryDone ==
  /\ main = "convert" /\ RowsOf("orphaned") = {}
  /\ main' = "idle"
  /\ UNCHANGED <<venues, ledger, leg, loop, bounds>>

\* The opportunity is finished and nothing of it is left to hedge.
Finished ==
  /\ main = "idle" /\ (HedgeEnabled => PendingHedges = {})
  /\ UNCHANGED vars

Execution ==
  \/ LogTrade \/ Preflight \/ AbortNext \/ AbortFails \/ RecordFailed \/ Settle
  \/ ReleaseFilled
  \/ \E l \in Legs : FinalizeFilled(l) \/ FinalizeFailed(l) \/ RecordError(l)
Hedging == QueueHedge \/ HedgePass \/ GiveUp \/ AttemptHedge \/ RecordHedge
           \/ HedgesDone
Recovery == Restart \/ RecoverRow \/ ConvertOrphan \/ RecoveryDone
Venues   == \E l \in Legs : VenueFill(l) \/ VenueClose(l)

Next ==
  \/ Execution \/ Hedging \/ Recovery \/ Crash \/ Venues \/ Finished
  \/ \E l \in Legs : LegStep(l)

Spec == Init /\ [][Next]_vars

(***************************************************************************)
(* Fairness: a running thread goes on, polls are bounded in time and the   *)
(* platform restarts the process.  The venue owes nothing.                 *)
(***************************************************************************)
FairSpec ==
  /\ Spec
  /\ WF_vars(Execution) /\ WF_vars(Hedging) /\ WF_vars(Recovery)
  /\ \A l \in Legs : WF_vars(LegStep(l))

(***************************************************************************)
(* Properties.                                                             *)
(***************************************************************************)

\* A row is "filled" only of an order the venue has closed and can call
\* executed, never of a resting one with a first match, whichever of the
\* executor and the recovery wrote it, and it carries the order's id.
RowsTellTheTruth ==
  \A l \in Legs : row[l] = "filled" => Done(l) /\ rowId[l]

\* A position stands for legs that all filled, none of which was handed to
\* the hedger: a crash, a recovery or a failed commit never leaves the
\* opportunity both open as a position and being sold off.
PositionsAreWhole ==
  position => \A l \in Legs : row[l] = "filled" /\ pf[l] = "none" /\ sold[l] = 0

\* On one platform no order is sent before the venue has closed every earlier
\* one and can call it executed: at most the last order sent is still open.
OneLegAtATime ==
  Mode = "sequential" =>
    \A l \in Legs : order[l] # "none" => \A k \in 1 .. l - 1 : Done(k)

\* The hedger sells a leg only once its order is closed at a word of execution,
\* and sells it again only across a crash or an answer it lost: the retries of
\* a refused sale never do.
SoldOnce ==
  \A l \in Legs : sold[l] > 0 => Done(l) /\ sold[l] <= 1 + crashes + lost

\* A leg reported as aborted was never sent.
AbortedNeverPlaced == \A l \in Legs : row[l] = "aborted" => order[l] = "none"

\* A settled row is never settled otherwise: a fill is never taken back but
\* by the fallback that orphans it, and recovery opens no closed row again.
SettledRowsStay ==
  [][\A l \in Legs :
       /\ row[l] = "filled" => row'[l] \in {"filled", "orphaned"}
       /\ row[l] \in {"aborted", "dedup_skipped", "hedge_pending"}
            => row'[l] = row[l]
       /\ row[l] = "failed" /\ main \notin {"record", "abort"}
            => row'[l] = "failed"]_vars

\* While the process lives, a leg whose cancel was not confirmed ends pending
\* with its order id, where the next recovery looks for it.
UnconfirmedIsKept ==
  crashes = 0 /\ main = "idle" =>
    \A l \in Legs : unconfirmed[l] => row[l] = "pending" /\ rowId[l]

\* A filled leg of a process that lives becomes part of a position, or the
\* hedger sells it or gives up on the record.
EveryFillAnswered ==
  \A l \in Legs :
    row[l] = "filled" ~> (position \/ pf[l] \in {"hedged", "failed"} \/ crashes > 0)

(***************************************************************************)
(* What the repository says and the code does not do.                      *)
(***************************************************************************)

\* "No order_id means the order was never placed": a failed row without an
\* order id has no order at the venue.
NoIdNeverPlaced ==
  \A l \in Legs : row[l] = "failed" /\ ~rowId[l] => order[l] = "none"

\* "this trade is a duplicate": a row recovery skips has no live order and
\* no fill of its own.
SkippedIsDuplicate ==
  \A l \in Legs :
    row[l] = "dedup_skipped" => order[l] # "live" /\ held[l] = 0

\* "Returns True if sell succeeded": a leg on record as hedged was sold.
HedgedWasSold == \A l \in Legs : pf[l] = "hedged" => sold[l] > 0

\* "confirmed filled": a row recorded as filled holds what was ordered.
FilledHoldsAll == \A l \in Legs : row[l] = "filled" => Filled(l)

\* The fill poll answers "None if not filled": a leg recorded as failed, its
\* order closed, holds nothing.
FailedHoldsNothing ==
  \A l \in Legs :
    main = "idle" /\ row[l] = "failed" /\ order[l] = "closed" => held[l] = 0
=============================================================================
