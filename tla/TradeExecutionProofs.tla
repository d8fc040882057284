------------------------ MODULE TradeExecutionProofs ------------------------
(***************************************************************************)
(* Theorems about the execution, hedging and recovery of an opportunity,   *)
(* for any number of legs, any venues and order types, each of the three   *)
(* ways to run the legs, and any budget of crashes and lost answers.       *)
(***************************************************************************)
EXTENDS TradeExecution, TLAPS

\* The main thread has not settled the outcome; a leg's thread is at work.
Early   == {"log", "preflight", "run", "record", "abort", "cleanup", "settle"}
Running == {"placed", "poll", "cancel"}

-----------------------------------------------------------------------------
(***************************************************************************)
(* Type correctness.                                                       *)
(***************************************************************************)

\* A sale is attempted only while attempts are left.
TypeInv == TypeOK /\ (main = "write" => tries[cur] < MaxAttempts)

LEMMA InitTypeInv == Init => TypeInv
<1> SUFFICES ASSUME Init PROVE TypeInv
  OBVIOUS
<1>1. 1 \in Legs /\ 0 \in 0 .. Full /\ 0 \in 0 .. MaxAttempts
  BY LegAssumption, TradeBoundsAssumption DEF Legs, Full
<1>2. crashes \in 0 .. MaxCrashes /\ lost \in 0 .. MaxLost
  BY TradeBoundsAssumption DEF Init
<1>3. /\ order \in [Legs -> {"none", "live", "closed"}]
      /\ held \in [Legs -> 0 .. Full]
      /\ sold \in [Legs -> Nat]
      /\ tries \in [Legs -> 0 .. MaxAttempts]
  BY <1>1 DEF Init
<1>4. /\ row \in [Legs -> RowStatus]
      /\ pf \in [Legs -> {"none", "pending", "hedged", "failed"}]
      /\ thread \in [Legs -> Threads]
      /\ result \in [Legs -> {"none", "ok", "bad"}]
  BY DEF Init, RowStatus, Threads
<1>5. /\ rowId \in [Legs -> BOOLEAN] /\ knows \in [Legs -> BOOLEAN]
      /\ unconfirmed \in [Legs -> BOOLEAN]
  BY DEF Init
<1>6. QED
  BY <1>1, <1>2, <1>3, <1>4, <1>5 DEF Init, TypeInv, TypeOK, Mains

LEMMA NextTypeInv == TypeInv /\ [Next]_vars => TypeInv'
<1> SUFFICES ASSUME TypeInv, [Next]_vars PROVE TypeInv'
  OBVIOUS
<1> USE LegAssumption, TradeBoundsAssumption
    DEF TypeInv, TypeOK, RowStatus, Threads, Mains, Legs, Full, Modes, SetRow, MayLose, Lose,
        NoFault, venues, ledger, leg, loop, bounds
<1>1. ASSUME NEW l \in Legs, VenueFill(l) PROVE TypeInv'
  <2>1. PICK n \in held[l] + 1 .. Full :
          /\ held' = [held EXCEPT ![l] = n]
          /\ order' = IF n = Full THEN [order EXCEPT ![l] = "closed"] ELSE order
    BY <1>1 DEF VenueFill
  <2>2. n \in 0 .. Full
    <3>1. held[l] \in 0 .. Full
      OBVIOUS
    <3>2. QED
      BY <3>1
  <2>3. held' \in [Legs -> 0 .. Full] /\ order' \in [Legs -> {"none", "live", "closed"}]
    BY <2>1, <2>2
  <2>4. QED
    BY <1>1, <2>3 DEF VenueFill
<1>2. ASSUME NEW l \in Legs, VenueClose(l) PROVE TypeInv'
  BY <1>2 DEF VenueClose
<1>3. ASSUME NEW l \in Legs, PlaceRefused(l) PROVE TypeInv'
  BY <1>3 DEF PlaceRefused, MayStart
<1>4. ASSUME NEW l \in Legs, PlaceOrder(l) PROVE TypeInv'
  <2>1. lost' \in 0 .. MaxLost /\ crashes' = crashes
    BY SMTT(30), <1>4 DEF PlaceOrder
  <2>2. thread' \in [Legs -> Threads] /\ order' \in [Legs -> {"none", "live", "closed"}]
    BY ZenonT(40), <1>4 DEF PlaceOrder
  <2>3. QED
    BY <1>4, <2>1, <2>2 DEF PlaceOrder
<1>5. ASSUME NEW l \in Legs, PersistOrderId(l) PROVE TypeInv'
  BY <1>5 DEF PersistOrderId
<1>6. ASSUME NEW l \in Legs, PersistFails(l) PROVE TypeInv'
  <2>1. lost' \in 0 .. MaxLost /\ crashes' = crashes
    BY <1>6 DEF PersistFails
  <2>2. knows' \in [Legs -> BOOLEAN] /\ thread' \in [Legs -> Threads]
    BY <1>6, SMTT(30) DEF PersistFails
  <2>3. order' \in [Legs -> {"none", "live", "closed"}]
    BY <1>6, SMTT(30) DEF PersistFails
  <2>4. QED
    BY <1>6, <2>1, <2>2, <2>3, SMTT(30) DEF PersistFails
<1>7. ASSUME NEW l \in Legs, ConfirmFill(l) PROVE TypeInv'
  BY <1>7 DEF ConfirmFill
<1>8. ASSUME NEW l \in Legs, PollEnds(l) PROVE TypeInv'
  <2>1. lost' \in 0 .. MaxLost /\ crashes' = crashes
    BY SMTT(30), <1>8 DEF PollEnds
  <2>2. QED
    BY <1>8, <2>1 DEF PollEnds
<1>9. ASSUME NEW l \in Legs, PollRaises(l) PROVE TypeInv'
  BY <1>9, SMTT(30) DEF PollRaises
<1>10. ASSUME NEW l \in Legs, CancelTimedOut(l) PROVE TypeInv'
  <2>1. PICK c \in BOOLEAN :
          CancelAt(l, c) /\ unconfirmed' = [unconfirmed EXCEPT ![l] = ~c]
    BY <1>10 DEF CancelTimedOut
  <2>2. lost' \in 0 .. MaxLost /\ crashes' = crashes
    BY <2>1, SMTT(30) DEF CancelAt
  <2>3. order' \in [Legs -> {"none", "live", "closed"}]
    BY <2>1, SMTT(30) DEF CancelAt
  <2>4. unconfirmed' \in [Legs -> BOOLEAN]
    BY <2>1, Zenon
  <2>5. QED
    BY <1>10, <2>2, <2>3, <2>4 DEF CancelTimedOut
<1>11. ASSUME NEW l \in Legs, FinalizeFilled(l) PROVE TypeInv'
  BY <1>11 DEF FinalizeFilled, Unrecorded
<1>12. ASSUME NEW l \in Legs, FinalizeFailed(l) PROVE TypeInv'
  BY <1>12 DEF FinalizeFailed, Unrecorded
<1>13. ASSUME NEW l \in Legs, RecordError(l) PROVE TypeInv'
  <2>1. todo' \in SUBSET Legs
    BY <1>13 DEF RecordError, Behind
  <2>2. lost' \in 0 .. MaxLost /\ crashes' = crashes
    BY <1>13 DEF RecordError
  <2>3. main' \in Mains /\ main' # "write"
    BY <1>13 DEF RecordError, AfterFailure
  <2>4. QED
    BY <1>13, <2>1, <2>2, <2>3, SMTT(30) DEF RecordError, Unrecorded
<1>14. CASE LogTrade
  BY <1>14 DEF LogTrade, First, RowsOf
<1>15. CASE Preflight
  BY <1>15 DEF Preflight
<1>16. CASE AbortNext
  BY ZenonT(40), <1>16 DEF AbortNext, First, RowsOf
<1>16a. CASE AbortFails
  <2>1. todo' \in SUBSET Legs
    BY <1>16a DEF AbortFails, Behind
  <2>2. QED
    BY <1>16a, <2>1 DEF AbortFails
<1>17. CASE RecordFailed
  <2>1. crashes' = crashes /\ lost' \in 0 .. MaxLost
    BY SMTT(30), <1>17 DEF RecordFailed
  <2>2. row' \in [Legs -> RowStatus] /\ result' \in [Legs -> {"none", "ok", "bad"}]
    BY SMTT(30), <1>17 DEF RecordFailed
  <2>3. main' \in Mains /\ main' # "write"
    BY <1>17 DEF RecordFailed, AfterFailure
  <2>4. todo' \in SUBSET Legs
    BY <1>17 DEF RecordFailed, Behind
  <2>5. QED
    BY <1>17, <2>1, <2>2, <2>3, <2>4 DEF RecordFailed
<1>18. CASE Settle
  BY <1>18 DEF Settle, AllFilled, Won
<1>19. CASE ReleaseFilled
  BY SMTT(30), <1>19 DEF ReleaseFilled, First, Won
<1>20. CASE QueueHedge
  BY <1>20 DEF QueueHedge, First, Unqueued, Won, PendingHedges
<1>21. CASE HedgePass
  BY <1>21 DEF HedgePass, PendingHedges
<1>22. CASE GiveUp
  BY <1>22 DEF GiveUp, First
<1>23. CASE AttemptHedge
  <2>1. PICK l \in First(todo) : ~Exhausted(l) /\ cur' = l /\ Sell(l)
    BY <1>23 DEF AttemptHedge
  <2>2. l \in Legs /\ tries[l] < MaxAttempts
    BY <2>1 DEF First, Exhausted
  <2>3. lost' \in 0 .. MaxLost /\ crashes' = crashes
    BY <2>1 DEF Sell
  <2>4. sold' \in [Legs -> Nat] /\ answer' \in BOOLEAN
    <3>1. sold[l] + 1 \in Nat
      BY <2>2
    <3>2. QED
      BY <2>1, <2>2, <3>1, ZenonT(40) DEF Sell
  <2>5. QED
    BY <1>23, <2>1, <2>2, <2>3, <2>4 DEF AttemptHedge
<1>24. CASE RecordHedge
  BY <1>24, SMTT(30) DEF RecordHedge
<1>25. CASE HedgesDone
  BY <1>25 DEF HedgesDone, Unqueued, Won
<1>26. CASE Restart
  BY <1>26 DEF Restart, RowsOf
<1>27. CASE RecoverRow
  BY SMTT(30), <1>27 DEF RecoverRow, First, RecoveredStatus, AskedStatus, RowsOf
<1>28. CASE ConvertOrphan
  BY SMTT(30), <1>28 DEF ConvertOrphan, First, RowsOf
<1>29. CASE RecoveryDone
  BY <1>29 DEF RecoveryDone, RowsOf
<1>30. CASE Crash
  <2>1. crashes' \in 0 .. MaxCrashes /\ lost' = lost
    BY <1>30 DEF Crash
  <2>2. 1 \in Legs
    OBVIOUS
  <2>3. /\ thread' \in [Legs -> Threads] /\ result' \in [Legs -> {"none", "ok", "bad"}]
        /\ knows' \in [Legs -> BOOLEAN]
    BY <1>30 DEF Crash
  <2>4. QED
    BY ZenonT(40), <1>30, <2>1, <2>2, <2>3 DEF Crash
<1>31. CASE Finished \/ UNCHANGED vars
  BY ZenonT(40), <1>31 DEF Finished, vars
<1>32. QED
  BY <1>1, <1>2, <1>3, <1>4, <1>5, <1>6, <1>7, <1>8, <1>9, <1>10, <1>11,
     <1>12, <1>13, <1>14, <1>15, <1>16, <1>16a, <1>17, <1>18, <1>19, <1>20, <1>21,
     <1>22, <1>23, <1>24, <1>25, <1>26, <1>27, <1>28, <1>29, <1>30, <1>31
     DEF Next, Execution, Hedging, Recovery, Venues, LegStep

\* Every reachable state is well typed: statuses are the ones the database
\* stores, and no partial fill counts more attempts than HEDGE_MAX_ATTEMPTS.
THEOREM TradeTypeCorrect == Spec => []TypeOK
<1>1. TypeInv => TypeOK
  BY DEF TypeInv
<1>2. QED
  BY InitTypeInv, NextTypeInv, <1>1, PTL DEF Spec

-----------------------------------------------------------------------------
(***************************************************************************)
(* Control: where the legs' threads and the main thread can stand at once. *)
(***************************************************************************)

\* A leg at work has no result and the main thread is collecting results; the
\* leg being recorded has failed; the legs to be aborted have not started; and
\* legs on one platform have started only behind legs that succeeded.
Control ==
  /\ \A l \in Legs : thread[l] \in Running \cup {"wait"} => result[l] = "none"
  /\ \A l \in Legs : thread[l] \in Running => main \in {"run", "record"}
  /\ main = "record" => thread[cur] = "failed" /\ result[cur] = "none"
  /\ main = "abort" => thread[cur] = "failed" /\ result[cur] = "bad"
  /\ main \in {"abort", "cleanup"} => \A l \in todo : thread[l] = "wait"
  /\ main \in {"log", "preflight"} => \A l \in Legs : thread[l] = "wait"
  /\ Mode = "sequential" =>
       \A l \in Legs : thread[l] # "wait" => \A k \in 1 .. l - 1 : result[k] = "ok"

LEMMA InitControl == Init => Control
  BY DEF Init, Control, Running

\* On one platform, a leg that has started and has no result is the last that
\* started, and no other leg is at work.
LEMMA LastStarted ==
  ASSUME TypeOK, Control, Mode = "sequential",
         NEW l \in Legs, thread[l] # "wait", result[l] = "none",
         NEW k \in Legs, k # l
  PROVE  /\ thread[k] \notin Running
         /\ l < k => thread[k] = "wait"
<1>1. l \in Nat /\ k \in Nat /\ l >= 1 /\ k >= 1
  BY LegAssumption DEF Legs
<1>2. CASE l < k
  <2>1. l \in 1 .. k - 1
    BY <1>1, <1>2
  <2>2. thread[k] = "wait"
    BY <2>1 DEF Control
  <2>3. QED
    BY <2>2, <1>2 DEF Running
<1>3. CASE k < l
  <2>1. k \in 1 .. l - 1
    BY <1>1, <1>3
  <2>2. result[k] = "ok"
    BY <2>1 DEF Control
  <2>3. QED
    BY <2>2, <1>1, <1>3 DEF Control
<1>4. QED
  BY <1>1, <1>2, <1>3

\* The legs behind a leg that is being recorded have not started.
LEMMA BehindWaits ==
  ASSUME TypeOK, Control, NEW l \in Legs, thread[l] # "wait", result[l] = "none"
  PROVE  \A k \in Behind(l) : thread[k] = "wait"
<1> SUFFICES ASSUME NEW k \in Behind(l) PROVE thread[k] = "wait"
  OBVIOUS
<1>1. Mode = "sequential" /\ k \in Legs /\ l < k /\ k # l
  BY LegAssumption DEF Behind, Legs
<1>2. QED
  BY <1>1, LastStarted

LEMMA NextControl == TypeInv /\ Control /\ [Next]_vars => Control'
<1> SUFFICES ASSUME TypeOK, Control, [Next]_vars PROVE Control'
  BY DEF TypeInv
<1>t. /\ thread \in [Legs -> Threads] /\ result \in [Legs -> {"none", "ok", "bad"}]
      /\ cur \in Legs /\ todo \subseteq Legs
      /\ \A l \in Legs : l \in Nat /\ \A k \in 1 .. l - 1 : k \in Legs
  BY LegAssumption DEF TypeOK, Legs
<1> USE <1>t DEF Control, Running, Threads, SetRow, venues, ledger, leg, loop
<1>1. ASSUME NEW l \in Legs, VenueFill(l) PROVE Control'
  BY <1>1 DEF VenueFill
<1>2. ASSUME NEW l \in Legs, VenueClose(l) PROVE Control'
  BY <1>2 DEF VenueClose
<1>3. ASSUME NEW l \in Legs, PlaceRefused(l) PROVE Control'
  BY <1>3 DEF PlaceRefused, MayStart
<1>4. ASSUME NEW l \in Legs, PlaceOrder(l) PROVE Control'
  BY <1>4 DEF PlaceOrder, MayStart
<1>5. ASSUME NEW l \in Legs, PersistOrderId(l) PROVE Control'
  BY <1>5 DEF PersistOrderId
<1>6. ASSUME NEW l \in Legs, PersistFails(l) PROVE Control'
  BY <1>6 DEF PersistFails
<1>7. ASSUME NEW l \in Legs, ConfirmFill(l) PROVE Control'
  BY <1>7 DEF ConfirmFill
<1>8. ASSUME NEW l \in Legs, PollEnds(l) PROVE Control'
  BY <1>8 DEF PollEnds
<1>9. ASSUME NEW l \in Legs, PollRaises(l) PROVE Control'
  BY <1>9 DEF PollRaises
<1>10. ASSUME NEW l \in Legs, CancelTimedOut(l) PROVE Control'
  BY <1>10 DEF CancelTimedOut, CancelAt
<1>11. ASSUME NEW l \in Legs, FinalizeFilled(l) PROVE Control'
  BY <1>11 DEF FinalizeFilled, Unrecorded
<1>12. ASSUME NEW l \in Legs, FinalizeFailed(l) PROVE Control'
  BY <1>12 DEF FinalizeFailed, Unrecorded
<1>13. ASSUME NEW l \in Legs, RecordError(l) PROVE Control'
  <2>1. result[l] = "none" /\ thread[l] \in {"raised", "ok", "failed"}
    BY <1>13 DEF RecordError, Unrecorded
  <2>2. Mode = "sequential" => \A k \in Legs : thread[k] \notin Running
    BY <2>1, LastStarted
  <2>3. main' \in IF Mode = "sequential" THEN {"cleanup", "settle"} ELSE {"run"}
    BY <1>13 DEF RecordError, AfterFailure
  <2>4. Mode = "sequential" => \A k \in Legs : l < k => thread[k] = "wait"
    BY <2>1, LastStarted
  <2>5. \A k \in Legs : \A j \in 1 .. k - 1 : j = l => l < k
    OBVIOUS
  <2>6. \A k \in todo' : thread'[k] = "wait"
    BY <1>13, <2>4 DEF RecordError, Behind
  <2>7. main' # "abort" /\ main' # "record"
    BY <2>3
  <2>8. QED
    BY <1>13, <2>1, <2>2, <2>3, <2>4, <2>5, <2>6, <2>7 DEF RecordError, Unrecorded
<1>14. CASE LogTrade
  BY <1>14 DEF LogTrade, First, RowsOf
<1>15. CASE Preflight
  BY <1>15 DEF Preflight
<1>16. CASE AbortNext
  BY <1>16 DEF AbortNext, First
<1>16a. CASE AbortFails
  <2>1. result[cur] = "bad" /\ \A k \in Legs : thread[k] \notin Running
    BY <1>16a DEF AbortFails
  <2>2. \A k \in Legs : cur < k => cur \in 1 .. k - 1
    BY LegAssumption DEF Legs
  <2>3. \A k \in Behind(cur) : thread[k] = "wait"
    BY <2>1, <2>2 DEF Behind
  <2>4. QED
    BY <1>16a, <2>3 DEF AbortFails
<1>17. CASE RecordFailed
  <2>1. result[cur] = "none" /\ thread[cur] = "failed"
    BY <1>17 DEF RecordFailed
  <2>2. Mode = "sequential" => \A k \in Legs : thread[k] \notin Running
    BY <2>1, LastStarted
  <2>3. main' \in IF Mode = "sequential" THEN {"abort", "cleanup", "settle"} ELSE {"run"}
    BY <1>17 DEF RecordFailed, AfterFailure
  <2>4. Mode = "sequential" => \A k \in Legs : cur < k => thread[k] = "wait"
    BY <2>1, LastStarted
  <2>5. \A k \in Legs : \A j \in 1 .. k - 1 : j = cur => cur < k
    OBVIOUS
  <2>6. \A k \in todo' : thread'[k] = "wait"
    BY <1>17, <2>4 DEF RecordFailed, Behind
  <2>7. QED
    BY <1>17, <2>1, <2>2, <2>3, <2>4, <2>5, <2>6 DEF RecordFailed
<1>18. CASE Settle
  BY <1>18 DEF Settle, AllFilled, Won
<1>19. CASE ReleaseFilled
  BY <1>19 DEF ReleaseFilled, First, Won
<1>20. CASE QueueHedge
  BY <1>20 DEF QueueHedge, First, Unqueued, Won, PendingHedges
<1>21. CASE HedgePass
  BY <1>21 DEF HedgePass, PendingHedges
<1>22. CASE GiveUp
  BY <1>22 DEF GiveUp, First
<1>23. CASE AttemptHedge
  BY <1>23 DEF AttemptHedge, First, Exhausted, Sellable
<1>24. CASE RecordHedge
  BY <1>24 DEF RecordHedge
<1>25. CASE HedgesDone
  BY <1>25 DEF HedgesDone, Unqueued, Won
<1>26. CASE Restart
  BY <1>26 DEF Restart, RowsOf
<1>27. CASE RecoverRow
  BY <1>27 DEF RecoverRow, First, RecoveredStatus, AskedStatus, RowsOf
<1>28. CASE ConvertOrphan
  BY <1>28 DEF ConvertOrphan, First, RowsOf
<1>29. CASE RecoveryDone
  BY <1>29 DEF RecoveryDone, RowsOf
<1>30. CASE Crash
  BY <1>30 DEF Crash
<1>31. CASE Finished \/ UNCHANGED vars
  BY <1>31 DEF Finished, vars
<1>32. QED
  BY <1>1, <1>2, <1>3, <1>4, <1>5, <1>6, <1>7, <1>8, <1>9, <1>10, <1>11,
     <1>12, <1>13, <1>14, <1>15, <1>16, <1>16a, <1>17, <1>18, <1>19, <1>20, <1>21,
     <1>22, <1>23, <1>24, <1>25, <1>26, <1>27, <1>28, <1>29, <1>30, <1>31
     DEF Next, Execution, Hedging, Recovery, Venues, LegStep

-----------------------------------------------------------------------------
(***************************************************************************)
(* The rows: what each stage of the main thread finds in the ledger.       *)
(***************************************************************************)

\* Until the outcome is settled nothing is hedged; legs without a result are
\* pending, or being aborted, and unsent ones have no order.
Collecting ==
  /\ main \in Early \cup {"release"} => \A l \in Legs : pf[l] = "none" /\ sold[l] = 0
  /\ main = "run" => \A l \in Legs : result[l] = "none" => row[l] = "pending"
  /\ main = "record" =>
       /\ row[cur] = "failed"
       /\ \A l \in Legs \ {cur} : result[l] = "none" => row[l] = "pending"
  /\ main = "abort" =>
       /\ row[cur] \in {"failed", "pending"}
       /\ \A l \in Behind(cur) : row[l] \in {"pending", "aborted"}
  /\ main \in {"abort", "cleanup"} => \A l \in todo : row[l] \in {"pending", "aborted"}
  /\ main \in Early => \A l \in Legs : thread[l] = "wait" => order[l] = "none"
  /\ main \in {"log", "preflight"} => \A l \in Legs : row[l] \in {"none", "pending"}
  /\ main = "preflight" => \A l \in Legs : row[l] = "pending"

\* Only filled legs, and orphans that nobody can sell, are ever hedged.
Queueing ==
  /\ \A l \in Legs : result[l] = "ok" =>
       row[l] = "filled" \/ (~HedgeEnabled /\ main \notin Early)
  /\ main \in {"queue", "hedge", "write"} => HedgeEnabled
  /\ main = "release" => ~HedgeEnabled
  /\ \A l \in Legs : pf[l] # "none" => row[l] \in {"filled", "hedge_pending"}
  /\ main \in {"hedge", "write"} => todo \subseteq PendingHedges
  /\ main = "write" => cur \in todo
  /\ main = "recover" => todo \subseteq RowsOf("pending")

\* A position ends the opportunity: nothing is pending or queued behind it.
Whole == PositionsAreWhole /\ (position => main \in {"idle", "down"})

LEMMA InitRows == Init => Collecting /\ Queueing /\ Whole
  BY DEF Init, Collecting, Queueing, Whole, PositionsAreWhole

LEMMA NextCollecting ==
  TypeInv /\ Control /\ Collecting /\ [Next]_vars => Collecting'
<1> SUFFICES ASSUME TypeOK, Control, Collecting, [Next]_vars PROVE Collecting'
  BY DEF TypeInv
<1>t. /\ thread \in [Legs -> Threads] /\ result \in [Legs -> {"none", "ok", "bad"}]
      /\ row \in [Legs -> RowStatus] /\ order \in [Legs -> {"none", "live", "closed"}]
      /\ pf \in [Legs -> {"none", "pending", "hedged", "failed"}]
      /\ cur \in Legs /\ todo \subseteq Legs
  BY DEF TypeOK
<1> USE <1>t DEF Control, Collecting, Early, Running, Threads, RowStatus, SetRow,
                 venues, ledger, leg, loop
<1>1. ASSUME NEW l \in Legs, VenueFill(l) PROVE Collecting'
  BY <1>1 DEF VenueFill
<1>2. ASSUME NEW l \in Legs, VenueClose(l) PROVE Collecting'
  BY <1>2 DEF VenueClose
<1>3. ASSUME NEW l \in Legs, PlaceRefused(l) PROVE Collecting'
  BY <1>3 DEF PlaceRefused, MayStart
<1>4. ASSUME NEW l \in Legs, PlaceOrder(l) PROVE Collecting'
  BY <1>4 DEF PlaceOrder, MayStart
<1>5. ASSUME NEW l \in Legs, PersistOrderId(l) PROVE Collecting'
  BY <1>5 DEF PersistOrderId
<1>6. ASSUME NEW l \in Legs, PersistFails(l) PROVE Collecting'
  BY <1>6 DEF PersistFails
<1>7. ASSUME NEW l \in Legs, ConfirmFill(l) PROVE Collecting'
  BY <1>7 DEF ConfirmFill
<1>8. ASSUME NEW l \in Legs, PollEnds(l) PROVE Collecting'
  BY <1>8 DEF PollEnds
<1>9. ASSUME NEW l \in Legs, PollRaises(l) PROVE Collecting'
  BY <1>9 DEF PollRaises
<1>10. ASSUME NEW l \in Legs, CancelTimedOut(l) PROVE Collecting'
  BY <1>10 DEF CancelTimedOut, CancelAt
<1>11. ASSUME NEW l \in Legs, FinalizeFilled(l) PROVE Collecting'
  BY <1>11 DEF FinalizeFilled, Unrecorded
<1>12. ASSUME NEW l \in Legs, FinalizeFailed(l) PROVE Collecting'
  BY <1>12 DEF FinalizeFailed, Unrecorded
<1>13. ASSUME NEW l \in Legs, RecordError(l) PROVE Collecting'
  <2>1. \A k \in Behind(l) : thread[k] = "wait"
    BY <1>13, BehindWaits DEF RecordError, Unrecorded
  <2>2. \A k \in Behind(l) : k # l /\ row[k] = "pending"
    BY <1>13, <2>1 DEF RecordError, Unrecorded, Behind
  <2>3. QED
    BY <1>13, <2>2 DEF RecordError, Unrecorded, AfterFailure, Behind
<1>14. CASE LogTrade
  <2>1. PICK l \in First(RowsOf("none")) :
          /\ row' = [row EXCEPT ![l] = "pending"]
          /\ main' = IF l < NumLegs THEN "log"
                     ELSE IF Mode = "concurrent" THEN "run" ELSE "preflight"
    BY <1>14 DEF LogTrade
  <2>2. l \in Legs
    BY <2>1 DEF First, RowsOf
  <2>3. ~(l < NumLegs) => \A k \in Legs : k = l \/ row[k] # "none"
    BY <2>1, <2>2, LegAssumption DEF First, RowsOf, Legs
  <2>4. ~(l < NumLegs) => \A k \in Legs : row'[k] = "pending"
    BY <1>14, <2>1, <2>2, <2>3 DEF LogTrade
  <2>5. \A k \in Legs : row'[k] \in {"none", "pending"}
    BY <1>14, <2>1, <2>2 DEF LogTrade
  <2>6. QED
    BY <1>14, <2>1, <2>4, <2>5 DEF LogTrade
<1>15. CASE Preflight
  BY <1>15 DEF Preflight
<1>16. CASE AbortNext
  <2>1. PICK l \in First(todo) : row' = [row EXCEPT ![l] = "aborted"] /\ todo' = todo \ {l}
    BY <1>16 DEF AbortNext
  <2>2. l \in Legs /\ thread[l] = "wait" /\ (main = "abort" => l # cur)
    BY <2>1, <1>16 DEF First, AbortNext
  <2>3. QED
    BY <1>16, <2>1, <2>2 DEF AbortNext, Behind
<1>16a. CASE AbortFails
  <2>1. \A k \in Behind(cur) : k \in Legs /\ k # cur
    BY LegAssumption DEF Behind, Legs
  <2>2. \A k \in Behind(cur) : row'[k] \in {"pending", "aborted"}
    BY <1>16a, <2>1 DEF AbortFails
  <2>3. QED
    BY <1>16a, <2>2 DEF AbortFails
<1>17. CASE RecordFailed
  <2>1. \A k \in Behind(cur) : thread[k] = "wait"
    BY <1>17, BehindWaits DEF RecordFailed
  <2>2. \A k \in Behind(cur) : k # cur /\ row[k] = "pending"
    BY <1>17, <2>1 DEF RecordFailed, Behind
  <2>3. QED
    BY <1>17, <2>2 DEF RecordFailed, AfterFailure, Behind
<1>18. CASE Settle
  BY <1>18 DEF Settle, AllFilled, Won
<1>19. CASE ReleaseFilled
  BY <1>19 DEF ReleaseFilled, First, Won
<1>20. CASE QueueHedge
  BY <1>20 DEF QueueHedge, First, Unqueued, Won, PendingHedges
<1>21. CASE HedgePass
  BY <1>21 DEF HedgePass, PendingHedges
<1>22. CASE GiveUp
  BY <1>22 DEF GiveUp, First
<1>23. CASE AttemptHedge
  BY <1>23 DEF AttemptHedge, First, Exhausted, Sellable
<1>24. CASE RecordHedge
  BY <1>24 DEF RecordHedge
<1>25. CASE HedgesDone
  BY <1>25 DEF HedgesDone, Unqueued, Won
<1>26. CASE Restart
  BY <1>26 DEF Restart, RowsOf
<1>27. CASE RecoverRow
  BY <1>27 DEF RecoverRow, First, RecoveredStatus, AskedStatus, RowsOf
<1>28. CASE ConvertOrphan
  BY <1>28 DEF ConvertOrphan, First, RowsOf
<1>29. CASE RecoveryDone
  BY <1>29 DEF RecoveryDone, RowsOf
<1>30. CASE Crash
  BY <1>30 DEF Crash
<1>31. CASE Finished \/ UNCHANGED vars
  BY <1>31 DEF Finished, vars
<1>32. QED
  BY <1>1, <1>2, <1>3, <1>4, <1>5, <1>6, <1>7, <1>8, <1>9, <1>10, <1>11,
     <1>12, <1>13, <1>14, <1>15, <1>16, <1>16a, <1>17, <1>18, <1>19, <1>20, <1>21,
     <1>22, <1>23, <1>24, <1>25, <1>26, <1>27, <1>28, <1>29, <1>30, <1>31
     DEF Next, Execution, Hedging, Recovery, Venues, LegStep

LEMMA NextQueueing ==
  TypeInv /\ Control /\ Collecting /\ Queueing /\ [Next]_vars => Queueing'
<1> SUFFICES ASSUME TypeOK, Control, Collecting, Queueing, [Next]_vars PROVE Queueing'
  BY DEF TypeInv
<1>t. /\ thread \in [Legs -> Threads] /\ result \in [Legs -> {"none", "ok", "bad"}]
      /\ row \in [Legs -> RowStatus]
      /\ pf \in [Legs -> {"none", "pending", "hedged", "failed"}]
      /\ cur \in Legs /\ todo \subseteq Legs
  BY DEF TypeOK
<1> USE <1>t DEF Control, Collecting, Queueing, Early, Running, Threads, RowStatus, SetRow,
                 PendingHedges, RowsOf, venues, ledger, leg, loop
<1>1. ASSUME NEW l \in Legs, VenueFill(l) PROVE Queueing'
  BY <1>1 DEF VenueFill
<1>2. ASSUME NEW l \in Legs, VenueClose(l) PROVE Queueing'
  BY <1>2 DEF VenueClose
<1>3. ASSUME NEW l \in Legs, PlaceRefused(l) PROVE Queueing'
  BY <1>3 DEF PlaceRefused, MayStart
<1>4. ASSUME NEW l \in Legs, PlaceOrder(l) PROVE Queueing'
  BY <1>4 DEF PlaceOrder, MayStart
<1>5. ASSUME NEW l \in Legs, PersistOrderId(l) PROVE Queueing'
  BY <1>5 DEF PersistOrderId
<1>6. ASSUME NEW l \in Legs, PersistFails(l) PROVE Queueing'
  BY <1>6 DEF PersistFails
<1>7. ASSUME NEW l \in Legs, ConfirmFill(l) PROVE Queueing'
  BY <1>7 DEF ConfirmFill
<1>8. ASSUME NEW l \in Legs, PollEnds(l) PROVE Queueing'
  BY <1>8 DEF PollEnds
<1>9. ASSUME NEW l \in Legs, PollRaises(l) PROVE Queueing'
  BY <1>9 DEF PollRaises
<1>10. ASSUME NEW l \in Legs, CancelTimedOut(l) PROVE Queueing'
  BY <1>10 DEF CancelTimedOut, CancelAt
<1>11. ASSUME NEW l \in Legs, FinalizeFilled(l) PROVE Queueing'
  BY <1>11 DEF FinalizeFilled, Unrecorded
<1>12. ASSUME NEW l \in Legs, FinalizeFailed(l) PROVE Queueing'
  BY <1>12 DEF FinalizeFailed, Unrecorded
<1>13. ASSUME NEW l \in Legs, RecordError(l) PROVE Queueing'
  BY <1>13 DEF RecordError, Unrecorded, AfterFailure
<1>14. CASE LogTrade
  BY <1>14 DEF LogTrade, First, RowsOf
<1>15. CASE Preflight
  BY <1>15 DEF Preflight
<1>16. CASE AbortNext
  BY <1>16 DEF AbortNext, First
<1>16a. CASE AbortFails
  BY <1>16a DEF AbortFails
<1>17. CASE RecordFailed
  BY <1>17 DEF RecordFailed, AfterFailure
<1>18. CASE Settle
  BY <1>18 DEF Settle, AllFilled, Won
<1>19. CASE ReleaseFilled
  BY <1>19 DEF ReleaseFilled, First, Won
<1>20. CASE QueueHedge
  BY <1>20 DEF QueueHedge, First, Unqueued, Won, PendingHedges
<1>21. CASE HedgePass
  BY <1>21 DEF HedgePass, PendingHedges
<1>22. CASE GiveUp
  BY <1>22 DEF GiveUp, First
<1>23. CASE AttemptHedge
  BY <1>23 DEF AttemptHedge, First, Exhausted, Sellable
<1>24. CASE RecordHedge
  BY <1>24 DEF RecordHedge
<1>25. CASE HedgesDone
  BY <1>25 DEF HedgesDone, Unqueued, Won
<1>26. CASE Restart
  BY <1>26 DEF Restart, RowsOf
<1>27. CASE RecoverRow
  BY <1>27 DEF RecoverRow, First, RecoveredStatus, AskedStatus, RowsOf
<1>28. CASE ConvertOrphan
  BY <1>28 DEF ConvertOrphan, First, RowsOf
<1>29. CASE RecoveryDone
  BY <1>29 DEF RecoveryDone, RowsOf
<1>30. CASE Crash
  BY <1>30 DEF Crash
<1>31. CASE Finished \/ UNCHANGED vars
  BY <1>31 DEF Finished, vars
<1>32. QED
  BY <1>1, <1>2, <1>3, <1>4, <1>5, <1>6, <1>7, <1>8, <1>9, <1>10, <1>11,
     <1>12, <1>13, <1>14, <1>15, <1>16, <1>16a, <1>17, <1>18, <1>19, <1>20, <1>21,
     <1>22, <1>23, <1>24, <1>25, <1>26, <1>27, <1>28, <1>29, <1>30, <1>31
     DEF Next, Execution, Hedging, Recovery, Venues, LegStep

LEMMA NextWhole ==
  TypeInv /\ Control /\ Collecting /\ Queueing /\ Whole /\ [Next]_vars => Whole'
<1> SUFFICES ASSUME TypeOK, Control, Collecting, Queueing, Whole, [Next]_vars
             PROVE  Whole'
  BY DEF TypeInv
<1>t. /\ row \in [Legs -> RowStatus]
      /\ pf \in [Legs -> {"none", "pending", "hedged", "failed"}]
      /\ position \in BOOLEAN
  BY DEF TypeOK
<1> USE <1>t DEF Control, Whole, PositionsAreWhole, Running, SetRow, venues, ledger, leg, loop
<1>1. ASSUME NEW l \in Legs, VenueFill(l) PROVE Whole'
  BY <1>1 DEF VenueFill
<1>2. ASSUME NEW l \in Legs, VenueClose(l) PROVE Whole'
  BY <1>2 DEF VenueClose
<1>3. ASSUME NEW l \in Legs, PlaceRefused(l) PROVE Whole'
  BY <1>3 DEF PlaceRefused, MayStart
<1>4. ASSUME NEW l \in Legs, PlaceOrder(l) PROVE Whole'
  BY <1>4 DEF PlaceOrder, MayStart
<1>5. ASSUME NEW l \in Legs, PersistOrderId(l) PROVE Whole'
  BY <1>5 DEF PersistOrderId
<1>6. ASSUME NEW l \in Legs, PersistFails(l) PROVE Whole'
  BY <1>6 DEF PersistFails
<1>7. ASSUME NEW l \in Legs, ConfirmFill(l) PROVE Whole'
  BY <1>7 DEF ConfirmFill
<1>8. ASSUME NEW l \in Legs, PollEnds(l) PROVE Whole'
  BY <1>8 DEF PollEnds
<1>9. ASSUME NEW l \in Legs, PollRaises(l) PROVE Whole'
  BY <1>9 DEF PollRaises
<1>10. ASSUME NEW l \in Legs, CancelTimedOut(l) PROVE Whole'
  BY <1>10 DEF CancelTimedOut, CancelAt
<1>11. ASSUME NEW l \in Legs, FinalizeFilled(l) PROVE Whole'
  BY <1>11 DEF FinalizeFilled, Unrecorded
<1>12. ASSUME NEW l \in Legs, FinalizeFailed(l) PROVE Whole'
  BY <1>12 DEF FinalizeFailed, Unrecorded
<1>13. ASSUME NEW l \in Legs, RecordError(l) PROVE Whole'
  BY <1>13 DEF RecordError, Unrecorded, AfterFailure
<1>14. CASE LogTrade
  BY <1>14 DEF LogTrade, First, RowsOf
<1>15. CASE Preflight
  BY <1>15 DEF Preflight
<1>16. CASE AbortNext
  BY <1>16 DEF AbortNext, First
<1>16a. CASE AbortFails
  BY <1>16a DEF AbortFails
<1>17. CASE RecordFailed
  BY <1>17 DEF RecordFailed, AfterFailure
<1>18. CASE Settle
  <2>1. main \in Early /\ main' \in {"idle", "queue", "release"}
    BY <1>18 DEF Settle, Early
  <2>2. position' => AllFilled
    BY <2>1, <1>18 DEF Settle, Early
  <2>3. AllFilled => main' = "idle"
    BY <1>18 DEF Settle
  <2>4. AllFilled => \A l \in Legs : row[l] = "filled" /\ pf[l] = "none" /\ sold[l] = 0
    BY <2>1 DEF Collecting, Queueing, AllFilled
  <2>5. QED
    BY <1>18, <2>2, <2>3, <2>4 DEF Settle
<1>19. CASE ReleaseFilled
  BY <1>19 DEF ReleaseFilled, First, Won
<1>20. CASE QueueHedge
  BY <1>20 DEF QueueHedge, First, Unqueued, Won, PendingHedges
<1>21. CASE HedgePass
  BY <1>21 DEF HedgePass, PendingHedges
<1>22. CASE GiveUp
  BY <1>22 DEF GiveUp, First
<1>23. CASE AttemptHedge
  BY <1>23 DEF AttemptHedge, First, Exhausted, Sellable
<1>24. CASE RecordHedge
  BY <1>24 DEF RecordHedge
<1>25. CASE HedgesDone
  BY <1>25 DEF HedgesDone, Unqueued, Won
<1>26. CASE Restart
  BY <1>26 DEF Restart, RowsOf
<1>27. CASE RecoverRow
  BY <1>27 DEF RecoverRow, First, RecoveredStatus, AskedStatus, RowsOf
<1>28. CASE ConvertOrphan
  BY <1>28 DEF ConvertOrphan, First, RowsOf
<1>29. CASE RecoveryDone
  BY <1>29 DEF RecoveryDone, RowsOf
<1>30. CASE Crash
  BY <1>30 DEF Crash
<1>31. CASE Finished \/ UNCHANGED vars
  BY <1>31 DEF Finished, vars
<1>32. QED
  BY <1>1, <1>2, <1>3, <1>4, <1>5, <1>6, <1>7, <1>8, <1>9, <1>10, <1>11,
     <1>12, <1>13, <1>14, <1>15, <1>16, <1>16a, <1>17, <1>18, <1>19, <1>20, <1>21,
     <1>22, <1>23, <1>24, <1>25, <1>26, <1>27, <1>28, <1>29, <1>30, <1>31
     DEF Next, Execution, Hedging, Recovery, Venues, LegStep

-----------------------------------------------------------------------------
(***************************************************************************)
(* What is recorded as filled was filled.                                  *)
(***************************************************************************)

\* A leg that reports or is credited with a fill has an order the venue can
\* call executed, and a leg at work has an order; with them the two properties
\* are inductive.
Truth ==
  /\ RowsTellTheTruth
  /\ \A l \in Legs : thread[l] = "ok" \/ result[l] = "ok" => Done(l)
  /\ \A l \in Legs : thread[l] \in Running => order[l] # "none"
  /\ OneLegAtATime

LEMMA InitTruth == Init => Truth
  BY DEF Init, Truth, RowsTellTheTruth, OneLegAtATime, Running

\* A filled order stays filled: its range of further fills is empty.
LEMMA FilledStays ==
  ASSUME TypeOK, [Next]_vars, NEW l \in Legs, Filled(l)
  PROVE  Filled(l)'
<1> USE DEF Filled, venues, ledger, leg, loop
<1>1. held \in [Legs -> 0 .. Full]
  BY DEF TypeOK
<1>2. ASSUME NEW k \in Legs, VenueFill(k) PROVE held'[l] = Full
  <2>1. PICK n \in held[k] + 1 .. Full : held' = [held EXCEPT ![k] = n]
    BY <1>2 DEF VenueFill
  <2>2. k = l => n = Full
    BY <2>1, <1>1 DEF Full
  <2>3. QED
    BY <2>1, <2>2, <1>1
<1>3. (\A k \in Legs : ~VenueFill(k)) => UNCHANGED held
  BY DEF Next, Execution, Hedging, Recovery, Venues, LegStep, vars, VenueClose,
         PlaceRefused, PlaceOrder, PersistOrderId, PersistFails, ConfirmFill, PollEnds,
         PollRaises, CancelTimedOut, FinalizeFilled, FinalizeFailed, RecordError, LogTrade,
         Preflight, AbortNext, AbortFails, RecordFailed, Settle, ReleaseFilled, QueueHedge, HedgePass,
         GiveUp, AttemptHedge, RecordHedge, HedgesDone, Restart, RecoverRow, ConvertOrphan,
         RecoveryDone, Crash, Finished
<1>4. QED
  BY <1>1, <1>2, <1>3

\* A closed order stays closed: an order is sent only for a leg without one,
\* and only a live order changes otherwise.
LEMMA ClosedStays ==
  ASSUME TypeOK, Collecting, [Next]_vars, NEW l \in Legs, order[l] = "closed"
  PROVE  order'[l] = "closed"
<1> USE DEF venues, ledger, leg, loop
<1>1. order \in [Legs -> {"none", "live", "closed"}]
  BY DEF TypeOK
<1>2. ASSUME NEW k \in Legs, VenueFill(k) \/ VenueClose(k) PROVE order'[l] = "closed"
  BY <1>1, <1>2 DEF VenueFill, VenueClose
<1>3. ASSUME NEW k \in Legs, PlaceOrder(k) PROVE order'[l] = "closed"
  <2>1. order[k] = "none"
    BY <1>3 DEF PlaceOrder, MayStart, Collecting, Early
  <2>2. QED
    BY <1>1, <1>3, <2>1 DEF PlaceOrder
<1>4. ASSUME NEW k \in Legs, PersistFails(k) \/ CancelTimedOut(k) PROVE order'[l] = "closed"
  BY <1>1, <1>4 DEF PersistFails, CancelTimedOut, CancelAt
<1>5. (\A k \in Legs : ~(\/ VenueFill(k) \/ VenueClose(k) \/ PlaceOrder(k)
                       \/ PersistFails(k) \/ CancelTimedOut(k))) => UNCHANGED order
  BY DEF Next, Execution, Hedging, Recovery, Venues, LegStep, vars,
         PlaceRefused, PersistOrderId, ConfirmFill, PollEnds,
         PollRaises, FinalizeFilled, FinalizeFailed, RecordError, LogTrade,
         Preflight, AbortNext, AbortFails, RecordFailed, Settle, ReleaseFilled, QueueHedge, HedgePass,
         GiveUp, AttemptHedge, RecordHedge, HedgesDone, Restart, RecoverRow, ConvertOrphan,
         RecoveryDone, Crash, Finished
<1>6. QED
  BY <1>1, <1>2, <1>3, <1>4, <1>5

LEMMA DoneStays ==
  ASSUME TypeOK, Collecting, [Next]_vars, NEW l \in Legs, Done(l)
  PROVE  Done(l)'
  BY FilledStays, ClosedStays DEF Done

LEMMA NextTruth == TypeInv /\ Control /\ Collecting /\ Truth /\ [Next]_vars => Truth'
<1> SUFFICES ASSUME TypeOK, Control, Collecting, Truth, [Next]_vars PROVE Truth'
  BY DEF TypeInv
<1>t. /\ thread \in [Legs -> Threads] /\ result \in [Legs -> {"none", "ok", "bad"}]
      /\ row \in [Legs -> RowStatus] /\ rowId \in [Legs -> BOOLEAN]
      /\ order \in [Legs -> {"none", "live", "closed"}]
      /\ cur \in Legs /\ todo \subseteq Legs
      /\ \A l \in Legs : l \in Nat /\ \A k \in 1 .. l - 1 : k \in Legs
  BY LegAssumption DEF TypeOK, Legs
<1>f. \A l \in Legs : Done(l) => Done(l)'
  BY DoneStays
<1>o. ASSUME UNCHANGED order PROVE OneLegAtATime'
  BY <1>o, <1>t, <1>f DEF Truth, OneLegAtATime
<1>r. ASSUME UNCHANGED row, UNCHANGED rowId PROVE RowsTellTheTruth'
  BY <1>r, <1>f DEF Truth, RowsTellTheTruth
<1> USE <1>t, <1>f, <1>o, <1>r
    DEF Truth, RowsTellTheTruth, Running, Threads, RowStatus, SetRow, venues, ledger, leg, loop
<1>1. ASSUME NEW l \in Legs, VenueFill(l) PROVE Truth'
  <2>1. \A k \in Legs : order'[k] # "none" => order[k] # "none"
    BY <1>1 DEF VenueFill
  <2>2. OneLegAtATime'
    BY <2>1 DEF OneLegAtATime
  <2>3. QED
    BY <1>1, <2>2 DEF VenueFill
<1>2. ASSUME NEW l \in Legs, VenueClose(l) PROVE Truth'
  <2>1. \A k \in Legs : order'[k] # "none" => order[k] # "none"
    BY <1>2 DEF VenueClose
  <2>2. OneLegAtATime'
    BY <2>1 DEF OneLegAtATime
  <2>3. QED
    BY <1>2, <2>2 DEF VenueClose
<1>3. ASSUME NEW l \in Legs, PlaceRefused(l) PROVE Truth'
  BY <1>3 DEF PlaceRefused, MayStart
<1>4. ASSUME NEW l \in Legs, PlaceOrder(l) PROVE Truth'
  <2>1. Mode = "sequential" => \A k \in 1 .. l - 1 : Done(k)
    BY <1>4 DEF PlaceOrder, MayStart
  <2>2. OneLegAtATime'
    BY <1>4, <2>1 DEF PlaceOrder, OneLegAtATime
  <2>3. QED
    BY <1>4, <2>2 DEF PlaceOrder
<1>5. ASSUME NEW l \in Legs, PersistOrderId(l) PROVE Truth'
  BY <1>5 DEF PersistOrderId
<1>6. ASSUME NEW l \in Legs, PersistFails(l) PROVE Truth'
  <2>1. \A k \in Legs : order'[k] # "none" => order[k] # "none"
    BY <1>6 DEF PersistFails
  <2>2. OneLegAtATime'
    BY <2>1 DEF OneLegAtATime
  <2>3. QED
    BY <1>6, <2>2 DEF PersistFails
<1>7. ASSUME NEW l \in Legs, ConfirmFill(l) PROVE Truth'
  BY <1>7 DEF ConfirmFill
<1>8. ASSUME NEW l \in Legs, PollEnds(l) PROVE Truth'
  BY <1>8 DEF PollEnds
<1>9. ASSUME NEW l \in Legs, PollRaises(l) PROVE Truth'
  BY <1>9 DEF PollRaises
<1>10. ASSUME NEW l \in Legs, CancelTimedOut(l) PROVE Truth'
  <2>1. \A k \in Legs : order'[k] # "none" => order[k] # "none"
    BY <1>10 DEF CancelTimedOut, CancelAt
  <2>2. OneLegAtATime'
    BY <2>1 DEF OneLegAtATime
  <2>3. QED
    BY <1>10, <2>2 DEF CancelTimedOut, CancelAt
<1>11. ASSUME NEW l \in Legs, FinalizeFilled(l) PROVE Truth'
  BY <1>11 DEF FinalizeFilled, Unrecorded
<1>12. ASSUME NEW l \in Legs, FinalizeFailed(l) PROVE Truth'
  BY <1>12 DEF FinalizeFailed, Unrecorded
<1>13. ASSUME NEW l \in Legs, RecordError(l) PROVE Truth'
  BY <1>13 DEF RecordError, Unrecorded, AfterFailure
<1>14. CASE LogTrade
  BY <1>14 DEF LogTrade, First, RowsOf
<1>15. CASE Preflight
  BY <1>15 DEF Preflight
<1>16. CASE AbortNext
  BY <1>16 DEF AbortNext, First
<1>16a. CASE AbortFails
  BY <1>16a DEF AbortFails
<1>17. CASE RecordFailed
  BY <1>17 DEF RecordFailed, AfterFailure
<1>18. CASE Settle
  BY <1>18 DEF Settle, AllFilled, Won
<1>19. CASE ReleaseFilled
  BY <1>19 DEF ReleaseFilled, First, Won
<1>20. CASE QueueHedge
  BY <1>20 DEF QueueHedge, First, Unqueued, Won, PendingHedges
<1>21. CASE HedgePass
  BY <1>21 DEF HedgePass, PendingHedges
<1>22. CASE GiveUp
  BY <1>22 DEF GiveUp, First
<1>23. CASE AttemptHedge
  BY <1>23 DEF AttemptHedge, First, Exhausted, Sellable
<1>24. CASE RecordHedge
  BY <1>24 DEF RecordHedge
<1>25. CASE HedgesDone
  BY <1>25 DEF HedgesDone, Unqueued, Won
<1>26. CASE Restart
  BY <1>26 DEF Restart, RowsOf
<1>27. CASE RecoverRow
  <2>1. PICK l \in Legs : \E s \in RecoveredStatus(l) : SetRow(l, s)
    BY <1>27 DEF RecoverRow, First
  <2>2. \A s \in RecoveredStatus(l) : s = "filled" => Done(l) /\ rowId[l]
    BY DEF RecoveredStatus, AskedStatus
  <2>3. QED
    BY <1>27, <2>1, <2>2 DEF RecoverRow
<1>28. CASE ConvertOrphan
  BY <1>28 DEF ConvertOrphan, First, RowsOf
<1>29. CASE RecoveryDone
  BY <1>29 DEF RecoveryDone, RowsOf
<1>30. CASE Crash
  BY <1>30 DEF Crash
<1>31. CASE Finished \/ UNCHANGED vars
  BY <1>31 DEF Finished, vars
<1>32. QED
  BY <1>1, <1>2, <1>3, <1>4, <1>5, <1>6, <1>7, <1>8, <1>9, <1>10, <1>11,
     <1>12, <1>13, <1>14, <1>15, <1>16, <1>16a, <1>17, <1>18, <1>19, <1>20, <1>21,
     <1>22, <1>23, <1>24, <1>25, <1>26, <1>27, <1>28, <1>29, <1>30, <1>31
     DEF Next, Execution, Hedging, Recovery, Venues, LegStep

-----------------------------------------------------------------------------
(***************************************************************************)
(* Sales.                                                                  *)
(***************************************************************************)

\* Every sale but the one on record, or about to be, is paid for by a crash
\* or a lost answer.
Recorded(l) == pf[l] = "hedged" \/ (main = "write" /\ cur = l /\ answer)
Sales ==
  \A l \in Legs :
    /\ sold[l] <= 1 + crashes + lost
    /\ ~Recorded(l) => sold[l] <= crashes + lost
    /\ sold[l] > 0 => Done(l)

\* A sale that was paid for stays paid for.
LEMMA BoundGrows ==
  ASSUME NEW s \in Nat, NEW c \in Nat, NEW b \in Nat, NEW c1 \in Nat, NEW b1 \in Nat,
         c1 + b1 >= c + b
  PROVE  /\ s <= 1 + c + b => s <= 1 + c1 + b1
         /\ s <= c + b => s <= c1 + b1
  OBVIOUS

LEMMA InitSales == Init => Sales
  BY DEF Init, Sales

LEMMA NextSales ==
  TypeInv /\ Control /\ Collecting /\ Truth /\ Queueing /\ Sales /\ [Next]_vars => Sales'
<1> SUFFICES ASSUME TypeOK, Control, Collecting, Truth, Queueing, Sales, [Next]_vars PROVE Sales'
  BY DEF TypeInv
<1>t. /\ sold \in [Legs -> Nat] /\ crashes \in Nat /\ lost \in Nat
      /\ pf \in [Legs -> {"none", "pending", "hedged", "failed"}]
      /\ cur \in Legs /\ todo \subseteq Legs
  BY TradeBoundsAssumption DEF TypeOK
<1>f. \A l \in Legs : Done(l) => Done(l)'
  BY DoneStays
<1> USE <1>t, <1>f DEF Sales, Recorded, MayLose, Lose, NoFault, venues, ledger, leg, loop, bounds
<1>1. ASSUME NEW l \in Legs, VenueFill(l) PROVE Sales'
  BY <1>1 DEF VenueFill
<1>2. ASSUME NEW l \in Legs, VenueClose(l) PROVE Sales'
  BY <1>2 DEF VenueClose
<1>3. ASSUME NEW l \in Legs, PlaceRefused(l) PROVE Sales'
  BY <1>3 DEF PlaceRefused, MayStart
<1>4. ASSUME NEW l \in Legs, PlaceOrder(l) PROVE Sales'
  BY <1>4 DEF PlaceOrder, MayStart
<1>5. ASSUME NEW l \in Legs, PersistOrderId(l) PROVE Sales'
  BY <1>5 DEF PersistOrderId
<1>6. ASSUME NEW l \in Legs, PersistFails(l) PROVE Sales'
  BY <1>6 DEF PersistFails
<1>7. ASSUME NEW l \in Legs, ConfirmFill(l) PROVE Sales'
  BY <1>7 DEF ConfirmFill
<1>8. ASSUME NEW l \in Legs, PollEnds(l) PROVE Sales'
  BY <1>8 DEF PollEnds
<1>9. ASSUME NEW l \in Legs, PollRaises(l) PROVE Sales'
  BY <1>9 DEF PollRaises
<1>10. ASSUME NEW l \in Legs, CancelTimedOut(l) PROVE Sales'
  BY <1>10 DEF CancelTimedOut, CancelAt
<1>11. ASSUME NEW l \in Legs, FinalizeFilled(l) PROVE Sales'
  BY <1>11 DEF FinalizeFilled, Unrecorded
<1>12. ASSUME NEW l \in Legs, FinalizeFailed(l) PROVE Sales'
  BY <1>12 DEF FinalizeFailed, Unrecorded
<1>13. ASSUME NEW l \in Legs, RecordError(l) PROVE Sales'
  BY <1>13 DEF RecordError, Unrecorded, AfterFailure
<1>14. CASE LogTrade
  BY <1>14 DEF LogTrade, First, RowsOf
<1>15. CASE Preflight
  BY <1>15 DEF Preflight
<1>16. CASE AbortNext
  BY <1>16 DEF AbortNext, First
<1>16a. CASE AbortFails
  BY <1>16a DEF AbortFails
<1>17. CASE RecordFailed
  BY <1>17 DEF RecordFailed, AfterFailure
<1>18. CASE Settle
  BY <1>18 DEF Settle, AllFilled, Won
<1>19. CASE ReleaseFilled
  BY <1>19 DEF ReleaseFilled, First, Won
<1>20. CASE QueueHedge
  BY <1>20 DEF QueueHedge, First, Unqueued, Won, PendingHedges
<1>21. CASE HedgePass
  BY <1>21 DEF HedgePass, PendingHedges
<1>22. CASE GiveUp
  <2>1. PICK l \in First(todo) : pf' = [pf EXCEPT ![l] = "failed"]
    BY <1>22 DEF GiveUp
  <2>2. l \in Legs /\ pf[l] = "pending"
    BY <2>1, <1>22 DEF First, GiveUp, Queueing, PendingHedges
  <2>3. QED
    BY <1>22, <2>1, <2>2 DEF GiveUp
<1>23. CASE AttemptHedge
  <2>1. PICK l \in First(todo) : cur' = l /\ Sell(l)
    BY <1>23 DEF AttemptHedge
  <2>2. l \in Legs /\ pf[l] = "pending" /\ sold[l] <= crashes + lost
    BY <2>1, <1>23 DEF First, AttemptHedge, Queueing, PendingHedges
  <2>3. Sellable(l) => Done(l)
    BY <2>2 DEF Sellable, Queueing, Truth, RowsTellTheTruth
  <2>4. sold'[l] <= 1 + crashes' + lost' /\ (~answer' => sold'[l] <= crashes' + lost')
    BY <2>1, <2>2 DEF Sell
  <2>5. sold'[l] > 0 => Done(l)
    BY <2>1, <2>2, <2>3 DEF Sell
  <2>6. \A k \in Legs \ {l} : sold'[k] = sold[k]
    BY <2>1, <2>2 DEF Sell
  <2>7. crashes' + lost' >= crashes + lost /\ crashes' \in Nat /\ lost' \in Nat
    BY <2>1 DEF Sell
  <2>8. main = "hedge" /\ main' = "write" /\ UNCHANGED pf
    BY <1>23 DEF AttemptHedge
  <2>9. \A k \in Legs :
          /\ sold'[k] <= 1 + crashes' + lost'
          /\ ~(pf'[k] = "hedged" \/ (main' = "write" /\ cur' = k /\ answer'))
               => sold'[k] <= crashes' + lost'
    <3>1. ASSUME NEW k \in Legs, k # l
          PROVE  /\ sold'[k] <= 1 + crashes' + lost'
                 /\ pf'[k] # "hedged" => sold'[k] <= crashes' + lost'
      <4>1. sold[k] \in Nat /\ sold[k] <= 1 + crashes + lost
        OBVIOUS
      <4>2. pf[k] # "hedged" => sold[k] <= crashes + lost
        BY <2>8
      <4>3. sold'[k] = sold[k] /\ pf'[k] = pf[k]
        BY <3>1, <2>6, <2>8
      <4>4. crashes \in Nat /\ lost \in Nat
        OBVIOUS
      <4>5. QED
        BY <4>1, <4>2, <4>3, <4>4, <2>7, BoundGrows
    <3>2. QED
      BY <3>1, <2>1, <2>2, <2>4, <2>8
  <2>10. \A k \in Legs : sold'[k] > 0 => Done(k)'
    BY <2>5, <2>6, <2>2
  <2>11. QED
    BY <2>9, <2>10
<1>24. CASE RecordHedge
  <2>1. pf[cur] = "pending"
    BY <1>24 DEF RecordHedge, Queueing, PendingHedges
  <2>2. QED
    BY <1>24, <2>1 DEF RecordHedge
<1>25. CASE HedgesDone
  BY <1>25 DEF HedgesDone, Unqueued, Won
<1>26. CASE Restart
  BY <1>26 DEF Restart, RowsOf
<1>27. CASE RecoverRow
  BY <1>27 DEF RecoverRow, First, RecoveredStatus, AskedStatus, RowsOf
<1>28. CASE ConvertOrphan
  <2>1. PICK l \in Legs : row[l] = "orphaned" /\ pf' = [pf EXCEPT ![l] = "pending"]
    BY <1>28 DEF ConvertOrphan, First, RowsOf
  <2>2. pf[l] = "none"
    BY <2>1 DEF Queueing
  <2>3. QED
    BY <1>28, <2>1, <2>2 DEF ConvertOrphan
<1>29. CASE RecoveryDone
  BY <1>29 DEF RecoveryDone, RowsOf
<1>30. CASE Crash
  BY <1>30 DEF Crash
<1>31. CASE Finished \/ UNCHANGED vars
  BY <1>31 DEF Finished, vars
<1>32. QED
  BY <1>1, <1>2, <1>3, <1>4, <1>5, <1>6, <1>7, <1>8, <1>9, <1>10, <1>11,
     <1>12, <1>13, <1>14, <1>15, <1>16, <1>16a, <1>17, <1>18, <1>19, <1>20, <1>21,
     <1>22, <1>23, <1>24, <1>25, <1>26, <1>27, <1>28, <1>29, <1>30, <1>31
     DEF Next, Execution, Hedging, Recovery, Venues, LegStep

-----------------------------------------------------------------------------
(***************************************************************************)
(* Steps of the rows.                                                      *)
(***************************************************************************)

LEMMA NextAborted ==
  TypeInv /\ Control /\ Collecting /\ AbortedNeverPlaced /\ [Next]_vars
    => AbortedNeverPlaced'
<1> SUFFICES ASSUME TypeOK, Control, Collecting, AbortedNeverPlaced, [Next]_vars
             PROVE  AbortedNeverPlaced'
  BY DEF TypeInv
<1>t. /\ row \in [Legs -> RowStatus] /\ order \in [Legs -> {"none", "live", "closed"}]
      /\ thread \in [Legs -> Threads] /\ cur \in Legs /\ todo \subseteq Legs
  BY DEF TypeOK
<1> USE <1>t DEF Control, Collecting, AbortedNeverPlaced, Early, Running, Threads, RowStatus,
                 SetRow, venues, ledger, leg, loop
<1>1. ASSUME NEW l \in Legs, VenueFill(l) PROVE AbortedNeverPlaced'
  BY <1>1 DEF VenueFill
<1>2. ASSUME NEW l \in Legs, VenueClose(l) PROVE AbortedNeverPlaced'
  BY <1>2 DEF VenueClose
<1>3. ASSUME NEW l \in Legs, PlaceRefused(l) PROVE AbortedNeverPlaced'
  BY <1>3 DEF PlaceRefused, MayStart
<1>4. ASSUME NEW l \in Legs, PlaceOrder(l) PROVE AbortedNeverPlaced'
  BY <1>4 DEF PlaceOrder, MayStart
<1>5. ASSUME NEW l \in Legs, PersistOrderId(l) PROVE AbortedNeverPlaced'
  BY <1>5 DEF PersistOrderId
<1>6. ASSUME NEW l \in Legs, PersistFails(l) PROVE AbortedNeverPlaced'
  BY <1>6 DEF PersistFails
<1>7. ASSUME NEW l \in Legs, ConfirmFill(l) PROVE AbortedNeverPlaced'
  BY <1>7 DEF ConfirmFill
<1>8. ASSUME NEW l \in Legs, PollEnds(l) PROVE AbortedNeverPlaced'
  BY <1>8 DEF PollEnds
<1>9. ASSUME NEW l \in Legs, PollRaises(l) PROVE AbortedNeverPlaced'
  BY <1>9 DEF PollRaises
<1>10. ASSUME NEW l \in Legs, CancelTimedOut(l) PROVE AbortedNeverPlaced'
  BY <1>10 DEF CancelTimedOut, CancelAt
<1>11. ASSUME NEW l \in Legs, FinalizeFilled(l) PROVE AbortedNeverPlaced'
  BY <1>11 DEF FinalizeFilled, Unrecorded
<1>12. ASSUME NEW l \in Legs, FinalizeFailed(l) PROVE AbortedNeverPlaced'
  BY <1>12 DEF FinalizeFailed, Unrecorded
<1>13. ASSUME NEW l \in Legs, RecordError(l) PROVE AbortedNeverPlaced'
  BY <1>13 DEF RecordError, Unrecorded, AfterFailure
<1>14. CASE LogTrade
  BY <1>14 DEF LogTrade, First, RowsOf
<1>15. CASE Preflight
  BY <1>15 DEF Preflight
<1>16. CASE AbortNext
  BY <1>16 DEF AbortNext, First
<1>16a. CASE AbortFails
  BY <1>16a DEF AbortFails
<1>17. CASE RecordFailed
  BY <1>17 DEF RecordFailed, AfterFailure
<1>18. CASE Settle
  BY <1>18 DEF Settle, AllFilled, Won
<1>19. CASE ReleaseFilled
  BY <1>19 DEF ReleaseFilled, First, Won
<1>20. CASE QueueHedge
  BY <1>20 DEF QueueHedge, First, Unqueued, Won, PendingHedges
<1>21. CASE HedgePass
  BY <1>21 DEF HedgePass, PendingHedges
<1>22. CASE GiveUp
  BY <1>22 DEF GiveUp, First
<1>23. CASE AttemptHedge
  BY <1>23 DEF AttemptHedge, First, Exhausted, Sellable
<1>24. CASE RecordHedge
  BY <1>24 DEF RecordHedge
<1>25. CASE HedgesDone
  BY <1>25 DEF HedgesDone, Unqueued, Won
<1>26. CASE Restart
  BY <1>26 DEF Restart, RowsOf
<1>27. CASE RecoverRow
  BY <1>27 DEF RecoverRow, First, RecoveredStatus, AskedStatus, RowsOf
<1>28. CASE ConvertOrphan
  BY <1>28 DEF ConvertOrphan, First, RowsOf
<1>29. CASE RecoveryDone
  BY <1>29 DEF RecoveryDone, RowsOf
<1>30. CASE Crash
  BY <1>30 DEF Crash
<1>31. CASE Finished \/ UNCHANGED vars
  BY <1>31 DEF Finished, vars
<1>32. QED
  BY <1>1, <1>2, <1>3, <1>4, <1>5, <1>6, <1>7, <1>8, <1>9, <1>10, <1>11,
     <1>12, <1>13, <1>14, <1>15, <1>16, <1>16a, <1>17, <1>18, <1>19, <1>20, <1>21,
     <1>22, <1>23, <1>24, <1>25, <1>26, <1>27, <1>28, <1>29, <1>30, <1>31
     DEF Next, Execution, Hedging, Recovery, Venues, LegStep

\* What one step may do to a settled row.
RowStep ==
  \A l \in Legs :
    /\ row[l] = "filled" => row'[l] \in {"filled", "orphaned"}
    /\ row[l] \in {"aborted", "dedup_skipped", "hedge_pending"} => row'[l] = row[l]
    /\ row[l] = "failed" /\ main \notin {"record", "abort"} => row'[l] = "failed"

\* The recovery's step is one verdict on one row of its list.
LEMMA OneVerdictARow ==
  ASSUME RecoverRow
  PROVE  \E l \in First(todo) : \E s \in RecoveredStatus(l) : SetRow(l, s)
<1>1. \E l \in First(todo) : \E s \in RecoveredStatus(l) :
        SetRow(l, s) /\ todo' = todo \ {l}
  BY Zenon DEF RecoverRow
<1>2. QED
  BY <1>1, Zenon

LEMMA NextRowStep == TypeInv /\ Control /\ Collecting /\ Queueing /\ [Next]_vars => RowStep
<1> SUFFICES ASSUME TypeOK, Control, Collecting, Queueing, [Next]_vars PROVE RowStep
  BY DEF TypeInv
<1>t. /\ row \in [Legs -> RowStatus] /\ thread \in [Legs -> Threads]
      /\ cur \in Legs /\ todo \subseteq Legs
  BY DEF TypeOK
<1> USE <1>t DEF Control, Collecting, RowStep, Running, Threads, RowStatus, RowsOf,
                 SetRow, venues, ledger, leg, loop
<1>1. ASSUME NEW l \in Legs, VenueFill(l) PROVE RowStep
  BY <1>1 DEF VenueFill
<1>2. ASSUME NEW l \in Legs, VenueClose(l) PROVE RowStep
  BY <1>2 DEF VenueClose
<1>3. ASSUME NEW l \in Legs, PlaceRefused(l) PROVE RowStep
  BY <1>3 DEF PlaceRefused, MayStart
<1>4. ASSUME NEW l \in Legs, PlaceOrder(l) PROVE RowStep
  BY <1>4 DEF PlaceOrder, MayStart
<1>5. ASSUME NEW l \in Legs, PersistOrderId(l) PROVE RowStep
  BY <1>5 DEF PersistOrderId
<1>6. ASSUME NEW l \in Legs, PersistFails(l) PROVE RowStep
  BY <1>6 DEF PersistFails
<1>7. ASSUME NEW l \in Legs, ConfirmFill(l) PROVE RowStep
  BY <1>7 DEF ConfirmFill
<1>8. ASSUME NEW l \in Legs, PollEnds(l) PROVE RowStep
  BY <1>8 DEF PollEnds
<1>9. ASSUME NEW l \in Legs, PollRaises(l) PROVE RowStep
  BY <1>9 DEF PollRaises
<1>10. ASSUME NEW l \in Legs, CancelTimedOut(l) PROVE RowStep
  BY <1>10 DEF CancelTimedOut, CancelAt
<1>11. ASSUME NEW l \in Legs, FinalizeFilled(l) PROVE RowStep
  BY <1>11 DEF FinalizeFilled, Unrecorded
<1>12. ASSUME NEW l \in Legs, FinalizeFailed(l) PROVE RowStep
  BY <1>12 DEF FinalizeFailed, Unrecorded
<1>13. ASSUME NEW l \in Legs, RecordError(l) PROVE RowStep
  BY <1>13 DEF RecordError, Unrecorded, AfterFailure
<1>14. CASE LogTrade
  BY <1>14 DEF LogTrade, First, RowsOf
<1>15. CASE Preflight
  BY <1>15 DEF Preflight
<1>16. CASE AbortNext
  BY <1>16 DEF AbortNext, First
<1>16a. CASE AbortFails
  BY <1>16a DEF AbortFails
<1>17. CASE RecordFailed
  BY <1>17 DEF RecordFailed, AfterFailure
<1>18. CASE Settle
  BY <1>18 DEF Settle, AllFilled, Won
<1>19. CASE ReleaseFilled
  BY <1>19 DEF ReleaseFilled, First, Won
<1>20. CASE QueueHedge
  BY <1>20 DEF QueueHedge, First, Unqueued, Won, PendingHedges
<1>21. CASE HedgePass
  BY <1>21 DEF HedgePass, PendingHedges
<1>22. CASE GiveUp
  BY <1>22 DEF GiveUp, First
<1>23. CASE AttemptHedge
  BY <1>23 DEF AttemptHedge, First, Exhausted, Sellable
<1>24. CASE RecordHedge
  BY <1>24 DEF RecordHedge
<1>25. CASE HedgesDone
  BY <1>25 DEF HedgesDone, Unqueued, Won
<1>26. CASE Restart
  BY <1>26 DEF Restart, RowsOf
<1>27. CASE RecoverRow
  <2>1. PICK l \in First(todo) : \E s \in RecoveredStatus(l) : SetRow(l, s)
    BY <1>27, OneVerdictARow, Zenon
  <2>2. l \in Legs /\ row[l] = "pending"
    BY <1>27, <2>1 DEF First, RecoverRow, Queueing
  <2>3. QED
    BY <1>27, <2>1, <2>2 DEF RecoverRow
<1>28. CASE ConvertOrphan
  BY <1>28 DEF ConvertOrphan, First, RowsOf
<1>29. CASE RecoveryDone
  BY <1>29 DEF RecoveryDone, RowsOf
<1>30. CASE Crash
  BY <1>30 DEF Crash
<1>31. CASE Finished \/ UNCHANGED vars
  BY <1>31 DEF Finished, vars
<1>32. QED
  BY <1>1, <1>2, <1>3, <1>4, <1>5, <1>6, <1>7, <1>8, <1>9, <1>10, <1>11,
     <1>12, <1>13, <1>14, <1>15, <1>16, <1>16a, <1>17, <1>18, <1>19, <1>20, <1>21,
     <1>22, <1>23, <1>24, <1>25, <1>26, <1>27, <1>28, <1>29, <1>30, <1>31
     DEF Next, Execution, Hedging, Recovery, Venues, LegStep

-----------------------------------------------------------------------------
(***************************************************************************)
(* The invariant and what follows from it.                                 *)
(***************************************************************************)

\* The inductive invariant.  Whole needs Collecting (nothing is hedged before
\* the outcome is settled) and Queueing; Sales needs Truth, which says what a
\* thread or a row may claim of the venue; Truth needs Control.
Inv ==
  /\ TypeInv /\ Control /\ Truth /\ Collecting /\ Queueing /\ Whole /\ Sales
  /\ AbortedNeverPlaced

\* Every reachable state of the execution, the hedger and the recovery keeps
\* the inductive invariant.
THEOREM Invariance == Spec => []Inv
<1>1. Init => Inv
  <2>1. Init => AbortedNeverPlaced
    BY DEF Init, AbortedNeverPlaced
  <2>2. QED
    BY <2>1, InitTypeInv, InitControl, InitTruth, InitRows, InitSales DEF Inv
<1>2. Inv /\ [Next]_vars => Inv'
  BY NextTypeInv, NextControl, NextTruth, NextCollecting, NextQueueing, NextWhole, NextSales,
     NextAborted
     DEF Inv
<1>3. QED
  BY <1>1, <1>2, PTL DEF Spec

\* A row the executor or the recovery calls filled has an order that is closed
\* and that the venue can call executed: never a resting one, and never, on
\* Polymarket, one filled in part.
THEOREM RowsAreTrue == Spec => []RowsTellTheTruth
<1>1. Inv => RowsTellTheTruth
  BY DEF Inv, Truth
<1>2. QED
  BY Invariance, <1>1, PTL

\* On one platform an order goes out only behind orders that are all closed and
\* that the venue can call executed.
THEOREM LegsInOrder == Spec => []OneLegAtATime
<1>1. Inv => OneLegAtATime
  BY DEF Inv, Truth
<1>2. QED
  BY Invariance, <1>1, PTL

\* A position is never partly sold off.
THEOREM PositionsStayWhole == Spec => []PositionsAreWhole
<1>1. Inv => PositionsAreWhole
  BY DEF Inv, Whole
<1>2. QED
  BY Invariance, <1>1, PTL

\* A leg is sold only after its order closed at a word of execution, once, and
\* once more at most for each crash and each lost answer.
THEOREM SalesAreBounded == Spec => []SoldOnce
<1>1. Inv => SoldOnce
  <2> SUFFICES ASSUME Inv, NEW l \in Legs, sold[l] > 0
               PROVE  Done(l) /\ sold[l] <= 1 + crashes + lost
    BY DEF SoldOnce
  <2>1. QED
    BY DEF Inv, Sales
<1>2. QED
  BY Invariance, <1>1, PTL

\* What is reported as aborted was never sent to a venue: the loop aborts every
\* leg behind the one that failed, and none of those had started.
THEOREM AbortedLegsUnsent == Spec => []AbortedNeverPlaced
<1>1. Inv => AbortedNeverPlaced
  BY DEF Inv
<1>2. QED
  BY Invariance, <1>1, PTL

\* No step settles a settled row otherwise.
THEOREM SettledRowsFinal == Spec => SettledRowsStay
<1>1. Inv /\ [Next]_vars => [RowStep]_vars
  BY NextRowStep DEF Inv
<1>2. QED
  BY Invariance, <1>1, PTL DEF Spec, SettledRowsStay, RowStep

-----------------------------------------------------------------------------
(***************************************************************************)
(* Unconfirmed cancels.                                                    *)
(***************************************************************************)

\* A leg that polls or cancels knows its order and, where it may cancel, so does
\* its row; before the first crash a leg whose cancel was not confirmed has
\* failed and its row is pending, or is being made so.
Kept ==
  /\ \A l \in Legs : thread[l] \in {"poll", "cancel"} =>
       knows[l] /\ (Venue[l] # "exchange" => rowId[l])
  /\ \A l \in Legs : thread[l] = "cancel" => Venue[l] # "exchange"
  /\ crashes = 0 =>
       /\ main \notin {"down", "recover", "convert"}
       /\ \A l \in Legs : unconfirmed[l] =>
            /\ thread[l] = "failed" /\ knows[l] /\ rowId[l]
            /\ row[l] = "pending" \/ (main = "record" /\ cur = l)

LEMMA InitKept == Init => Kept
  BY DEF Init, Kept

LEMMA NextKept == TypeInv /\ Control /\ Collecting /\ Kept /\ [Next]_vars => Kept'
<1> SUFFICES ASSUME TypeOK, Control, Collecting, Kept, [Next]_vars PROVE Kept'
  BY DEF TypeInv
<1>t. /\ thread \in [Legs -> Threads] /\ result \in [Legs -> {"none", "ok", "bad"}]
      /\ row \in [Legs -> RowStatus] /\ rowId \in [Legs -> BOOLEAN]
      /\ knows \in [Legs -> BOOLEAN] /\ unconfirmed \in [Legs -> BOOLEAN]
      /\ cur \in Legs /\ crashes \in Nat
  BY TradeBoundsAssumption DEF TypeOK
<1>u. /\ \A l \in Legs : thread[l] \in Running => result[l] = "none" /\ main \in {"run", "record"}
      /\ main = "record" => thread[cur] = "failed" /\ result[cur] = "none"
      /\ main = "run" => \A l \in Legs : result[l] = "none" => row[l] = "pending"
      /\ main = "record" => \A l \in Legs \ {cur} : result[l] = "none" => row[l] = "pending"
  BY DEF Control, Collecting
<1>v. \A l \in GTC : Venue[l] # "exchange"
  BY LegAssumption
<1> USE <1>t DEF Kept, SetRow, venues, ledger, leg, loop, bounds, NoFault, Lose
<1>1. ASSUME NEW l \in Legs, VenueFill(l) \/ VenueClose(l) PROVE Kept'
  BY <1>1 DEF VenueFill, VenueClose
<1>2. ASSUME NEW l \in Legs, PlaceRefused(l) \/ PlaceOrder(l) PROVE Kept'
  BY <1>2 DEF PlaceRefused, PlaceOrder, MayStart
<1>3. ASSUME NEW l \in Legs, PersistOrderId(l) \/ PersistFails(l) PROVE Kept'
  BY <1>3 DEF PersistOrderId, PersistFails
<1>4. ASSUME NEW l \in Legs, ConfirmFill(l) \/ PollRaises(l) PROVE Kept'
  BY <1>4 DEF ConfirmFill, PollRaises
<1>5. ASSUME NEW l \in Legs, PollEnds(l) PROVE Kept'
  BY <1>5, <1>v DEF PollEnds
<1>6. ASSUME NEW l \in Legs, CancelTimedOut(l) PROVE Kept'
  <2>1. row[l] = "pending"
    BY <1>6, <1>u DEF CancelTimedOut, Running
  <2>2. PICK c \in BOOLEAN : unconfirmed' = [unconfirmed EXCEPT ![l] = ~c] /\ CancelAt(l, c)
    BY <1>6 DEF CancelTimedOut
  <2>3. unconfirmed' \in [Legs -> BOOLEAN] /\ \A k \in Legs \ {l} : unconfirmed'[k] = unconfirmed[k]
    BY <2>2, Zenon
  <2>4. crashes' = crashes
    BY <2>2 DEF CancelAt
  <2> QED BY <1>6, <2>1, <2>3, <2>4 DEF CancelTimedOut
<1>7. ASSUME NEW l \in Legs, FinalizeFilled(l) \/ FinalizeFailed(l) PROVE Kept'
  BY <1>7 DEF FinalizeFilled, FinalizeFailed, Unrecorded
<1>8. ASSUME NEW l \in Legs, RecordError(l) PROVE Kept'
  BY <1>8 DEF RecordError, Unrecorded, AfterFailure
<1>9. CASE LogTrade \/ Preflight
  BY <1>9 DEF LogTrade, Preflight, First, RowsOf
<1>10. CASE AbortNext \/ AbortFails
  <2>1. ASSUME AbortNext PROVE Kept'
    <3>1. PICK l \in First(todo) : row' = [row EXCEPT ![l] = "aborted"]
      BY <2>1 DEF AbortNext
    <3>2. l \in Legs /\ thread[l] = "wait"
      BY <2>1, <3>1 DEF AbortNext, First, Control, TypeOK
    <3>3. QED
      BY <2>1, <3>1, <3>2 DEF AbortNext
  <2>2. ASSUME AbortFails PROVE Kept'
    BY <2>2 DEF AbortFails
  <2>3. QED
    BY <1>10, <2>1, <2>2
<1>11. CASE RecordFailed
  <2>1. main' \in {"run", "abort", "cleanup", "settle"} /\ crashes' = crashes
    BY <1>11 DEF RecordFailed, AfterFailure
  <2>2. row'[cur] = "pending" \/ ~(unconfirmed[cur] /\ knows[cur])
    BY <1>11 DEF RecordFailed
  <2>3. \A k \in Legs \ {cur} : row'[k] = row[k]
    BY <1>11 DEF RecordFailed
  <2> QED BY <1>11, <2>1, <2>2, <2>3 DEF RecordFailed
<1>12. CASE Settle \/ ReleaseFilled
  BY <1>12 DEF Settle, ReleaseFilled, AllFilled, Won, First
<1>13. CASE Hedging
  <2>1. UNCHANGED <<thread, knows, rowId, row, unconfirmed>>
        /\ main \in {"queue", "idle", "hedge", "write"}
        /\ main' \in {"queue", "idle", "hedge", "write"}
    BY <1>13
    DEF Hedging, QueueHedge, HedgePass, GiveUp, AttemptHedge, RecordHedge, HedgesDone
  <2>2. crashes' = crashes
    BY <1>13
    DEF Hedging, QueueHedge, HedgePass, GiveUp, AttemptHedge, RecordHedge, HedgesDone, Sell
  <2> QED BY <2>1, <2>2
<1>14. CASE Recovery
  <2>1. main \in {"down", "recover", "convert"} /\ crashes' = crashes
        /\ UNCHANGED <<thread, knows, rowId>>
    BY <1>14 DEF Recovery, Restart, RecoverRow, ConvertOrphan, RecoveryDone
  <2> QED BY <2>1
<1>15. CASE Crash
  BY <1>15 DEF Crash
<1>16. CASE Finished \/ UNCHANGED vars
  BY <1>16 DEF Finished, vars
<1> QED
  BY <1>1, <1>2, <1>3, <1>4, <1>5, <1>6, <1>7, <1>8, <1>9, <1>10, <1>11, <1>12, <1>13, <1>14,
     <1>15, <1>16
  DEF Next, Execution, Venues, LegStep

\* While the process has never died, a leg whose cancel was not confirmed ends
\* pending with its order id, in every mode and under every interleaving: the
\* next recovery looks for its order.
THEOREM UnconfirmedAreKept == Spec => []UnconfirmedIsKept
<1>1. Kept => UnconfirmedIsKept
  BY DEF Kept, UnconfirmedIsKept
<1>2. Inv /\ Inv' /\ Kept /\ [Next]_vars => Kept'
  BY NextKept DEF Inv
<1> QED BY InitKept, Invariance, <1>1, <1>2, PTL DEF Spec
=============================================================================
