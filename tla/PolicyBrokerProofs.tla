------------------------- MODULE PolicyBrokerProofs -------------------------
(***************************************************************************)
(* Theorems about the policy broker, for any number of workers, intents,   *)
(* lease length, gap between lease checks and budget of faults.            *)
(***************************************************************************)
EXTENDS PolicyBroker, TLAPS

-----------------------------------------------------------------------------
(***************************************************************************)
(* Type correctness.                                                       *)
(***************************************************************************)

\* TypeOK is inductive together with: a process handling an intent has one.
HasIntent == \A p \in Procs : Working(p) => cur[p] \in Intents
TypeInv == TypeOK /\ HasIntent

LEMMA InitTypeInv == Init => TypeInv
  BY TTLAssumption, BoundsAssumption
     DEF Init, QueueInit, TypeInv, HasIntent, Working, TypeOK, QueueTypeOK, Status, Terminal,
         Scopes, SharedPCs, WorkerPCs

\* Recording a halt, in the store or in memory, keeps both well typed.
LEMMA FreezeTyped ==
  ASSUME TypeOK, NEW p \in Procs, NEW r \in WriteResults,
         NoFreeze \/ FreezeCapital(p, r)
  PROVE  /\ halted' \in [Scopes -> BOOLEAN]
         /\ frozen' \in [Procs -> BOOLEAN]
<1>1. halted \in [Scopes -> BOOLEAN] /\ frozen \in [Procs -> BOOLEAN]
  BY DEF TypeOK, QueueTypeOK
<1>2. CASE NoFreeze
  BY <1>1, <1>2 DEF NoFreeze
<1>3. CASE FreezeCapital(p, r)
  <2>1. (frozen[p] \/ r # "ok") \in BOOLEAN
    OBVIOUS
  <2>2. frozen' \in [Procs -> BOOLEAN]
    BY <1>1, <1>3, <2>1, Zenon DEF FreezeCapital
  <2>3. halted' = halted \/ halted' = [halted EXCEPT !["capital_moves"] = TRUE]
    BY <1>3 DEF FreezeCapital, RecordHalt
  <2>4. halted' \in [Scopes -> BOOLEAN]
    BY <1>1, <2>3, Zenon
  <2>5. QED
    BY <2>2, <2>4
<1>4. QED
  BY <1>2, <1>3

LEMMA HaltTyped ==
  ASSUME TypeOK, NEW s \in Scopes,
         halted' = [halted EXCEPT ![s] = TRUE] \/ halted' = [halted EXCEPT ![s] = FALSE]
  PROVE  halted' \in [Scopes -> BOOLEAN]
<1>1. halted \in [Scopes -> BOOLEAN]
  BY SMTT(30) DEF TypeOK, QueueTypeOK
<1>2. QED
  BY <1>1, Zenon

\* What append_event leaves on record is a status.
LEMMA RecordTyped ==
  ASSUME TypeOK, NEW p \in Procs, NEW at \in {"refused", "persist", "finish"}, NEW status \in Status, NEW r \in AppendResults,
         RecordOutcome(p, at, status, r)
  PROVE  /\ outcome' \in [Intents -> Status]
         /\ Spend(Cost(r)) => faults' \in 0 .. MaxFaults
  BY BoundsAssumption
     DEF RecordOutcome, AppendEvent, TypeOK, QueueTypeOK, Spend, Cost, AppendResults, WriteResults

LEMMA NextTypeInv == TypeInv /\ [Next]_vars => TypeInv'
<1> SUFFICES ASSUME TypeInv, [Next]_vars PROVE TypeInv'
  OBVIOUS
<1> USE TTLAssumption, NoHolderAssumption, WorkerAssumption, BoundsAssumption
    DEF TypeInv, HasIntent, Working, TypeOK, QueueTypeOK, WorkerPCs, SharedPCs, Status, Terminal, Scopes, Procs, Spend, Cost
<1>1. ASSUME NEW i \in Intents, Propose(i) PROVE TypeInv'
  BY <1>1 DEF Propose, Submit, work, checks, timing, world, Submitted
<1>2. ASSUME NEW s \in Scopes, OperatorActs(s) PROVE TypeInv'
  <2>1. \/ halted' = [halted EXCEPT ![s] = TRUE]
        \/ halted' = [halted EXCEPT ![s] = FALSE]
    BY <1>2 DEF OperatorActs, RecordHalt, ClearHalt
  <2>2. halted' \in [Scopes -> BOOLEAN]
    BY <2>1, HaltTyped
  <2>3. stood' \in [Procs -> SUBSET Scopes]
    BY <1>2 DEF OperatorActs
  <2>4. QED
    BY <1>2, <2>2, <2>3 DEF OperatorActs, work, timing, world
<1>3. ASSUME NEW w \in Workers, Acquire(w) PROVE TypeInv'
  BY <1>3 DEF Acquire, GrantLease, Goto, work, checks, world
<1>4. ASSUME NEW w \in Workers, StartBatch(w) PROVE TypeInv'
  BY <1>4 DEF StartBatch, LeaseCheckPasses, LeaseCheckFails, GrantLease, Goto, work, checks, timing, world
<1>5. ASSUME NEW w \in Workers, Preflight(w) PROVE TypeInv'
  BY <1>5, FreezeTyped DEF Preflight, WriteResults, Goto, work, checks, timing, world
<1>6. ASSUME NEW w \in Workers, Fetch(w) PROVE TypeInv'
  <2>1. CASE Goto(w, "loop") /\ batch' = [batch EXCEPT ![w] = PendingIntents(BatchSize)] /\ UNCHANGED <<cur, plan, faults>>
    BY <1>6, <2>1 DEF Fetch, PendingIntents, Goto, store, checks, timing, world
  <2>2. CASE Drop(w, "closing", {}) /\ Spend(1)
    BY <1>6, <2>2, SMTT(30) DEF Fetch, Drop, Goto, store, checks, timing, world
  <2>3. QED
    BY <1>6, <2>1, <2>2 DEF Fetch, Raise
<1>7. ASSUME NEW w \in Workers, NEW i \in Intents, NextIntent(w, i) PROVE TypeInv'
  <2>1. /\ lease' \in [holder : Holders \cup {NoHolder}, left : -1 .. TTL]
        /\ renewIn' \in [Workers -> 0 .. RenewEvery]
        /\ age' \in [Workers -> 0 .. MaxGap]
        /\ faults' \in 0 .. MaxFaults
    BY <1>7 DEF NextIntent, LeaseCheckPasses, LeaseCheckFails, GrantLease, timing
  <2>2. \/ Goto(w, "claim") /\ cur' = [cur EXCEPT ![w] = i] /\ UNCHANGED <<plan, batch>>
        \/ Drop(w, "closing", {})
    BY <1>7 DEF NextIntent
  <2>3. QED
    BY <1>7, <2>1, <2>2, SMTT(30) DEF NextIntent, Drop, Goto, checks, world
<1>8. ASSUME NEW w \in Workers, EndBatch(w) PROVE TypeInv'
  BY <1>8 DEF EndBatch, Goto, store, work, checks, timing, world
<1>9. ASSUME NEW w \in Workers, Claim(w) PROVE TypeInv'
  BY <1>9, SMTT(30) DEF Claim, ClaimAttempt, ClaimRefused, Raise, Drop, Goto, work, checks, timing, world
<1>10. ASSUME NEW w \in Workers, RefuseRetry(w) PROVE TypeInv'
  <2>1. PICK r \in AppendResults :
          /\ RecordOutcome(w, "refused", "IN_DOUBT", r)
          /\ Spend(Cost(r))
          /\ IF r = "ok" THEN Drop(w, "loop", batch[w] \ {cur[w]}) ELSE Raise(w)
    BY <1>10 DEF RefuseRetry
  <2>2. outcome' \in [Intents -> Status] /\ faults' \in 0 .. MaxFaults
    BY <2>1, RecordTyped
  <2>3. Drop(w, "loop", batch[w] \ {cur[w]}) \/ Drop(w, "closing", {})
    BY <2>1 DEF Raise
  <2>4. QED
    BY <1>10, <2>2, <2>3, SMTT(30) DEF RefuseRetry, Drop, Goto, checks, timing, world
<1>11. ASSUME NEW w \in Workers, ReadStored(w) PROVE TypeInv'
  BY <1>11, SMTT(30) DEF ReadStored, Raise, Drop, Goto, store, work, checks, timing, world
<1>12. ASSUME NEW p \in Procs, Screen(p) \/ PassScreen(p) \/ Recheck(p) \/ (\E s \in Scopes : ReadHalt(p, s))
       PROVE  TypeInv'
  <2>1. unread' \in [Procs -> SUBSET Scopes] /\ stood' \in [Procs -> SUBSET Scopes]
    BY <1>12 DEF Screen, PassScreen, Recheck, ReadHalt, StartValidation, EndValidation, HaltsToRead, checks
  <2>2. \/ UNCHANGED work /\ \E next \in {"screening", "recheck", "launch"} : Goto(p, next)
        \/ Plan(p, "HARD_STOP") \/ Plan(p, "REJECTED")
        \/ UNCHANGED <<pc, work>>
    BY <1>12 DEF Screen, PassScreen, Recheck, ReadHalt, StartValidation
  <2>3. /\ UNCHANGED <<store, timing, frozen, world, faults>>
        /\ pc[p] \in {"validate", "screening", "recheck"}
    BY <1>12 DEF Screen, PassScreen, Recheck, ReadHalt, Validating
  <2>4. QED
    BY <2>1, <2>2, <2>3, SMTT(30) DEF Plan, Goto, store, work, timing, world
<1>13. ASSUME NEW p \in Procs, RulesReject(p) PROVE TypeInv'
  <2>1. /\ halted' \in [Scopes -> BOOLEAN]
        /\ frozen' \in [Procs -> BOOLEAN]
        /\ faults' \in 0 .. MaxFaults
    BY <1>13, FreezeTyped DEF RulesReject, WriteResults
  <2>2. unread' \in [Procs -> SUBSET Scopes] /\ stood' \in [Procs -> SUBSET Scopes]
    BY <1>13 DEF RulesReject, EndValidation
  <2>3. QED
    BY <1>13, <2>1, <2>2, SMTT(30) DEF RulesReject, Validating, Plan, Goto, timing, world
<1>14. ASSUME NEW p \in Procs, Invoke(p) PROVE TypeInv'
  BY <1>14 DEF Invoke, Goto, store, work, checks, timing
<1>15. ASSUME NEW p \in Procs, ExecutorReturns(p) PROVE TypeInv'
  BY SMTT(30), <1>15, FreezeTyped DEF ExecutorReturns, Plan, WriteResults, Goto, work, checks, timing
<1>16. ASSUME NEW p \in Procs, PersistExecuted(p) PROVE TypeInv'
  <2>1. PICK r \in AppendResults :
          /\ RecordOutcome(p, "persist", "EXECUTED", r)
          /\ NoFreeze \/ \E h \in WriteResults : FreezeCapital(p, h)
          /\ faults' \in 0 .. MaxFaults
    BY <1>16 DEF PersistExecuted, AppendResults, WriteResults
  <2>2. halted' \in [Scopes -> BOOLEAN] /\ frozen' \in [Procs -> BOOLEAN]
    BY <2>1, FreezeTyped DEF WriteResults
  <2>3. outcome' \in [Intents -> Status] /\ cur[p] \in Intents
    BY <2>1, RecordTyped DEF RecordOutcome, Inserting
  <2>4. QED
    BY <1>16, <2>1, <2>2, <2>3, SMTT(30) DEF PersistExecuted, Returned, Drop, Goto, work, checks, timing, world
<1>17. ASSUME NEW p \in Procs, Finish(p) PROVE TypeInv'
  <2>1. PICK r \in AppendResults :
          /\ RecordOutcome(p, "finish", plan[p], r)
          /\ Spend(Cost(r))
          /\ IF r = "ok" THEN Returned(p) ELSE Raise(p)
    BY <1>17 DEF Finish
  <2>2. outcome' \in [Intents -> Status] /\ faults' \in 0 .. MaxFaults
    BY <2>1, RecordTyped
  <2>3. \/ Goto(p, "check") /\ UNCHANGED work /\ pc[p] \in {"finish", "finishing"}
        \/ \E next \in {"down", "closing"} : Drop(p, next, {})
    BY <2>1 DEF Returned, Raise, RecordOutcome, Inserting
  <2>4. QED
    BY <1>17, <2>2, <2>3, SMTT(30) DEF Finish, Drop, Goto, work, checks, timing, world
<1>18. ASSUME NEW w \in Workers, CheckLedger(w) PROVE TypeInv'
  BY <1>18, SMTT(30) DEF CheckLedger, Raise, Drop, Goto, store, checks, timing, world
<1>19. ASSUME NEW w \in Workers, Close(w) PROVE TypeInv'
  BY <1>19 DEF Close, Vanish, EndValidation, ReleaseLease, Drop, Goto, world
<1>20. ASSUME NEW w \in Workers, Stop(w) PROVE TypeInv'
  BY <1>20 DEF Stop, Goto, store, work, checks, timing, world
<1>21. ASSUME NEW p \in Procs, Crash(p) PROVE TypeInv'
  BY <1>21 DEF Crash, Vanish, EndValidation, Drop, Goto, store, world
<1>22. CASE Tick
  BY <1>22 DEF Tick, AgeLease, Running, work, checks, world
<1>23. ASSUME NEW c \in Callers, NEW i \in Intents, DirectProcess(c, i) PROVE TypeInv'
  BY <1>23 DEF DirectProcess, Submit, Goto, checks, timing, world
<1>24. CASE UNCHANGED vars
  BY <1>24 DEF vars, store, work, checks, timing, world
<1>25. ASSUME NEW p \in Procs, OpenForAppend(p) PROVE TypeInv'
  BY <1>25 DEF OpenForAppend, Inserting, Goto, store, work, checks, timing, world
<1>26. QED
  BY <1>1, <1>2, <1>3, <1>4, <1>5, <1>6, <1>7, <1>8, <1>9, <1>10, <1>11, <1>12, <1>13, <1>14,
     <1>15, <1>16, <1>17, <1>18, <1>19, <1>20, <1>21, <1>22, <1>23, <1>24, <1>25
     DEF Next, WorkerStep, CallerStep, Pipeline, Validation

\* Every reachable state of the broker is well typed: the stored rows, each
\* worker's timers within their bounds, and the budget of faults.
THEOREM TypeCorrect == Spec => []TypeOK
<1>1. TypeInv => TypeOK
  BY DEF TypeInv
<1>2. QED
  BY <1>1, InitTypeInv, NextTypeInv, PTL DEF Spec

-----------------------------------------------------------------------------
(***************************************************************************)
(* One attempt per intent.  When every intent goes through the leased      *)
(* workers (no direct callers), the claim makes an attempt the property of *)
(* one process for good: no lease and no clock is needed for the ledger to *)
(* agree with the world.                                                   *)
(***************************************************************************)
Open(i) == outcome[i] \in {"PENDING", "IN_DOUBT"}
Attempt(p) == pc[p] \in {"stored", "validate", "screening", "recheck", "launch", "executing",
                        "persist", "persisting", "finish", "finishing", "check"}
Before(p) == pc[p] \in {"stored", "validate", "screening", "recheck", "launch"}
Refuses(p) == pc[p] \in {"refused", "refusing"}

\* Whoever handles an intent took it from the queue, and whoever attempts it
\* (or found it attempted) sees its claim.
Provenance ==
  \A p \in Procs :
    /\ Working(p) => Submitted(cur[p])
    /\ Attempt(p) \/ Refuses(p) => cur[p] \in claimed
    /\ \A i \in batch[p] : Submitted(i)

\* An attempt belongs to one process.
SoleAttempt ==
  \A p, q \in Procs : Attempt(p) /\ Attempt(q) /\ cur[p] = cur[q] => p = q

\* An intent nobody claimed is untouched.
Untouched ==
  \A i \in Intents :
    i \notin claimed => invocations[i] = 0 /\ outcome[i] = "PENDING" /\ i \notin verified

\* What each stage of an attempt knows of the executor and of the ledger.
StageOf(p) ==
  /\ Before(p) => invocations[cur[p]] = 0 /\ Open(cur[p])
  /\ pc[p] = "executing" =>
       invocations[cur[p]] = 1 /\ Open(cur[p]) /\ cur[p] \notin verified
  /\ pc[p] \in {"persist", "persisting"} => cur[p] \in verified /\ Open(cur[p])
  /\ pc[p] \in {"finish", "finishing"} =>
       /\ Open(cur[p])
       /\ \/ plan[p] = "REJECTED" /\ invocations[cur[p]] = 0
          \/ plan[p] = "HARD_STOP" /\ cur[p] \notin verified
          \/ plan[p] = "IN_DOUBT"
Stage == \A p \in Procs : StageOf(p)

VerifiedWasInvoked == \A i \in verified : invocations[i] = 1

LedgerInv ==
  /\ AtMostOnce
  /\ LedgerMatchesWorld
  /\ Provenance
  /\ SoleAttempt
  /\ Untouched
  /\ Stage
  /\ VerifiedWasInvoked

LEMMA InitLedgerInv == Init => LedgerInv
  BY DEF Init, QueueInit, LedgerInv, AtMostOnce, LedgerMatchesWorld, Provenance, SoleAttempt,
         Untouched, Stage, StageOf, VerifiedWasInvoked, Working, Attempt, Before, Refuses

\* The three actions that write an outcome.
Writers(p) == RefuseRetry(p) \/ PersistExecuted(p) \/ Finish(p)

\* A process lets go of its intent, with some of its batch left or none.
LetsGo(p) ==
  \E next \in {"down", "loop", "closing"}, rest \in SUBSET batch[p] : Drop(p, next, rest)

\* What the exits of the pipeline amount to.
LEMMA Exits ==
  ASSUME Callers = {}, TypeInv, NEW w \in Workers
  PROVE  /\ RefuseRetry(w) => LetsGo(w)
         /\ ReadStored(w) => (Goto(w, "validate") /\ UNCHANGED work) \/ LetsGo(w)
         /\ PersistExecuted(w) => Goto(w, "check") /\ UNCHANGED work
         /\ Finish(w) => (Goto(w, "check") /\ UNCHANGED work) \/ LetsGo(w)
         /\ CheckLedger(w) => LetsGo(w)
         /\ Close(w) \/ Crash(w) => LetsGo(w)
<1> USE DEF LetsGo, TypeInv, TypeOK
<1>1. batch[w] \ {cur[w]} \in SUBSET batch[w] /\ {} \in SUBSET batch[w]
  OBVIOUS
<1>2. Raise(w) => LetsGo(w)
  BY <1>1 DEF Raise
<1>3. (RefuseRetry(w) => LetsGo(w)) /\ (CheckLedger(w) => LetsGo(w))
  BY <1>1, <1>2 DEF RefuseRetry, CheckLedger
<1>4. ReadStored(w) => (Goto(w, "validate") /\ UNCHANGED work) \/ LetsGo(w)
  BY <1>1, <1>2 DEF ReadStored
<1>5. /\ PersistExecuted(w) => Goto(w, "check") /\ UNCHANGED work
      /\ Finish(w) => (Goto(w, "check") /\ UNCHANGED work) \/ LetsGo(w)
  BY <1>2 DEF PersistExecuted, Finish, Returned
<1>6. Close(w) \/ Crash(w) => LetsGo(w)
  BY <1>1 DEF Close, Crash, Vanish
<1>7. QED
  BY <1>3, <1>4, <1>5, <1>6

\* Letting go disturbs nothing.
LEMMA LeavingKeepsLedger ==
  ASSUME TypeInv, LedgerInv, NEW p \in Procs, LetsGo(p),
         UNCHANGED <<id, claimed, outcome, world>>
  PROVE  LedgerInv'
<1> USE DEF TypeInv, TypeOK, QueueTypeOK, LedgerInv, world
<1>1. /\ AtMostOnce' /\ LedgerMatchesWorld' /\ Untouched' /\ VerifiedWasInvoked'
  BY DEF AtMostOnce, LedgerMatchesWorld, Untouched, VerifiedWasInvoked
<1>2. ASSUME NEW q \in Procs, q # p
      PROVE  pc'[q] = pc[q] /\ cur'[q] = cur[q] /\ plan'[q] = plan[q] /\ batch'[q] = batch[q]
  BY <1>2 DEF LetsGo, Drop, Goto, work
<1>3. pc'[p] \in {"down", "loop", "closing"} /\ batch'[p] \subseteq batch[p]
  BY DEF LetsGo, Drop, Goto
<1>4. Provenance'
  BY <1>2, <1>3 DEF Provenance, Working, Attempt, Refuses, Submitted
<1>5. Stage'
  BY <1>2, <1>3 DEF Stage, StageOf, Before, Open
<1>6. SoleAttempt'
  BY <1>2, <1>3 DEF SoleAttempt, Attempt
<1>7. QED
  BY <1>1, <1>4, <1>5, <1>6

\* What a write can be, late as it may be: nothing, an outcome that is true of
\* the executor, and for an intent the process found attempted only IN_DOUBT.
LEMMA WriteIsTrue ==
  ASSUME TypeInv, Stage, NEW p \in Procs, Writers(p)
  PROVE  /\ cur[p] \in Intents
         /\ Attempt(p) \/ Refuses(p)
         /\ \/ outcome' = outcome
            \/ \E s \in Terminal :
                 /\ outcome' = [outcome EXCEPT ![cur[p]] = s]
                 /\ s = "EXECUTED" => cur[p] \in verified
                 /\ s = "REJECTED" => invocations[cur[p]] = 0
                 /\ s = "HARD_STOP" => cur[p] \notin verified
                 /\ Refuses(p) => s = "IN_DOUBT"
                 /\ Open(cur[p]) \/ s = "IN_DOUBT"
<1> USE DEF TypeInv, TypeOK, QueueTypeOK, HasIntent, Working, Attempt, Refuses, Status, Terminal
<1> USE DEF RecordOutcome, Inserting, AppendEvent, AppendRefused
<1>1. CASE RefuseRetry(p)
  BY <1>1 DEF RefuseRetry
<1>2. CASE PersistExecuted(p)
  BY <1>2 DEF PersistExecuted, Stage, StageOf
<1>3. CASE Finish(p)
  BY <1>3 DEF Finish, Stage, StageOf
<1> QED
  BY <1>1, <1>2, <1>3 DEF Writers

\* Recording such an outcome before leaving disturbs nothing either.
LEMMA WriteKeepsLedger ==
  ASSUME Callers = {}, TypeInv, LedgerInv, NEW p \in Procs, Writers(p)
  PROVE  LedgerInv'
<1> USE DEF TypeInv, TypeOK, QueueTypeOK, LedgerInv, world, Procs
<1>1. /\ cur[p] \in Intents
      /\ Attempt(p) \/ Refuses(p)
      /\ \/ outcome' = outcome
         \/ \E s \in Terminal :
              /\ outcome' = [outcome EXCEPT ![cur[p]] = s]
              /\ s = "EXECUTED" => cur[p] \in verified
              /\ s = "REJECTED" => invocations[cur[p]] = 0
              /\ s = "HARD_STOP" => cur[p] \notin verified
              /\ Refuses(p) => s = "IN_DOUBT"
              /\ Open(cur[p]) \/ s = "IN_DOUBT"
  BY WriteIsTrue
<1>2. /\ UNCHANGED <<id, claimed, world>>
      /\ LetsGo(p) \/ (Goto(p, "check") /\ UNCHANGED work)
      /\ Refuses(p) => LetsGo(p)
  <2>1. RefuseRetry(p) => LetsGo(p)
    BY Exits
  <2>2. PersistExecuted(p) \/ Finish(p) => ~Refuses(p) /\ (LetsGo(p) \/ (Goto(p, "check") /\ UNCHANGED work))
    BY Exits DEF PersistExecuted, Finish, RecordOutcome, Inserting, Refuses
  <2>3. UNCHANGED <<id, claimed, world>>
    BY DEF Writers, RefuseRetry, PersistExecuted, Finish
  <2>4. QED
    BY <2>1, <2>2, <2>3 DEF Writers
<1>3. cur[p] \in claimed
  BY <1>1 DEF Provenance
<1>4. AtMostOnce' /\ LedgerMatchesWorld' /\ Untouched' /\ VerifiedWasInvoked'
  BY <1>1, <1>2, <1>3 DEF AtMostOnce, LedgerMatchesWorld, Untouched, VerifiedWasInvoked, Terminal
<1>5. ASSUME NEW q \in Procs, q # p
      PROVE  pc'[q] = pc[q] /\ cur'[q] = cur[q] /\ plan'[q] = plan[q] /\ batch'[q] = batch[q]
  BY <1>2, <1>5 DEF LetsGo, Drop, Goto, work
<1>6. /\ pc'[p] \in {"down", "loop", "closing"} \/ (pc'[p] = "check" /\ cur'[p] = cur[p] /\ Attempt(p))
      /\ batch'[p] \subseteq batch[p]
  BY <1>1, <1>2 DEF LetsGo, Drop, Goto, work
<1>7. Provenance' /\ SoleAttempt'
  BY <1>1, <1>2, <1>5, <1>6 DEF Provenance, SoleAttempt, Working, Attempt, Refuses, Submitted
<1>8. ASSUME NEW q \in Procs, q # p, Attempt(q) PROVE Open(cur[q])' \/ outcome'[cur[q]] = outcome[cur[q]]
  <2>1. cur[q] \in Intents /\ cur'[q] = cur[q]
    BY <1>5, <1>8 DEF HasIntent, Working, Attempt
  <2>2. CASE Refuses(p)
    BY <1>1, <2>1, <2>2 DEF Open
  <2>3. CASE Attempt(p)
    BY SMTT(30), <1>1, <1>8, <2>1, <2>3 DEF SoleAttempt
  <2>4. QED
    BY <1>1, <2>2, <2>3
<1>9. Stage'
  BY <1>2, <1>5, <1>6, <1>8 DEF Stage, StageOf, Attempt, Before, Open
<1>10. QED
  BY <1>4, <1>7, <1>9

\* What a step of a validation amounts to.
LEMMA ValidationMoves ==
  ASSUME NEW p \in Procs, Validation(p)
  PROVE  /\ \/ UNCHANGED work /\ \E next \in {"screening", "recheck", "launch"} : Goto(p, next)
            \/ \E status \in {"REJECTED", "HARD_STOP"} : Plan(p, status)
            \/ UNCHANGED <<pc, work>>
         /\ UNCHANGED <<id, lastId, claimed, outcome, lease, timing, world>>
         /\ pc[p] \in {"validate", "screening", "recheck"}
<1>1. CASE Screen(p)
  BY <1>1 DEF Screen, StartValidation, store
<1>2. CASE \E s \in Scopes : ReadHalt(p, s)
  BY <1>2 DEF ReadHalt, Validating, store
<1>3. CASE RulesReject(p)
  BY <1>3 DEF RulesReject, Validating
<1>4. CASE PassScreen(p)
  BY <1>4 DEF PassScreen, StartValidation, store
<1>5. CASE Recheck(p)
  BY <1>5 DEF Recheck, store
<1>6. QED
  BY <1>1, <1>2, <1>3, <1>4, <1>5 DEF Validation

LEMMA NextLedgerInv ==
  ASSUME Callers = {}, TypeInv, TypeInv', LedgerInv, [Next]_vars
  PROVE  LedgerInv'
<1> USE Callers = {}
    DEF LedgerInv, AtMostOnce, LedgerMatchesWorld, Provenance, SoleAttempt, Untouched, Stage, StageOf,
        VerifiedWasInvoked, Working, Attempt, Before, Refuses, Open, Submitted, TypeInv, HasIntent, TypeOK,
        QueueTypeOK, WorkerPCs, SharedPCs, Status, Terminal, Procs
<1>1. ASSUME NEW i \in Intents, Propose(i) PROVE LedgerInv'
  BY <1>1 DEF Propose, Submit, work, timing, world
<1>2. CASE (\E s \in Scopes : OperatorActs(s)) \/ Tick \/ UNCHANGED vars
  BY <1>2 DEF OperatorActs, Tick, vars, store, work, world
<1>3. ASSUME NEW w \in Workers, Acquire(w) \/ StartBatch(w) \/ Preflight(w) \/ EndBatch(w) \/ Stop(w)
      PROVE  LedgerInv'
  <2>1. \E next \in {"top", "preflight", "fetch", "closing"} : Goto(w, next)
    BY <1>3 DEF Acquire, StartBatch, Preflight, EndBatch, Stop
  <2>2. UNCHANGED <<id, claimed, outcome, work, world>>
    BY <1>3 DEF Acquire, StartBatch, Preflight, EndBatch, Stop, store
  <2>3. QED
    BY <2>1, <2>2 DEF Goto, work, world
<1>4. ASSUME NEW w \in Workers, Fetch(w) PROVE LedgerInv'
  <2>1. CASE Goto(w, "loop") /\ batch' = [batch EXCEPT ![w] = PendingIntents(BatchSize)] /\ UNCHANGED <<cur, plan>>
    BY <1>4, <2>1 DEF Fetch, PendingIntents, Goto, store, timing, world
  <2>2. CASE Raise(w)
    <3>1. LetsGo(w)
      BY <2>2 DEF LetsGo, Raise
    <3>2. QED
      BY <1>4, <3>1, LeavingKeepsLedger DEF Fetch, store
  <2>3. QED
    BY <1>4, <2>1, <2>2 DEF Fetch
<1>5. ASSUME NEW w \in Workers, NEW i \in Intents, NextIntent(w, i) PROVE LedgerInv'
  <2>1. CASE Drop(w, "closing", {})
    <3>1. LetsGo(w)
      BY <2>1 DEF LetsGo
    <3>2. QED
      BY <1>5, <3>1, LeavingKeepsLedger DEF NextIntent
  <2>2. CASE Goto(w, "claim") /\ cur' = [cur EXCEPT ![w] = i] /\ UNCHANGED <<plan, batch>>
    BY <1>5, <2>2 DEF NextIntent, Oldest, Goto, world
  <2>3. QED
    BY <1>5, <2>1, <2>2 DEF NextIntent
<1>6. ASSUME NEW w \in Workers, Claim(w) PROVE LedgerInv'
  BY <1>6, SMTT(30) DEF Claim, ClaimAttempt, ClaimRefused, Raise, Drop, Goto, work, world
<1>7. ASSUME NEW w \in Workers, ReadStored(w) PROVE LedgerInv'
  <2>1. CASE LetsGo(w)
    BY <1>7, <2>1, LeavingKeepsLedger DEF ReadStored, store
  <2>2. CASE Goto(w, "validate") /\ UNCHANGED work
    BY <1>7, <2>2 DEF ReadStored, Goto, store, work, world
  <2>3. QED
    BY <1>7, <2>1, <2>2, Exits
<1>8. ASSUME NEW p \in Procs, Validation(p) PROVE LedgerInv'
  <2>1. /\ \/ UNCHANGED work /\ \E next \in {"screening", "recheck", "launch"} : Goto(p, next)
           \/ \E status \in {"REJECTED", "HARD_STOP"} : Plan(p, status)
           \/ UNCHANGED <<pc, work>>
        /\ UNCHANGED <<id, claimed, outcome, world>>
        /\ pc[p] \in {"validate", "screening", "recheck"}
    BY <1>8, ValidationMoves
  <2>2. CASE UNCHANGED work /\ \E next \in {"screening", "recheck", "launch"} : Goto(p, next)
    BY <2>1, <2>2, SMTT(60) DEF Goto, work, world
  <2>3. CASE \E status \in {"REJECTED", "HARD_STOP"} : Plan(p, status)
    BY <2>1, <2>3, SMTT(60) DEF Plan, Goto, work, world
  <2>4. CASE UNCHANGED <<pc, work>>
    BY <2>1, <2>4, SMTT(60) DEF work, world
  <2>5. QED
    BY <2>1, <2>2, <2>3, <2>4
<1>9. ASSUME NEW p \in Procs, Invoke(p) PROVE LedgerInv'
  BY <1>9, SMTT(60) DEF Invoke, Goto, store, work
<1>10. ASSUME NEW p \in Procs, ExecutorReturns(p) PROVE LedgerInv'
  <2>1. \/ Goto(p, "persist") /\ UNCHANGED work /\ verified' = verified \cup {cur[p]}
        \/ UNCHANGED verified /\ \E status \in {"IN_DOUBT", "HARD_STOP"} : Plan(p, status)
    BY <1>10 DEF ExecutorReturns
  <2>2. UNCHANGED <<id, claimed, outcome, invocations>> /\ pc[p] = "executing"
    BY <1>10 DEF ExecutorReturns
  <2>3. QED
    BY <2>1, <2>2, SMTT(30) DEF Plan, Goto, work
<1>11. ASSUME NEW p \in Procs, Writers(p) PROVE LedgerInv'
  BY <1>11, WriteKeepsLedger
<1>12. ASSUME NEW w \in Workers, CheckLedger(w) \/ Close(w) \/ Crash(w) PROVE LedgerInv'
  <2>1. LetsGo(w) /\ UNCHANGED <<id, claimed, outcome, world>>
    BY <1>12, Exits DEF CheckLedger, Close, Crash, store
  <2>2. QED
    BY <2>1, LeavingKeepsLedger
<1>13. ASSUME NEW p \in Procs, OpenForAppend(p) PROVE LedgerInv'
  <2>1. /\ \/ pc[p] = "refused" /\ Goto(p, "refusing")
           \/ pc[p] = "persist" /\ Goto(p, "persisting")
           \/ pc[p] = "finish" /\ Goto(p, "finishing")
        /\ UNCHANGED <<id, claimed, outcome, work, world>>
    BY <1>13 DEF OpenForAppend, Inserting, store
  <2>2. QED
    BY <2>1, SMTT(30) DEF Goto, work, world
<1>14. QED
  BY <1>1, <1>2, <1>3, <1>4, <1>5, <1>6, <1>7, <1>8, <1>9, <1>10, <1>11, <1>12, <1>13
     DEF Next, WorkerStep, CallerStep, Pipeline, Writers

LEMMA LedgerAlways == ASSUME Callers = {} PROVE Spec => [](TypeInv /\ LedgerInv)
<1>1. Init => TypeInv /\ LedgerInv
  BY InitTypeInv, InitLedgerInv
<1>2. TypeInv /\ LedgerInv /\ [Next]_vars => (TypeInv /\ LedgerInv)'
  BY Callers = {}, NextTypeInv, NextLedgerInv
<1>3. QED
  BY <1>1, <1>2, PTL DEF Spec

\* The executor is called at most once for an intent, for every number of
\* workers and faults, every lease length and gap, and any sharing of holder
\* names: the claim alone is enough.
THEOREM AtMostOnceAlways == ASSUME Callers = {} PROVE Spec => []AtMostOnce
<1>1. LedgerInv => AtMostOnce
  BY DEF LedgerInv
<1>2. QED
  BY <1>1, LedgerAlways, PTL

\* The recorded outcome agrees with what the executor did.
THEOREM LedgerAgrees == ASSUME Callers = {} PROVE Spec => []LedgerMatchesWorld
<1>1. LedgerInv => LedgerMatchesWorld
  BY DEF LedgerInv
<1>2. QED
  BY <1>1, LedgerAlways, PTL

-----------------------------------------------------------------------------
(***************************************************************************)
(* Outcomes on record and the abstract specification.  Only three actions  *)
(* write an outcome, each through RecordOutcome: the Writers above.        *)
(***************************************************************************)
\* A step that is none of the three leaves every outcome alone.
LEMMA OnlyWritersWrite ==
  ASSUME [Next]_vars, \A p \in Procs : ~Writers(p)
  PROVE  outcome' = outcome
<1>1. ASSUME NEW p \in Procs, Validation(p) PROVE outcome' = outcome
  BY <1>1, ValidationMoves
<1>2. QED
  BY <1>1, ZenonT(40) DEF Next, WorkerStep, CallerStep, Pipeline, Writers, Procs, Propose, OperatorActs, Acquire,
         StartBatch, Preflight, Fetch, NextIntent, EndBatch, Claim, ReadStored, OpenForAppend,
         Invoke, ExecutorReturns, CheckLedger, Close, Stop, Crash, Tick, DirectProcess, vars, store

\* However two workers' reads and inserts interleave, one of them gives the
\* verdict of an intent: the other can only put IN_DOUBT before or after it.
THEOREM OneVerdictHolds == ASSUME Callers = {} PROVE Spec => OneVerdict
<1> DEFINE Kept == \A i \in Intents : outcome[i] \in Terminal /\ outcome'[i] # outcome[i]
                     => "IN_DOUBT" \in {outcome[i], outcome'[i]}
<1>1. TypeInv /\ LedgerInv /\ [Next]_vars => Kept
  <2> SUFFICES ASSUME TypeInv, LedgerInv, [Next]_vars, NEW i \in Intents,
                      outcome[i] \in Terminal, outcome'[i] # outcome[i]
               PROVE  "IN_DOUBT" \in {outcome[i], outcome'[i]}
    OBVIOUS
  <2>1. PICK p \in Procs : Writers(p)
    BY OnlyWritersWrite
  <2>2. PICK s \in Terminal : /\ cur[p] \in Intents
                              /\ outcome' = [outcome EXCEPT ![cur[p]] = s]
                              /\ Open(cur[p]) \/ s = "IN_DOUBT"
    BY <2>1, WriteIsTrue DEF LedgerInv
  <2>3. cur[p] = i
    BY <2>2 DEF TypeInv, TypeOK, QueueTypeOK
  <2>4. QED
    BY <2>2, <2>3 DEF Open, Terminal, TypeInv, TypeOK, QueueTypeOK
<1>2. TypeInv /\ LedgerInv /\ [Next]_vars => [Kept]_vars
  BY <1>1
<1>3. QED
  BY <1>2, LedgerAlways, PTL DEF Spec, OneVerdict

\* A step on the concrete state is the abstract step it is meant to be, or
\* leaves the abstract variables alone.
LEMMA StepRefines ==
  ASSUME Callers = {}, TypeInv, TypeInv', LedgerInv, [Next]_vars
  PROVE  [Lifecycle!ANext]_(Lifecycle!avars)
<1> USE Callers = {} DEF Lifecycle!avars, Lifecycle!ANext, Procs
<1>1. ASSUME NEW i \in Intents, Propose(i) PROVE Lifecycle!ASubmit(i)
  BY <1>1 DEF Propose, Submit, Submitted, Lifecycle!ASubmit, world, TypeInv, TypeOK, QueueTypeOK
<1>2. ASSUME NEW p \in Procs, Invoke(p) PROVE Lifecycle!AInvoke(cur[p]) /\ cur[p] \in Intents
  <2>1. /\ cur[p] \in Intents
        /\ Submitted(cur[p])
        /\ invocations[cur[p]] = 0
        /\ outcome[cur[p]] \in {"PENDING", "IN_DOUBT"}
    BY <1>2 DEF Invoke, TypeInv, HasIntent, Working, LedgerInv, Stage, StageOf, Provenance, Before, Open
  <2>2. invocations' = [invocations EXCEPT ![cur[p]] = 1]
    BY <1>2, <2>1 DEF Invoke
  <2>3. QED
    BY <1>2, <2>1, <2>2 DEF Invoke, Lifecycle!AInvoke, store, Submitted
<1>3. ASSUME NEW p \in Procs, ExecutorReturns(p)
      PROVE  \/ Lifecycle!AVerify(cur[p]) /\ cur[p] \in Intents
             \/ UNCHANGED Lifecycle!avars
  BY <1>3 DEF ExecutorReturns, Lifecycle!AVerify, Submitted, TypeInv, TypeOK, QueueTypeOK, HasIntent,
              Working, LedgerInv, Stage, StageOf, Open
<1>4. ASSUME NEW p \in Procs, Writers(p)
      PROVE  \/ \E s \in Terminal : Lifecycle!ADecide(cur[p], s) /\ cur[p] \in Intents
             \/ UNCHANGED Lifecycle!avars
  <2>1. /\ cur[p] \in Intents
        /\ Attempt(p) \/ Refuses(p)
        /\ \/ outcome' = outcome
           \/ \E s \in Terminal :
                /\ outcome' = [outcome EXCEPT ![cur[p]] = s]
                /\ s = "EXECUTED" => cur[p] \in verified
                /\ s = "REJECTED" => invocations[cur[p]] = 0
                /\ s = "HARD_STOP" => cur[p] \notin verified
                /\ Open(cur[p]) \/ s = "IN_DOUBT"
    BY <1>4, WriteIsTrue DEF LedgerInv
  <2>2. Submitted(cur[p])
    BY <2>1 DEF LedgerInv, Provenance, Working, Attempt, Refuses
  <2>3. UNCHANGED <<id, world>>
    BY <1>4 DEF Writers, RefuseRetry, PersistExecuted, Finish
  <2>4. CASE outcome' = outcome
    BY <2>3, <2>4 DEF Submitted, world
  <2>5. ASSUME NEW s \in Terminal,
               /\ outcome' = [outcome EXCEPT ![cur[p]] = s]
               /\ s = "EXECUTED" => cur[p] \in verified
               /\ s = "REJECTED" => invocations[cur[p]] = 0
               /\ s = "HARD_STOP" => cur[p] \notin verified
               /\ Open(cur[p]) \/ s = "IN_DOUBT"
        PROVE  Lifecycle!ADecide(cur[p], s)
    BY <2>1, <2>2, <2>3, <2>5 DEF Lifecycle!ADecide, Submitted, Open, Terminal, world
  <2>6. QED
    BY <2>1, <2>4, <2>5
<1>5. ASSUME NEW w \in Workers,
             \/ Acquire(w) \/ StartBatch(w) \/ Preflight(w) \/ Fetch(w)
             \/ \E i \in Intents : NextIntent(w, i)
             \/ EndBatch(w) \/ Claim(w) \/ ReadStored(w) \/ CheckLedger(w) \/ Close(w) \/ Stop(w)
      PROVE  UNCHANGED Lifecycle!avars
  BY <1>5 DEF Acquire, StartBatch, Preflight, Fetch, NextIntent, EndBatch, Claim, ReadStored,
              CheckLedger, Close, Stop, store, world, Submitted
<1>6. ASSUME NEW p \in Procs, Validation(p) \/ OpenForAppend(p) \/ Crash(p)
      PROVE  UNCHANGED Lifecycle!avars
  BY <1>6, ValidationMoves DEF OpenForAppend, Crash, store, world, Submitted
<1>7. ASSUME NEW s \in Scopes, OperatorActs(s) PROVE UNCHANGED Lifecycle!avars
  BY <1>7 DEF OperatorActs, world, Submitted
<1>8. CASE Tick \/ UNCHANGED vars
  BY <1>8 DEF Tick, vars, store, world, Submitted
<1>9. ASSUME NEW i \in Intents, NEW s \in Terminal,
             \/ Lifecycle!ASubmit(i) \/ Lifecycle!AInvoke(i)
             \/ Lifecycle!AVerify(i) \/ Lifecycle!ADecide(i, s)
      PROVE  Lifecycle!ANext
  BY <1>9 DEF Terminal
<1>10. CASE \E i \in Intents : Propose(i)
  BY <1>10, <1>1 DEF Terminal
<1>11. CASE \E s \in Scopes : OperatorActs(s)
  BY <1>11, <1>7
<1>12. ASSUME NEW w \in Workers, WorkerStep(w) \/ Stop(w) PROVE [Lifecycle!ANext]_(Lifecycle!avars)
  <2>1. CASE Pipeline(w)
    BY <2>1, <1>2, <1>3, <1>4, <1>6, <1>9 DEF Pipeline, Writers, Terminal
  <2>2. CASE RefuseRetry(w)
    BY <2>2, <1>4, <1>9 DEF Writers
  <2>3. QED
    BY <1>12, <1>5, <2>1, <2>2 DEF WorkerStep
<1>13. CASE \E p \in Procs : Crash(p)
  BY <1>13, <1>6
<1>14. QED
  BY <1>8, <1>10, <1>11, <1>12, <1>13 DEF Next

\* The broker implements the life of an intent, step by step.
THEOREM BrokerImplementsLifecycle == ASSUME Callers = {} PROVE Spec => ImplementsLifecycle
<1>1. Init => Lifecycle!AInit
  BY DEF Init, QueueInit, Submitted, Lifecycle!AInit
<1>2. TypeInv /\ LedgerInv /\ (TypeInv /\ LedgerInv)' /\ [Next]_vars => [Lifecycle!ANext]_(Lifecycle!avars)
  BY Callers = {}, StepRefines
<1>3. QED
  BY <1>1, <1>2, LedgerAlways, PTL DEF Spec, ImplementsLifecycle, Lifecycle!ASpec

-----------------------------------------------------------------------------
(***************************************************************************)
(* The lease.  A single writer needs every worker its own holder name; the *)
(* claim does not help there.  A worker's local clock counts a renewal     *)
(* period from its last renewal, and what a check leaves of the lease is   *)
(* at least the two others: Overrun says when they have been used up.      *)
(***************************************************************************)
OwnNames == \A v, w \in Workers : Holder[v] = Holder[w] => v = w

\* A worker whose local clock has not come to its next renewal, or that has
\* not overrun its lease, holds the stored one with enough of it left.
Covered(w) ==
  /\ renewIn[w] > 0 => lease.holder = Holder[w] /\ lease.left >= TTL - RenewEvery + renewIn[w]
  /\ ~Overrun(w) => lease.holder = Holder[w] /\ lease.left + age[w] >= TTL - RenewEvery + 1
LeaseInv == \A w \in Workers : Running(w) => Covered(w)

\* Such a worker keeps all others out of the lease.
LEMMA HeldLease ==
  ASSUME OwnNames, TypeInv, LeaseInv, NEW v \in Workers, NEW w \in Workers, v # w,
         Running(v), renewIn[v] > 0 \/ ~Overrun(v)
  PROVE  ~LeaseAvailable(Holder[w]) /\ ~LeaseRenewable(Holder[w]) /\ lease.holder # Holder[w]
<1>1. lease.holder = Holder[v] /\ lease.left >= 0
  BY BoundsAssumption, TTLAssumption DEF LeaseInv, Covered, Overrun, TypeInv, TypeOK, QueueTypeOK
<1>2. Holder[v] \in Holders /\ Holder[v] # Holder[w]
  BY WorkerAssumption DEF OwnNames
<1>3. lease.holder # Holder[w] /\ lease.holder # NoHolder /\ ~(lease.left < 0)
  BY <1>1, <1>2, NoHolderAssumption DEF TypeInv, TypeOK, QueueTypeOK
<1>4. QED
  BY <1>3 DEF LeaseAvailable, LeaseRenewable

LEMMA NextLeaseInv ==
  ASSUME OwnNames, TypeInv, TypeInv', LeaseInv, [Next]_vars
  PROVE  LeaseInv'
<1> USE TTLAssumption, BoundsAssumption, WorkerAssumption
    DEF LeaseInv, Covered, Overrun, Running, TypeInv, TypeOK, QueueTypeOK, Procs
\* What a step of one worker does to the lease another one holds.
<1> DEFINE Others(w) == \A v \in Workers : v # w /\ Running(v) => Covered(v)'
<1>1. ASSUME NEW w \in Workers,
             \/ /\ LeaseAvailable(Holder[w]) \/ LeaseRenewable(Holder[w])
                /\ GrantLease(Holder[w])
             \/ ReleaseLease(Holder[w])
             \/ UNCHANGED lease,
             \A v \in Workers : v # w => renewIn'[v] = renewIn[v] /\ age'[v] = age[v]
      PROVE  Others(w)
  <2>1. SUFFICES ASSUME NEW v \in Workers, v # w, Running(v), renewIn[v] > 0 \/ ~Overrun(v)
                 PROVE  lease' = lease
    BY <1>1
  <2>2. QED
    BY <1>1, <2>1, HeldLease DEF ReleaseLease
<1>2. ASSUME NEW w \in Workers, LeaseCheckPasses(w), \A v \in Workers : v # w => pc'[v] = pc[v],
             Running(w)
      PROVE  LeaseInv'
  <2>1. Covered(w)'
    BY <1>2 DEF LeaseCheckPasses, GrantLease
  <2>2. Others(w)
    BY <1>1, <1>2 DEF LeaseCheckPasses
  <2>3. QED
    BY <1>2, <2>1, <2>2
<1>3. ASSUME NEW w \in Workers, LeaseCheckFails(w), \A v \in Workers : v # w => pc'[v] = pc[v],
             pc'[w] = "closing"
      PROVE  LeaseInv'
  <2>1. Others(w)
    BY <1>1, <1>3 DEF LeaseCheckFails, timing
  <2>2. QED
    BY <1>3, <2>1
<1>4. ASSUME NEW w \in Workers, StartBatch(w) PROVE LeaseInv'
  BY <1>2, <1>3, <1>4 DEF StartBatch, Goto
<1>5. ASSUME NEW w \in Workers, NEW i \in Intents, NextIntent(w, i) PROVE LeaseInv'
  BY <1>2, <1>3, <1>5 DEF NextIntent, Drop, Goto
<1>6. ASSUME NEW w \in Workers, Acquire(w) PROVE LeaseInv'
  <2>1. Others(w)
    BY <1>1, <1>6 DEF Acquire
  <2>2. Covered(w)'
    BY <1>6 DEF Acquire, GrantLease
  <2>3. QED
    BY <1>6, <2>1, <2>2 DEF Acquire, Goto
<1>7. ASSUME NEW w \in Workers, Close(w) PROVE LeaseInv'
  <2>1. Others(w)
    BY <1>1, <1>7 DEF Close, Vanish
  <2>2. QED
    BY <1>7, <2>1 DEF Close, Vanish, Drop, Goto
<1>8. ASSUME NEW p \in Procs, Crash(p) PROVE LeaseInv'
  BY <1>8 DEF Crash, Vanish, Drop, Goto, store
<1>9. CASE Tick
  BY <1>9 DEF Tick, AgeLease
<1>10. CASE UNCHANGED vars
  BY <1>10 DEF vars, store, timing
<1>11. ASSUME NEW w \in Workers,
             \/ Preflight(w) \/ Fetch(w) \/ EndBatch(w) \/ Claim(w) \/ RefuseRetry(w)
             \/ ReadStored(w) \/ CheckLedger(w) \/ Stop(w)
       PROVE  LeaseInv'
  <2>1. CASE RefuseRetry(w)
    BY <2>1, SMTT(30) DEF RefuseRetry, RecordOutcome, Inserting, timing, Goto, Raise, Drop
  <2>2. QED
    BY <1>11, <2>1 DEF Preflight, Fetch, EndBatch, Claim, ReadStored, CheckLedger, Stop,
                       store, timing, Goto, Raise, Drop
<1>12. ASSUME NEW p \in Procs, Pipeline(p) PROVE LeaseInv'
  <2>1. CASE Validation(p)
    BY <2>1, ValidationMoves DEF Goto, Plan, timing
  <2>2. QED
    BY <1>12, <2>1 DEF Pipeline, Invoke, ExecutorReturns, OpenForAppend, PersistExecuted, Finish,
                       RecordOutcome, Inserting, store, timing, Goto, Plan, Returned, Raise, Drop
<1>13. ASSUME NEW c \in Callers, NEW i \in Intents, DirectProcess(c, i) PROVE LeaseInv'
  BY <1>13 DEF DirectProcess, timing, Goto
<1>14. CASE (\E i \in Intents : Propose(i)) \/ (\E s \in Scopes : OperatorActs(s))
  BY <1>14 DEF Propose, OperatorActs, timing
<1>15. QED
  BY <1>4, <1>5, <1>6, <1>7, <1>8, <1>9, <1>10, <1>11, <1>12, <1>13, <1>14
     DEF Next, WorkerStep, CallerStep

LEMMA LeaseAlways == ASSUME OwnNames PROVE Spec => [](TypeInv /\ LeaseInv)
<1>1. Init => TypeInv /\ LeaseInv
  BY InitTypeInv DEF Init, LeaseInv, Running, Procs
<1>2. TypeInv /\ LeaseInv /\ [Next]_vars => (TypeInv /\ LeaseInv)'
  BY OwnNames, NextTypeInv, NextLeaseInv
<1>3. QED
  BY <1>1, <1>2, PTL DEF Spec

LEMMA OneWriter == ASSUME OwnNames, TypeInv, LeaseInv PROVE SingleWriter
<1> SUFFICES ASSUME NEW v \in Workers, NEW w \in Workers, Running(v), Running(w),
                    ~Overrun(v), ~Overrun(w), v # w
             PROVE  FALSE
  BY DEF SingleWriter, Working, Running
<1>1. lease.holder = Holder[w]
  BY DEF LeaseInv, Covered
<1>2. QED
  BY <1>1, HeldLease

\* Of the workers inside an intent at most one has not overrun its lease, for
\* any lease length, any handling time, any number of workers and faults, when
\* holder names differ.
THEOREM SingleWriterHolds == ASSUME OwnNames PROVE Spec => []SingleWriter
<1>1. TypeInv /\ LeaseInv => SingleWriter
  BY OneWriter, OwnNames
<1>2. QED
  BY <1>1, LeaseAlways, PTL

-----------------------------------------------------------------------------
(***************************************************************************)
(* Punctual workers.  In a run where no worker overruns its lease inside   *)
(* an intent, the unlocked append_event does no harm.  Timely is said of   *)
(* the run so far, not of the configured timeouts.                         *)
(***************************************************************************)
Timely == \A w \in Workers : Working(w) => ~Overrun(w)

\* Past its look at the ledger and before its own insert, an attempt's intent
\* is undecided; so is that of a refusal whose append found it open.
Deciding == {"validate", "screening", "recheck", "launch", "refusing", "persisting", "finishing"}
Undecided == \A w \in Workers : pc[w] \in Deciding => outcome[cur[w]] = "PENDING"

LEMMA NextUndecided ==
  ASSUME Callers = {}, OwnNames, Timely, TypeInv, TypeInv', LeaseInv, Undecided, [Next]_vars
  PROVE  Undecided'
<1> USE Callers = {} DEF Undecided, Deciding, TypeInv, TypeOK, QueueTypeOK, Procs
<1>1. ASSUME NEW w \in Workers, Writers(w) PROVE Undecided'
  <2>1. Working(w)
    BY <1>1 DEF Writers, RefuseRetry, PersistExecuted, Finish, RecordOutcome, Inserting, Working
  <2>2. \A v \in Workers : v # w => ~Working(v)
    BY <2>1, OneWriter DEF SingleWriter, Timely
  <2>3. \A v \in Workers : v # w => pc'[v] = pc[v]
    BY <1>1 DEF Writers, RefuseRetry, PersistExecuted, Finish, Returned, Raise, Drop, Goto
  <2>4. pc'[w] \notin Deciding
    BY <1>1 DEF Writers, RefuseRetry, PersistExecuted, Finish, Returned, Raise, Drop, Goto
  <2>5. QED
    BY <2>2, <2>3, <2>4 DEF Working
<1>2. CASE \A p \in Procs : ~Writers(p)
  <2>1. outcome' = outcome
    BY <1>2, OnlyWritersWrite
  <2> DEFINE Kept(w) ==
        pc'[w] \in Deciding =>
          /\ cur'[w] = cur[w]
          /\ pc[w] \in Deciding \/ outcome[cur[w]] = "PENDING"
  <2>2. ASSUME NEW w \in Workers PROVE Kept(w)
    <3> USE <1>2 DEF Goto, Drop, Raise, Plan, Vanish, store, work
    <3>1. ASSUME NEW v \in Workers, Pipeline(v) PROVE Kept(w)
      <4>1. CASE Validation(v)
        BY <4>1, ValidationMoves
      <4>2. CASE OpenForAppend(v)
        BY <4>2 DEF OpenForAppend, Inserting, AppendAllowed, Status, TypeInv, HasIntent, Working
      <4>3. QED
        BY <3>1, <4>1, <4>2 DEF Pipeline, Writers, Invoke, ExecutorReturns
    <3>2. ASSUME NEW v \in Workers, ReadStored(v) PROVE Kept(w)
      BY <3>2 DEF ReadStored
    <3>3. ASSUME NEW v \in Workers, NEW i \in Intents, NextIntent(v, i) PROVE Kept(w)
      BY <3>3 DEF NextIntent
    <3>4. ASSUME NEW v \in Workers,
                 \/ Acquire(v) \/ StartBatch(v) \/ Preflight(v) \/ Fetch(v) \/ EndBatch(v)
                 \/ Claim(v) \/ CheckLedger(v) \/ Close(v) \/ Stop(v)
          PROVE  Kept(w)
      BY <3>4 DEF Acquire, StartBatch, Preflight, Fetch, EndBatch, Claim, CheckLedger, Close, Stop
    <3>5. ASSUME NEW p \in Procs, Crash(p) PROVE Kept(w)
      BY <3>5 DEF Crash
    <3>6. CASE \/ \E i \in Intents : Propose(i)
               \/ \E s \in Scopes : OperatorActs(s)
               \/ Tick \/ UNCHANGED vars
      BY <3>6 DEF Propose, OperatorActs, Tick, vars
    <3>7. QED
      BY <3>1, <3>2, <3>3, <3>4, <3>5, <3>6 DEF Next, WorkerStep, Writers
  <2>3. QED
    BY <2>1, <2>2
<1>3. QED
  BY <1>1, <1>2

LEMMA PunctualAlways ==
  ASSUME Callers = {}, OwnNames PROVE Spec /\ []Timely => [](TypeInv /\ LeaseInv /\ Undecided)
<1>1. Init => TypeInv /\ LeaseInv /\ Undecided
  BY InitTypeInv DEF Init, LeaseInv, Undecided, Deciding, Running, Procs
<1>2. TypeInv /\ LeaseInv /\ Undecided /\ Timely /\ [Next]_vars => (TypeInv /\ LeaseInv /\ Undecided)'
  BY Callers = {}, OwnNames, NextTypeInv, NextLeaseInv, NextUndecided
<1>3. QED
  BY <1>1, <1>2, PTL DEF Spec

\* In a run whose workers are punctual no executor is called for an intent
\* that is already decided.
THEOREM NoLateInvocationHolds ==
  ASSUME Callers = {}, OwnNames PROVE Spec /\ []Timely => NoLateInvocation
<1> DEFINE InTime == \A i \in Intents : invocations'[i] # invocations[i] => outcome[i] = "PENDING"
<1>1. TypeInv /\ Undecided /\ [Next]_vars => [InTime]_vars
  <2> SUFFICES ASSUME TypeInv, Undecided, [Next]_vars, NEW i \in Intents, invocations'[i] # invocations[i]
               PROVE  outcome[i] = "PENDING"
    OBVIOUS
  <2>1. ASSUME NEW p \in Procs, Validation(p) PROVE invocations' = invocations
    BY <2>1, ValidationMoves DEF world
  <2>2. PICK w \in Workers : Invoke(w)
    BY <2>1, ZenonT(40), Callers = {} DEF Next, WorkerStep, Pipeline, Procs, Propose, OperatorActs, Acquire,
       StartBatch, Preflight, Fetch, NextIntent, EndBatch, Claim, RefuseRetry, ReadStored, OpenForAppend,
       ExecutorReturns, PersistExecuted, Finish, CheckLedger, Close, Stop, Crash, Tick, vars, world
  <2>3. QED
    BY <2>2 DEF Invoke, Undecided, Deciding, TypeInv, TypeOK
<1>2. QED
  BY <1>1, PunctualAlways, PTL DEF Spec, NoLateInvocation

\* Nor does a decided outcome change in such a run, though the insert of
\* append_event holds no lock on what its read saw.
THEOREM OutcomesAreFinal ==
  ASSUME Callers = {}, OwnNames PROVE Spec /\ []Timely => OutcomeWriteOnce
<1> DEFINE Final == \A i \in Intents : outcome[i] \in Terminal => outcome'[i] = outcome[i]
<1>1. TypeInv /\ Undecided /\ [Next]_vars => [Final]_vars
  <2> SUFFICES ASSUME TypeInv, Undecided, [Next]_vars, NEW i \in Intents, outcome'[i] # outcome[i]
               PROVE  outcome[i] \notin Terminal
    OBVIOUS
  <2>1. PICK w \in Workers : Writers(w)
    BY OnlyWritersWrite, Callers = {} DEF Procs
  <2>2. /\ pc[w] \in {"refusing", "persisting", "finishing"}
        /\ \E s \in Status : outcome' = [outcome EXCEPT ![cur[w]] = s]
    BY <2>1 DEF Writers, RefuseRetry, PersistExecuted, Finish, RecordOutcome, Inserting, AppendEvent,
                Status, Terminal, TypeInv, TypeOK, Procs
  <2>3. cur[w] = i
    BY <2>2 DEF TypeInv, TypeOK, QueueTypeOK
  <2>4. QED
    BY <2>2, <2>3 DEF Undecided, Deciding, Terminal
<1>2. QED
  BY <1>1, PunctualAlways, PTL DEF Spec, OutcomeWriteOnce

-----------------------------------------------------------------------------
(***************************************************************************)
(* Halts.  A validation reads one scope after the other, and others set    *)
(* and clear halts between its reads.  A scope that has been halted ever   *)
(* since the validation began cannot have been read clear, so it is still  *)
(* to be read; and nothing but a process's own steps freezes it.           *)
(***************************************************************************)
Minded(p) ==
  /\ ~frozen[p]
  /\ stood[p] \subseteq unread[p]
  /\ \A s \in stood[p] : halted[s]
HaltInv == \A p \in Procs : Validating(p) /\ cur[p] \in Capital => Minded(p)

LEMMA ValidationMinded ==
  ASSUME TypeInv, HaltInv, NEW p \in Procs, Validation(p)
  PROVE  /\ HaltInv'
         /\ \A q \in Procs : pc[q] # "launch" /\ pc'[q] = "launch" /\ cur[q] \in Capital
              => stood[q] = {} /\ ~frozen[q]
<1> USE DEF TypeInv, TypeOK, QueueTypeOK, HaltInv, Minded, Validating, Goto
<1>1. CASE Screen(p)
  BY <1>1 DEF Screen, StartValidation, HaltsToRead, Plan, work, store, checks
<1>2. ASSUME NEW s \in Scopes, ReadHalt(p, s)
      PROVE  /\ HaltInv'
             /\ \A q \in Procs : pc'[q] = pc[q]
  BY <1>2 DEF ReadHalt, work, store
<1>3. CASE RulesReject(p)
  <2>1. /\ \A q \in Procs \ {p} : frozen'[q] = frozen[q] /\ unread'[q] = unread[q] /\ stood'[q] = stood[q]
        /\ \A s \in Scopes : halted[s] => halted'[s]
    BY <1>3 DEF RulesReject, EndValidation, NoFreeze, FreezeCapital, RecordHalt
  <2>2. /\ pc' = [pc EXCEPT ![p] = "finish"]
        /\ cur' = cur
    BY <1>3 DEF RulesReject, Plan
  <2>3. QED
    BY <2>1, <2>2
<1>4. CASE PassScreen(p)
  BY <1>4 DEF PassScreen, StartValidation, HaltsToRead, work, store
<1>5. CASE Recheck(p)
  BY <1>5 DEF Recheck, EndValidation, work, store
<1>6. QED
  BY <1>1, <1>2, <1>3, <1>4, <1>5 DEF Validation

\* Every other step leaves a validation where it is, and takes a halt out of
\* the ledger only together with the memory of it.
LEMMA OtherSteps ==
  ASSUME TypeInv, [Next]_vars, \A p \in Procs : ~Validation(p)
  PROVE  \A q \in Procs :
           /\ Validating(q)' =>
                /\ Validating(q) /\ cur'[q] = cur[q] /\ frozen'[q] = frozen[q]
                /\ unread'[q] = unread[q] /\ stood'[q] \subseteq stood[q]
                /\ \A s \in stood'[q] : halted[s] => halted'[s]
           /\ pc'[q] = "launch" => pc[q] = "launch"
<1> DEFINE Left(q) == /\ Validating(q)' =>
                           /\ Validating(q) /\ cur'[q] = cur[q] /\ frozen'[q] = frozen[q]
                           /\ unread'[q] = unread[q] /\ stood'[q] \subseteq stood[q]
                           /\ \A s \in stood'[q] : halted[s] => halted'[s]
                      /\ pc'[q] = "launch" => pc[q] = "launch"
<1> SUFFICES ASSUME NEW q \in Procs PROVE Left(q)
  OBVIOUS
<1> USE DEF TypeInv, TypeOK, QueueTypeOK, Procs, Validating, checks, store, work
<1>1. CASE (\E i \in Intents : Propose(i)) \/ Tick \/ UNCHANGED vars
  BY <1>1 DEF Propose, Tick, vars
<1>2. ASSUME NEW s \in Scopes, OperatorActs(s) PROVE Left(q)
  BY <1>2 DEF OperatorActs, RecordHalt, ClearHalt
<1>3. ASSUME NEW w \in Workers, Acquire(w) \/ StartBatch(w) \/ EndBatch(w) \/ Stop(w) PROVE Left(q)
  BY <1>3 DEF Acquire, StartBatch, EndBatch, Stop, Goto
<1>4. ASSUME NEW w \in Workers, Preflight(w) PROVE Left(q)
  BY <1>4 DEF Preflight, Goto, NoFreeze, FreezeCapital, RecordHalt, WriteResults
<1>5. ASSUME NEW w \in Workers, NEW i \in Intents, NextIntent(w, i) PROVE Left(q)
  BY <1>5 DEF NextIntent, Drop, Goto
<1>6. ASSUME NEW w \in Workers, Fetch(w) \/ Claim(w) \/ ReadStored(w) \/ CheckLedger(w)
      PROVE  Left(q)
  BY <1>6 DEF Fetch, Claim, ReadStored, CheckLedger, Raise, Drop, Goto
<1>7. ASSUME NEW w \in Workers, RefuseRetry(w) PROVE Left(q)
  BY <1>7 DEF RefuseRetry, Raise, Drop, Goto
<1>8. ASSUME NEW p \in Procs, Crash(p) \/ (p \in Workers /\ Close(p)) PROVE Left(q)
  BY <1>8 DEF Crash, Close, Vanish, EndValidation, Drop, Goto
<1>9. ASSUME NEW c \in Callers, NEW i \in Intents, DirectProcess(c, i) PROVE Left(q)
  BY <1>9 DEF DirectProcess, Goto
<1>10. ASSUME NEW p \in Procs, Invoke(p) \/ OpenForAppend(p) PROVE Left(q)
  BY <1>10 DEF Invoke, OpenForAppend, Inserting, Goto
<1>11. ASSUME NEW p \in Procs, Finish(p) PROVE Left(q)
  BY <1>11 DEF Finish, Returned, Raise, Drop, Goto
<1>12. ASSUME NEW p \in Procs, NoFreeze \/ \E r \in WriteResults : FreezeCapital(p, r)
       PROVE  /\ \A o \in Procs : o # p => frozen'[o] = frozen[o]
              /\ \A s \in Scopes : halted[s] => halted'[s]
  BY <1>12 DEF NoFreeze, FreezeCapital, RecordHalt
<1>13. ASSUME NEW p \in Procs, ExecutorReturns(p) PROVE Left(q)
  <2>1. /\ Goto(p, "persist") \/ Goto(p, "finish")
        /\ cur' = cur
        /\ UNCHANGED checks
        /\ NoFreeze \/ \E r \in WriteResults : FreezeCapital(p, r)
    BY <1>13 DEF ExecutorReturns, Plan, NoFreeze
  <2>2. QED
    BY <2>1, <1>12 DEF Goto
<1>14. ASSUME NEW p \in Procs, PersistExecuted(p) PROVE Left(q)
  <2>1. /\ Goto(p, "check") \/ Goto(p, "down")
        /\ \A o \in Procs : o # p => cur'[o] = cur[o]
        /\ UNCHANGED checks
        /\ NoFreeze \/ \E r \in WriteResults : FreezeCapital(p, r)
    BY <1>14 DEF PersistExecuted, Returned, Drop
  <2>2. QED
    BY <2>1, <1>12 DEF Goto
<1>15. QED
  BY <1>1, <1>2, <1>3, <1>4, <1>5, <1>6, <1>7, <1>8, <1>9, <1>10, <1>11, <1>13, <1>14
     DEF Next, WorkerStep, CallerStep, Pipeline

LEMMA NextMinded ==
  ASSUME TypeInv, HaltInv, [Next]_vars
  PROVE  /\ HaltInv'
         /\ \A p \in Procs : pc[p] # "launch" /\ pc'[p] = "launch" /\ cur[p] \in Capital
              => stood[p] = {} /\ ~frozen[p]
<1>1. CASE \E p \in Procs : Validation(p)
  BY <1>1, ValidationMinded
<1>2. CASE \A p \in Procs : ~Validation(p)
  BY <1>2, OtherSteps DEF HaltInv, Minded
<1>3. QED
  BY <1>1, <1>2

\* A halt that has stood since a capital move's last validation began, and the
\* in-process freeze, keep the move from its executor, in whatever order the
\* scopes are read and whoever sets and clears halts between the reads
\* (_process_created, _execute, validate, halt_active).
THEOREM HaltsStopCapital == Spec => HaltStopsCapital
<1>1. Init => HaltInv
  BY DEF Init, HaltInv, Validating
<1>2. TypeInv /\ HaltInv /\ [Next]_vars => HaltInv'
  BY NextMinded
<1>3. TypeInv /\ HaltInv /\ [Next]_vars =>
        [\A p \in Procs :
           /\ pc[p] # "launch" /\ pc'[p] = "launch" /\ cur[p] \in Capital
           => stood[p] = {} /\ ~frozen[p]]_vars
  BY NextMinded
<1>4. QED
  BY <1>1, <1>2, <1>3, InitTypeInv, NextTypeInv, PTL DEF Spec, HaltStopsCapital

-----------------------------------------------------------------------------
(***************************************************************************)
(* In-doubt moves.  The freeze is made where the executor's answer cannot  *)
(* be relied on, the outcome is recorded a step later; in between, halts   *)
(* are set by others and processes die.  An operator who clears the halt   *)
(* of capital moves in that gap has decided so, and is left out.           *)
(***************************************************************************)
Ends(p) == pc[p] \in {"finish", "finishing"}
MoveFrozen ==
  \A p \in Procs : Ends(p) /\ plan[p] = "IN_DOUBT" /\ cur[p] \in Capital
                     => halted["capital_moves"] \/ frozen[p]

\* What InDoubtMoveFreezes says of one step.
MoveStep ==
  \A i \in Capital : outcome[i] # "IN_DOUBT" /\ outcome'[i] = "IN_DOUBT" /\ invocations[i] > 0
    => HaltActive("capital_moves")' \/ \E p \in Procs : frozen'[p]

\* A step keeps the freeze of every process it does not end, and nothing that
\* is about to be recorded in doubt comes from elsewhere than an executor.
LEMMA FreezeStays ==
  ASSUME TypeInv, [Next]_vars, "capital_moves" \notin OperatorScopes
  PROVE  /\ halted["capital_moves"] => halted'["capital_moves"]
         /\ \A q \in Procs : Ends(q)' /\ plan'[q] = "IN_DOUBT" /\ cur'[q] \in Capital =>
              \/ Ends(q) /\ plan[q] = "IN_DOUBT" /\ cur[q] \in Capital
                 /\ (frozen[q] => frozen'[q])
              \/ halted'["capital_moves"] \/ frozen'[q]
<1> DEFINE Doubt(q) == Ends(q) /\ plan[q] = "IN_DOUBT" /\ cur[q] \in Capital
           Stays(q) == Ends(q)' /\ plan'[q] = "IN_DOUBT" /\ cur'[q] \in Capital =>
                         \/ Doubt(q) /\ (frozen[q] => frozen'[q])
                         \/ halted'["capital_moves"] \/ frozen'[q]
           Held == halted["capital_moves"] => halted'["capital_moves"]
<1> SUFFICES ASSUME NEW q \in Procs PROVE Held /\ Stays(q)
  <2>1. CASE Procs = {}
    <3>1. Held
      BY <2>1, WorkerAssumption DEF Next, Propose, OperatorActs, RecordHalt, ClearHalt, Tick, vars,
         store, Procs, TypeInv, TypeOK, QueueTypeOK, Scopes
    <3> QED BY <2>1, <3>1
  <2>2. CASE Procs # {}
    BY <2>2
  <2> QED BY <2>1, <2>2
<1> USE DEF TypeInv, TypeOK, QueueTypeOK, Procs, Ends
<1>1. CASE (\E i \in Intents : Propose(i)) \/ Tick \/ UNCHANGED vars
  BY <1>1 DEF Propose, Tick, vars, work, store
<1>2. ASSUME NEW s \in Scopes, OperatorActs(s) PROVE Held /\ Stays(q)
  BY <1>2 DEF OperatorActs, RecordHalt, ClearHalt, Scopes, work
<1>3. ASSUME NEW w \in Workers,
             Acquire(w) \/ StartBatch(w) \/ Fetch(w) \/ EndBatch(w) \/ Stop(w)
      PROVE  Held /\ Stays(q)
  BY <1>3 DEF Acquire, StartBatch, Fetch, EndBatch, Stop, Raise, Drop, Goto, work, store
<1>4. ASSUME NEW w \in Workers, Preflight(w) PROVE Held /\ Stays(q)
  BY <1>4 DEF Preflight, Goto, NoFreeze, FreezeCapital, RecordHalt, WriteResults, work, Scopes
<1>5. ASSUME NEW w \in Workers, NEW i \in Intents, NextIntent(w, i) PROVE Held /\ Stays(q)
  BY <1>5 DEF NextIntent, Drop, Goto
<1>6. ASSUME NEW w \in Workers, Claim(w) \/ RefuseRetry(w) \/ ReadStored(w) \/ CheckLedger(w)
      PROVE  Held /\ Stays(q)
  <2>1. CASE RefuseRetry(w)
    BY <2>1 DEF RefuseRetry, Raise, Drop, Goto
  <2> QED BY <1>6, <2>1 DEF Claim, ReadStored, CheckLedger, Raise, Drop, Goto, work, store
<1>7. ASSUME NEW p \in Procs, Crash(p) \/ (p \in Workers /\ Close(p)) PROVE Held /\ Stays(q)
  BY <1>7 DEF Crash, Close, Vanish, Drop, Goto, store
<1>8. ASSUME NEW c \in Callers, NEW i \in Intents, DirectProcess(c, i) PROVE Held /\ Stays(q)
  BY <1>8 DEF DirectProcess, Goto
<1>9. ASSUME NEW p \in Procs, Validation(p) PROVE Held /\ Stays(q)
  <2>1. NoFreeze \/ \E r \in WriteResults : FreezeCapital(p, r)
    BY <1>9, Zenon DEF Validation, Screen, ReadHalt, RulesReject, PassScreen, Recheck, NoFreeze, store
  <2>2. Held /\ (frozen[q] => frozen'[q])
    BY <2>1 DEF NoFreeze, FreezeCapital, RecordHalt, Scopes
  <2> QED BY <1>9, <2>2, ValidationMoves DEF Goto, Plan, work
<1>10. ASSUME NEW p \in Procs, Invoke(p) \/ OpenForAppend(p) \/ Finish(p) PROVE Held /\ Stays(q)
  <2>1. CASE Finish(p)
    <3>1. (Returned(p) \/ Raise(p)) /\ UNCHANGED <<halted, frozen>>
      BY <2>1 DEF Finish
    <3> QED BY <3>1 DEF Returned, Raise, Drop, Goto, work
  <2>2. CASE Invoke(p)
    BY <2>2 DEF Invoke, Goto, work, store
  <2>3. CASE OpenForAppend(p)
    <3>1. /\ Goto(p, "refusing") \/ Goto(p, "persisting") \/ (pc[p] = "finish" /\ Goto(p, "finishing"))
          /\ UNCHANGED <<work, halted, frozen>>
      BY <2>3 DEF OpenForAppend, Inserting, store
    <3> QED BY <3>1 DEF Goto, work
  <2> QED BY <1>10, <2>1, <2>2, <2>3
<1>11. ASSUME NEW p \in Procs, ExecutorReturns(p) PROVE Held /\ Stays(q)
  <2>1. CASE /\ Goto(p, "persist") /\ UNCHANGED <<work, halted, frozen>>
    BY <2>1 DEF Goto, work
  <2>2. CASE Plan(p, "HARD_STOP") /\ UNCHANGED <<halted, frozen>>
    BY <2>2 DEF Plan, Goto
  <2>3. CASE cur[p] \in Capital /\ Plan(p, "IN_DOUBT") /\ \E r \in WriteResults : FreezeCapital(p, r)
    <3>1. PICK r \in WriteResults : FreezeCapital(p, r)
      BY <2>3
    <3>2. Held /\ (r # "lost" => halted'["capital_moves"]) /\ (r = "lost" => frozen'[p])
      BY <3>1 DEF FreezeCapital, RecordHalt, Scopes
    <3>3. frozen[q] => frozen'[q]
      BY <3>1 DEF FreezeCapital
    <3>4. q # p => pc'[q] = pc[q] /\ plan'[q] = plan[q] /\ cur'[q] = cur[q]
      BY <2>3 DEF Plan, Goto
    <3> QED BY <3>2, <3>3, <3>4
  <2>4. CASE cur[p] \notin Capital /\ Plan(p, "IN_DOUBT") /\ NoFreeze
    BY <2>4 DEF Plan, Goto, NoFreeze
  <2> QED BY <1>11, <2>1, <2>2, <2>3, <2>4 DEF ExecutorReturns
<1>12. ASSUME NEW p \in Procs, PersistExecuted(p) PROVE Held /\ Stays(q)
  <2>1. NoFreeze \/ \E h \in WriteResults : FreezeCapital(p, h)
    BY <1>12 DEF PersistExecuted
  <2>2. Held /\ (frozen[q] => frozen'[q])
    BY <2>1 DEF NoFreeze, FreezeCapital, RecordHalt, Scopes
  <2>3. /\ q # p => pc'[q] = pc[q] /\ plan'[q] = plan[q] /\ cur'[q] = cur[q]
        /\ q = p => pc'[q] \in {"check", "down"}
    BY <1>12 DEF PersistExecuted, Returned, Drop, Goto, work
  <2> QED BY <2>2, <2>3
<1> QED
  BY <1>1, <1>2, <1>3, <1>4, <1>5, <1>6, <1>7, <1>8, <1>9, <1>10, <1>11, <1>12
     DEF Next, WorkerStep, CallerStep, Pipeline

LEMMA NextMoveFrozen ==
  ASSUME TypeInv, MoveFrozen, [Next]_vars, "capital_moves" \notin OperatorScopes
  PROVE  MoveFrozen'
  BY FreezeStays DEF MoveFrozen, Procs

\* In doubt is recorded by a pipeline that ends, or by a worker that finds its
\* intent claimed already.
LEMMA NextMoveStep ==
  ASSUME TypeInv, MoveFrozen, [Next]_vars, \A w \in Workers : ~RefuseRetry(w)
  PROVE  MoveStep
<1> SUFFICES ASSUME NEW i \in Capital, outcome[i] # "IN_DOUBT", outcome'[i] = "IN_DOUBT"
             PROVE  HaltActive("capital_moves")' \/ \E p \in Procs : frozen'[p]
  BY DEF MoveStep
<1> USE DEF TypeInv, TypeOK, QueueTypeOK
<1>0. i \in Intents
  BY WorkerAssumption
<1>a. ASSUME NEW p \in Procs, Validation(p) PROVE outcome' = outcome
  BY <1>a, ValidationMoves
<1>1. PICK p \in Procs : Finish(p) \/ PersistExecuted(p)
  BY <1>a, ZenonT(40) DEF Next, WorkerStep, CallerStep, Pipeline, Procs, Propose, OperatorActs, Acquire, StartBatch,
     Preflight, Fetch, NextIntent, EndBatch, Claim, ReadStored, DirectProcess, OpenForAppend,
     Invoke, ExecutorReturns, CheckLedger, Close, Stop, Crash, Tick, vars, store
<1>2. ~ PersistExecuted(p)
  <2> SUFFICES ASSUME PersistExecuted(p) PROVE FALSE
    OBVIOUS
  <2>1. PICK r \in AppendResults : RecordOutcome(p, "persist", "EXECUTED", r)
    BY DEF PersistExecuted
  <2>2. outcome' = outcome \/ outcome' = [outcome EXCEPT ![cur[p]] = "EXECUTED"]
    BY <2>1 DEF RecordOutcome, AppendRefused, AppendEvent
  <2> QED BY <1>0, <2>2
<1>3. Finish(p)
  BY <1>1, <1>2
<1>4. PICK r \in AppendResults : RecordOutcome(p, "finish", plan[p], r)
  BY <1>3 DEF Finish
<1>5. outcome' = outcome \/ outcome' = [outcome EXCEPT ![cur[p]] = plan[p]]
  BY <1>4 DEF RecordOutcome, AppendRefused, AppendEvent
<1>6. cur[p] = i /\ plan[p] = "IN_DOUBT"
  BY <1>0, <1>5
<1>7. Ends(p) /\ halted' = halted /\ frozen' = frozen
  BY <1>3, <1>4 DEF Finish, RecordOutcome, Inserting, Ends
<1>8. halted["capital_moves"] \/ frozen[p]
  BY <1>6, <1>7 DEF MoveFrozen
<1> QED BY <1>7, <1>8 DEF HaltActive

\* Whoever crashes or fails to write, a capital move is recorded in doubt only
\* while capital is frozen, with one exception: the worker that finds a move
\* claimed by a predecessor and records it without freezing (worker.py:88).
THEOREM OnlyRefusalsDoNotFreeze ==
  ASSUME "capital_moves" \notin OperatorScopes
  PROVE  Spec => [][(\E w \in Workers : RefuseRetry(w)) \/ MoveStep]_vars
<1>1. Init => MoveFrozen
  BY DEF Init, MoveFrozen
<1>2. TypeInv /\ MoveFrozen /\ [Next]_vars => MoveFrozen'
  BY NextMoveFrozen
<1>3. TypeInv /\ MoveFrozen /\ [Next]_vars => [(\E w \in Workers : RefuseRetry(w)) \/ MoveStep]_vars
  BY NextMoveStep
<1>4. QED
  BY <1>1, <1>2, <1>3, InitTypeInv, NextTypeInv, PTL DEF Spec

\* Where nobody but direct callers handles intents there is no exception
\* (InDoubtMoveFreezes; broker.py:276).
THEOREM InDoubtFreezes ==
  ASSUME Workers = {}, "capital_moves" \notin OperatorScopes
  PROVE  Spec => InDoubtMoveFreezes
<1>1. [(\E w \in Workers : RefuseRetry(w)) \/ MoveStep]_vars =>
        [\A i \in Capital : outcome[i] # "IN_DOUBT" /\ outcome'[i] = "IN_DOUBT" /\ invocations[i] > 0
           => HaltActive("capital_moves")' \/ \E p \in Procs : frozen'[p]]_vars
  BY Workers = {} DEF MoveStep
<1>2. QED
  BY <1>1, OnlyRefusalsDoNotFreeze, PTL DEF InDoubtMoveFreezes

-----------------------------------------------------------------------------
(***************************************************************************)
(* Direct callers alone.  They take no claim: the upsert that makes the    *)
(* row is what gives an intent to one call, so what the claim was to the   *)
(* workers the row is to them.                                             *)
(***************************************************************************)
\* An intent whose row nobody made is untouched.
UntouchedRow ==
  \A i \in Intents :
    ~Submitted(i) => invocations[i] = 0 /\ outcome[i] = "PENDING" /\ i \notin verified

\* What LedgerMatchesWorld says without the claim, which they do not take.
LedgerIsTrue ==
  \A i \in Intents :
    /\ outcome[i] = "REJECTED" => invocations[i] = 0
    /\ outcome[i] = "EXECUTED" => i \in verified
    /\ i \in verified => outcome[i] \in {"PENDING", "EXECUTED", "IN_DOUBT"}

DirectInv ==
  /\ AtMostOnce
  /\ LedgerIsTrue
  /\ UntouchedRow
  /\ \A p \in Procs : ~Refuses(p) /\ (Attempt(p) => Submitted(cur[p]))
  /\ SoleAttempt
  /\ Stage
  /\ VerifiedWasInvoked

LEMMA InitDirectInv == Init => DirectInv
  BY DEF Init, QueueInit, DirectInv, AtMostOnce, LedgerIsTrue, UntouchedRow, SoleAttempt, Stage, StageOf,
         VerifiedWasInvoked, Attempt, Before, Refuses

\* A row stays, and the call that is told it made the row did make it.
LEMMA SubmitMakesRow ==
  ASSUME TypeOK, NEW i \in Intents, NEW created \in BOOLEAN, Submit(i, created)
  PROVE  /\ \A j \in Intents : Submitted(j) => Submitted(j)'
         /\ Submitted(i)'
         /\ created => ~Submitted(i)
<1> USE DEF TypeOK, QueueTypeOK
<1>1. CASE created
  <2>1. id' = [id EXCEPT ![i] = lastId + 1] /\ ~Submitted(i)
    BY <1>1, Zenon DEF Submit
  <2>2. id'[i] = lastId + 1 /\ \A j \in Intents : j # i => id'[j] = id[j]
    BY <2>1
  <2>3. lastId + 1 > 0
    OBVIOUS
  <2> QED BY <2>1, <2>2, <2>3 DEF Submitted
<1>2. CASE ~created
  BY <1>2 DEF Submit, Submitted
<1> QED BY <1>1, <1>2

\* A process goes on with its own intent, whose row stands: only its stage and
\* the untouched rows are to be looked at.
LEMMA DirectMoves ==
  ASSUME TypeInv, TypeInv', DirectInv, NEW p \in Procs, cur[p] \in Intents, Attempt(p),
         UNCHANGED <<id, cur, outcome>>, Open(cur[p]),
         \A q \in Procs : q # p => pc'[q] = pc[q] /\ plan'[q] = plan[q],
         \A i \in Intents : i # cur[p] =>
           invocations'[i] = invocations[i] /\ (i \in verified' <=> i \in verified),
         invocations'[cur[p]] <= 1,
         cur[p] \in verified' => invocations'[cur[p]] = 1,
         Attempt(p)', StageOf(p)'
  PROVE  DirectInv'
<1> USE DEF TypeInv, TypeOK, QueueTypeOK
<1>1. Submitted(cur[p]) /\ Submitted(cur[p])'
  BY DEF DirectInv, Submitted
<1>2. AtMostOnce' /\ UntouchedRow' /\ VerifiedWasInvoked'
  <2>1. AtMostOnce' /\ VerifiedWasInvoked'
    BY DEF DirectInv, AtMostOnce, VerifiedWasInvoked
  <2>2. ASSUME NEW i \in Intents, ~Submitted(i)'
        PROVE  i # cur[p] /\ invocations'[i] = 0 /\ outcome'[i] = "PENDING" /\ i \notin verified'
    BY <1>1, <2>2 DEF DirectInv, UntouchedRow, Submitted
  <2> QED BY <2>1, <2>2 DEF UntouchedRow
<1>3. LedgerIsTrue'
  BY DEF DirectInv, LedgerIsTrue, Open
<1>4. ASSUME NEW q \in Procs, q # p, Attempt(q)'
      PROVE  Attempt(q) /\ cur[q] # cur[p] /\ cur[q] \in Intents
  BY <1>4 DEF Attempt, DirectInv, SoleAttempt, HasIntent, Working
<1>5. \A q \in Procs : ~Refuses(q)' /\ (Attempt(q)' => Submitted(cur[q])')
  BY <1>1, <1>4 DEF DirectInv, Submitted, Attempt, Refuses
<1>6. SoleAttempt'
  BY <1>4 DEF DirectInv, SoleAttempt
<1>7. Stage'
  <2> SUFFICES ASSUME NEW q \in Procs, q # p PROVE StageOf(q)'
    BY DEF Stage
  <2>1. CASE Attempt(q)'
    <3>1. cur[q] # cur[p] /\ cur[q] \in Intents
      BY <1>4, <2>1
    <3>2. /\ invocations'[cur[q]] = invocations[cur[q]]
          /\ cur[q] \in verified' <=> cur[q] \in verified
          /\ pc'[q] = pc[q] /\ plan'[q] = plan[q]
      BY <3>1
    <3>3. StageOf(q)
      BY DEF DirectInv, Stage
    <3> QED BY <3>2, <3>3 DEF StageOf, Open, Before
  <2>2. CASE ~Attempt(q)'
    BY <2>2 DEF Attempt, Before, StageOf
  <2> QED BY <2>1, <2>2
<1> QED BY <1>2, <1>5, <1>6, <1>7, <1>3 DEF DirectInv

\* A process that leaves, having recorded its outcome or not, disturbs nothing.
LEMMA DirectLeaves ==
  ASSUME TypeInv, TypeInv', DirectInv, NEW p \in Procs, Drop(p, "down", {}),
         UNCHANGED <<id, invocations, verified>>,
         \/ outcome' = outcome
         \/ Attempt(p) /\ \E s \in Terminal : Lifecycle!ADecide(cur[p], s)
  PROVE  DirectInv'
<1> USE DEF TypeInv, TypeOK, QueueTypeOK
<1>1. pc'[p] = "down" /\ \A q \in Procs : q # p => pc'[q] = pc[q] /\ cur'[q] = cur[q] /\ plan'[q] = plan[q]
  BY DEF Drop, Goto
<1>2. \A q \in Procs : Attempt(q)' => q # p /\ Attempt(q)
  BY <1>1 DEF Attempt
<1>3. /\ AtMostOnce' /\ VerifiedWasInvoked' /\ SoleAttempt'
      /\ \A q \in Procs : ~Refuses(q)' /\ (Attempt(q)' => Submitted(cur[q])')
  BY <1>1, <1>2 DEF DirectInv, AtMostOnce, VerifiedWasInvoked, SoleAttempt, Submitted, Refuses
<1>4. UntouchedRow' /\ LedgerIsTrue'
  <2>1. CASE outcome' = outcome
    BY <2>1 DEF DirectInv, UntouchedRow, LedgerIsTrue, Submitted
  <2>2. ASSUME NEW s \in Terminal, Lifecycle!ADecide(cur[p], s), Attempt(p)
        PROVE  UntouchedRow' /\ LedgerIsTrue'
    <3>1. cur[p] \in Intents /\ Submitted(cur[p])
      BY <2>2 DEF HasIntent, Working, Attempt, DirectInv
    <3>2. outcome'[cur[p]] = s /\ \A i \in Intents : i # cur[p] => outcome'[i] = outcome[i]
      BY <2>2, <3>1 DEF Lifecycle!ADecide
    <3>3. UntouchedRow'
      BY <3>1, <3>2 DEF DirectInv, UntouchedRow, Submitted
    <3>4. /\ s = "EXECUTED" => cur[p] \in verified
          /\ s = "REJECTED" => invocations[cur[p]] = 0
          /\ cur[p] \in verified => s \in {"EXECUTED", "IN_DOUBT"}
      BY <2>2 DEF Lifecycle!ADecide, DirectInv, VerifiedWasInvoked
    <3>5. LedgerIsTrue'
      BY <3>2, <3>4 DEF DirectInv, LedgerIsTrue
    <3> QED BY <3>3, <3>5
  <2> QED BY <2>1, <2>2
<1>5. ASSUME NEW q \in Procs, Attempt(q)'
      PROVE  /\ q # p /\ outcome'[cur[q]] = outcome[cur[q]]
             /\ pc'[q] = pc[q] /\ cur'[q] = cur[q] /\ plan'[q] = plan[q]
  <2>1. q # p /\ pc'[q] = pc[q] /\ cur'[q] = cur[q] /\ plan'[q] = plan[q]
    BY <1>1, <1>2, <1>5
  <2>2. Attempt(p) => cur[q] # cur[p] /\ cur[q] \in Intents
    BY <1>2, <1>5, <2>1 DEF DirectInv, SoleAttempt, HasIntent, Working, Attempt
  <2>3. outcome'[cur[q]] = outcome[cur[q]]
    BY <2>2 DEF Lifecycle!ADecide
  <2> QED BY <2>1, <2>3
<1>6. Stage'
  BY <1>5 DEF DirectInv, Stage, StageOf, Open, Before, Attempt
<1> QED BY <1>3, <1>4, <1>6 DEF DirectInv

\* What the two last steps of a direct call record: an outcome its stage allows.
LEMMA DirectRecords ==
  ASSUME Workers = {}, TypeInv, DirectInv, NEW c \in Callers, PersistExecuted(c) \/ Finish(c)
  PROVE  /\ c \in Procs /\ Attempt(c) /\ cur[c] \in Intents /\ Drop(c, "down", {})
         /\ UNCHANGED <<id, world>>
         /\ \/ outcome' = outcome
            \/ \E s \in Terminal : Lifecycle!ADecide(cur[c], s)
<1>1. /\ c \in Procs /\ Attempt(c) /\ cur[c] \in Intents /\ Drop(c, "down", {})
      /\ UNCHANGED <<id, world>>
  BY Workers = {}
     DEF PersistExecuted, Finish, RecordOutcome, Inserting, Attempt, TypeInv, HasIntent, Working,
         Returned, Raise, Procs
<1>2. /\ cur[c] \in {i \in Intents : Submitted(i)}
      /\ UNCHANGED <<{i \in Intents : Submitted(i)}, invocations, verified>>
  BY <1>1 DEF DirectInv, Submitted, world
<1>3. \/ outcome' = outcome
      \/ \E s \in Terminal :
           /\ outcome' = [outcome EXCEPT ![cur[c]] = s]
           /\ s = "EXECUTED" => cur[c] \in verified
           /\ s = "REJECTED" => invocations[cur[c]] = 0
           /\ s = "HARD_STOP" => cur[c] \notin verified
           /\ Open(cur[c]) \/ s = "IN_DOUBT"
  BY <1>1, WriteIsTrue DEF DirectInv, Writers
<1>4. ASSUME NEW s \in Terminal,
             /\ outcome' = [outcome EXCEPT ![cur[c]] = s]
             /\ s = "EXECUTED" => cur[c] \in verified
             /\ s = "REJECTED" => invocations[cur[c]] = 0
             /\ s = "HARD_STOP" => cur[c] \notin verified
             /\ Open(cur[c]) \/ s = "IN_DOUBT"
      PROVE  Lifecycle!ADecide(cur[c], s)
  BY <1>2, <1>4 DEF Lifecycle!ADecide, Open, Terminal
<1> QED BY <1>1, <1>3, <1>4

LEMMA NextDirectInv ==
  ASSUME Workers = {}, TypeInv, TypeInv', DirectInv, [Next]_vars
  PROVE  DirectInv'
<1> USE DEF TypeInv, TypeOK, QueueTypeOK
<1>1. ASSUME UNCHANGED <<invocations, verified, outcome, pc, cur, plan>>,
             \A i \in Intents : Submitted(i) => Submitted(i)'
      PROVE  DirectInv'
  <2>1. AtMostOnce' /\ LedgerIsTrue' /\ UntouchedRow' /\ VerifiedWasInvoked'
    BY <1>1 DEF DirectInv, AtMostOnce, LedgerIsTrue, UntouchedRow, VerifiedWasInvoked
  <2>2. SoleAttempt' /\ Stage'
    BY <1>1 DEF DirectInv, SoleAttempt, Attempt, Stage, StageOf, Before, Open
  <2>4. \A p \in Procs : ~Refuses(p)'
    BY <1>1 DEF DirectInv, Refuses
  <2>3. ASSUME NEW p \in Procs, Attempt(p)' PROVE Submitted(cur[p])'
    <3>1. Attempt(p) /\ cur[p] \in Intents /\ cur'[p] = cur[p]
      BY <1>1, <2>3 DEF Attempt, HasIntent, Working
    <3>2. id'[cur[p]] > 0
      BY <1>1, <3>1 DEF DirectInv, Submitted
    <3> QED BY <3>1, <3>2, Zenon DEF Submitted
  <2> QED BY <2>1, <2>2, <2>3, <2>4 DEF DirectInv
<1>2. ASSUME NEW i \in Intents, Propose(i) PROVE DirectInv'
  BY <1>1, <1>2, SubmitMakesRow DEF Propose, work, world
<1>3. ASSUME NEW c \in Callers, NEW i \in Intents, DirectProcess(c, i) PROVE DirectInv'
  <2>1. PICK created \in BOOLEAN :
          /\ Submit(i, created)
          /\ IF created THEN Goto(c, "validate") /\ cur' = [cur EXCEPT ![c] = i]
                        ELSE UNCHANGED <<pc, cur>>
    BY <1>3 DEF DirectProcess
  <2>2. UNCHANGED <<invocations, verified, outcome, plan>>
    BY <1>3 DEF DirectProcess, world
  <2>3. CASE ~created
    BY <1>1, <2>1, <2>2, <2>3, SubmitMakesRow
  <2>4. CASE created
    <3>1. /\ c \in Procs /\ pc'[c] = "validate" /\ cur'[c] = i
          /\ \A q \in Procs : q # c => pc'[q] = pc[q] /\ cur'[q] = cur[q]
      BY <2>1, <2>4 DEF Goto, Procs
    <3>2. /\ \A j \in Intents : Submitted(j) => Submitted(j)'
          /\ Submitted(i)' /\ ~Submitted(i)
      BY <2>1, <2>4, SubmitMakesRow
    <3>3. invocations[i] = 0 /\ outcome[i] = "PENDING" /\ i \notin verified
      BY <3>2 DEF DirectInv, UntouchedRow
    <3>4. \A q \in Procs : q # c /\ Attempt(q)' =>
            Attempt(q) /\ cur'[q] = cur[q] /\ cur[q] \in Intents /\ Submitted(cur[q]) /\ cur[q] # i
      BY <3>1, <3>2 DEF Attempt, DirectInv, HasIntent, Working
    <3>5. AtMostOnce' /\ LedgerIsTrue' /\ VerifiedWasInvoked' /\ UntouchedRow'
      BY <2>2, <3>2 DEF DirectInv, AtMostOnce, LedgerIsTrue, VerifiedWasInvoked, UntouchedRow
    <3>6. ASSUME NEW q \in Procs, Attempt(q)' PROVE Submitted(cur[q])'
      <4>1. CASE q = c
        BY <3>1, <3>2, <4>1, Zenon DEF Submitted
      <4>2. CASE q # c
        <5>1. cur'[q] = cur[q] /\ cur[q] \in Intents /\ Submitted(cur[q])
          BY <3>4, <3>6, <4>2
        <5>2. id'[cur[q]] > 0
          BY <3>2, <5>1 DEF Submitted
        <5> QED BY <5>1, <5>2, Zenon DEF Submitted
      <4> QED BY <4>1, <4>2
    <3>7. SoleAttempt'
      BY <3>1, <3>4 DEF DirectInv, SoleAttempt
    <3>8. Stage'
      <4>1. ASSUME NEW q \in Procs, q # c
            PROVE  pc'[q] = pc[q] /\ cur'[q] = cur[q] /\ plan'[q] = plan[q]
        BY <2>2, <3>1, <4>1
      <4> QED BY <2>2, <3>1, <3>3, <4>1 DEF DirectInv, Stage, StageOf, Open, Before
    <3>9. \A q \in Procs : ~Refuses(q)'
      BY <3>1 DEF DirectInv, Refuses
    <3> QED BY <3>5, <3>6, <3>7, <3>8, <3>9 DEF DirectInv
  <2> QED BY <2>3, <2>4
<1>4. ASSUME NEW c \in Callers, Validation(c), UNCHANGED <<pc, cur, plan>>
      PROVE  DirectInv'
  BY <1>1, <1>4, ValidationMoves DEF world, Procs, Submitted
<1>10. ASSUME NEW c \in Callers, Validation(c), pc' # pc PROVE DirectInv'
  <2>1. /\ c \in Procs /\ Before(c) /\ Attempt(c) /\ cur[c] \in Intents
        /\ UNCHANGED <<id, outcome, world>>
    BY <1>10, ValidationMoves DEF Procs, Before, Attempt, HasIntent, Working
  <2>2. \/ UNCHANGED work /\ \E next \in {"screening", "recheck", "launch"} : Goto(c, next)
        \/ \E status \in {"REJECTED", "HARD_STOP"} : Plan(c, status)
    BY <1>10, ValidationMoves DEF Procs
  <2>3. /\ UNCHANGED cur
        /\ \A q \in Procs : q # c => pc'[q] = pc[q] /\ plan'[q] = plan[q]
        /\ \/ pc'[c] \in {"screening", "recheck", "launch"}
           \/ pc'[c] = "finish" /\ plan'[c] \in {"REJECTED", "HARD_STOP"}
    BY <2>1, <2>2 DEF Plan, Goto, work
  <2>4. invocations[cur[c]] = 0 /\ Open(cur[c]) /\ cur[c] \notin verified
    BY <2>1 DEF DirectInv, Stage, StageOf, VerifiedWasInvoked
  <2>5. StageOf(c)' /\ Attempt(c)'
    BY <2>1, <2>3, <2>4 DEF StageOf, Attempt, world, Before, Open
  <2>6. /\ \A i \in Intents : i # cur[c] =>
             invocations'[i] = invocations[i] /\ (i \in verified' <=> i \in verified)
        /\ invocations'[cur[c]] <= 1
        /\ cur[c] \in verified' => invocations'[cur[c]] = 1
    BY <2>1, <2>4 DEF world
  <2> QED BY <2>1, <2>3, <2>4, <2>5, <2>6, DirectMoves
<1>11. ASSUME NEW c \in Callers, OpenForAppend(c) PROVE DirectInv'
  <2>1. /\ c \in Procs /\ Attempt(c) /\ cur[c] \in Intents
        /\ UNCHANGED <<id, outcome, world, cur, plan>>
        /\ \A q \in Procs : q # c => pc'[q] = pc[q]
        /\ \/ pc[c] = "persist" /\ pc'[c] = "persisting"
           \/ pc[c] = "finish" /\ pc'[c] = "finishing"
    <3>1. /\ c \in Procs /\ pc[c] \in {"persist", "finish"} /\ Goto(c, Inserting[pc[c]])
          /\ UNCHANGED <<store, work, world>>
      BY <1>11 DEF OpenForAppend, Inserting, Procs, DirectInv, Refuses
    <3>2. Attempt(c) /\ cur[c] \in Intents
      BY <3>1 DEF Attempt, HasIntent, Working
    <3> QED BY <3>1, <3>2 DEF Goto, Inserting, store, work
  <2>2. StageOf(c) /\ invocations[cur[c]] <= 1 /\ (cur[c] \in verified => invocations[cur[c]] = 1)
    BY <2>1 DEF DirectInv, Stage, VerifiedWasInvoked, AtMostOnce
  <2>3. StageOf(c)' /\ Attempt(c)' /\ Open(cur[c])
    BY <2>1, <2>2 DEF StageOf, Attempt, world, Before, Open
  <2> QED BY <2>1, <2>2, <2>3, DirectMoves DEF world
<1>5. ASSUME NEW c \in Callers, Invoke(c) PROVE DirectInv'
  <2>1. /\ c \in Procs /\ Before(c) /\ Attempt(c) /\ cur[c] \in Intents
        /\ UNCHANGED <<id, outcome, cur, plan, verified>>
        /\ pc'[c] = "executing" /\ \A q \in Procs : q # c => pc'[q] = pc[q]
    BY <1>5 DEF Invoke, Procs, Before, Attempt, HasIntent, Working, Goto, store, work
  <2>2. invocations[cur[c]] = 0 /\ Open(cur[c]) /\ cur[c] \notin verified
    BY <2>1 DEF DirectInv, Stage, StageOf, VerifiedWasInvoked
  <2>3. /\ invocations'[cur[c]] = 1
        /\ \A j \in Intents : j # cur[c] => invocations'[j] = invocations[j]
    BY <1>5, <2>1, <2>2 DEF Invoke
  <2>4. StageOf(c)' /\ Attempt(c)'
    BY <2>1, <2>2, <2>3 DEF StageOf, Attempt, Before, Open
  <2>5. /\ \A i \in Intents : i # cur[c] =>
             invocations'[i] = invocations[i] /\ (i \in verified' <=> i \in verified)
        /\ invocations'[cur[c]] <= 1
        /\ cur[c] \in verified' => invocations'[cur[c]] = 1
    BY <2>1, <2>2, <2>3
  <2> QED BY <2>1, <2>2, <2>4, <2>5, DirectMoves
<1>6. ASSUME NEW c \in Callers, ExecutorReturns(c) PROVE DirectInv'
  <2>1. /\ c \in Procs /\ pc[c] = "executing" /\ Attempt(c) /\ cur[c] \in Intents
        /\ UNCHANGED <<id, outcome, invocations>>
    BY <1>6 DEF ExecutorReturns, Procs, Attempt, HasIntent, Working
  <2>2. \/ Goto(c, "persist") /\ UNCHANGED work /\ verified' = verified \cup {cur[c]}
        \/ UNCHANGED verified /\ \E status \in {"IN_DOUBT", "HARD_STOP"} : Plan(c, status)
    BY <1>6 DEF ExecutorReturns
  <2>3. /\ UNCHANGED cur
        /\ \A q \in Procs : q # c => pc'[q] = pc[q] /\ plan'[q] = plan[q]
        /\ \/ pc'[c] = "persist" /\ verified' = verified \cup {cur[c]}
           \/ pc'[c] = "finish" /\ plan'[c] \in {"IN_DOUBT", "HARD_STOP"} /\ verified' = verified
    BY <2>1, <2>2 DEF Plan, Goto, work
  <2>4. invocations[cur[c]] = 1 /\ Open(cur[c]) /\ cur[c] \notin verified
    BY <2>1 DEF DirectInv, Stage, StageOf
  <2>5. StageOf(c)' /\ Attempt(c)'
    BY <2>1, <2>3, <2>4 DEF StageOf, Attempt, Before, Open
  <2>6. /\ \A i \in Intents : i # cur[c] =>
             invocations'[i] = invocations[i] /\ (i \in verified' <=> i \in verified)
        /\ invocations'[cur[c]] <= 1
        /\ cur[c] \in verified' => invocations'[cur[c]] = 1
    BY <2>1, <2>3, <2>4
  <2> QED BY <2>1, <2>3, <2>4, <2>5, <2>6, DirectMoves
<1>7. ASSUME NEW c \in Callers, PersistExecuted(c) \/ Finish(c) PROVE DirectInv'
  <2>1. /\ c \in Procs /\ Attempt(c) /\ Drop(c, "down", {}) /\ UNCHANGED <<id, world>>
        /\ outcome' = outcome \/ \E s \in Terminal : Lifecycle!ADecide(cur[c], s)
    BY Workers = {}, <1>7, DirectRecords
  <2> QED BY <2>1, DirectLeaves DEF world
<1>8. ASSUME NEW p \in Procs, Crash(p) PROVE DirectInv'
  <2>1. Drop(p, "down", {}) /\ UNCHANGED <<id, outcome, invocations, verified>>
    BY <1>8 DEF Crash, Vanish, store, world
  <2> QED BY <2>1, DirectLeaves
<1>9. CASE (\E s \in Scopes : OperatorActs(s)) \/ Tick \/ UNCHANGED vars
  BY <1>1, <1>9 DEF OperatorActs, Tick, vars, store, work, world, Submitted
<1>12. ASSUME NEW c \in Callers, Validation(c) PROVE DirectInv'
  <2>1. CASE pc' = pc
    <3>1. UNCHANGED <<pc, cur, plan>>
      <4>1. pc[c] \in {"validate", "screening", "recheck"} /\ c \in Procs
        BY <1>12, ValidationMoves DEF Procs
      <4>2. ~ \E status \in {"REJECTED", "HARD_STOP"} : Plan(c, status)
        BY <2>1, <4>1 DEF Plan, Goto
      <4> QED BY <1>12, <2>1, <4>1, <4>2, ValidationMoves DEF work
    <3> QED BY <1>4, <1>12, <3>1
  <2> QED BY <1>10, <1>12, <2>1
<1> QED
  BY Workers = {}, <1>2, <1>3, <1>5, <1>6, <1>7, <1>8, <1>9, <1>11, <1>12 DEF Next, CallerStep, Pipeline

LEMMA DirectAlways == ASSUME Workers = {} PROVE Spec => [](TypeInv /\ DirectInv)
<1>1. Init => TypeInv /\ DirectInv
  BY InitTypeInv, InitDirectInv
<1>2. TypeInv /\ DirectInv /\ [Next]_vars => (TypeInv /\ DirectInv)'
  BY Workers = {}, NextTypeInv, NextDirectInv
<1> QED BY <1>1, <1>2, PTL DEF Spec

\* However many processes call process() with the same intents, and whatever
\* crashes and lost writes come between, each executor runs at most once: only
\* the call whose upsert made the row goes on (broker.py:108, queue.py:210).
THEOREM DirectAtMostOnce == ASSUME Workers = {} PROVE Spec => []AtMostOnce
<1>1. DirectInv => AtMostOnce
  BY DEF DirectInv
<1> QED BY Workers = {}, <1>1, DirectAlways, PTL

\* What a direct call leaves on record is true of the executor, too: a crash
\* or a lost write may leave it open, never wrong.
THEOREM DirectLedgerAgrees == ASSUME Workers = {} PROVE Spec => []LedgerIsTrue
<1>1. DirectInv => LedgerIsTrue
  BY DEF DirectInv
<1> QED BY Workers = {}, <1>1, DirectAlways, PTL

\* A step of direct callers is the abstract step it is meant to be, or leaves
\* the abstract variables alone.
LEMMA DirectStepRefines ==
  ASSUME Workers = {}, TypeInv, DirectInv, [Next]_vars
  PROVE  [Lifecycle!ANext]_(Lifecycle!avars)
<1> USE DEF Lifecycle!avars, TypeInv, TypeOK, QueueTypeOK
<1>1. ASSUME NEW i \in Intents, NEW s \in Terminal,
             \/ Lifecycle!ASubmit(i) \/ Lifecycle!AInvoke(i)
             \/ Lifecycle!AVerify(i) \/ Lifecycle!ADecide(i, s)
      PROVE  Lifecycle!ANext
  BY <1>1 DEF Terminal, Lifecycle!ANext
<1>2. ASSUME NEW i \in Intents, NEW created \in BOOLEAN, Submit(i, created),
             UNCHANGED <<outcome, world>>
      PROVE  Lifecycle!ANext
  <2>1. \A j \in Intents : j # i => (Submitted(j)' <=> Submitted(j))
    BY <1>2 DEF Submit, Submitted
  <2>2. Submitted(i)' /\ \A j \in Intents : Submitted(j) => Submitted(j)'
    BY <1>2, SubmitMakesRow
  <2>3. Lifecycle!ASubmit(i)
    BY <1>2, <2>1, <2>2 DEF Lifecycle!ASubmit, world
  <2> QED BY <1>1, <2>3 DEF Terminal
<1>3. ASSUME NEW i \in Intents, Propose(i) PROVE Lifecycle!ANext
  BY <1>2, <1>3 DEF Propose
<1>4. ASSUME NEW c \in Callers, NEW i \in Intents, DirectProcess(c, i) PROVE Lifecycle!ANext
  BY <1>2, <1>4 DEF DirectProcess
<1>5. ASSUME NEW c \in Callers, Invoke(c) PROVE Lifecycle!ANext
  <2>1. cur[c] \in Intents /\ Submitted(cur[c]) /\ invocations[cur[c]] = 0 /\ Open(cur[c])
    BY <1>5 DEF Invoke, Procs, HasIntent, Working, DirectInv, Stage, StageOf, Before, Attempt
  <2>2. invocations' = [invocations EXCEPT ![cur[c]] = 1]
    BY <1>5, <2>1 DEF Invoke
  <2>3. Lifecycle!AInvoke(cur[c])
    BY <1>5, <2>1, <2>2 DEF Invoke, Lifecycle!AInvoke, store, Submitted, Open
  <2> QED BY <1>1, <2>1, <2>3 DEF Terminal
<1>6. ASSUME NEW c \in Callers, ExecutorReturns(c)
      PROVE  Lifecycle!ANext \/ UNCHANGED Lifecycle!avars
  <2>1. cur[c] \in Intents /\ invocations[cur[c]] = 1 /\ Open(cur[c])
    BY <1>6 DEF ExecutorReturns, Procs, HasIntent, Working, DirectInv, Stage, StageOf
  <2>2. /\ verified' = verified \/ verified' = verified \cup {cur[c]}
        /\ UNCHANGED <<id, outcome, invocations>>
    BY <1>6 DEF ExecutorReturns
  <2>3. CASE verified' = verified \cup {cur[c]}
    <3>1. Lifecycle!AVerify(cur[c])
      BY <2>1, <2>2, <2>3 DEF Lifecycle!AVerify, Open, Submitted
    <3> QED BY <1>1, <2>1, <3>1 DEF Terminal
  <2>4. CASE verified' = verified
    BY <2>2, <2>4 DEF Submitted
  <2> QED BY <2>2, <2>3, <2>4
<1>7. ASSUME NEW c \in Callers, PersistExecuted(c) \/ Finish(c)
      PROVE  Lifecycle!ANext \/ UNCHANGED Lifecycle!avars
  <2>1. /\ cur[c] \in Intents /\ UNCHANGED <<id, world>>
        /\ outcome' = outcome \/ \E s \in Terminal : Lifecycle!ADecide(cur[c], s)
    BY Workers = {}, <1>7, DirectRecords
  <2>2. CASE outcome' = outcome
    BY <2>1, <2>2 DEF world, Submitted
  <2>3. CASE \E s \in Terminal : Lifecycle!ADecide(cur[c], s)
    BY <1>1, <2>1, <2>3
  <2> QED BY <2>1, <2>2, <2>3
<1>8. ASSUME NEW p \in Procs, Validation(p) \/ OpenForAppend(p) \/ Crash(p)
      PROVE  UNCHANGED Lifecycle!avars
  BY <1>8, ValidationMoves DEF OpenForAppend, Crash, store, world, Submitted
<1>9. CASE (\E s \in Scopes : OperatorActs(s)) \/ Tick \/ UNCHANGED vars
  BY <1>9 DEF OperatorActs, Tick, vars, store, world, Submitted
<1> QED
  BY Workers = {}, <1>3, <1>4, <1>5, <1>6, <1>7, <1>8, <1>9
     DEF Next, CallerStep, Pipeline, Procs

\* The life of an intent needs no worker and no claim: processes that call
\* process() directly implement the same abstract specification.
THEOREM DirectImplementsLifecycle == ASSUME Workers = {} PROVE Spec => ImplementsLifecycle
<1>1. Init => Lifecycle!AInit
  BY DEF Init, QueueInit, Submitted, Lifecycle!AInit
<1>2. TypeInv /\ DirectInv /\ [Next]_vars => [Lifecycle!ANext]_(Lifecycle!avars)
  BY Workers = {}, DirectStepRefines
<1> QED BY <1>1, <1>2, DirectAlways, PTL DEF Spec, ImplementsLifecycle, Lifecycle!ASpec

-----------------------------------------------------------------------------
(***************************************************************************)
(* What the abstract specification is worth: of itself, without looking at *)
(* queue, claim or pipeline, it entails the promises stated of the broker. *)
(***************************************************************************)
AbstractInv ==
  /\ outcome \in [Intents -> Status]
  /\ invocations \in [Intents -> {0, 1}]
  /\ verified \subseteq Intents
  /\ LedgerIsTrue
  /\ VerifiedWasInvoked
  /\ \A i \in Intents : ~Submitted(i) => invocations[i] = 0 /\ outcome[i] = "PENDING"

\* What a step may do to an outcome on record.
VerdictStays ==
  \A i \in Intents : outcome[i] \in Terminal /\ outcome'[i] # outcome[i]
                      => "IN_DOUBT" \in {outcome[i], outcome'[i]}

LEMMA AbstractStep ==
  ASSUME AbstractInv, [Lifecycle!ANext]_(Lifecycle!avars)
  PROVE  AbstractInv' /\ VerdictStays
<1> DEFINE rows == {i \in Intents : Submitted(i)}
<1> USE DEF AbstractInv, Status, Terminal
<1>1. \A i \in Intents : (i \in rows <=> Submitted(i)) /\ (i \in rows' <=> Submitted(i)')
  OBVIOUS
<1>2. ASSUME \A i \in Intents : i \in rows => i \in rows',
             outcome' \in [Intents -> Status], invocations' \in [Intents -> {0, 1}], verified' \subseteq Intents,
             NEW j \in Intents, j \in rows' \/ (invocations'[j] = 0 /\ outcome'[j] = "PENDING"),
             \A i \in Intents : i # j =>
               /\ outcome'[i] = outcome[i] /\ invocations'[i] = invocations[i]
               /\ i \in verified' <=> i \in verified,
             /\ outcome'[j] = "REJECTED" => invocations'[j] = 0
             /\ outcome'[j] = "EXECUTED" => j \in verified'
             /\ j \in verified' => outcome'[j] \in {"PENDING", "EXECUTED", "IN_DOUBT"} /\ invocations'[j] = 1,
             outcome[j] \in {"PENDING", outcome'[j]} \/ "IN_DOUBT" \in {outcome[j], outcome'[j]}
      PROVE  AbstractInv' /\ VerdictStays
  <2> HIDE DEF rows
  <2>1. LedgerIsTrue' /\ VerifiedWasInvoked'
    BY <1>2 DEF LedgerIsTrue, VerifiedWasInvoked
  <2>2. \A i \in Intents : ~Submitted(i)' => invocations'[i] = 0 /\ outcome'[i] = "PENDING"
    BY <1>1, <1>2
  <2>3. VerdictStays
    BY <1>2 DEF VerdictStays
  <2> QED BY <1>2, <2>1, <2>2, <2>3
<1>3. ASSUME NEW i \in Intents, Lifecycle!ASubmit(i) PROVE AbstractInv' /\ VerdictStays
  <2>1. rows' = rows \cup {i} /\ UNCHANGED <<outcome, invocations, verified>>
    BY <1>3 DEF Lifecycle!ASubmit
  <2> HIDE DEF rows
  <2> QED BY <1>1, <2>1 DEF LedgerIsTrue, VerifiedWasInvoked, VerdictStays
<1>4. ASSUME NEW i \in Intents, Lifecycle!AInvoke(i) PROVE AbstractInv' /\ VerdictStays
  <2>1. /\ i \in rows /\ rows' = rows /\ UNCHANGED <<outcome, verified>>
        /\ invocations[i] = 0 /\ outcome[i] \in {"PENDING", "IN_DOUBT"}
        /\ invocations' = [invocations EXCEPT ![i] = 1]
    BY <1>4 DEF Lifecycle!AInvoke
  <2>2. i \notin verified
    BY <2>1 DEF VerifiedWasInvoked
  <2> HIDE DEF rows
  <2>3. invocations' \in [Intents -> {0, 1}] /\ invocations'[i] = 1
        /\ \A j \in Intents : j # i => invocations'[j] = invocations[j]
    BY <2>1
  <2> QED BY <1>2, <2>1, <2>2, <2>3
<1>5. ASSUME NEW i \in Intents, Lifecycle!AVerify(i) PROVE AbstractInv' /\ VerdictStays
  <2>1. /\ rows' = rows /\ UNCHANGED <<outcome, invocations>>
        /\ invocations[i] = 1 /\ outcome[i] \in {"PENDING", "IN_DOUBT"}
        /\ verified' = verified \cup {i}
    BY <1>5 DEF Lifecycle!AVerify
  <2>2. i \in rows
    BY <1>1, <2>1
  <2> HIDE DEF rows
  <2> QED BY <1>2, <2>1, <2>2
<1>6. ASSUME NEW i \in Intents, NEW s \in Terminal, Lifecycle!ADecide(i, s)
      PROVE  AbstractInv' /\ VerdictStays
  <2>1. /\ i \in rows /\ rows' = rows /\ UNCHANGED <<invocations, verified>>
        /\ outcome[i] = "PENDING" \/ "IN_DOUBT" \in {outcome[i], s}
        /\ outcome' = [outcome EXCEPT ![i] = s]
    BY <1>6 DEF Lifecycle!ADecide
  <2>2. /\ s = "EXECUTED" => i \in verified
        /\ s = "REJECTED" => invocations[i] = 0
        /\ i \in verified => s \in {"EXECUTED", "IN_DOUBT"} /\ invocations[i] = 1
    BY <1>6 DEF Lifecycle!ADecide, VerifiedWasInvoked
  <2> HIDE DEF rows
  <2>3. outcome' \in [Intents -> Status] /\ outcome'[i] = s
        /\ \A j \in Intents : j # i => outcome'[j] = outcome[j]
    BY <2>1
  <2> QED BY <1>2, <2>1, <2>2, <2>3
<1>7. CASE UNCHANGED Lifecycle!avars
  <2>1. rows' = rows /\ UNCHANGED <<outcome, invocations, verified>>
    BY <1>7 DEF Lifecycle!avars
  <2> HIDE DEF rows
  <2> QED BY <1>1, <2>1 DEF LedgerIsTrue, VerifiedWasInvoked, VerdictStays
<1> QED BY <1>3, <1>4, <1>5, <1>6, <1>7 DEF Lifecycle!ANext

\* Whatever implements the life of an intent calls each executor at most once,
\* keeps a ledger that is true of the executor, and gives one verdict an intent:
\* the abstract specification says no less than these three.
THEOREM LifecyclePromises ==
  ImplementsLifecycle => [](AtMostOnce /\ LedgerIsTrue) /\ OneVerdict
<1>1. Lifecycle!AInit => AbstractInv
  BY DEF Lifecycle!AInit, AbstractInv, Status, Terminal, LedgerIsTrue, VerifiedWasInvoked
<1>2. AbstractInv /\ [Lifecycle!ANext]_(Lifecycle!avars) => AbstractInv'
  BY AbstractStep
<1>3. AbstractInv => AtMostOnce /\ LedgerIsTrue
  BY DEF AbstractInv, AtMostOnce
<1>4. AbstractInv /\ [Lifecycle!ANext]_(Lifecycle!avars) =>
        [\A i \in Intents : outcome[i] \in Terminal /\ outcome'[i] # outcome[i]
           => "IN_DOUBT" \in {outcome[i], outcome'[i]}]_vars
  BY AbstractStep DEF VerdictStays
<1> QED BY <1>1, <1>2, <1>3, <1>4, PTL DEF ImplementsLifecycle, Lifecycle!ASpec, OneVerdict
=============================================================================
