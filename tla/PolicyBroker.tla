----------------------------- MODULE PolicyBroker -----------------------------
(***************************************************************************)
(* The out-of-band policy broker over its durable queue: the leased        *)
(* background workers of broker/worker.py, the direct entry point          *)
(* PolicyBroker.process, and the pipeline both share in broker/broker.py   *)
(* (screen, validate, re-validate, execute, record).                       *)
(*                                                                         *)
(* A process is a program counter between two calls that touch the store   *)
(* or the executor; everything else is local and happens within a step.    *)
(* A call to the store may fail in two ways: "lost" (it raised and nothing *)
(* was written) and "unacked" (it was written and the answer was lost, so  *)
(* it raised too).  Failures, crashes, stops and operator interventions    *)
(* draw on one budget, MaxFaults.                                          *)
(*                                                                         *)
(* Time is counted in ticks of RenewEvery = TTL/3.  MaxGap bounds the      *)
(* ticks between two lease checks of one running worker: the code checks   *)
(* before a batch and before each intent, never inside an intent, so the   *)
(* gap is the handling time of one intent (the executor's timeout          *)
(* included) or the poll interval.                                         *)
(***************************************************************************)
EXTENDS BrokerQueue

CONSTANTS Workers,    \* worker processes (python -m broker.worker)
          Callers,    \* processes that call PolicyBroker.process directly
          Holder,     \* the lease holder name of each worker
          Capital,    \* the intents of type move_capital
          NoIntent,   \* no intent is being handled
          BatchSize,  \* rows one run_once fetches
          RenewEvery, \* lease_ttl_seconds / 3
          MaxGap,     \* ticks between two lease checks of a running worker
          MaxFaults,  \* bound on the environment's interventions
          OperatorScopes \* the halt scopes the operator acts on

ASSUME WorkerAssumption ==
  /\ Workers \cap Callers = {}
  /\ Holder \in [Workers -> Holders]
  /\ Capital \subseteq Intents
  /\ NoIntent \notin Intents
  /\ OperatorScopes \subseteq Scopes
ASSUME BoundsAssumption ==
  /\ BatchSize \in Nat \ {0}
  /\ RenewEvery \in Nat \ {0}
  /\ RenewEvery <= TTL
  /\ MaxGap \in Nat
  /\ MaxFaults \in Nat

Procs == Workers \cup Callers

VARIABLES
  pc,          \* where a process stands between two calls
  cur,         \* the intent it handles
  plan,        \* the status it is about to record
  batch,       \* the fetched rows run_once still has to handle
  unread,      \* the halt scopes its validation has still to read
  stood,       \* history: the scopes halted ever since its validation began
  renewIn,     \* ticks until the worker's local clock reaches _next_renewal
  age,         \* ticks since its last lease check
  frozen,      \* _capital_frozen, in memory
  invocations, \* executor calls made for an intent
  verified,    \* intents whose executor reported a verified side effect
  faults       \* environment interventions so far

store  == <<id, lastId, outcome, claimed, halted, lease>>
work   == <<cur, plan, batch>>
checks == <<unread, stood>>
timing == <<renewIn, age>>
world  == <<invocations, verified>>
vars   == <<store, pc, work, checks, timing, frozen, world, faults>>

WorkerPCs == {"top", "preflight", "fetch", "loop", "claim", "refused",
              "refusing", "stored", "check", "closing"}
SharedPCs == {"down", "validate", "screening", "recheck", "launch", "executing",
              "persist", "persisting", "finish", "finishing"}

TypeOK ==
  /\ QueueTypeOK
  /\ pc \in [Procs -> WorkerPCs \cup SharedPCs]
  /\ cur \in [Procs -> Intents \cup {NoIntent}]
  /\ plan \in [Procs -> Status]
  /\ batch \in [Procs -> SUBSET Intents]
  /\ unread \in [Procs -> SUBSET Scopes]
  /\ stood \in [Procs -> SUBSET Scopes]
  /\ renewIn \in [Workers -> 0 .. RenewEvery]
  /\ age \in [Workers -> 0 .. MaxGap]
  /\ frozen \in [Procs -> BOOLEAN]
  /\ invocations \in [Intents -> Nat]
  /\ verified \subseteq Intents
  /\ faults \in 0 .. MaxFaults

Init ==
  /\ QueueInit
  /\ pc = [p \in Procs |-> "down"]
  /\ cur = [p \in Procs |-> NoIntent]
  /\ plan = [p \in Procs |-> "PENDING"]
  /\ batch = [p \in Procs |-> {}]
  /\ unread = [p \in Procs |-> {}]
  /\ stood = [p \in Procs |-> {}]
  /\ renewIn = [w \in Workers |-> 0]
  /\ age = [w \in Workers |-> 0]
  /\ frozen = [p \in Procs |-> FALSE]
  /\ invocations = [i \in Intents |-> 0]
  /\ verified = {}
  /\ faults = 0

-----------------------------------------------------------------------------
\* Faults and the two kinds of write a process makes.

Spend(n) == faults + n <= MaxFaults /\ faults' = faults + n

WriteResults == {"ok", "lost", "unacked"}
Cost(r) == IF r \in {"lost", "unacked"} THEN 1 ELSE 0

\* append_event as its caller sees it.  Its read is refused, the intent having
\* reached a terminal status meanwhile, or leads to the insert; a read that
\* fails shows like an insert that is lost.
AppendResults == WriteResults \cup {"refused"}
Inserting == [refused |-> "refusing", persist |-> "persisting", finish |-> "finishing"]

RecordOutcome(p, at, status, r) ==
  \/ /\ r = "refused"
     /\ pc[p] = at
     /\ AppendRefused(cur[p])
     /\ UNCHANGED outcome
  \/ /\ r # "refused"
     /\ pc[p] = Inserting[at]
     /\ IF r = "lost" THEN UNCHANGED outcome ELSE AppendEvent(cur[p], status)

\* _freeze_capital: the durable halt, or the in-process guard when the write
\* of the halt raises.
FreezeCapital(p, r) ==
  /\ IF r = "lost" THEN UNCHANGED halted ELSE RecordHalt("capital_moves")
  /\ frozen' = [frozen EXCEPT ![p] = frozen[p] \/ r # "ok"]

NoFreeze == UNCHANGED <<halted, frozen>>

\* A process goes on to `next' with the intent it has ...
Goto(p, next) == pc' = [pc EXCEPT ![p] = next]

\* ... or lets go of it: back to the loop, out of the loop, or returning.
Drop(p, next, rest) ==
  /\ Goto(p, next)
  /\ cur' = [cur EXCEPT ![p] = NoIntent]
  /\ plan' = [plan EXCEPT ![p] = "PENDING"]
  /\ batch' = [batch EXCEPT ![p] = rest]

\* What an exception out of the pipeline leads to: a worker closes, a direct
\* caller gets the exception.
Raise(p) == Drop(p, IF p \in Workers THEN "closing" ELSE "down", {})

-----------------------------------------------------------------------------
\* The proposer and the operator.

Propose(i) ==
  /\ ~Submitted(i)
  /\ Submit(i, TRUE)
  /\ UNCHANGED <<outcome, claimed, halted, lease, pc, work, checks, timing, frozen, world, faults>>

OperatorActs(scope) ==
  /\ scope \in OperatorScopes
  /\ Spend(1)
  /\ \/ RecordHalt(scope) /\ UNCHANGED stood
     \/ ClearHalt(scope) /\ stood' = [p \in Procs |-> stood[p] \ {scope}]
  /\ UNCHANGED <<id, lastId, outcome, claimed, lease, pc, work, unread, timing, frozen, world>>

-----------------------------------------------------------------------------
\* The worker's loop.

\* main: acquire the lease or exit with status 2.
Acquire(w) ==
  /\ pc[w] = "down"
  /\ LeaseAvailable(Holder[w])
  /\ GrantLease(Holder[w])
  /\ renewIn' = [renewIn EXCEPT ![w] = RenewEvery]
  /\ age' = [age EXCEPT ![w] = 0]
  /\ Goto(w, "top")
  /\ UNCHANGED <<id, lastId, outcome, claimed, halted, work, checks, frozen, world, faults>>

MutantLeaseCheckPasses(w) ==
  /\ age' = [age EXCEPT ![w] = 0]
  /\ UNCHANGED <<lease, renewIn, faults>>

\* _renew_if_due: no look at the stored lease until a third of the TTL has
\* passed on the local clock; then a conditional renewal.
LeaseCheckPasses(w) ==
  /\ \/ /\ renewIn[w] > 0
        /\ UNCHANGED <<lease, renewIn>>
     \/ /\ renewIn[w] = 0
        /\ LeaseRenewable(Holder[w])
        /\ GrantLease(Holder[w])
        /\ renewIn' = [renewIn EXCEPT ![w] = RenewEvery]
  /\ age' = [age EXCEPT ![w] = 0]
  /\ UNCHANGED faults

LeaseCheckFails(w) ==
  /\ renewIn[w] = 0
  /\ \/ /\ ~LeaseRenewable(Holder[w])
        /\ UNCHANGED <<lease, faults>>
     \/ /\ Spend(1)
        /\ UNCHANGED lease
     \/ /\ Spend(1)
        /\ LeaseRenewable(Holder[w])
        /\ GrantLease(Holder[w])
  /\ UNCHANGED timing

StartBatch(w) ==
  /\ pc[w] = "top"
  /\ \/ LeaseCheckPasses(w) /\ Goto(w, "preflight")
     \/ LeaseCheckFails(w) /\ Goto(w, "closing")
  /\ UNCHANGED <<id, lastId, outcome, claimed, halted, work, checks, frozen, world>>

\* reconcile_preflight: a pass, unreadable evidence, or a confirmed break
\* that freezes capital; either failure ends this run_once with 0.
Preflight(w) ==
  /\ pc[w] = "preflight"
  /\ \/ Goto(w, "fetch") /\ NoFreeze /\ Spend(0)
     \/ Goto(w, "top") /\ NoFreeze /\ Spend(1)
     \/ \E r \in WriteResults :
          Goto(w, "top") /\ FreezeCapital(w, r) /\ Spend(1 + Cost(r))
  /\ UNCHANGED <<id, lastId, outcome, claimed, lease, work, checks, timing, world>>

\* pending_intents answers, or raises out of run_once.
Fetch(w) ==
  /\ pc[w] = "fetch"
  /\ \/ /\ Goto(w, "loop")
        /\ batch' = [batch EXCEPT ![w] = PendingIntents(BatchSize)]
        /\ UNCHANGED <<cur, plan, faults>>
     \/ Raise(w) /\ Spend(1)
  /\ UNCHANGED <<store, checks, timing, frozen, world>>

Oldest(w, i) == i \in batch[w] /\ \A j \in batch[w] : id[i] <= id[j]

NextIntent(w, i) ==
  /\ pc[w] = "loop"
  /\ Oldest(w, i)
  /\ \/ /\ LeaseCheckPasses(w)
        /\ Goto(w, "claim")
        /\ cur' = [cur EXCEPT ![w] = i]
        /\ UNCHANGED <<plan, batch>>
     \/ /\ LeaseCheckFails(w)
        /\ Drop(w, "closing", {})
  /\ UNCHANGED <<id, lastId, outcome, claimed, halted, checks, frozen, world>>

EndBatch(w) ==
  /\ pc[w] = "loop"
  /\ batch[w] = {}
  /\ Goto(w, "top")
  /\ UNCHANGED <<store, work, checks, timing, frozen, world, faults>>

Claim(w) ==
  /\ pc[w] = "claim"
  /\ \/ /\ ClaimAttempt(cur[w])
        /\ Goto(w, "stored")
        /\ UNCHANGED <<work, faults>>
     \/ /\ ClaimRefused(cur[w])
        /\ Goto(w, "refused")
        /\ UNCHANGED <<claimed, work, faults>>
     \/ /\ Spend(1)
        /\ ClaimAttempt(cur[w]) \/ UNCHANGED claimed
        /\ Raise(w)
  /\ UNCHANGED <<id, lastId, outcome, halted, lease, checks, timing, frozen, world>>

MutantRefuseRetry(w) ==
  /\ pc[w] \in {"refused", "refusing"}
  /\ Drop(w, "loop", batch[w] \ {cur[w]})
  /\ UNCHANGED <<store, checks, timing, frozen, world, faults>>

\* An earlier attempt already claimed the intent: record IN_DOUBT and go on,
\* or stop the worker if that cannot be recorded.
RefuseRetry(w) ==
  /\ \E r \in AppendResults :
       /\ RecordOutcome(w, "refused", "IN_DOUBT", r)
       /\ Spend(Cost(r))
       /\ IF r = "ok" THEN Drop(w, "loop", batch[w] \ {cur[w]}) ELSE Raise(w)
  /\ UNCHANGED <<id, lastId, claimed, halted, lease, checks, timing, frozen, world>>

\* process_stored reads the status; a terminal one is a duplicate.
ReadStored(w) ==
  /\ pc[w] = "stored"
  /\ \/ /\ outcome[cur[w]] = "PENDING"
        /\ Goto(w, "validate")
        /\ UNCHANGED work
        /\ Spend(0)
     \/ /\ outcome[cur[w]] # "PENDING"
        /\ Drop(w, "loop", batch[w] \ {cur[w]})
        /\ Spend(0)
     \/ Raise(w) /\ Spend(1)
  /\ UNCHANGED <<store, checks, timing, frozen, world>>

-----------------------------------------------------------------------------
\* The pipeline of one intent, for a worker or a direct caller.

\* process: submit, and go on only if this call created the row.
DirectProcess(c, i) ==
  /\ pc[c] = "down"
  /\ \E created \in BOOLEAN :
       /\ Submit(i, created)
       /\ IF created
          THEN Goto(c, "validate") /\ cur' = [cur EXCEPT ![c] = i]
          ELSE UNCHANGED <<pc, cur>>
  /\ UNCHANGED <<outcome, claimed, halted, lease, plan, batch, checks, timing, frozen, world, faults>>

Plan(p, status) ==
  /\ Goto(p, "finish")
  /\ plan' = [plan EXCEPT ![p] = status]
  /\ UNCHANGED <<cur, batch>>

MutantHaltsToRead(i) == IF i \in Capital THEN {"capital_moves"} ELSE {}

\* Only a capital move is halted; halt_active reads the move's own scope and
\* scope `all', in the order of a set.
HaltsToRead(i) == IF i \in Capital THEN Scopes ELSE {}

\* validate begins: the rulebook is run once, one read after the other.
StartValidation(p, stage) ==
  /\ Goto(p, stage)
  /\ unread' = [unread EXCEPT ![p] = HaltsToRead(cur[p])]
  /\ stood' = [stood EXCEPT ![p] = IF cur[p] \in Capital THEN {s \in Scopes : halted[s]} ELSE {}]

Validating(p) == pc[p] \in {"screening", "recheck"}
EndValidation(p) ==
  /\ unread' = [unread EXCEPT ![p] = {}]
  /\ stood' = [stood EXCEPT ![p] = {}]

\* _process_created: malformed, hard stop, in-process freeze, validate.
Screen(p) ==
  /\ pc[p] = "validate"
  /\ \/ /\ ~(cur[p] \in Capital /\ frozen[p])
        /\ StartValidation(p, "screening")
        /\ UNCHANGED work
     \/ /\ Plan(p, "HARD_STOP") \/ Plan(p, "REJECTED")
        /\ UNCHANGED checks
  /\ UNCHANGED <<store, timing, frozen, world, faults>>

\* One statement of halt_active found its scope clear; one that finds a halt
\* fails the validation (RulesReject).
ReadHalt(p, s) ==
  /\ Validating(p)
  /\ s \in unread[p]
  /\ ~halted[s]
  /\ unread' = [unread EXCEPT ![p] = unread[p] \ {s}]
  /\ UNCHANGED <<store, pc, work, stood, timing, frozen, world, faults>>

\* What a validation reads besides the halt ledger (policy, allowlist, hashes,
\* caps, freshness, cooldown), before it and after it, is outside the model
\* and may reject at any time; a confirmed reconciliation break also freezes
\* capital.
RulesReject(p) ==
  /\ Validating(p)
  /\ Plan(p, "REJECTED")
  /\ EndValidation(p)
  /\ \/ NoFreeze /\ UNCHANGED faults
     \/ \E r \in WriteResults : cur[p] \in Capital /\ FreezeCapital(p, r) /\ Spend(Cost(r))
  /\ UNCHANGED <<id, lastId, outcome, claimed, lease, timing, world>>

\* The first validation passed, caps and reconciliation included; _execute
\* runs the same rules once more, against live sources.
PassScreen(p) ==
  /\ pc[p] = "screening"
  /\ unread[p] = {}
  /\ StartValidation(p, "recheck")
  /\ UNCHANGED <<store, work, timing, frozen, world, faults>>

\* The second one passed: nothing is read again before the executor is called.
Recheck(p) ==
  /\ pc[p] = "recheck"
  /\ unread[p] = {}
  /\ Goto(p, "launch")
  /\ EndValidation(p)
  /\ UNCHANGED <<store, work, timing, frozen, world, faults>>

Invoke(p) ==
  /\ pc[p] = "launch"
  /\ Goto(p, "executing")
  /\ invocations' = [invocations EXCEPT ![cur[p]] = invocations[cur[p]] + 1]
  /\ UNCHANGED <<store, work, checks, timing, frozen, verified, faults>>

MutantUnverifiedRejected(p) ==
  /\ pc[p] = "executing"
  /\ \/ Goto(p, "persist") /\ verified' = verified \cup {cur[p]} /\ UNCHANGED work
     \/ Plan(p, "REJECTED") /\ UNCHANGED verified
  /\ UNCHANGED <<store, checks, timing, frozen, invocations, faults>>

MutantInDoubtWithoutFreeze(p) ==
  /\ pc[p] = "executing"
  /\ \/ Goto(p, "persist") /\ verified' = verified \cup {cur[p]} /\ UNCHANGED work
     \/ Plan(p, "IN_DOUBT") /\ UNCHANGED verified
  /\ UNCHANGED <<store, checks, timing, frozen, invocations, faults>>

\* The executor answers: verified, a 2FA wall, or nothing that can be relied
\* on (it raised, timed out, or returned no verification).
ExecutorReturns(p) ==
  /\ pc[p] = "executing"
  /\ \/ /\ Goto(p, "persist")
        /\ verified' = verified \cup {cur[p]}
        /\ UNCHANGED <<work, halted, frozen, faults>>
     \/ /\ Plan(p, "HARD_STOP")
        /\ UNCHANGED <<verified, halted, frozen, faults>>
     \/ /\ Plan(p, "IN_DOUBT")
        /\ IF cur[p] \in Capital
           THEN \E r \in WriteResults : FreezeCapital(p, r) /\ Spend(Cost(r))
           ELSE NoFreeze /\ Spend(0)
        /\ UNCHANGED verified
  /\ UNCHANGED <<id, lastId, outcome, claimed, lease, checks, timing, invocations>>

Returned(p) == IF p \in Workers THEN Goto(p, "check") /\ UNCHANGED work
                                ELSE Drop(p, "down", {})

\* append_event's read found the intent open: its insert is next, whatever is
\* recorded between the two.
OpenForAppend(p) ==
  /\ pc[p] \in DOMAIN Inserting
  /\ AppendAllowed(cur[p])
  /\ Goto(p, Inserting[pc[p]])
  /\ UNCHANGED <<store, work, checks, timing, frozen, world, faults>>

\* append EXECUTED; if it raises, the side effect stands and capital freezes.
PersistExecuted(p) ==
  /\ \E r \in AppendResults :
       /\ RecordOutcome(p, "persist", "EXECUTED", r)
       /\ IF r # "ok" /\ cur[p] \in Capital
          THEN \E h \in WriteResults : FreezeCapital(p, h) /\ Spend(Cost(r) + Cost(h))
          ELSE NoFreeze /\ Spend(Cost(r))
  /\ Returned(p)
  /\ UNCHANGED <<id, lastId, claimed, lease, checks, timing, world>>

\* _finish: the append is not guarded; when it raises the exception leaves
\* the pipeline.
Finish(p) ==
  /\ \E r \in AppendResults :
       /\ RecordOutcome(p, "finish", plan[p], r)
       /\ Spend(Cost(r))
       /\ IF r = "ok" THEN Returned(p) ELSE Raise(p)
  /\ UNCHANGED <<id, lastId, claimed, halted, lease, checks, timing, frozen, world>>

\* run_once: a decision the ledger does not show stops the worker.
CheckLedger(w) ==
  /\ pc[w] = "check"
  /\ \/ /\ outcome[cur[w]] = "PENDING"
        /\ Raise(w)
        /\ Spend(0)
     \/ /\ outcome[cur[w]] # "PENDING"
        /\ Drop(w, "loop", batch[w] \ {cur[w]})
        /\ Spend(0)
     \/ Raise(w) /\ Spend(1)
  /\ UNCHANGED <<store, checks, timing, frozen, world>>

-----------------------------------------------------------------------------
\* Stopping, crashing, and time.

\* The process is gone, and its memory with it.
Vanish(p) ==
  /\ Drop(p, "down", {})
  /\ EndValidation(p)
  /\ frozen' = [frozen EXCEPT ![p] = FALSE]
  /\ renewIn' = [w \in Workers |-> IF w = p THEN 0 ELSE renewIn[w]]
  /\ age' = [w \in Workers |-> IF w = p THEN 0 ELSE age[w]]

\* close: release the lease, or fail to and leave it to expire.
Close(w) ==
  /\ pc[w] = "closing"
  /\ Vanish(w)
  /\ \/ ReleaseLease(Holder[w]) /\ Spend(0)
     \/ UNCHANGED lease /\ Spend(1)
  /\ UNCHANGED <<id, lastId, outcome, claimed, halted, world>>

\* SIGTERM is looked at between two run_once calls.
Stop(w) ==
  /\ pc[w] = "top"
  /\ Goto(w, "closing")
  /\ Spend(1)
  /\ UNCHANGED <<store, work, checks, timing, frozen, world>>

Crash(p) ==
  /\ pc[p] # "down"
  /\ Spend(1)
  /\ Vanish(p)
  /\ UNCHANGED <<store, world>>

Running(w) == pc[w] \notin {"down", "closing"}

Tick ==
  /\ lease.left >= 0 \/ \E w \in Workers : renewIn[w] > 0
  /\ \A w \in Workers : Running(w) => age[w] < MaxGap
  /\ AgeLease
  /\ renewIn' = [w \in Workers |-> IF renewIn[w] > 0 THEN renewIn[w] - 1 ELSE 0]
  /\ age' = [w \in Workers |-> IF Running(w) THEN age[w] + 1 ELSE age[w]]
  /\ UNCHANGED <<id, lastId, outcome, claimed, halted, pc, work, checks, frozen, world, faults>>

Validation(p) == Screen(p) \/ (\E s \in Scopes : ReadHalt(p, s)) \/ RulesReject(p)
                 \/ PassScreen(p) \/ Recheck(p)

Pipeline(p) == Validation(p) \/ Invoke(p) \/ ExecutorReturns(p)
               \/ OpenForAppend(p) \/ PersistExecuted(p) \/ Finish(p)

WorkerStep(w) ==
  \/ Acquire(w) \/ StartBatch(w) \/ Preflight(w) \/ Fetch(w)
  \/ (\E i \in Intents : NextIntent(w, i))
  \/ EndBatch(w) \/ Claim(w) \/ RefuseRetry(w) \/ ReadStored(w)
  \/ Pipeline(w) \/ CheckLedger(w) \/ Close(w)

CallerStep(c) == (\E i \in Intents : DirectProcess(c, i)) \/ Pipeline(c)

Next ==
  \/ \E i \in Intents : Propose(i)
  \/ \E s \in Scopes : OperatorActs(s)
  \/ \E w \in Workers : WorkerStep(w) \/ Stop(w)
  \/ \E c \in Callers : CallerStep(c)
  \/ \E p \in Procs : Crash(p)
  \/ Tick

Spec == Init /\ [][Next]_vars

\* The platform restarts a worker that exits, a running process is
\* scheduled, and time passes.  Nothing obliges the proposer, the operator or
\* the environment to act.
FairSpec == Spec /\ WF_vars(Tick) /\ \A w \in Workers : WF_vars(WorkerStep(w))

-----------------------------------------------------------------------------
\* One intent's side effect is requested at most once, however workers crash,
\* lose their lease mid-intent, share a holder name or lose answers of the
\* store (claim_intent_attempt, the write-once status, submit's dedupe).
AtMostOnce == \A i \in Intents : invocations[i] <= 1

\* A decided outcome never changes, though a slow worker may come back with
\* another verdict after its intent was marked IN_DOUBT (append_event).
OutcomeWriteOnce ==
  [][\A i \in Intents : outcome[i] \in Terminal => outcome'[i] = outcome[i]]_vars

\* Of two workers that record an outcome for one intent only its claimant gives
\* a definite verdict: an outcome on record is replaced only where one of the
\* two is IN_DOUBT, however the reads and inserts of append_event interleave.
OneVerdict ==
  [][\A i \in Intents :
       outcome[i] \in Terminal /\ outcome'[i] # outcome[i]
         => "IN_DOUBT" \in {outcome[i], outcome'[i]}]_vars

\* The ledger and the world agree: REJECTED was never executed, EXECUTED was
\* verified, a verified effect is EXECUTED, IN_DOUBT or still open, and an
\* intent left open after a call can only be a claimed one, so that no worker
\* will offer it to an executor again.
LedgerMatchesWorld ==
  \A i \in Intents :
    /\ outcome[i] = "REJECTED" => invocations[i] = 0
    /\ outcome[i] = "EXECUTED" => i \in verified
    /\ i \in verified => outcome[i] \in {"PENDING", "EXECUTED", "IN_DOUBT"}
    /\ invocations[i] > 0 => i \in claimed

\* A worker has been at one intent for longer than the part of the lease a
\* check leaves it: two of the three renewal periods.
Working(w) == pc[w] \notin {"down", "top", "preflight", "fetch", "loop", "closing"}
Overrun(w) == age[w] > TTL - RenewEvery + 1

\* Two workers are between their lease check and the end of an intent at once
\* only if one of them has overrun its lease: among the punctual ones the lease
\* makes the broker a single writer.
SingleWriter ==
  \A v, w \in Workers : Working(v) /\ Working(w) /\ ~Overrun(v) /\ ~Overrun(w) => v = w

\* An executor is never called for an intent whose outcome is already on
\* record (a slow worker's intent that another worker marked IN_DOUBT).
NoLateInvocation ==
  [][\A i \in Intents : invocations'[i] # invocations[i] => outcome[i] = "PENDING"]_vars

\* No capital move passes its last validation if a halt of its scope or of
\* scope `all' has stood ever since that validation began, whoever sets and
\* clears halts between its reads, and none goes to an executor from a process
\* whose durable halt write failed (the in-process freeze).  A halt that comes
\* after its scope was read is missed, as the comment of _execute admits.
HaltStopsCapital ==
  [][\A p \in Procs :
       /\ pc[p] # "launch" /\ pc'[p] = "launch" /\ cur[p] \in Capital
       => stood[p] = {} /\ ~frozen[p]]_vars

\* A capital move that reached its executor and is recorded IN_DOUBT leaves
\* capital frozen, durably or in some process, when it is recorded.
InDoubtMoveFreezes ==
  [][\A i \in Capital : outcome[i] # "IN_DOUBT" /\ outcome'[i] = "IN_DOUBT" /\ invocations[i] > 0
       => HaltActive("capital_moves")' \/ \E p \in Procs : frozen'[p]]_vars

\* Every submitted intent gets a terminal outcome once faults stop, crashed
\* and half-recorded attempts included.
EveryIntentDecided ==
  \A i \in Intents : Submitted(i) ~> outcome[i] \in Terminal

\* The detailed broker implements the life of an intent it promises.
Lifecycle == INSTANCE IntentLifecycle WITH
               submitted <- {i \in Intents : Submitted(i)}
ImplementsLifecycle == Lifecycle!ASpec
=============================================================================
