----------------------------- MODULE BrokerQueue -----------------------------
(***************************************************************************)
(* The durable store of the policy broker: broker/queue.py (SQLite) and,   *)
(* behind the same interface, broker/supabase_queue.py with the functions  *)
(* and triggers of supabase/migrations/0005_policy_broker.sql.             *)
(*                                                                         *)
(* Four tables are append-only and one is mutable.  The model keeps what   *)
(* the queries derive from them:                                           *)
(*   id, lastId   intents: the row id of a submitted intent, 0 before      *)
(*   outcome      intent_events: the latest status of an intent            *)
(*   claimed      intent_attempts: the intents whose one attempt is taken  *)
(*   halted       halts: whether the latest event of a scope is a halt     *)
(*   lease        leases: the holder and the time left until expires_at    *)
(* An operator below is one statement on the store and is atomic.  A call  *)
(* of the queue is one of them; append_event and halt_active are several,  *)
(* under a lock that is their own process's only.  Time is relative:       *)
(* `left' is expires_at minus the database's clock, -1 once it has passed. *)
(* Operators named Mutant... are faulty variants of the definition below   *)
(* them; no specification uses them.                                       *)
(***************************************************************************)
EXTENDS Integers, FiniteSets

CONSTANTS Intents,    \* the intents a proposer may submit, one idempotency key each
          Holders,    \* lease holder names
          NoHolder,   \* no row in the lease table
          TTL         \* lease_ttl_seconds, in units of RenewEvery

ASSUME TTLAssumption == TTL \in Nat \ {0}
ASSUME NoHolderAssumption == NoHolder \notin Holders

VARIABLES id, lastId, outcome, claimed, halted, lease

Terminal == {"EXECUTED", "REJECTED", "IN_DOUBT", "HARD_STOP"}
Status   == {"PENDING"} \cup Terminal
Scopes   == {"capital_moves", "all"}

QueueTypeOK ==
  /\ id \in [Intents -> Nat]
  /\ lastId \in Nat
  /\ outcome \in [Intents -> Status]
  /\ claimed \subseteq Intents
  /\ halted \in [Scopes -> BOOLEAN]
  /\ lease \in [holder : Holders \cup {NoHolder}, left : -1 .. TTL]

QueueInit ==
  /\ id = [i \in Intents |-> 0]
  /\ lastId = 0
  /\ outcome = [i \in Intents |-> "PENDING"]
  /\ claimed = {}
  /\ halted = [s \in Scopes |-> FALSE]
  /\ lease = [holder |-> NoHolder, left |-> -1]

-----------------------------------------------------------------------------
\* Intents and their outcomes.

Submitted(i) == id[i] > 0

MutantSubmit(i, created) ==
  /\ created = TRUE
  /\ lastId' = lastId + 1
  /\ id' = [id EXCEPT ![i] = lastId + 1]

\* The upsert on the idempotency key.  `created' tells the caller whether
\* this call inserted the row; a repeated key writes nothing.
Submit(i, created) ==
  /\ created = ~Submitted(i)
  /\ IF created
     THEN /\ lastId' = lastId + 1
          /\ id' = [id EXCEPT ![i] = lastId + 1]
     ELSE UNCHANGED <<id, lastId>>

\* append_event reads the latest status and goes on only if it is open ...
AppendAllowed(i) == outcome[i] \notin Terminal

\* ... or raises: outcomes are write-once.
AppendRefused(i) == outcome[i] \in Terminal

\* Its insert, a statement later, looks at nothing: no lock is held between
\* the two across processes, nor by the trigger that repeats the read.
AppendEvent(i, status) == outcome' = [outcome EXCEPT ![i] = status]

\* The oldest `limit' submitted intents with no terminal event.
PendingIntents(limit) ==
  LET open == {i \in Intents : Submitted(i) /\ outcome[i] = "PENDING"}
  IN  {i \in open : Cardinality({j \in open : id[j] < id[i]}) < limit}

MutantClaimAttempt(i) == claimed' = claimed \cup {i}

\* INSERT ... ON CONFLICT(intent_id) DO NOTHING, rowcount = 1.
ClaimAttempt(i) ==
  /\ i \notin claimed
  /\ claimed' = claimed \cup {i}

\* The insert found the row: the attempt is taken, whoever took it.
ClaimRefused(i) == i \in claimed

-----------------------------------------------------------------------------
\* The halt ledger.

RecordHalt(scope) == halted' = [halted EXCEPT ![scope] = TRUE]

\* Only a named operator clears a halt.
ClearHalt(scope) == halted' = [halted EXCEPT ![scope] = FALSE]

\* A capital move is halted by an event of its own scope or of scope `all';
\* halt_active reads the two one after the other.
HaltActive(scope) == halted[scope] \/ halted["all"]

-----------------------------------------------------------------------------
\* The single-writer lease.

MutantLeaseAvailable(h) == TRUE

\* acquire_lease: the row is free, expired (strictly), or already ours.
LeaseAvailable(h) == lease.holder = NoHolder \/ lease.left < 0 \/ lease.holder = h

\* renew_lease updates only our own row, up to and including its expiry.
LeaseRenewable(h) == lease.holder = h /\ lease.left >= 0

MutantGrantLease(h) == lease' = [holder |-> h, left |-> lease.left + TTL]

GrantLease(h) == lease' = [holder |-> h, left |-> TTL]

\* release_lease deletes our own row; somebody else's stays.
ReleaseLease(h) ==
  lease' = IF lease.holder = h THEN [holder |-> NoHolder, left |-> -1] ELSE lease

\* One unit of time passes for the stored expiry.
AgeLease ==
  lease' = [lease EXCEPT !.left = IF lease.left < 0 THEN -1 ELSE lease.left - 1]
=============================================================================
