---------------------------- MODULE ExecutionGate ----------------------------
(***************************************************************************)
(* What stands between an opportunity and its orders: the scan pass and    *)
(* the priority queue of run_continuous, and the gates of execute() in     *)
(* their order, up to the legs that TradeExecution models.                 *)
(*                                                                         *)
(* Feeds, queue consumer and scan pass share one event loop, and execute() *)
(* does not yield: while it runs, or a scan pass does, nothing else of the *)
(* process does.  What is concurrent is the dashboard's thread, which      *)
(* pauses; the accounts, which fill and settle; and time, which passes in  *)
(* every call to a venue.  A gate whose verdict depends on prices, fees,   *)
(* depth or disputes gives either verdict.                                 *)
(***************************************************************************)
EXTENDS Integers, SequencesExt

CONSTANTS
  Types, Markets, Keys,
  Kinds,        \* opportunities the process meets, by the names they carry:
  TypeOf,       \* the strategy, which balances are read for,
  MarketOf,     \* the market, which the tables know them by,
  KeyOf,        \* ticker or market, which the cooldown knows them by
  Research,     \* types that are never traded (JevCrypto, _research_only)
  Whales,       \* the type WhaleCopy
  Exempt,       \* _SKIP_DEDUP_TYPES (MarketMake)
  Exchange,     \* types sized from an account that risk.check does not look
                \* at (Betfair, Smarkets, SX Bet, Matchbook)
  Profits,      \* net profits an opportunity may show
  Window,       \* has_recent_trade's window, in ticks
  Cooldown,     \* FAILED_TRADE_COOLDOWN
  Dedupe,       \* cooldown of _WSTriggerDeduper
  CacheTTL,     \* BALANCE_CACHE_TTL
  MaxOpen,      \* max_open_positions
  MaxWhales,    \* WHALE_COPY_MAX_POSITIONS
  CanaryTrades, \* CANARY_MAX_TRADES
  MaxSize,      \* max_trade_size
  NumLegs,      \* legs an opportunity is bought in, on one account
  MaxCash, MaxQueue, MaxList,  \* bounds
  MaxPauses, MaxCrashes        \* bounds

ASSUME GateAssumption ==
  /\ Kinds # {} /\ Markets # {}
  /\ TypeOf \in [Kinds -> Types] /\ MarketOf \in [Kinds -> Markets]
  /\ KeyOf \in [Kinds -> Keys]
  /\ Research \subseteq Types /\ Whales \subseteq Types
  /\ Exempt \subseteq Types /\ Exchange \subseteq Types
  /\ Profits \subseteq Nat \ {0} /\ Profits # {}
  /\ Window \in Nat /\ Cooldown \in Nat /\ Dedupe \in Nat
  /\ CacheTTL \in Nat /\ MaxOpen \in Nat /\ MaxWhales \in Nat
  /\ CanaryTrades \in Nat /\ MaxSize \in Nat /\ NumLegs \in Nat \ {0}
  /\ MaxCash \in Nat /\ MaxQueue \in Nat /\ MaxList \in Nat
  /\ MaxPauses \in Nat /\ MaxCrashes \in Nat

Opps == [kind : Kinds, profit : Profits]
None == [kind |-> CHOOSE k \in Kinds : TRUE, profit |-> 0]  \* nothing in hand

VARIABLES
  \* memory of the process
  queue,     \* _priority_queue
  list,      \* the rest of the scan pass
  admitted,  \* _last_queued: ticks left of each kind's slot
  cooling,   \* _failed_cooldowns: ticks left of each key's
  cache,     \* _balance_cache: the type it was read for, amount, ticks left
  whales, canary,  \* _whale_copy_position_count, _canary_trades_done
  paused,    \* dashboard._paused
  pc, opp,   \* gate that execute() is at, and the opportunity in its hands
  budget,    \* what the size was taken from: the balance, 0 if it is missing or
             \* nothing, or -1 for none read
  size,      \* dollars a leg
  \* the database
  recent,    \* ticks for which an opportunity logged as traded counts
  positions, \* open positions in order of entry
  \* the account
  cash,
  unseen,    \* history: dollars gone since the cached balance was read that
             \* no whole execution spent
  \* histories
  sinceSent,    \* ticks since a market's last send
  sentPaused,   \* sends since the pause
  pauses, crashes

memory   == <<queue, list, admitted, cooling, cache, whales, canary, paused>>
inHand   == <<pc, opp, budget, size>>
database == <<recent, positions>>
account  == <<cash, unseen>>
history  == <<sinceSent, sentPaused>>
vars     == <<memory, inHand, database, account, history, pauses, crashes>>

NoCache == [for |-> TypeOf[None.kind], amount |-> 0, left |-> 0]
Idle    == pc = "idle" /\ list = <<>>   \* the event loop is free
Smaller(a, b) == IF a < b THEN a ELSE b

TypeOK ==
  /\ queue \in Seq(Opps) /\ Len(queue) <= MaxQueue
  /\ list \in Seq(Opps) /\ Len(list) <= MaxList
  /\ admitted \in [Kinds -> 0 .. Dedupe]
  /\ cooling \in [Keys -> 0 .. Cooldown]
  /\ cache \in [for : Types, amount : 0 .. MaxCash, left : 0 .. CacheTTL]
  /\ whales \in 0 .. MaxWhales /\ canary \in 0 .. CanaryTrades
  /\ paused \in BOOLEAN
  /\ pc \in {"idle", "verify", "risk", "size", "approve", "send", "preflight", "legs"}
  /\ opp \in Opps \cup {None}
  /\ budget \in -1 .. MaxCash /\ size \in 0 .. MaxSize
  /\ recent \in [Markets -> 0 .. Window]
  /\ positions \in Seq([market : Markets, pnl : Profits])
  /\ cash \in 0 .. MaxCash /\ unseen \in Nat
  /\ sinceSent \in [Markets -> 0 .. Window]
  /\ sentPaused \in Nat
  /\ pauses \in 0 .. MaxPauses /\ crashes \in 0 .. MaxCrashes

Init ==
  /\ queue = <<>> /\ list = <<>>
  /\ admitted = [k \in Kinds |-> 0] /\ cooling = [k \in Keys |-> 0]
  /\ cache = NoCache /\ whales = 0 /\ canary = 0 /\ paused = FALSE
  /\ pc = "idle" /\ opp = None /\ budget = -1 /\ size = 0
  /\ recent = [m \in Markets |-> 0] /\ positions = <<>>
  /\ cash = MaxCash /\ unseen = 0
  /\ sinceSent = [m \in Markets |-> Window] /\ sentPaused = 0
  /\ pauses = 0 /\ crashes = 0

(***************************************************************************)
(* Time, the dashboard, the account, and the end of the process.           *)
(***************************************************************************)

Older(left) == [x \in DOMAIN left |-> IF left[x] > 0 THEN left[x] - 1 ELSE 0]

Tick ==
  /\ admitted' = Older(admitted) /\ cooling' = Older(cooling)
  /\ recent' = Older(recent)
  /\ cache' = [cache EXCEPT !.left = IF @ > 0 THEN @ - 1 ELSE 0]
  /\ sinceSent' = [m \in Markets |-> Smaller(sinceSent[m] + 1, Window)]
  /\ UNCHANGED <<queue, list, whales, canary, paused, inHand, positions, account,
                 sentPaused, pauses, crashes>>

Pause ==
  /\ ~paused /\ pauses < MaxPauses
  /\ paused' = TRUE /\ sentPaused' = 0 /\ pauses' = pauses + 1
  /\ UNCHANGED <<queue, list, admitted, cooling, cache, whales, canary, inHand,
                 database, account, sinceSent, crashes>>

Resume ==
  /\ paused /\ paused' = FALSE /\ sentPaused' = 0
  /\ UNCHANGED <<queue, list, admitted, cooling, cache, whales, canary, inHand,
                 database, account, sinceSent, pauses, crashes>>

\* Transfers, the market making pilot and fees draw on the account; sales and
\* deposits add to it.
CashMoves ==
  /\ \E c \in 0 .. MaxCash :
       /\ c # cash /\ cash' = c
       /\ unseen' = IF c < cash THEN unseen + (cash - c) ELSE unseen
  /\ unseen' <= MaxCash
  /\ UNCHANGED <<memory, inHand, database, history, pauses, crashes>>

\* check_settlements, before the scan pass: the position is no longer open.
Settle ==
  /\ Idle /\ positions # <<>>
  /\ \E i \in DOMAIN positions : positions' = RemoveAt(positions, i)
  /\ UNCHANGED <<memory, inHand, recent, account, history, pauses, crashes>>

\* The pause is memory like the rest: a process that starts is not paused.
Restart ==
  /\ crashes < MaxCrashes /\ crashes' = crashes + 1
  /\ queue' = <<>> /\ list' = <<>>
  /\ admitted' = [k \in Kinds |-> 0] /\ cooling' = [k \in Keys |-> 0]
  /\ cache' = NoCache /\ whales' = 0 /\ canary' = 0
  /\ paused' = FALSE /\ sentPaused' = 0
  /\ pc' = "idle" /\ opp' = None /\ budget' = -1 /\ size' = 0
  /\ UNCHANGED <<database, account, sinceSent, pauses>>

(***************************************************************************)
(* Where opportunities come from.                                          *)
(***************************************************************************)

\* A price update of an opportunity in the index.
Trigger(o) ==
  /\ Idle /\ Len(queue) < MaxQueue
  /\ admitted[o.kind] = 0
  /\ admitted' = [admitted EXCEPT ![o.kind] = Dedupe]
  /\ queue' = Append(queue, o)
  /\ UNCHANGED <<list, cooling, cache, whales, canary, paused, inHand, database,
                 account, history, pauses, crashes>>

\* A scan ends, and its opportunities are executed one behind the other.
ScanPass(found) ==
  /\ Idle /\ found # {}
  /\ \E s \in SetToSeqs(found) :
       /\ \A i, j \in DOMAIN s : i < j => s[i].profit >= s[j].profit
       /\ list' = s
  /\ UNCHANGED <<queue, admitted, cooling, cache, whales, canary, paused, inHand,
                 database, account, history, pauses, crashes>>

\* The next opportunity of the pass, or, with the loop free, the best queued.
Taken(o) ==
  /\ pc = "idle"
  /\ \/ /\ list # <<>> /\ o = Head(list) /\ list' = Tail(list) /\ UNCHANGED queue
     \/ /\ list = <<>> /\ UNCHANGED list
        /\ \E i \in DOMAIN queue :
             /\ \A j \in DOMAIN queue : queue[j].profit <= queue[i].profit
             /\ o = queue[i] /\ queue' = RemoveAt(queue, i)

(***************************************************************************)
(* execute().                                                              *)
(***************************************************************************)

Skip ==
  pc' = "idle" /\ opp' = None /\ budget' = -1 /\ size' = 0

WhaleAllowed(o) == TypeOf[o.kind] \in Whales => whales < MaxWhales

MutantCanaryAllowed == canary <= CanaryTrades
CanaryAllowed == canary < CanaryTrades

MutantScreened(o) ==
  /\ TypeOf[o.kind] \notin Research /\ cooling[KeyOf[o.kind]] = 0
  /\ recent[MarketOf[o.kind]] = 0 /\ WhaleAllowed(o) /\ CanaryAllowed
\* Kill switch, cooldown, duplicate window and session caps, read at one instant.
Screened(o) ==
  /\ TypeOf[o.kind] \notin Research
  /\ ~paused
  /\ cooling[KeyOf[o.kind]] = 0
  /\ recent[MarketOf[o.kind]] = 0
  /\ WhaleAllowed(o)
  /\ CanaryAllowed

Screen(o) ==
  /\ Taken(o)
  /\ IF Screened(o) THEN pc' = "verify" /\ opp' = o /\ UNCHANGED <<budget, size>>
     ELSE Skip
  /\ UNCHANGED <<admitted, cooling, cache, whales, canary, paused, database, account,
                 history, pauses, crashes>>

\* _revalidate: the prices hold, or they do not, or nobody answers.
Revalidate ==
  /\ pc = "verify"
  /\ \/ pc' = "risk" /\ UNCHANGED <<opp, budget, size>>
     \/ Skip
  /\ UNCHANGED <<memory, database, account, history, pauses, crashes>>

\* The cached balance if it is fresh and was read for this type, else a new one.
\* With no venue answering nothing is cached; with Polymarket answering and the
\* exchange not, the exchange's balance is missing.
GetBalance(b) ==
  IF cache.left > 0 /\ cache.for = TypeOf[opp.kind]
  THEN b = cache.amount /\ UNCHANGED <<cache, unseen>>
  ELSE \/ b = -1 /\ UNCHANGED <<cache, unseen>>
       \/ /\ b = cash \/ (b = 0 /\ TypeOf[opp.kind] \in Exchange)
          /\ cache' = [for |-> TypeOf[opp.kind], amount |-> b, left |-> CacheTTL]
          /\ unseen' = 0

ReadBalances ==
  /\ pc = "risk" /\ pc' = "size"
  /\ \E b \in -1 .. MaxCash : GetBalance(b) /\ budget' = b
  /\ UNCHANGED <<queue, list, admitted, cooling, whales, canary, paused, opp, size,
                 database, cash, history, pauses, crashes>>

OpenIn(m) == {i \in DOMAIN positions : positions[i].market = m}

MutantMayEnter(o) ==
  /\ Len(positions) < MaxOpen
  /\ TypeOf[o.kind] \notin Exempt =>
       \A i \in OpenIn(MarketOf[o.kind]) : 6 * o.profit > 5 * positions[i].pnl
\* The open positions limit, and the market's best position by a fifth.
MayEnter(o) ==
  /\ Len(positions) < MaxOpen
  /\ TypeOf[o.kind] \notin Exempt =>
       \A i \in OpenIn(MarketOf[o.kind]) : 5 * o.profit > 6 * positions[i].pnl

\* A balance of nothing covers no cost, where risk.check looks at it.
Funded(o) == budget = 0 => TypeOf[o.kind] \in Exchange

\* A share of the balance for each leg; a balance that is missing or nothing
\* limits the size no more than one that was not read.
SizesFor(b) == IF b > 0 THEN 1 .. Smaller(MaxSize, b \div NumLegs) ELSE 1 .. MaxSize

\* risk.check, gas, size, legs, entry price and exit liquidity.
RiskGate ==
  /\ pc = "size"
  /\ \/ Skip
     \/ /\ MayEnter(opp) /\ Funded(opp)
        /\ size' \in SizesFor(budget)
        /\ pc' = "approve" /\ UNCHANGED <<opp, budget>>
  /\ UNCHANGED <<memory, database, account, history, pauses, crashes>>

\* In semi-auto mode a person answers, whenever they do.
Approve ==
  /\ pc = "approve"
  /\ \/ pc' = "send" /\ UNCHANGED <<opp, budget, size>>
     \/ Skip
  /\ UNCHANGED <<memory, database, account, history, pauses, crashes>>

MutantLogOpportunity == UNCHANGED recent
\* The row with action 'traded' comes before the first order.
LogOpportunity == recent' = [recent EXCEPT ![MarketOf[opp.kind]] = Window]

\* Legs one behind the other, or all of them at once.
Send ==
  /\ pc = "send" /\ pc' \in {"preflight", "legs"}
  /\ LogOpportunity
  /\ sinceSent' = [sinceSent EXCEPT ![MarketOf[opp.kind]] = 0]
  /\ sentPaused' = IF paused THEN sentPaused + 1 ELSE 0
  /\ UNCHANGED <<memory, opp, budget, size, positions, account, pauses, crashes>>

\* Legs that are sent in order are first held against the balance, cached or
\* read again; whole contracts may cost less than the size they are bought for.
Preflight ==
  /\ pc = "preflight"
  /\ \E b \in -1 .. MaxCash :
       /\ GetBalance(b)
       /\ \/ /\ b = 0 => TypeOf[opp.kind] \in Exchange
             /\ pc' = "legs" /\ UNCHANGED <<cooling, opp, budget, size>>
          \/ /\ b >= 0
             /\ cooling' = [cooling EXCEPT ![KeyOf[opp.kind]] = Cooldown]
             /\ Skip
  /\ UNCHANGED <<queue, list, admitted, whales, canary, paused, database, cash, history,
                 pauses, crashes>>

MutantAfterWin == UNCHANGED cache
AfterWin == cache' = NoCache

\* Every leg filled: a position, and the balance read next is a new one.  The
\* legs of an exempt type name no token or ticker and are never filled.
Win ==
  /\ pc = "legs" /\ NumLegs * size <= cash
  /\ TypeOf[opp.kind] \notin Exempt
  /\ positions' = Append(positions, [market |-> MarketOf[opp.kind], pnl |-> opp.profit])
  /\ cash' = cash - NumLegs * size
  /\ AfterWin
  /\ whales' = IF TypeOf[opp.kind] \in Whales THEN whales + 1 ELSE whales
  /\ canary' = canary + 1
  /\ Skip
  /\ UNCHANGED <<queue, list, admitted, cooling, paused, recent, unseen, history, pauses,
                 crashes>>

\* A leg failed: what the others spent stays in the cached balance.  Only a
\* failure that is returned, and not raised, starts the cooldown.
Lose ==
  /\ pc = "legs"
  /\ \E n \in 0 .. NumLegs - 1 :
       /\ n * size <= cash /\ cash' = cash - n * size
       /\ unseen' = unseen + n * size
  /\ unseen' <= MaxCash
  /\ \/ cooling' = [cooling EXCEPT ![KeyOf[opp.kind]] = Cooldown]
     \/ UNCHANGED cooling
  /\ Skip
  /\ UNCHANGED <<queue, list, admitted, cache, whales, canary, paused, database, history,
                 pauses, crashes>>

Next ==
  \/ Tick \/ Pause \/ Resume \/ CashMoves \/ Settle \/ Restart
  \/ \E o \in Opps : Trigger(o) \/ Screen(o)
  \/ \E found \in UNION {kSubset(n, Opps) : n \in 1 .. MaxList} : ScanPass(found)
  \/ Revalidate \/ ReadBalances \/ RiskGate \/ Approve \/ Send
  \/ Preflight \/ Win \/ Lose

Spec == Init /\ [][Next]_vars

-----------------------------------------------------------------------------
(***************************************************************************)
(* Properties.                                                             *)
(***************************************************************************)

\* The kill switch is read once, at the head of execute(): after a pause at most
\* the one opportunity that was past it is still sent, whatever the queue and
\* the scan pass hold.
OneAfterPause == paused => sentPaused <= 1

\* Opportunities of one market are sent at least the duplicate window apart,
\* the copies of the queue, of the scan pass and of a process before included.
SentApart ==
  [][pc = "send" /\ pc' \in {"preflight", "legs"}
       => sinceSent[MarketOf[opp.kind]] >= Window]_vars

\* The open positions stay within their limit, and a market entered again was
\* entered for a fifth more than every position it already had open, across
\* queued copies, settlements and restarts.
EntriesImprove ==
  /\ Len(positions) <= MaxOpen
  /\ \A i, j \in DOMAIN positions :
       i < j /\ positions[i].market = positions[j].market
         => 5 * positions[j].pnl > 6 * positions[i].pnl

\* What is about to be sent, if it was sized from a balance, asks for no more than
\* the account has, but for what left it since the balance was read by other ways
\* than a whole execution: those empty the cache, a failed one and a transfer do
\* not.
SizedWithinCash ==
  pc \in {"approve", "send"} /\ budget > 0 => NumLegs * size <= cash + unseen

-----------------------------------------------------------------------------
(***************************************************************************)
(* What the repository says and the code does not do.                      *)
(***************************************************************************)

\* The balance is divided by the number of legs "so the total trade fits within
\* the balance" (_per_leg_budget).  A balance of nothing is returned as a budget
\* of nothing, which clamp_size takes for no limit.
TradeFitsBalance == pc = "send" /\ budget = cash => NumLegs * size <= cash
=============================================================================
