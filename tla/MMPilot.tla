------------------------------ MODULE MMPilot ------------------------------
(***************************************************************************)
(* The Kalshi market making pilot of mm_pilot.py: its order registry, the  *)
(* inventory it counts from polled fills, cancels, halts, the startup      *)
(* reconciliation and the shutdown, against the venue's own orders and     *)
(* fills, with the main loop's hedger, which reads the rows the pilot's    *)
(* hedger leaves in partial_fills.                                         *)
(*                                                                         *)
(* run_loop is one thread: a step is the code up to its next call to the   *)
(* venue.  Between any two steps the venue fills live orders and the main  *)
(* loop hedges, the pilot being down included.  Every contract has one     *)
(* price, so that dollars are contracts; what the gates read from books,   *)
(* trackers and the control plane is a verdict drawn anew each time.  A    *)
(* request whose answer is lost is decided before the next request.        *)
(***************************************************************************)
EXTENDS Integers, Sequences, Functions

CONSTANTS Markets,
          QuoteSize,     \* contracts of a quote (MM_QUOTE_SIZE_USD)
          Cap,           \* MM_MAX_INVENTORY_CONTRACTS
          Deadband,      \* MM_INVENTORY_TARGET_USD + MM_HEDGE_DEADBAND_USD
          CanaryFills,   \* MM_CANARY_FILLS
          MaxCancels,    \* MAX_CANCEL_ATTEMPTS
          BlindAfter,    \* FILL_POLL_FAILURE_LIMIT
          HedgeAttempts, \* HEDGE_MAX_ATTEMPTS of the main loop's hedger
          MaxOrders, MaxFills, \* bounds on what the venue sees
          MaxFaults            \* bound on failed calls and crashes

ASSUME PilotAssumption ==
  /\ Markets # {}
  /\ QuoteSize \in Nat \ {0}
  /\ Cap \in Nat /\ Deadband \in Nat /\ CanaryFills \in Nat
  /\ MaxCancels \in Nat \ {0} /\ BlindAfter \in Nat \ {0}
  /\ HedgeAttempts \in Nat \ {0}
  /\ MaxOrders \in Nat /\ MaxFills \in Nat /\ MaxFaults \in Nat

VARIABLES
  quote,      \* every order sent, by id: market, side, contracts left, whose
  open,       \* ids the venue has live
  fills,      \* the venue's fills, oldest first; a fill's id is its place
  position,   \* the venue's positions
  audit,      \* rows of partial_fills that hedge_inventory logged
  known,      \* ids in the registry (_orders)
  tries,      \* cancel_attempts of a registered id
  net,        \* PilotInventory._net
  seen,       \* _seen_fill_ids (MaxFills is below the 1000 that are kept)
  cursor,     \* _last_fill_ts, as the place of a fill
  halted, mhalted,        \* halted, _market_halted
  failures,   \* _fill_poll_failures
  reconciled, \* _reconciled
  selected,   \* _selected
  clean, graduated,       \* canary_clean_fills, canary_graduated
  saved,      \* last_fill_ts in the state file
  pc, then,   \* where run_loop stands, and where a round of cancels returns to
  todo, later, \* orders still to cancel: of this round, of the round it cut short
  batch,      \* fills fetched and not yet processed
  owned,      \* pilot_markets of this poll
  at, sides,  \* the market worked on, and the sides still to quote
  attempt,    \* number of the shutdown pass
  counted,    \* history: fills that net includes
  passed,     \* history: fills skipped as someone else's
  faults

venue    == <<quote, open, fills, position>>
registry == <<known, tries>>
books    == <<net, seen, cursor, counted, passed>>
canary   == <<clean, graduated>>
halts    == <<halted, mhalted>>
sight    == <<failures, reconciled, selected>>
work     == <<batch, owned, at, sides, attempt>>
control  == <<pc, then, todo, later>>
vars     == <<venue, audit, registry, books, canary, halts, sight, work, control,
              saved, faults>>

Orders  == 1 .. MaxOrders
FillIds == 1 .. MaxFills
Signs   == {-1, 1}    \* YES bought or sold; buying NO is selling YES
Abs(n)  == IF n < 0 THEN -n ELSE n

Sent        == DOMAIN quote
Recorded    == DOMAIN fills
MarketOf(i) == quote[fills[i].order].market
Signed(i)   == quote[fills[i].order].sign * fills[i].n
SumOf(m, S) == SumFunctionOnSet([i \in Recorded |-> Signed(i)], {i \in S : MarketOf(i) = m})
Oldest(S)   == {i \in S : \A j \in S : i <= j}
RestingIn(m) == {o \in known : quote[o].market = m}
PilotTickers == selected \cup {quote[o].market : o \in known}
                         \cup {m \in Markets : net[m] # 0}
Blind   == failures >= BlindAfter
Down    == pc \in {"down", "stopped", "unconfirmed"}
MayFail == faults < MaxFaults
Fault   == faults' = faults + 1
NoFault == UNCHANGED faults

TypeOK ==
  /\ quote \in Seq([market : Markets, sign : Signs, left : Nat, own : BOOLEAN])
  /\ Len(quote) <= MaxOrders
  /\ open \subseteq Sent /\ known \subseteq Sent
  /\ fills \in Seq([order : Sent, n : Nat \ {0}]) /\ Len(fills) <= MaxFills
  /\ audit \in Seq([market : Markets, sign : Signs, n : Nat \ {0},
                    tries : 0 .. HedgeAttempts])
  /\ tries \in [Orders -> 0 .. MaxCancels]
  /\ net \in [Markets -> Int] /\ position \in [Markets -> Int]
  /\ seen \subseteq FillIds /\ counted \subseteq FillIds /\ passed \subseteq FillIds
  /\ cursor \in 0 .. MaxFills /\ saved \in 0 .. MaxFills
  /\ halted \in BOOLEAN /\ reconciled \in BOOLEAN /\ graduated \in BOOLEAN
  /\ mhalted \subseteq Markets /\ selected \subseteq Markets /\ owned \subseteq Markets
  /\ failures \in 0 .. BlindAfter /\ clean \in 0 .. CanaryFills
  /\ pc \in {"sweep", "confirm", "positions", "fills", "idle", "pull", "place",
             "process", "judge", "hedge", "stop", "verify",
             "stopped", "unconfirmed", "down"}
  /\ then \in {"idle", "place", "process", "hedge", "verify", "stop", "confirm"}
  /\ todo \subseteq Sent /\ later \subseteq Sent /\ batch \subseteq FillIds
  /\ at \in Markets /\ sides \subseteq Signs
  /\ attempt \in 0 .. MaxCancels
  /\ faults \in 0 .. MaxFaults

(***************************************************************************)
(* A process that starts remembers the state file and nothing else.        *)
(***************************************************************************)

Fresh ==
  /\ known' = {} /\ tries' = [o \in Orders |-> 0]
  /\ net' = [m \in Markets |-> 0]
  /\ seen' = {} /\ counted' = {} /\ passed' = {} /\ cursor' = Len(fills)
  /\ clean' = 0 /\ graduated' = FALSE
  /\ halted' = FALSE /\ mhalted' = {}
  /\ failures' = 0 /\ reconciled' = FALSE /\ selected' = {}
  /\ batch' = {} /\ owned' = {} /\ sides' = {} /\ attempt' = 0 /\ at' = at
  /\ pc' = "idle" /\ then' = "idle" /\ todo' = {} /\ later' = {}

Init ==
  /\ quote = <<>> /\ open = {} /\ fills = <<>> /\ audit = <<>>
  /\ position = [m \in Markets |-> 0]
  /\ known = {} /\ tries = [o \in Orders |-> 0]
  /\ net = [m \in Markets |-> 0]
  /\ seen = {} /\ counted = {} /\ passed = {} /\ cursor = 0
  /\ clean = 0 /\ graduated = FALSE
  /\ halted = FALSE /\ mhalted = {}
  /\ failures = 0 /\ reconciled = FALSE /\ selected = {}
  /\ batch = {} /\ owned = {} /\ sides = {} /\ attempt = 0 /\ at \in Markets
  /\ pc = "idle" /\ then = "idle" /\ todo = {} /\ later = {}
  /\ saved = 0 /\ faults = 0

Start == Down /\ Fresh /\ UNCHANGED <<venue, audit, saved, faults>>

Crash ==
  /\ ~Down /\ MayFail /\ Fault
  /\ pc' = "down"
  /\ UNCHANGED <<venue, audit, registry, books, canary, halts, sight, work, then,
                 todo, later, saved>>

(***************************************************************************)
(* The venue, and the main loop's hedger.                                  *)
(***************************************************************************)

Filled(o, m, n) ==
  /\ fills' = Append(fills, [order |-> o, n |-> n])
  /\ position' = [position EXCEPT ![m] = @ + quote'[o].sign * n]

VenueFill(o) ==
  /\ o \in open /\ Len(fills) < MaxFills
  /\ \E n \in 1 .. quote[o].left :
       /\ quote' = [quote EXCEPT ![o].left = @ - n]
       /\ Filled(o, quote[o].market, n)
       /\ open' = IF n = quote[o].left THEN open \ {o} ELSE open
  /\ UNCHANGED <<audit, registry, books, canary, halts, sight, work, control, saved,
                 faults>>

\* cancel_order is TRUE only once the order is gone; of an order that was gone
\* already the venue may say either.
CancelAnswers(o, ok) ==
  \/ o \in open /\ ok /\ open' = open \ {o} /\ NoFault
  \/ /\ o \in open /\ ~ok /\ MayFail /\ Fault
     /\ open' \in {open, open \ {o}}
  \/ o \notin open /\ UNCHANGED open /\ NoFault

\* The main loop takes a row of the pilot for a leg to sell: it has no clamp
\* to the position, and the pilot's registry never hears of the order.
MainLoopHedges(r) ==
  /\ audit[r].tries < HedgeAttempts
  /\ \/ \* sold, or taken and killed: the row is hedged either way
        /\ Len(quote) < MaxOrders
        /\ quote' = Append(quote, [market |-> audit[r].market, sign |-> audit[r].sign,
                                   left |-> 0, own |-> FALSE])
        /\ \/ /\ Len(fills) < MaxFills
              /\ Filled(Len(quote'), audit[r].market, audit[r].n)
           \/ UNCHANGED <<fills, position>>
        /\ audit' = [audit EXCEPT ![r].tries = HedgeAttempts]
     \/ /\ audit' = [audit EXCEPT ![r].tries = @ + 1]
        /\ UNCHANGED <<quote, fills, position>>
  /\ UNCHANGED <<open, registry, books, canary, halts, sight, work, control, saved,
                 faults>>

(***************************************************************************)
(* Cancelling: _cancel_order, pull_market, pull_all and the halts.         *)
(***************************************************************************)

\* Cancel the orders S one by one, then those of a round cut short, then go on.
Pulling(S, rest, next) ==
  /\ todo'  = IF S = {} THEN rest ELSE S
  /\ later' = IF S = {} THEN {} ELSE rest
  /\ IF S \cup rest = {} THEN pc' = next /\ then' = "idle" ELSE pc' = "pull" /\ then' = next

\* halt_all, called with the orders rest still to cancel: only the first halt
\* pulls.
MutantHaltAll(rest, next) == halted' = TRUE /\ Pulling({}, rest, next)
HaltAll(rest, next) ==
  /\ halted' = TRUE
  /\ Pulling(IF halted THEN {} ELSE known', rest, next)

\* halt_market: the second halt of a market within its window halts the pilot.
HaltMarket(m, next) ==
  LET mine == {o \in known' : quote[o].market = m}
  IN  /\ mhalted' = mhalted \cup {m}
      /\ \/ halted' = halted /\ Pulling(mine, {}, next)
         \/ m \in mhalted /\ HaltAll(mine, next)

CancelNext ==
  /\ pc = "pull"
  /\ \E o \in todo :
     IF o \notin known /\ then # "stop" \* popped meanwhile: nothing to do
     THEN /\ Pulling(todo \ {o}, later, then)
          /\ UNCHANGED <<open, registry, halted, saved, faults>>
     ELSE \E ok \in BOOLEAN :
       LET going == ok \/ then # "place" \* a failed cancel aborts a replacement
           rest  == IF going THEN todo \ {o} ELSE {}
           next  == IF going THEN then ELSE "idle"
       IN  /\ CancelAnswers(o, ok)
           /\ IF o \notin known \* an order only the venue knows
              THEN Pulling(rest, later, next) /\ UNCHANGED <<registry, halted, saved>>
              ELSE IF ok
              THEN /\ known' = known \ {o} /\ tries' = [tries EXCEPT ![o] = 0]
                   /\ saved' = cursor
                   /\ Pulling(rest, later, next) /\ UNCHANGED halted
              ELSE /\ tries' = [tries EXCEPT ![o] = IF @ < MaxCancels THEN @ + 1 ELSE @]
                   /\ UNCHANGED <<known, saved>>
                   /\ IF tries'[o] >= MaxCancels
                      THEN HaltAll(rest \cup later, next)
                      ELSE Pulling(rest, later, next) /\ UNCHANGED halted
  /\ UNCHANGED <<quote, fills, position, audit, books, canary, mhalted, sight, work>>

RetryCancels ==
  /\ pc = "idle" /\ reconciled
  /\ \E S \in SUBSET {o \in known : tries[o] > 0} :
       S # {} /\ Pulling(S, {}, "idle")
  /\ UNCHANGED <<venue, audit, registry, books, canary, halts, sight, work, saved,
                 faults>>

\* The kill switch, the venue list, three loop errors in a row.
HaltIdle ==
  /\ pc = "idle" /\ reconciled /\ ~halted
  /\ UNCHANGED known /\ HaltAll({}, "idle")
  /\ UNCHANGED <<venue, audit, tries, books, canary, mhalted, sight, work, saved,
                 faults>>

\* An outcome nobody knows: the books are no longer trusted.
MutantRequireReconciliation(next) == UNCHANGED reconciled /\ HaltAll({}, next)
RequireReconciliation(next) == reconciled' = FALSE /\ HaltAll({}, next)

(***************************************************************************)
(* reconcile: before anything is quoted, and after an unknown outcome.     *)
(* Cancel what the venue has live, see it gone, take positions and fills.  *)
(***************************************************************************)

Reconciling(next) ==
  /\ pc' = next /\ todo' = {} /\ later' = {} /\ then' = "idle"
  /\ UNCHANGED <<venue, audit, registry, books, canary, halts, sight, work, saved>>

QueryFails ==
  /\ \/ pc = "idle" /\ ~reconciled
     \/ pc \in {"confirm", "positions", "fills"}
  /\ MayFail /\ Fault /\ Reconciling("idle")

QueryOpen ==
  /\ pc = "idle" /\ ~reconciled
  /\ pc' = IF open = {} THEN "confirm" ELSE "sweep"
  /\ todo' = open /\ then' = "confirm"
  /\ UNCHANGED <<venue, audit, registry, books, canary, halts, sight, work, later,
                 saved, faults>>

\* Every order is tried; one that fails makes the reconciliation fail.
SweepNext ==
  /\ pc = "sweep"
  /\ \E o \in todo, ok \in BOOLEAN :
       /\ CancelAnswers(o, ok)
       /\ then' = IF ok THEN then ELSE "idle"
       /\ todo' = todo \ {o}
  /\ pc' = IF todo' = {} THEN then' ELSE "sweep"
  /\ UNCHANGED <<quote, fills, position, audit, registry, books, canary, halts, sight,
                 work, later, saved>>

ConfirmEmpty ==
  /\ pc = "confirm" /\ Reconciling(IF open = {} THEN "positions" ELSE "idle") /\ NoFault

\* The inventory is replaced by the venue's positions.  (The code stores it
\* once it has the fills as well; nothing reads it in between.)
MutantTakePositions ==
  /\ pc = "positions" /\ pc' = "fills"
  /\ UNCHANGED <<venue, audit, registry, books, canary, halts, sight, work, then, todo,
                 later, saved, faults>>
TakePositions ==
  /\ pc = "positions" /\ pc' = "fills"
  /\ net' = position
  /\ counted' = Recorded
  /\ UNCHANGED <<venue, audit, registry, seen, cursor, passed, canary, halts, sight,
                 work, then, todo, later, saved, faults>>

TakeFills ==
  LET recent == {i \in Recorded : i >= saved}
  IN  /\ pc = "fills" /\ pc' = "idle"
      /\ known' = {} /\ seen' = seen \cup recent
      /\ cursor' = IF recent # {} THEN Len(fills)
                   ELSE IF cursor > saved THEN cursor ELSE saved
      /\ reconciled' = TRUE /\ saved' = cursor'
      /\ tries' = [o \in Orders |-> 0]
      /\ UNCHANGED <<venue, audit, net, counted, passed, canary, halts, failures,
                     selected, work, then, todo, later, faults>>

(***************************************************************************)
(* Quoting: update_selection, refresh_market and place_pilot_order.        *)
(***************************************************************************)

Select ==
  /\ pc = "idle" /\ reconciled
  /\ \E S \in SUBSET Markets : selected' = S
  /\ UNCHANGED <<venue, audit, registry, books, canary, halts, failures, reconciled,
                 work, control, saved, faults>>

\* What the gates and the choke point both refuse to quote without.
MayQuote == reconciled /\ ~Blind /\ ~halted

Refreshes(m) ==
  pc = "idle" /\ MayQuote /\ m \in PilotTickers \ mhalted /\ at' = m

\* A gate pulls the market, or the newest orders above the gross cap.
GatePulls(m) ==
  /\ Refreshes(m)
  /\ LET mine == RestingIn(m) IN
     \/ Pulling(mine, {}, "idle")
     \/ /\ m \in selected
        /\ \E o \in mine : Pulling({x \in mine : x >= o}, {}, "idle")
  /\ UNCHANGED <<venue, audit, registry, books, canary, halts, sight, batch, owned,
                 sides, attempt, saved, faults>>

\* At the cap only the side that reduces is quoted.
GatesPass(m) ==
  /\ Refreshes(m) /\ m \in selected
  /\ sides' \in SUBSET {s \in Signs : Abs(net[m]) >= Cap => s * net[m] < 0}
  /\ Pulling(RestingIn(m), {}, "place")
  /\ UNCHANGED <<venue, audit, registry, books, canary, halts, sight, batch, owned,
                 attempt, saved, faults>>

\* _authorize, for an order of n contracts on side s.
Authorized(m, s, n) ==
  /\ MayQuote
  /\ m \in mhalted => s * net[m] < 0 /\ n <= Abs(net[m])
  /\ Abs(net[m] + s * n) > Abs(net[m]) => Abs(net[m] + s * n) <= Cap

\* The bid goes first.
Side == IF 1 \in sides THEN 1 ELSE -1

QuoteSide ==
  /\ pc = "place" /\ sides # {}
  /\ \E n \in 1 .. QuoteSize :
       /\ Authorized(at, Side, n) /\ Len(quote) < MaxOrders
       /\ quote' = Append(quote, [market |-> at, sign |-> Side, left |-> n, own |-> TRUE])
       /\ \/ \* an answer with an id
             /\ open' = open \cup {Len(quote')} /\ known' = known \cup {Len(quote')}
             /\ saved' = cursor /\ sides' = sides \ {Side}
             /\ UNCHANGED <<reconciled, halted, control>> /\ NoFault
          \/ \* none: the order may be live
             /\ MayFail /\ Fault
             /\ open' \in {open, open \cup {Len(quote')}}
             /\ UNCHANGED <<known, saved>> /\ sides' = {}
             /\ RequireReconciliation("place")
  /\ UNCHANGED <<fills, position, audit, tries, books, canary, mhalted, failures, selected,
                 batch, owned, at, attempt>>

\* Refused by the choke point, crossing the book, or of size zero.
SkipSide ==
  /\ pc = "place"
  /\ IF sides = {} THEN pc' = "idle" /\ UNCHANGED sides
     ELSE sides' = sides \ {Side} /\ UNCHANGED pc
  /\ UNCHANGED <<venue, audit, registry, books, canary, halts, sight, batch, owned, at,
                 attempt, then, todo, later, saved, faults>>

(***************************************************************************)
(* Fills: poll_fills and _process_fill.                                    *)
(***************************************************************************)

PollFails ==
  /\ pc = "idle" /\ reconciled /\ MayFail /\ Fault
  /\ failures' = IF Blind THEN failures ELSE failures + 1
  /\ IF ~Blind /\ failures' = BlindAfter
     THEN Pulling(known, {}, "idle") ELSE UNCHANGED control
  /\ UNCHANGED <<venue, audit, registry, books, canary, halts, reconciled, selected,
                 work, saved>>

MutantPollDue == pc = "idle" /\ reconciled /\ selected # {}
PollDue == pc = "idle" /\ reconciled

MutantUnseen == Recorded
Unseen == Recorded \ seen

\* The window reaches 60 s behind the newest fill, whatever lies in it.
PollFills ==
  /\ PollDue
  /\ \E w \in 0 .. MaxFills : batch' = {i \in Unseen : i >= cursor - w}
  /\ failures' = 0 /\ owned' = PilotTickers
  /\ pc' = "process"
  /\ UNCHANGED <<venue, audit, registry, books, canary, halts, reconciled, selected, at,
                 sides, attempt, then, todo, later, saved, faults>>

PollEnds ==
  /\ pc = "process" /\ batch = {}
  /\ pc' = "idle" /\ saved' = cursor
  /\ UNCHANGED <<venue, audit, registry, books, canary, halts, sight, work, then, todo,
                 later, faults>>

\* A fill of no registered order: in one of our markets nothing is trusted
\* any more, elsewhere it is someone else's.
UnknownFill ==
  /\ pc = "process" /\ UNCHANGED known
  /\ \E i \in Oldest(batch) :
       /\ fills[i].order \notin known
       /\ IF MarketOf(i) \in owned
          THEN /\ seen' = seen \cup {i} /\ batch' = {}
               /\ UNCHANGED passed /\ HaltAll({}, "idle")
          ELSE /\ passed' = passed \cup {i} /\ batch' = batch \ {i}
               /\ UNCHANGED <<seen, halted, control>>
  /\ UNCHANGED <<venue, audit, tries, net, cursor, counted, canary, mhalted, sight,
                 owned, at, sides, attempt, saved, faults>>

\* No trade_id: halt.  No price or count: the books are not trusted either.
BadFill ==
  /\ pc = "process" /\ MayFail /\ Fault
  /\ batch # {} /\ batch' = {} /\ UNCHANGED known
  /\ \/ HaltAll({}, "idle") /\ UNCHANGED reconciled
     \/ /\ \E i \in Oldest(batch) : fills[i].order \in known
        /\ RequireReconciliation("idle")
  /\ UNCHANGED <<venue, audit, tries, books, canary, mhalted, failures, selected,
                 owned, at, sides, attempt, saved>>

\* Accounted first, whatever is decided after.  An order leaves the registry
\* when all it asked for is accounted.
CountFill ==
  /\ pc = "process"
  /\ \E i \in Oldest(batch) :
       LET o == fills[i].order  m == MarketOf(i) IN
       /\ o \in known
       /\ seen' = seen \cup {i} /\ counted' = counted \cup {i}
       /\ net' = [net EXCEPT ![m] = @ + Signed(i)]
       /\ cursor' = IF i > cursor THEN i ELSE cursor
       /\ saved' = cursor' /\ batch' = batch \ {i}
       /\ known' = IF quote[o].left = 0
                      /\ \A j \in Recorded : fills[j].order = o => j \in seen'
                   THEN known \ {o} ELSE known
       /\ at' = m /\ pc' = IF halted THEN "process" ELSE "judge"
  /\ UNCHANGED <<venue, audit, tries, passed, canary, halts, sight, owned, sides,
                 attempt, then, todo, later, faults>>

\* A taker fill, or a canary fill or loss that is too large, halts the pilot; a
\* tracker that raises halts the market.
Judge ==
  /\ pc = "judge" /\ UNCHANGED known
  /\ \/ HaltAll({}, "process") /\ UNCHANGED mhalted
     \/ HaltMarket(at, "hedge")
     \/ Pulling({}, {}, "hedge") /\ UNCHANGED halts
  /\ UNCHANGED <<venue, audit, tries, books, canary, sight, work, saved, faults>>

\* One more clean fill of the canary; more than CanaryFills say no more.
OneMoreClean == IF graduated \/ clean = CanaryFills THEN clean ELSE clean + 1

\* The canary's losses, the cap, and toxicity in several markets are looked at
\* after the fact.  Past the deadband the hedge fails: _hedge_kalshi passes
\* reducing= to _PilotKalshiProxy.place_order, which has no such parameter, and
\* _attempt_hedge takes the TypeError for a failure.  Both attempts leave a row.
AfterFill ==
  /\ pc = "hedge" /\ UNCHANGED known
  /\ \/ /\ halted /\ Pulling({}, {}, "process")
        /\ UNCHANGED <<halts, audit, canary>>
     \/ /\ ~halted /\ HaltAll({}, "process")
        /\ clean' \in {clean, OneMoreClean}
        /\ UNCHANGED <<mhalted, audit, graduated>>
     \/ /\ ~halted /\ Abs(net[at]) <= Cap /\ Abs(net[at]) <= Deadband
        /\ clean' = OneMoreClean
        /\ graduated' \in {graduated, graduated \/ clean' >= CanaryFills}
        /\ Pulling({}, {}, "process") /\ UNCHANGED <<halts, audit>>
     \/ /\ ~halted /\ Abs(net[at]) <= Cap /\ Abs(net[at]) > Deadband
        /\ clean' = OneMoreClean
        /\ LET row == [market |-> at, sign |-> IF net[at] > 0 THEN -1 ELSE 1,
                       n |-> Abs(net[at]), tries |-> 0]
           IN  audit' = audit \o <<row, row>>
        /\ IF graduated THEN HaltMarket(at, "process")
           ELSE HaltAll({}, "process") /\ UNCHANGED mhalted
        /\ UNCHANGED graduated
  /\ UNCHANGED <<venue, tries, books, sight, work, saved, faults>>

(***************************************************************************)
(* stop: at most MaxCancels passes over the registry and over what the     *)
(* venue still shows.                                                      *)
(***************************************************************************)

Stop ==
  /\ pc = "idle"
  /\ attempt' = 1 /\ Pulling(known, {}, "verify")
  /\ UNCHANGED <<venue, audit, registry, books, canary, halts, sight, batch, owned, at,
                 sides, saved, faults>>

MutantPassesLeft == attempt <= MaxCancels
PassesLeft == attempt < MaxCancels

NextPass ==
  /\ IF PassesLeft
     THEN attempt' = attempt + 1 /\ Pulling(known, {}, "verify")
     ELSE attempt' = attempt /\ Pulling({}, {}, "unconfirmed")
  /\ saved' = IF PassesLeft THEN saved ELSE cursor
  /\ UNCHANGED <<venue, audit, registry, books, canary, halts, sight, batch, owned, at,
                 sides>>

MutantCleared == known = {}
Cleared == open = {}

VerifyStopped ==
  /\ pc = "verify"
  /\ \/ /\ Cleared /\ Pulling({}, {}, "stopped") /\ saved' = cursor /\ NoFault
        /\ UNCHANGED <<venue, audit, registry, books, canary, halts, sight, work>>
     \/ \* what the venue shows is cancelled, registered or not
        /\ ~Cleared /\ Pulling(open, {}, "stop") /\ NoFault
        /\ UNCHANGED <<venue, audit, registry, books, canary, halts, sight, work, saved>>
     \/ MayFail /\ Fault /\ NextPass

StopAgain == pc = "stop" /\ NoFault /\ NextPass

Next ==
  \/ Start \/ Crash \/ CancelNext \/ RetryCancels \/ HaltIdle
  \/ QueryFails \/ QueryOpen \/ SweepNext \/ ConfirmEmpty \/ TakePositions \/ TakeFills
  \/ Select \/ QuoteSide \/ SkipSide
  \/ PollFails \/ PollFills \/ PollEnds \/ UnknownFill \/ BadFill \/ CountFill
  \/ Judge \/ AfterFill \/ Stop \/ VerifyStopped \/ StopAgain
  \/ \E m \in Markets : GatePulls(m) \/ GatesPass(m)
  \/ \E o \in Sent : VenueFill(o)
  \/ \E r \in DOMAIN audit : MainLoopHedges(r)

Spec == Init /\ [][Next]_vars

\* Each stage of the loop has its turn: a pass retries the cancels whose backoff
\* of at most 30 s is over, polls fills and reconciles on its own cadence, so
\* that what is due again and again is done.
\* Nobody restarts the process, and nobody asks it to stop.
LoopGoesOn ==
  /\ WF_vars(CancelNext) /\ \A o \in Orders : SF_vars(RetryCancels /\ o \in todo')
  /\ SF_vars(QueryOpen) /\ WF_vars(SweepNext) /\ WF_vars(ConfirmEmpty)
  /\ WF_vars(TakePositions) /\ WF_vars(TakeFills)
  /\ WF_vars(SkipSide)
  /\ SF_vars(PollFills) /\ WF_vars(PollEnds) /\ WF_vars(UnknownFill) /\ WF_vars(CountFill)
  /\ WF_vars(Judge) /\ WF_vars(AfterFill)
  /\ WF_vars(VerifyStopped) /\ WF_vars(StopAgain)

LiveSpec == Spec /\ LoopGoesOn

-----------------------------------------------------------------------------
(***************************************************************************)
(* Properties.                                                             *)
(***************************************************************************)

\* A pilot that trusts its books knows every live order it placed, through
\* cancels that fail, placements without an answer and restarts: what it does
\* not know it can neither pull in a halt nor count in a cap.
LiveOrdersKnown == reconciled => open \subseteq known

\* The inventory is the sum of the fills it includes: none is added twice by
\* overlapping polls, by a reconciliation between two polls or by a restart.
NetIsCounted == reconciled => \A m \in Markets : net[m] = SumOf(m, counted)

\* A fill of ours is in the inventory, or the next poll still asks for it, or the
\* pilot is halted, or it went by as someone else's (the market was deselected,
\* flat and without orders when it was read): popping a cancelled order before
\* its fills are read, or moving the cursor, loses none.
NothingMissed ==
  reconciled /\ ~halted =>
    \A i \in Recorded : quote[fills[i].order].own =>
      i \in counted \/ i \in passed \/ (i \notin seen /\ (i \in batch \/ i >= cursor))

\* A shutdown that reports success left no order at the venue, the orders of
\* placements without an answer included.
StopConfirmed == pc = "stopped" => open = {}

\* A halted pilot's orders all go, the stuck ones and those it cannot name
\* included, as long as its process lives.
HaltDrains == halted ~> (open = {} \/ Down)

\* Every fill of ours is counted, skipped or answered with a halt.
FillsAnswered ==
  \A i \in FillIds :
    (i \in Recorded /\ quote[fills[i].order].own)
      ~> (i \in counted \/ i \in passed \/ halted \/ Down)

\* A hedge reduces: _hedge_kalshi says of its sale that it can never exceed the
\* position it is reducing.
HedgesReduce ==
  [][fills' # fills /\ ~quote'[fills'[Len(fills')].order].own =>
       \A m \in Markets : Abs(position'[m]) <= Abs(position[m])]_vars

\* The inventory keeps the promise of a polled ledger.
Ledger == INSTANCE FillLedger WITH
  fills   <- [i \in DOMAIN fills |-> [market |-> MarketOf(i), amount |-> Signed(i),
                                      own |-> quote[fills[i].order].own]],
  counted <- IF reconciled THEN counted ELSE {},
  book    <- [m \in Markets |-> IF reconciled THEN net[m] ELSE 0],
  trusted <- reconciled
ImplementsLedger == Ledger!Spec
=============================================================================
