---------------------------- MODULE MMPilotProofs ----------------------------
(***************************************************************************)
(* Theorems about the market making pilot, for any markets, sizes and      *)
(* caps, and any number of orders, fills, failed calls and crashes.        *)
(***************************************************************************)
EXTENDS MMPilot, Sums, SequenceTheorems, TLAPS

-----------------------------------------------------------------------------
(***************************************************************************)
(* The type invariant, in groups of variables that change together.        *)
(***************************************************************************)

Quotes  == [market : Markets, sign : Signs, left : Nat, own : BOOLEAN]
Stages  == {"sweep", "confirm", "positions", "fills", "idle", "pull", "place",
            "process", "judge", "hedge", "stop", "verify",
            "stopped", "unconfirmed", "down"}
Returns == {"idle", "place", "process", "hedge", "verify", "stop", "confirm"}

VenueType ==
  /\ quote \in Seq(Quotes) /\ Len(quote) <= MaxOrders
  /\ open \subseteq Sent
  /\ fills \in Seq([order : Sent, n : Nat \ {0}]) /\ Len(fills) <= MaxFills
  /\ position \in [Markets -> Int]
AuditType ==
  audit \in Seq([market : Markets, sign : Signs, n : Nat \ {0}, tries : 0 .. HedgeAttempts])
RegistryType == known \subseteq Sent /\ tries \in [Orders -> 0 .. MaxCancels]
BooksType ==
  /\ net \in [Markets -> Int]
  /\ seen \subseteq FillIds /\ counted \subseteq FillIds /\ passed \subseteq FillIds
  /\ cursor \in 0 .. MaxFills /\ saved \in 0 .. MaxFills
FlagsType ==
  /\ halted \in BOOLEAN /\ reconciled \in BOOLEAN /\ graduated \in BOOLEAN
  /\ mhalted \subseteq Markets /\ selected \subseteq Markets
  /\ failures \in 0 .. BlindAfter /\ clean \in 0 .. CanaryFills
ControlType == pc \in Stages /\ then \in Returns /\ todo \subseteq Sent /\ later \subseteq Sent
WorkType ==
  /\ batch \subseteq FillIds /\ owned \subseteq Markets
  /\ at \in Markets /\ sides \subseteq Signs /\ attempt \in 0 .. MaxCancels
FaultsType == faults \in 0 .. MaxFaults

LEMMA Groups ==
  TypeOK <=> /\ VenueType /\ AuditType /\ RegistryType /\ BooksType
             /\ FlagsType /\ ControlType /\ WorkType /\ FaultsType
  BY DEF TypeOK, VenueType, AuditType, RegistryType, BooksType, FlagsType, ControlType,
         WorkType, FaultsType, Quotes, Stages, Returns

LEMMA GroupsNext ==
  TypeOK' <=> /\ VenueType' /\ AuditType' /\ RegistryType' /\ BooksType'
              /\ FlagsType' /\ ControlType' /\ WorkType' /\ FaultsType'
  BY DEF TypeOK, VenueType, AuditType, RegistryType, BooksType, FlagsType, ControlType,
         WorkType, FaultsType, Quotes, Stages, Returns

LEMMA Bounds ==
  /\ QuoteSize \in Nat \ {0} /\ Cap \in Nat /\ Deadband \in Nat /\ CanaryFills \in Nat
  /\ MaxCancels \in Nat \ {0} /\ BlindAfter \in Nat \ {0} /\ HedgeAttempts \in Nat \ {0}
  /\ MaxOrders \in Nat /\ MaxFills \in Nat /\ MaxFaults \in Nat
  BY PilotAssumption

LEMMA Zeros ==
  /\ 0 \in 0 .. MaxFills /\ 0 \in 0 .. MaxCancels /\ 0 \in 0 .. BlindAfter
  /\ 0 \in 0 .. CanaryFills /\ 0 \in 0 .. MaxFaults
  BY Bounds

\* Ids are places of the sequences.
LEMMA Places ==
  ASSUME VenueType
  PROVE  /\ Len(quote) \in Nat /\ Sent = 1 .. Len(quote) /\ Sent \subseteq Orders
         /\ Len(fills) \in Nat /\ Recorded = 1 .. Len(fills) /\ Recorded \subseteq FillIds
         /\ \A o \in Sent : quote[o] \in Quotes
         /\ \A i \in Recorded : /\ fills[i].order \in Sent /\ fills[i].n \in Nat \ {0}
                                /\ MarketOf(i) \in Markets /\ Signed(i) \in Int
<1>1. Len(quote) \in Nat /\ Sent = 1 .. Len(quote) /\ Len(fills) \in Nat
      /\ Recorded = 1 .. Len(fills)
  BY LenProperties DEF VenueType, Sent, Recorded
<1>2. \A o \in Sent : quote[o] \in Quotes
  BY <1>1, ElementOfSeq DEF VenueType
<1>3. \A i \in Recorded : fills[i] \in [order : Sent, n : Nat \ {0}]
  <2> DEFINE F == [order : Sent, n : Nat \ {0}]
  <2>1. fills \in Seq(F)
    BY DEF VenueType
  <2> HIDE DEF F
  <2>2. \A i \in Recorded : fills[i] \in F
    BY <1>1, <2>1, ElementOfSeq
  <2> QED BY <2>2 DEF F
<1>4. ASSUME NEW i \in Recorded
      PROVE  /\ fills[i].order \in Sent /\ fills[i].n \in Nat \ {0}
             /\ MarketOf(i) \in Markets /\ Signed(i) \in Int
  <2>1. fills[i].order \in Sent /\ fills[i].n \in Nat \ {0}
    BY <1>3
  <2>2. quote[fills[i].order] \in Quotes
    BY <1>2, <2>1
  <2>3. quote[fills[i].order].sign \in Signs /\ quote[fills[i].order].market \in Markets
    BY <2>2 DEF Quotes
  <2>4. quote[fills[i].order].sign * fills[i].n \in Int
    BY <2>1, <2>3, SMT DEF Signs
  <2> QED BY <2>1, <2>3, <2>4 DEF MarketOf, Signed
<1>5. Sent \subseteq Orders /\ Recorded \subseteq FillIds
  BY <1>1, Bounds DEF VenueType, Orders, FillIds
<1> QED BY <1>1, <1>2, <1>4, <1>5

-----------------------------------------------------------------------------
(***************************************************************************)
(* Rounds of cancels and halts.                                            *)
(***************************************************************************)

LEMMA PullType ==
  ASSUME NEW S \in SUBSET Sent', NEW rest \in SUBSET Sent', NEW next \in Returns,
         Pulling(S, rest, next)
  PROVE  ControlType'
  BY DEF Pulling, ControlType, Stages, Returns

LEMMA PullNothing ==
  ASSUME NEW next \in Stages, Pulling({}, {}, next)
  PROVE  ControlType' /\ pc' = next /\ then' = "idle" /\ todo' = {} /\ later' = {}
  BY DEF Pulling, ControlType, Returns

LEMMA HaltType ==
  ASSUME NEW rest \in SUBSET Sent', NEW next \in Returns, known' \subseteq Sent',
         HaltAll(rest, next)
  PROVE  ControlType' /\ halted' = TRUE
<1>1. Pulling(IF halted THEN {} ELSE known', rest, next) /\ halted' = TRUE
  BY DEF HaltAll
<1> QED BY <1>1, PullType

LEMMA HaltMarketType ==
  ASSUME NEW m \in Markets, NEW next \in Returns, known' \subseteq Sent', halted \in BOOLEAN,
         mhalted \subseteq Markets, HaltMarket(m, next)
  PROVE  ControlType' /\ halted' \in BOOLEAN /\ mhalted' \subseteq Markets
<1> DEFINE mine == {o \in known' : quote[o].market = m}
<1>1. mine \in SUBSET Sent' /\ {} \in SUBSET Sent'
  OBVIOUS
<1>2. mhalted' \subseteq Markets
  BY DEF HaltMarket
<1>3. CASE halted' = halted /\ Pulling(mine, {}, next)
  BY <1>1, <1>2, <1>3, PullType
<1>4. CASE HaltAll(mine, next)
  BY <1>1, <1>2, <1>4, HaltType
<1> QED BY <1>3, <1>4 DEF HaltMarket

LEMMA CancelAnswersType ==
  ASSUME NEW o, NEW ok \in BOOLEAN, CancelAnswers(o, ok), FaultsType
  PROVE  /\ open' \subseteq open /\ FaultsType'
         /\ ok => o \notin open'
<1>1. faults \in 0 .. MaxFaults
  BY DEF FaultsType
<1>2. faults' = faults \/ (faults < MaxFaults /\ faults' = faults + 1)
  BY DEF CancelAnswers, MayFail, Fault, NoFault
<1>3. FaultsType'
  BY <1>1, <1>2, Bounds DEF FaultsType
<1> QED BY <1>3 DEF CancelAnswers

-----------------------------------------------------------------------------
(***************************************************************************)
(* Types.                                                                  *)
(***************************************************************************)

LEMMA TypeInit == Init => TypeOK
<1> SUFFICES ASSUME Init PROVE TypeOK
  OBVIOUS
<1>1. Sent = {} /\ VenueType
  BY Bounds, EmptySeq DEF Init, VenueType, Sent
<1>2. AuditType /\ RegistryType
  BY <1>1, Bounds, EmptySeq DEF Init, AuditType, RegistryType
<1>3. BooksType /\ FlagsType
  <2>1. net \in [Markets -> Int]
    BY DEF Init
  <2> QED BY <2>1, Zeros DEF Init, BooksType, FlagsType
<1>4. ControlType /\ WorkType /\ FaultsType
  BY <1>1, Zeros DEF Init, ControlType, WorkType, FaultsType, Stages, Returns
<1> QED BY <1>1, <1>2, <1>3, <1>4, Groups

\* The venue, the rows and the counters of a step that leaves them alone.
LEMMA VenueKept == ASSUME VenueType, UNCHANGED venue PROVE VenueType' /\ Sent' = Sent
  BY DEF VenueType, venue, Sent
LEMMA AuditKept == ASSUME AuditType, UNCHANGED audit PROVE AuditType'
  BY DEF AuditType
LEMMA FaultsKept == ASSUME FaultsType, UNCHANGED faults \/ (MayFail /\ Fault) PROVE FaultsType'
<1>1. faults \in 0 .. MaxFaults
  BY DEF FaultsType
<1>2. faults' = faults \/ (faults < MaxFaults /\ faults' = faults + 1)
  BY DEF MayFail, Fault
<1> QED BY <1>1, <1>2, Bounds DEF FaultsType

LEMMA StartType == TypeOK /\ Start => TypeOK'
<1> SUFFICES ASSUME TypeOK, Start PROVE TypeOK'
  OBVIOUS
<1> USE Groups, GroupsNext
<1>1. VenueType' /\ Sent' = Sent /\ AuditType' /\ FaultsType'
  BY VenueKept, AuditKept, FaultsKept DEF Start
<1>2. RegistryType'
  BY Bounds DEF Start, Fresh, RegistryType
<1>3. BooksType'
  <2>1. Len(fills) \in 0 .. MaxFills
    BY Places, Bounds DEF VenueType
  <2> QED BY <2>1 DEF Start, Fresh, BooksType
<1>4. FlagsType' /\ WorkType'
  BY Zeros DEF Start, Fresh, FlagsType, WorkType
<1>5. ControlType'
  BY DEF Start, Fresh, ControlType, Stages, Returns
<1> QED BY <1>1, <1>2, <1>3, <1>4, <1>5

LEMMA CrashType == TypeOK /\ Crash => TypeOK'
<1> SUFFICES ASSUME TypeOK, Crash PROVE TypeOK'
  OBVIOUS
<1> USE Groups, GroupsNext
<1>1. VenueType' /\ Sent' = Sent /\ AuditType' /\ FaultsType'
  BY VenueKept, AuditKept, FaultsKept DEF Crash
<1>2. RegistryType' /\ BooksType'
  BY <1>1 DEF Crash, registry, books, RegistryType, BooksType
<1>3. FlagsType' /\ WorkType'
  BY DEF Crash, canary, halts, sight, work, FlagsType, WorkType
<1>4. ControlType'
  BY <1>1 DEF Crash, ControlType, Stages
<1> QED BY <1>1, <1>2, <1>3, <1>4

\* A fill of an order the venue has, whatever became of its quote.
LEMMA FilledType ==
  ASSUME VenueType, quote' \in Seq(Quotes), Len(quote') <= MaxOrders,
         NEW o \in Sent', Sent \subseteq Sent', NEW m \in Markets, NEW n \in Nat \ {0},
         open' \subseteq Sent', Len(fills) < MaxFills, Filled(o, m, n)
  PROVE  VenueType'
<1> DEFINE F(S) == [order : S, n : Nat \ {0}]
<1>1. fills \in Seq(F(Sent))
  BY DEF VenueType
<1>2. fills \in Seq(F(Sent'))
  <2>1. F(Sent) \subseteq F(Sent')
    OBVIOUS
  <2> HIDE DEF F
  <2> QED BY <1>1, <2>1, SeqMonotonic
<1>3. /\ fills' = Append(fills, [order |-> o, n |-> n])
      /\ position' = [position EXCEPT ![m] = position[m] + quote'[o].sign * n]
  BY Zenon DEF Filled
<1>4. [order |-> o, n |-> n] \in F(Sent')
  OBVIOUS
<1>5. fills' \in Seq(F(Sent')) /\ Len(fills') <= MaxFills
  <2> HIDE DEF F
  <2> QED BY <1>2, <1>3, <1>4, Bounds
<1>6. position' \in [Markets -> Int]
  <2>1. quote'[o] \in Quotes
    BY ElementOfSeq, LenProperties DEF Sent
  <2>2. quote'[o].sign * n \in Int
    BY <2>1, SMT DEF Quotes, Signs
  <2> QED BY <1>3, <2>2 DEF VenueType
<1> QED BY <1>5, <1>6 DEF VenueType

LEMMA VenueFillType == ASSUME TypeOK, NEW o \in Sent, VenueFill(o) PROVE TypeOK'
<1> USE Groups, GroupsNext
<1>1. PICK n \in 1 .. quote[o].left :
        /\ quote' = [quote EXCEPT ![o].left = @ - n]
        /\ Filled(o, quote[o].market, n)
        /\ open' = IF n = quote[o].left THEN open \ {o} ELSE open
  BY DEF VenueFill
<1>2. quote[o] \in Quotes /\ o \in 1 .. Len(quote)
  BY Places
<1>3. n \in Nat \ {0} /\ quote[o].left - n \in Nat /\ quote[o].market \in Markets
  BY <1>2 DEF Quotes
<1>4. quote' = [quote EXCEPT ![o] = [quote[o] EXCEPT !.left = quote[o].left - n]]
  BY <1>1, Zenon
<1>5. [quote[o] EXCEPT !.left = quote[o].left - n] \in Quotes
  BY <1>2, <1>3 DEF Quotes
<1>6. quote' \in Seq(Quotes) /\ Len(quote') = Len(quote) /\ Sent' = Sent
  BY <1>2, <1>4, <1>5, ExceptSeq, LenProperties DEF VenueType, Sent
<1>7. VenueType'
  BY <1>1, <1>3, <1>6, FilledType DEF VenueFill, VenueType
<1>8. AuditType' /\ FaultsType' /\ RegistryType' /\ BooksType'
  BY <1>6, AuditKept, FaultsKept DEF VenueFill, registry, books, RegistryType, BooksType
<1>9. FlagsType' /\ WorkType' /\ ControlType'
  BY <1>6 DEF VenueFill, canary, halts, sight, work, control, FlagsType, WorkType, ControlType
<1> QED BY <1>7, <1>8, <1>9

LEMMA MainLoopHedgesType ==
  ASSUME TypeOK, NEW r \in DOMAIN audit, MainLoopHedges(r) PROVE TypeOK'
<1> USE Groups, GroupsNext
<1> DEFINE A == [market : Markets, sign : Signs, n : Nat \ {0}, tries : 0 .. HedgeAttempts]
           q == [market |-> audit[r].market, sign |-> audit[r].sign, left |-> 0, own |-> FALSE]
<1>1. audit \in Seq(A) /\ r \in 1 .. Len(audit)
  BY LenProperties DEF AuditType
<1>2. audit[r] \in A
  BY <1>1, ElementOfSeq
<1>3. /\ audit[r].market \in Markets /\ audit[r].sign \in Signs /\ audit[r].n \in Nat \ {0}
      /\ audit[r].tries \in 0 .. HedgeAttempts
  BY <1>2
<1>4. AuditType'
  <2>1. \/ audit' = [audit EXCEPT ![r] = [audit[r] EXCEPT !.tries = HedgeAttempts]]
        \/ /\ audit[r].tries < HedgeAttempts
           /\ audit' = [audit EXCEPT ![r] = [audit[r] EXCEPT !.tries = audit[r].tries + 1]]
    BY Zenon DEF MainLoopHedges
  <2>2. HedgeAttempts \in 0 .. HedgeAttempts
    BY Bounds
  <2>3. audit[r].tries < HedgeAttempts => audit[r].tries + 1 \in 0 .. HedgeAttempts
    BY <1>3, Bounds
  <2>4. \A t \in 0 .. HedgeAttempts : [audit[r] EXCEPT !.tries = t] \in A
    BY <1>2
  <2>5. \A t \in 0 .. HedgeAttempts :
          [audit EXCEPT ![r] = [audit[r] EXCEPT !.tries = t]] \in Seq(A)
    <3> HIDE DEF A
    <3> QED BY <1>1, <2>4, ExceptSeq
  <2>6. audit' \in Seq(A)
    <3> HIDE DEF A
    <3> QED BY <2>1, <2>2, <2>3, <2>5
  <2> QED BY <2>6 DEF AuditType
<1>5. VenueType' /\ Sent \subseteq Sent'
  <2>1. CASE UNCHANGED <<quote, fills, position>>
    BY <2>1, VenueKept DEF MainLoopHedges, venue
  <2>2. CASE Len(quote) < MaxOrders /\ quote' = Append(quote, q)
    <3>1. q \in Quotes
      BY <1>3 DEF Quotes
    <3>2. /\ quote' \in Seq(Quotes) /\ Len(quote') = Len(quote) + 1
          /\ Len(quote') <= MaxOrders /\ Sent \subseteq Sent' /\ Len(quote') \in Sent'
      <4> HIDE DEF q
      <4>1. quote \in Seq(Quotes) /\ Len(quote) \in Nat
        BY LenProperties DEF VenueType
      <4> QED BY <2>2, <3>1, <4>1, Bounds DEF Sent
    <3>3. open' \subseteq Sent'
      BY <3>2 DEF MainLoopHedges, VenueType
    <3>4. CASE /\ Len(fills) < MaxFills
               /\ Filled(Len(quote'), audit[r].market, audit[r].n)
      BY <1>3, <3>2, <3>3, <3>4, FilledType
    <3>5. CASE UNCHANGED <<fills, position>>
      <4> DEFINE F(S) == [order : S, n : Nat \ {0}]
      <4>1. fills \in Seq(F(Sent)) /\ F(Sent) \subseteq F(Sent')
        BY <3>2 DEF VenueType
      <4> HIDE DEF F
      <4>2. fills' \in Seq(F(Sent'))
        BY <3>5, <4>1, SeqMonotonic
      <4> QED BY <3>2, <3>3, <3>5, <4>2 DEF VenueType, F
    <3> QED BY <2>2, <3>2, <3>4, <3>5 DEF MainLoopHedges
  <2> QED BY <2>1, <2>2 DEF MainLoopHedges
<1>6. FaultsType' /\ RegistryType' /\ BooksType'
  BY <1>5, FaultsKept DEF MainLoopHedges, registry, books, RegistryType, BooksType
<1>7. FlagsType' /\ WorkType' /\ ControlType'
  BY <1>5 DEF MainLoopHedges, canary, halts, sight, work, control, FlagsType, WorkType, ControlType
<1> QED BY <1>4, <1>5, <1>6, <1>7

\* A step that moves control, and what it says of the rest.
LEMMA ControlStep ==
  ASSUME TypeOK, UNCHANGED <<venue, audit, books, canary>>,
         known' \subseteq known, tries' \in [Orders -> 0 .. MaxCancels],
         saved' \in {saved, cursor}, halted' \in BOOLEAN, mhalted' \subseteq Markets,
         reconciled' \in BOOLEAN, failures' \in 0 .. BlindAfter, selected' \subseteq Markets,
         WorkType', ControlType', UNCHANGED faults \/ (MayFail /\ Fault)
  PROVE  TypeOK'
<1> USE Groups, GroupsNext
<1>1. VenueType' /\ Sent' = Sent /\ AuditType' /\ FaultsType'
  BY VenueKept, AuditKept, FaultsKept
<1>2. RegistryType' /\ BooksType'
  BY <1>1 DEF books, RegistryType, BooksType
<1>3. FlagsType'
  BY DEF canary, FlagsType
<1> QED BY <1>1, <1>2, <1>3

LEMMA CancelNextType == TypeOK /\ CancelNext => TypeOK'
<1> SUFFICES ASSUME TypeOK, CancelNext PROVE TypeOK'
  OBVIOUS
<1> USE Groups, GroupsNext
<1>1. PICK o \in todo :
        \/ /\ o \notin known /\ then # "stop"
           /\ Pulling(todo \ {o}, later, then)
           /\ UNCHANGED <<open, registry, halted, saved, faults>>
        \/ \E ok \in BOOLEAN :
             LET going == ok \/ then # "place"
                 rest  == IF going THEN todo \ {o} ELSE {}
                 next  == IF going THEN then ELSE "idle"
             IN  /\ CancelAnswers(o, ok)
                 /\ IF o \notin known
                    THEN Pulling(rest, later, next) /\ UNCHANGED <<registry, halted, saved>>
                    ELSE IF ok
                    THEN /\ known' = known \ {o} /\ tries' = [tries EXCEPT ![o] = 0]
                         /\ saved' = cursor
                         /\ Pulling(rest, later, next) /\ UNCHANGED halted
                    ELSE /\ tries' = [tries EXCEPT ![o] = IF @ < MaxCancels THEN @ + 1 ELSE @]
                         /\ UNCHANGED <<known, saved>>
                         /\ IF tries'[o] >= MaxCancels
                            THEN HaltAll(rest \cup later, next)
                            ELSE Pulling(rest, later, next) /\ UNCHANGED halted
  BY Zenon DEF CancelNext
<1>2. /\ UNCHANGED <<quote, fills, position, audit, books, canary, mhalted, sight, work>>
      /\ Sent' = Sent
  BY DEF CancelNext, Sent
<1>3. /\ todo \subseteq Sent' /\ later \subseteq Sent' /\ o \in Sent /\ o \in Orders
      /\ then \in Returns /\ "idle" \in Returns
  BY <1>2, Places DEF ControlType, Returns
<1>4. WorkType' /\ AuditType'
  BY <1>2, AuditKept DEF work, WorkType
<1>5. /\ open' \subseteq open /\ known' \subseteq known
      /\ tries' \in [Orders -> 0 .. MaxCancels] /\ saved' \in {saved, cursor}
      /\ halted' \in BOOLEAN /\ FaultsType' /\ ControlType'
  <2>1. CASE Pulling(todo \ {o}, later, then) /\ UNCHANGED <<open, registry, halted, saved, faults>>
    BY <1>3, <2>1, PullType, FaultsKept DEF registry, RegistryType, FlagsType
  <2>2. ASSUME NEW ok \in BOOLEAN, NEW rest \in SUBSET Sent', NEW next \in Returns,
               CancelAnswers(o, ok),
               IF o \notin known
               THEN Pulling(rest, later, next) /\ UNCHANGED <<registry, halted, saved>>
               ELSE IF ok
               THEN /\ known' = known \ {o} /\ tries' = [tries EXCEPT ![o] = 0]
                    /\ saved' = cursor
                    /\ Pulling(rest, later, next) /\ UNCHANGED halted
               ELSE /\ tries' = [tries EXCEPT ![o] = IF @ < MaxCancels THEN @ + 1 ELSE @]
                    /\ UNCHANGED <<known, saved>>
                    /\ IF tries'[o] >= MaxCancels
                       THEN HaltAll(rest \cup later, next)
                       ELSE Pulling(rest, later, next) /\ UNCHANGED halted
        PROVE  /\ open' \subseteq open /\ known' \subseteq known
               /\ tries' \in [Orders -> 0 .. MaxCancels] /\ saved' \in {saved, cursor}
               /\ halted' \in BOOLEAN /\ FaultsType' /\ ControlType'
    <3>1. open' \subseteq open /\ FaultsType'
      BY <2>2, CancelAnswersType
    <3>2. known' \subseteq known /\ saved' \in {saved, cursor}
      BY <2>2 DEF registry
    <3>3. tries' \in [Orders -> 0 .. MaxCancels]
      <4>1. tries \in [Orders -> 0 .. MaxCancels] /\ 0 \in 0 .. MaxCancels
        BY Zeros DEF RegistryType
      <4>2. \A t \in 0 .. MaxCancels : (IF t < MaxCancels THEN t + 1 ELSE t) \in 0 .. MaxCancels
        BY Bounds
      <4>3. \/ tries' = tries \/ tries' = [tries EXCEPT ![o] = 0]
            \/ tries' = [tries EXCEPT ![o] = IF tries[o] < MaxCancels THEN tries[o] + 1
                                             ELSE tries[o]]
        BY <2>2, Zenon DEF registry
      <4> QED BY <1>3, <4>1, <4>2, <4>3
    <3>4. \/ Pulling(rest, later, next) /\ halted' = halted
          \/ HaltAll(rest \cup later, next)
      BY <2>2
    <3>5. known' \subseteq Sent' /\ rest \cup later \in SUBSET Sent' /\ later \in SUBSET Sent'
      BY <1>2, <1>3, <3>2 DEF RegistryType
    <3>6. ControlType' /\ halted' \in BOOLEAN
      BY <3>4, <3>5, PullType, HaltType DEF FlagsType
    <3> QED BY <3>1, <3>2, <3>3, <3>6
  <2> QED BY <1>1, <1>3, <2>1, <2>2
<1>6. VenueType'
  BY <1>2, <1>5 DEF VenueType
<1>7. RegistryType' /\ BooksType' /\ FlagsType'
  BY <1>2, <1>5 DEF RegistryType, BooksType, FlagsType, books, canary, sight
<1> QED BY <1>4, <1>5, <1>6, <1>7

LEMMA RoundsType == TypeOK /\ (RetryCancels \/ HaltIdle) => TypeOK'
<1> SUFFICES ASSUME TypeOK, RetryCancels \/ HaltIdle PROVE TypeOK'
  OBVIOUS
<1> USE Groups, GroupsNext
<1>1. /\ UNCHANGED <<venue, audit, registry, books, canary, mhalted, sight, work, saved, faults>>
      /\ Sent' = Sent /\ "idle" \in Returns
  BY VenueKept DEF RetryCancels, HaltIdle, halts, registry, Returns
<1>2. ControlType' /\ halted' \in BOOLEAN
  <2>1. CASE RetryCancels
    <3>1. PICK S \in SUBSET {o \in known : tries[o] > 0} : Pulling(S, {}, "idle")
      BY <2>1 DEF RetryCancels
    <3>2. S \in SUBSET Sent' /\ {} \in SUBSET Sent'
      BY <1>1 DEF RegistryType
    <3>3. halted' = halted
      BY <2>1 DEF RetryCancels, halts
    <3> QED BY <1>1, <3>1, <3>2, <3>3, PullType DEF FlagsType
  <2>2. CASE HaltIdle
    <3>1. {} \in SUBSET Sent' /\ known' \subseteq Sent'
      BY <1>1 DEF RegistryType, registry
    <3> QED BY <1>1, <2>2, <3>1, HaltType DEF HaltIdle
  <2> QED BY <2>1, <2>2
<1>3. WorkType'
  BY <1>1 DEF work, WorkType
<1> QED
  BY <1>1, <1>2, <1>3, ControlStep DEF registry, sight, RegistryType, FlagsType

LEMMA ReconcilingType ==
  ASSUME TypeOK, NEW next \in Stages, Reconciling(next), UNCHANGED faults \/ (MayFail /\ Fault)
  PROVE  TypeOK'
<1> USE Groups, GroupsNext
<1>1. /\ UNCHANGED <<venue, audit, registry, books, canary, halts, sight, work, saved>>
      /\ ControlType'
  BY DEF Reconciling, ControlType, Returns
<1>2. WorkType'
  BY <1>1 DEF work, WorkType
<1> QED
  BY <1>1, <1>2, ControlStep DEF registry, halts, sight, RegistryType, FlagsType

LEMMA QueriesType == TypeOK /\ (QueryFails \/ QueryOpen \/ SweepNext \/ ConfirmEmpty) => TypeOK'
<1> SUFFICES ASSUME TypeOK, QueryFails \/ QueryOpen \/ SweepNext \/ ConfirmEmpty PROVE TypeOK'
  OBVIOUS
<1> USE Groups, GroupsNext
<1>1. CASE QueryFails
  BY <1>1, ReconcilingType DEF QueryFails, Stages
<1>2. CASE ConfirmEmpty
  BY <1>2, ReconcilingType DEF ConfirmEmpty, NoFault, Stages
<1>3. CASE QueryOpen
  <2>1. /\ UNCHANGED <<venue, audit, registry, books, canary, halts, sight, work, saved, faults>>
        /\ Sent' = Sent
    BY <1>3, VenueKept DEF QueryOpen
  <2>2. ControlType'
    BY <1>3, <2>1 DEF QueryOpen, ControlType, Stages, Returns, VenueType
  <2>3. WorkType'
    BY <2>1 DEF work, WorkType
  <2> QED
    BY <2>1, <2>2, <2>3, ControlStep DEF registry, halts, sight, RegistryType, FlagsType
<1>4. CASE SweepNext
  <2>1. PICK o \in todo, ok \in BOOLEAN :
          /\ CancelAnswers(o, ok)
          /\ then' = IF ok THEN then ELSE "idle"
          /\ todo' = todo \ {o}
    BY <1>4 DEF SweepNext
  <2>2. /\ UNCHANGED <<quote, fills, position, audit, registry, books, canary, halts, sight,
                       work, later, saved>>
        /\ Sent' = Sent /\ pc' = IF todo' = {} THEN then' ELSE "sweep"
    BY <1>4 DEF SweepNext, Sent
  <2>3. open' \subseteq open /\ FaultsType'
    BY <2>1, CancelAnswersType
  <2>4. ControlType'
    BY <2>1, <2>2 DEF ControlType, Stages, Returns
  <2>5. VenueType' /\ AuditType'
    BY <2>2, <2>3, AuditKept DEF VenueType
  <2>6. RegistryType' /\ BooksType'
    BY <2>2 DEF registry, books, RegistryType, BooksType
  <2>7. FlagsType' /\ WorkType'
    BY <2>2 DEF canary, halts, sight, work, FlagsType, WorkType
  <2> QED BY <2>3, <2>4, <2>5, <2>6, <2>7
<1> QED BY <1>1, <1>2, <1>3, <1>4

LEMMA TakesType == TypeOK /\ (TakePositions \/ TakeFills) => TypeOK'
<1> SUFFICES ASSUME TypeOK, TakePositions \/ TakeFills PROVE TypeOK'
  OBVIOUS
<1> USE Groups, GroupsNext
<1>1. /\ UNCHANGED <<venue, audit, canary, halts, failures, selected, work, then, todo,
                     later, passed, faults>>
      /\ Sent' = Sent /\ Recorded \subseteq FillIds /\ Len(fills) \in 0 .. MaxFills
  BY VenueKept, Places, Bounds
  DEF TakePositions, TakeFills, books, sight, VenueType
<1>2. VenueType' /\ AuditType' /\ FaultsType'
  BY <1>1, VenueKept, AuditKept, FaultsKept
<1>3. pc' \in Stages /\ ControlType'
  BY <1>1 DEF TakePositions, TakeFills, ControlType, Stages
<1>4. RegistryType'
  BY <1>1, Zeros DEF TakePositions, TakeFills, registry, RegistryType
<1>5. BooksType'
  <2>1. CASE TakePositions
    BY <1>1, <2>1 DEF TakePositions, BooksType, VenueType
  <2>2. CASE TakeFills
    BY <1>1, <2>2 DEF TakeFills, BooksType
  <2> QED BY <2>1, <2>2
<1>6. FlagsType' /\ WorkType'
  BY <1>1 DEF TakePositions, TakeFills, canary, halts, sight, work, FlagsType, WorkType
<1> QED BY <1>2, <1>3, <1>4, <1>5, <1>6

LEMMA SelectType == TypeOK /\ (Select \/ SkipSide \/ PollFills \/ PollEnds) => TypeOK'
<1> SUFFICES ASSUME TypeOK, Select \/ SkipSide \/ PollFills \/ PollEnds PROVE TypeOK'
  OBVIOUS
<1> USE Groups, GroupsNext
<1>1. /\ UNCHANGED <<venue, audit, registry, books, canary, halts, reconciled, then, todo,
                     later, faults>>
      /\ Sent' = Sent
  BY VenueKept DEF Select, SkipSide, PollFills, PollEnds, sight, control
<1>2. pc' \in Stages
  BY DEF Select, SkipSide, PollFills, PollEnds, control, ControlType, Stages
<1>3. ControlType'
  BY <1>1, <1>2 DEF ControlType
<1>4. saved' \in {saved, cursor}
  BY DEF Select, SkipSide, PollFills, PollEnds
<1>5. failures' \in 0 .. BlindAfter /\ selected' \subseteq Markets
  BY Zeros DEF Select, SkipSide, PollFills, PollEnds, sight, FlagsType
<1>6. WorkType'
  <2>1. CASE Select \/ PollEnds
    BY <2>1 DEF Select, PollEnds, work, WorkType
  <2>2. CASE SkipSide
    BY <2>2 DEF SkipSide, WorkType
  <2>3. CASE PollFills
    <3>1. batch' \subseteq FillIds
      BY <2>3, Places DEF PollFills, Unseen
    <3>2. owned' \subseteq Markets
      <4>1. \A o \in known : quote[o].market \in Markets
        BY Places DEF RegistryType, Quotes
      <4> QED BY <2>3, <4>1 DEF PollFills, PilotTickers, FlagsType
    <3> QED BY <2>3, <3>1, <3>2 DEF PollFills, WorkType
  <2> QED BY <2>1, <2>2, <2>3
<1> QED
  BY <1>1, <1>3, <1>4, <1>5, <1>6, ControlStep DEF registry, halts, RegistryType, FlagsType

LEMMA GatesType ==
  ASSUME TypeOK, NEW m \in Markets, GatePulls(m) \/ GatesPass(m)
  PROVE  TypeOK'
<1> USE Groups, GroupsNext
<1>1. /\ UNCHANGED <<venue, audit, registry, books, canary, halts, sight, batch, owned,
                     attempt, saved, faults>>
      /\ Sent' = Sent /\ at' = m
  BY VenueKept DEF GatePulls, GatesPass, Refreshes
<1>2. RestingIn(m) \in SUBSET Sent' /\ {} \in SUBSET Sent' /\ "idle" \in Returns /\ "place" \in Returns
  BY <1>1 DEF RestingIn, RegistryType, Returns
<1>3. ControlType'
  <2>1. CASE Pulling(RestingIn(m), {}, "idle")
    BY <1>2, <2>1, PullType
  <2>2. ASSUME NEW o \in RestingIn(m), Pulling({x \in RestingIn(m) : x >= o}, {}, "idle")
        PROVE  ControlType'
    <3>1. {x \in RestingIn(m) : x >= o} \in SUBSET Sent'
      BY <1>2
    <3> QED BY <1>2, <2>2, <3>1, PullType
  <2>3. CASE GatesPass(m)
    BY <1>2, <2>3, PullType DEF GatesPass
  <2> QED BY <2>1, <2>2, <2>3 DEF GatePulls
<1>4. WorkType'
  BY <1>1 DEF GatePulls, GatesPass, WorkType
<1> QED
  BY <1>1, <1>3, <1>4, ControlStep DEF registry, halts, sight, RegistryType, FlagsType

LEMMA QuoteSideType == TypeOK /\ QuoteSide => TypeOK'
<1> SUFFICES ASSUME TypeOK, QuoteSide PROVE TypeOK'
  OBVIOUS
<1> USE Groups, GroupsNext
<1>1. PICK n \in 1 .. QuoteSize :
        /\ Len(quote) < MaxOrders
        /\ quote' = Append(quote, [market |-> at, sign |-> Side, left |-> n, own |-> TRUE])
        /\ \/ /\ open' = open \cup {Len(quote')} /\ known' = known \cup {Len(quote')}
              /\ saved' = cursor /\ sides' = sides \ {Side}
              /\ UNCHANGED <<reconciled, halted, control>> /\ NoFault
           \/ /\ MayFail /\ Fault
              /\ open' \in {open, open \cup {Len(quote')}}
              /\ UNCHANGED <<known, saved>> /\ sides' = {}
              /\ RequireReconciliation("place")
  BY DEF QuoteSide
<1>2. UNCHANGED <<fills, position, audit, tries, books, canary, mhalted, failures, selected,
                  batch, owned, at, attempt>>
  BY DEF QuoteSide
<1> DEFINE q == [market |-> at, sign |-> Side, left |-> n, own |-> TRUE]
<1>3. q \in Quotes
  <2>1. n \in Nat /\ Side \in Signs /\ at \in Markets
    BY Bounds DEF Side, Signs, WorkType
  <2> QED BY <2>1 DEF Quotes
<1>4. /\ quote' \in Seq(Quotes) /\ Len(quote') <= MaxOrders
      /\ Sent \subseteq Sent' /\ Len(quote') \in Sent'
  <2>1. quote' = Append(quote, q)
    BY <1>1
  <2> HIDE DEF q
  <2>2. quote \in Seq(Quotes) /\ Len(quote) \in Nat
    BY LenProperties DEF VenueType
  <2> QED BY <1>1, <1>3, <2>1, <2>2, Bounds DEF Sent
<1>5. open' \subseteq Sent'
  BY <1>1, <1>4 DEF VenueType
<1>6. VenueType'
  <2> DEFINE F(S) == [order : S, n : Nat \ {0}]
  <2>1. fills \in Seq(F(Sent)) /\ F(Sent) \subseteq F(Sent')
    BY <1>4 DEF VenueType
  <2> HIDE DEF F
  <2>2. fills' \in Seq(F(Sent'))
    BY <1>2, <2>1, SeqMonotonic
  <2> QED BY <1>2, <1>4, <1>5, <2>2 DEF VenueType, F
<1>7. /\ known' \subseteq Sent' /\ saved' \in {saved, cursor}
      /\ halted' \in BOOLEAN /\ reconciled' \in BOOLEAN /\ ControlType' /\ sides' \subseteq Signs
  <2>1. CASE /\ known' = known \cup {Len(quote')} /\ saved' = cursor /\ sides' = sides \ {Side}
             /\ UNCHANGED <<reconciled, halted, control>>
    BY <1>4, <2>1 DEF RegistryType, FlagsType, WorkType, ControlType, control
  <2>2. CASE UNCHANGED <<known, saved>> /\ sides' = {} /\ RequireReconciliation("place")
    <3>1. known' \subseteq Sent' /\ {} \in SUBSET Sent' /\ "place" \in Returns
      BY <1>4, <2>2 DEF RegistryType, Returns
    <3>2. HaltAll({}, "place") /\ reconciled' = FALSE
      BY <2>2 DEF RequireReconciliation
    <3> QED BY <2>2, <3>1, <3>2, HaltType
  <2> QED BY <1>1, <2>1, <2>2
<1>8. AuditType' /\ FaultsType'
  BY <1>1, <1>2, AuditKept, FaultsKept DEF NoFault
<1>9. RegistryType' /\ BooksType'
  BY <1>2, <1>7 DEF RegistryType, BooksType, books
<1>10. FlagsType' /\ WorkType'
  BY <1>2, <1>7 DEF FlagsType, WorkType, canary
<1> QED BY <1>6, <1>7, <1>8, <1>9, <1>10

LEMMA PollFailsType == TypeOK /\ PollFails => TypeOK'
<1> SUFFICES ASSUME TypeOK, PollFails PROVE TypeOK'
  OBVIOUS
<1> USE Groups, GroupsNext
<1>1. /\ UNCHANGED <<venue, audit, registry, books, canary, halts, reconciled, selected,
                     work, saved>>
      /\ Sent' = Sent /\ MayFail /\ Fault
  BY VenueKept DEF PollFails
<1>2. failures' \in 0 .. BlindAfter
  <2>1. failures \in 0 .. BlindAfter
    BY DEF FlagsType
  <2> QED BY <2>1, Bounds DEF PollFails, Blind
<1>3. ControlType'
  <2>1. known \in SUBSET Sent' /\ {} \in SUBSET Sent' /\ "idle" \in Returns
    BY <1>1 DEF RegistryType, Returns
  <2>2. CASE Pulling(known, {}, "idle")
    BY <2>1, <2>2, PullType
  <2>3. CASE UNCHANGED control
    BY <1>1, <2>3 DEF control, ControlType
  <2> QED BY <2>2, <2>3 DEF PollFails
<1>4. WorkType'
  BY <1>1 DEF work, WorkType
<1> QED
  BY <1>1, <1>2, <1>3, <1>4, ControlStep DEF registry, halts, RegistryType, FlagsType

\* A fill a poll took up, with the order it is of.
LEMMA OldestInBatch ==
  ASSUME NEW i \in Oldest(batch)
  PROVE  i \in batch /\ \A j \in batch : i <= j
  BY DEF Oldest

LEMMA UnknownFillType == TypeOK /\ UnknownFill => TypeOK'
<1> SUFFICES ASSUME TypeOK, UnknownFill PROVE TypeOK'
  OBVIOUS
<1> USE Groups, GroupsNext
<1>1. /\ UNCHANGED <<venue, audit, registry, net, cursor, counted, canary, mhalted, sight,
                     owned, at, sides, attempt, saved, faults>>
      /\ Sent' = Sent
  BY VenueKept DEF UnknownFill, registry
<1>2. PICK i \in Oldest(batch) :
        \/ /\ seen' = seen \cup {i} /\ batch' = {}
           /\ UNCHANGED passed /\ HaltAll({}, "idle")
        \/ /\ passed' = passed \cup {i} /\ batch' = batch \ {i}
           /\ UNCHANGED <<seen, halted, control>>
  BY DEF UnknownFill
<1>3. i \in FillIds
  BY OldestInBatch DEF WorkType
<1>4. BooksType' /\ WorkType'
  BY <1>1, <1>2, <1>3 DEF BooksType, WorkType
<1>5. ControlType' /\ halted' \in BOOLEAN
  <2>1. {} \in SUBSET Sent' /\ known' \subseteq Sent' /\ "idle" \in Returns
    BY <1>1 DEF registry, RegistryType, Returns
  <2>2. CASE HaltAll({}, "idle")
    BY <2>1, <2>2, HaltType
  <2>3. CASE UNCHANGED <<halted, control>>
    BY <1>1, <2>3 DEF control, ControlType, FlagsType
  <2> QED BY <1>2, <2>2, <2>3
<1>6. VenueType' /\ AuditType' /\ FaultsType' /\ RegistryType'
  BY <1>1, VenueKept, AuditKept, FaultsKept DEF registry, RegistryType
<1>7. FlagsType'
  BY <1>1, <1>5 DEF canary, sight, FlagsType
<1> QED BY <1>4, <1>5, <1>6, <1>7

LEMMA BadFillType == TypeOK /\ BadFill => TypeOK'
<1> SUFFICES ASSUME TypeOK, BadFill PROVE TypeOK'
  OBVIOUS
<1> USE Groups, GroupsNext
<1>1. /\ UNCHANGED <<venue, audit, registry, books, canary, mhalted, failures, selected,
                     owned, at, sides, attempt, saved>>
      /\ Sent' = Sent /\ batch' = {} /\ MayFail /\ Fault
  BY VenueKept DEF BadFill, registry
<1>2. HaltAll({}, "idle") /\ reconciled' \in BOOLEAN
  BY DEF BadFill, RequireReconciliation, FlagsType
<1>3. ControlType' /\ halted' \in BOOLEAN
  <2>1. {} \in SUBSET Sent' /\ known' \subseteq Sent' /\ "idle" \in Returns
    BY <1>1 DEF registry, RegistryType, Returns
  <2> QED BY <1>2, <2>1, HaltType
<1>4. WorkType'
  BY <1>1 DEF WorkType
<1> QED
  BY <1>1, <1>2, <1>3, <1>4, ControlStep DEF registry, RegistryType, FlagsType

LEMMA CountFillType == TypeOK /\ batch \subseteq Recorded /\ CountFill => TypeOK'
<1> SUFFICES ASSUME TypeOK, batch \subseteq Recorded, CountFill PROVE TypeOK'
  OBVIOUS
<1> USE Groups, GroupsNext
<1>1. PICK i \in Oldest(batch) :
        /\ seen' = seen \cup {i} /\ counted' = counted \cup {i}
        /\ net' = [net EXCEPT ![MarketOf(i)] = @ + Signed(i)]
        /\ cursor' = IF i > cursor THEN i ELSE cursor
        /\ saved' = cursor' /\ batch' = batch \ {i}
        /\ known' \subseteq known
        /\ at' = MarketOf(i) /\ pc' = IF halted THEN "process" ELSE "judge"
  BY DEF CountFill
<1>2. /\ UNCHANGED <<venue, audit, tries, passed, canary, halts, sight, owned, sides,
                     attempt, then, todo, later, faults>>
      /\ Sent' = Sent
  BY VenueKept DEF CountFill
<1>3. i \in Recorded /\ i \in FillIds /\ i \in 0 .. MaxFills /\ MarketOf(i) \in Markets /\ Signed(i) \in Int
  BY Places, OldestInBatch, Bounds DEF FillIds
<1>4. BooksType'
  <2>1. net' \in [Markets -> Int]
    BY <1>1, <1>3 DEF BooksType
  <2>2. cursor' \in 0 .. MaxFills
    BY <1>1, <1>3 DEF BooksType
  <2> QED BY <1>1, <1>2, <1>3, <2>1, <2>2 DEF BooksType
<1>5. VenueType' /\ AuditType' /\ FaultsType' /\ RegistryType'
  BY <1>1, <1>2, VenueKept, AuditKept, FaultsKept DEF RegistryType
<1>6. FlagsType' /\ WorkType'
  BY <1>1, <1>2, <1>3 DEF canary, halts, sight, FlagsType, WorkType
<1>7. ControlType'
  BY <1>1, <1>2 DEF ControlType, Stages
<1> QED BY <1>4, <1>5, <1>6, <1>7

LEMMA JudgeType == TypeOK /\ Judge => TypeOK'
<1> SUFFICES ASSUME TypeOK, Judge PROVE TypeOK'
  OBVIOUS
<1> USE Groups, GroupsNext
<1>1. /\ UNCHANGED <<venue, audit, registry, books, canary, sight, work, saved, faults>>
      /\ Sent' = Sent
  BY VenueKept DEF Judge, registry
<1>2. {} \in SUBSET Sent' /\ known' \subseteq Sent' /\ "process" \in Returns /\ "hedge" \in Returns
  BY <1>1 DEF registry, RegistryType, Returns
<1>3. ControlType' /\ halted' \in BOOLEAN /\ mhalted' \subseteq Markets
  <2>1. halted \in BOOLEAN /\ mhalted \subseteq Markets /\ at \in Markets
    BY DEF FlagsType, WorkType
  <2>2. CASE HaltAll({}, "process") /\ UNCHANGED mhalted
    BY <1>2, <2>1, <2>2, HaltType
  <2>3. CASE HaltMarket(at, "hedge")
    BY <1>2, <2>1, <2>3, HaltMarketType
  <2>4. CASE Pulling({}, {}, "hedge") /\ UNCHANGED halts
    BY <1>2, <2>1, <2>4, PullType DEF halts
  <2> QED BY <2>2, <2>3, <2>4 DEF Judge
<1>4. VenueType' /\ AuditType' /\ FaultsType' /\ RegistryType'
  BY <1>1, VenueKept, AuditKept, FaultsKept DEF registry, RegistryType
<1>5. FlagsType' /\ WorkType' /\ BooksType'
  BY <1>1, <1>3 DEF sight, books, work, canary, FlagsType, WorkType, BooksType
<1> QED BY <1>3, <1>4, <1>5

LEMMA AfterFillType == TypeOK /\ AfterFill => TypeOK'
<1> SUFFICES ASSUME TypeOK, AfterFill PROVE TypeOK'
  OBVIOUS
<1> USE Groups, GroupsNext
<1> DEFINE row == [market |-> at, sign |-> IF net[at] > 0 THEN -1 ELSE 1,
                   n |-> Abs(net[at]), tries |-> 0]
<1>1. /\ UNCHANGED <<venue, registry, books, sight, work, saved, faults>>
      /\ Sent' = Sent
  BY VenueKept DEF AfterFill, registry
<1>2. {} \in SUBSET Sent' /\ known' \subseteq Sent' /\ "process" \in Returns
  BY <1>1 DEF registry, RegistryType, Returns
<1>3. /\ halted \in BOOLEAN /\ mhalted \subseteq Markets /\ graduated \in BOOLEAN
      /\ at \in Markets /\ net[at] \in Int
      /\ clean \in 0 .. CanaryFills /\ OneMoreClean \in 0 .. CanaryFills
  BY Bounds DEF FlagsType, WorkType, BooksType, OneMoreClean
<1>4. \/ /\ Pulling({}, {}, "process") /\ UNCHANGED <<halts, audit, graduated>>
      \/ /\ HaltAll({}, "process") /\ UNCHANGED <<mhalted, audit, graduated>>
      \/ /\ graduated' \in BOOLEAN
         /\ Pulling({}, {}, "process") /\ UNCHANGED <<halts, audit>>
      \/ /\ Abs(net[at]) > Deadband /\ audit' = audit \o <<row, row>>
         /\ HaltMarket(at, "process") \/ (HaltAll({}, "process") /\ UNCHANGED mhalted)
         /\ UNCHANGED graduated
  BY <1>3 DEF AfterFill, canary
<1>5. clean' \in 0 .. CanaryFills
  BY <1>3 DEF AfterFill, canary
<1>6. ControlType' /\ halted' \in BOOLEAN /\ mhalted' \subseteq Markets /\ graduated' \in BOOLEAN
  <2>1. Pulling({}, {}, "process") => ControlType'
    BY <1>2, PullType
  <2>2. HaltAll({}, "process") => ControlType' /\ halted' \in BOOLEAN
    BY <1>2, HaltType
  <2>3. HaltMarket(at, "process") => ControlType' /\ halted' \in BOOLEAN /\ mhalted' \subseteq Markets
    BY <1>2, <1>3, HaltMarketType
  <2> QED BY <1>3, <1>4, <2>1, <2>2, <2>3 DEF halts
<1>7. AuditType'
  <2>1. CASE UNCHANGED audit
    BY <2>1, AuditKept
  <2>2. CASE Abs(net[at]) > Deadband /\ audit' = audit \o <<row, row>>
    <3> DEFINE A == [market : Markets, sign : Signs, n : Nat \ {0}, tries : 0 .. HedgeAttempts]
    <3>1. Abs(net[at]) \in Nat \ {0}
      BY <1>3, <2>2, Bounds DEF Abs
    <3>2. row \in A
      BY <1>3, <3>1, Bounds DEF Signs
    <3>3. audit \in Seq(A)
      BY DEF AuditType
    <3> HIDE DEF A, row
    <3>4. <<row, row>> \in Seq(A)
      BY <3>2
    <3>5. audit' \in Seq(A)
      BY <2>2, <3>3, <3>4, ConcatProperties
    <3> QED BY <3>5 DEF AuditType, A
  <2> QED BY <1>4, <2>1, <2>2
<1>8. VenueType' /\ FaultsType' /\ RegistryType'
  BY <1>1, VenueKept, FaultsKept DEF registry, RegistryType
<1>9. FlagsType' /\ WorkType' /\ BooksType'
  BY <1>1, <1>5, <1>6 DEF sight, books, work, FlagsType, WorkType, BooksType
<1> QED BY <1>6, <1>7, <1>8, <1>9

LEMMA StopsType == TypeOK /\ (Stop \/ VerifyStopped \/ StopAgain) => TypeOK'
<1> SUFFICES ASSUME TypeOK, Stop \/ VerifyStopped \/ StopAgain PROVE TypeOK'
  OBVIOUS
<1> USE Groups, GroupsNext
<1>1. /\ UNCHANGED <<venue, audit, registry, books, canary, halts, sight, batch, owned, at, sides>>
      /\ Sent' = Sent /\ (UNCHANGED faults \/ (MayFail /\ Fault))
  BY VenueKept DEF Stop, VerifyStopped, StopAgain, NextPass, NoFault, work
<1>2. /\ known \in SUBSET Sent' /\ open \in SUBSET Sent' /\ {} \in SUBSET Sent'
      /\ "verify" \in Returns /\ "stop" \in Returns
      /\ "stopped" \in Stages /\ "unconfirmed" \in Stages
  BY <1>1 DEF registry, RegistryType, VenueType, Returns, Stages
<1>3. /\ saved' \in {saved, cursor} /\ attempt' \in 0 .. MaxCancels /\ ControlType'
  <2>1. attempt \in 0 .. MaxCancels /\ 1 \in 0 .. MaxCancels
    BY Bounds DEF WorkType
  <2>2. CASE Stop
    BY <1>2, <2>1, <2>2, PullType DEF Stop
  <2>3. CASE NextPass
    <3>1. attempt < MaxCancels => attempt + 1 \in 0 .. MaxCancels
      BY <2>1, Bounds
    <3>2. CASE PassesLeft
      BY <1>2, <2>1, <2>3, <3>1, <3>2, PullType DEF NextPass, PassesLeft
    <3>3. CASE ~PassesLeft
      BY <1>2, <2>1, <2>3, <3>3, PullNothing DEF NextPass
    <3> QED BY <3>2, <3>3
  <2>4. CASE Pulling({}, {}, "stopped") /\ saved' = cursor /\ UNCHANGED work
    BY <1>2, <2>1, <2>4, PullNothing DEF work
  <2>5. CASE Pulling(open, {}, "stop") /\ UNCHANGED <<work, saved>>
    BY <1>2, <2>1, <2>5, PullType DEF work
  <2> QED BY <2>2, <2>3, <2>4, <2>5 DEF VerifyStopped, StopAgain
<1>4. WorkType'
  BY <1>1, <1>3 DEF WorkType
<1> QED
  BY <1>1, <1>3, <1>4, ControlStep DEF registry, halts, sight, RegistryType, FlagsType

-----------------------------------------------------------------------------
(***************************************************************************)
(* What the venue has stays: orders keep whose and what they are, fills    *)
(* their place.                                                            *)
(***************************************************************************)

\* What the venue keeps of an order; what is left of it changes.
SameOrder(o) == /\ quote'[o].own = quote[o].own /\ quote'[o].market = quote[o].market
                /\ quote'[o].sign = quote[o].sign

LEMMA History ==
  ASSUME TypeOK, [Next]_vars
  PROVE  /\ Sent \subseteq Sent' /\ Recorded \subseteq Recorded'
         /\ \A o \in Sent : SameOrder(o)
         /\ \A i \in Recorded : fills'[i] = fills[i]
<1> USE Groups
<1>1. CASE UNCHANGED <<quote, fills>>
  BY <1>1 DEF Sent, Recorded, SameOrder
<1>2. ASSUME NEW F, fills \in Seq(F), NEW e \in F, fills' = Append(fills, e)
      PROVE  Recorded \subseteq Recorded' /\ \A i \in Recorded : fills'[i] = fills[i]
  BY <1>2 DEF Recorded
<1>3. ASSUME NEW q \in Quotes, quote' = Append(quote, q)
      PROVE  Sent \subseteq Sent' /\ \A o \in Sent : SameOrder(o)
  BY <1>3 DEF Sent, VenueType, SameOrder
<1>4. ASSUME NEW o, NEW m, NEW n \in Nat \ {0}, Filled(o, m, n), o \in Nat
      PROVE  Recorded \subseteq Recorded' /\ \A i \in Recorded : fills'[i] = fills[i]
  <2> DEFINE F == [order : Nat, n : Nat \ {0}]
  <2>1. fills \in Seq(F)
    <3> DEFINE G == [order : Sent, n : Nat \ {0}]
    <3>1. fills \in Seq(G) /\ G \subseteq F
      BY Places DEF VenueType
    <3> HIDE DEF F, G
    <3> QED BY <3>1, SeqMonotonic
  <2>2. [order |-> o, n |-> n] \in F
    BY <1>4
  <2> HIDE DEF F
  <2> QED BY <1>2, <1>4, <2>1, <2>2 DEF Filled
<1>5. ASSUME NEW o \in Sent, VenueFill(o)
      PROVE  /\ Sent \subseteq Sent' /\ Recorded \subseteq Recorded'
             /\ \A p \in Sent : SameOrder(p)
             /\ \A i \in Recorded : fills'[i] = fills[i]
  <2>1. PICK n \in 1 .. quote[o].left :
          /\ quote' = [quote EXCEPT ![o] = [quote[o] EXCEPT !.left = quote[o].left - n]]
          /\ Filled(o, quote[o].market, n)
    BY <1>5, Zenon DEF VenueFill
  <2>2. quote[o] \in Quotes /\ o \in Nat
    BY Places
  <2>3. n \in Nat \ {0}
    BY <2>2 DEF Quotes
  <2> DEFINE q == [quote[o] EXCEPT !.left = quote[o].left - n]
  <2>4. q.own = quote[o].own /\ q.market = quote[o].market /\ q.sign = quote[o].sign
    BY <2>2 DEF Quotes
  <2>5. Sent' = Sent /\ \A p \in Sent : SameOrder(p)
    BY <2>1, <2>4, Zenon DEF Sent, SameOrder
  <2> QED BY <1>4, <2>1, <2>2, <2>3, <2>5
<1>6. ASSUME NEW r \in DOMAIN audit, MainLoopHedges(r), ~UNCHANGED <<quote, fills>>
      PROVE  /\ Sent \subseteq Sent' /\ Recorded \subseteq Recorded'
             /\ \A p \in Sent : SameOrder(p)
             /\ \A i \in Recorded : fills'[i] = fills[i]
  <2> DEFINE q == [market |-> audit[r].market, sign |-> audit[r].sign, left |-> 0, own |-> FALSE]
  <2>1. audit[r].market \in Markets /\ audit[r].sign \in Signs /\ audit[r].n \in Nat \ {0}
    <3> DEFINE A == [market : Markets, sign : Signs, n : Nat \ {0}, tries : 0 .. HedgeAttempts]
    <3>1. audit \in Seq(A) /\ r \in 1 .. Len(audit)
      BY LenProperties DEF AuditType
    <3>2. audit[r] \in A
      BY <3>1, ElementOfSeq
    <3> QED BY <3>2
  <2>2. q \in Quotes /\ quote' = Append(quote, q)
    BY <1>6, <2>1 DEF MainLoopHedges, Quotes
  <2>3. Len(quote') \in Nat
    <3> HIDE DEF q
    <3> QED BY <2>2 DEF VenueType
  <2>4. Filled(Len(quote'), audit[r].market, audit[r].n) \/ fills' = fills
    BY <1>6 DEF MainLoopHedges
  <2> HIDE DEF q
  <2> QED BY <1>3, <1>4, <2>1, <2>2, <2>3, <2>4 DEF Recorded
<1>7. CASE QuoteSide
  <2>1. PICK n \in 1 .. QuoteSize :
          quote' = Append(quote, [market |-> at, sign |-> Side, left |-> n, own |-> TRUE])
    BY <1>7 DEF QuoteSide
  <2>2. n \in Nat /\ Side \in Signs /\ at \in Markets
    BY Bounds DEF Side, Signs, WorkType
  <2>3. [market |-> at, sign |-> Side, left |-> n, own |-> TRUE] \in Quotes
    BY <2>2 DEF Quotes
  <2> QED BY <1>3, <1>7, <2>1, <2>3 DEF QuoteSide, Recorded
<1>8. ASSUME NEW m \in Markets, GatePulls(m) \/ GatesPass(m) PROVE UNCHANGED <<quote, fills>>
  BY <1>8 DEF GatePulls, GatesPass, venue
<1>9. CASE \/ Start \/ Crash \/ CancelNext \/ RetryCancels \/ HaltIdle
           \/ QueryFails \/ QueryOpen \/ SweepNext \/ ConfirmEmpty \/ TakePositions \/ TakeFills
  BY <1>1, <1>9 DEF Start, Crash, CancelNext, RetryCancels, HaltIdle, QueryFails, QueryOpen,
     SweepNext, ConfirmEmpty, TakePositions, TakeFills, Reconciling, venue
<1>10. CASE \/ Select \/ SkipSide \/ PollFails \/ PollFills \/ PollEnds \/ UnknownFill \/ BadFill
            \/ CountFill \/ Judge \/ AfterFill \/ Stop \/ VerifyStopped \/ StopAgain
            \/ UNCHANGED vars
  BY <1>1, <1>10 DEF Select, SkipSide, PollFails, PollFills, PollEnds, UnknownFill, BadFill,
     CountFill, Judge, AfterFill, Stop, VerifyStopped, StopAgain, NextPass, vars, venue
<1> QED BY <1>1, <1>5, <1>6, <1>7, <1>8, <1>9, <1>10 DEF Next

\* Only fills the venue has are waiting to be processed.
BatchInv == batch \subseteq Recorded
TypeInv  == TypeOK /\ BatchInv

LEMMA BatchStep == TypeInv /\ [Next]_vars => BatchInv'
<1> SUFFICES ASSUME TypeInv, [Next]_vars PROVE BatchInv'
  OBVIOUS
<1>1. Recorded \subseteq Recorded'
  BY History DEF TypeInv
<1>2. batch' \subseteq batch \/ (batch' \subseteq Recorded /\ UNCHANGED fills)
  <2>1. CASE \/ Start \/ Crash \/ CancelNext \/ RetryCancels \/ HaltIdle
             \/ QueryFails \/ QueryOpen \/ SweepNext \/ ConfirmEmpty \/ TakePositions \/ TakeFills
    BY <2>1 DEF Start, Fresh, Crash, CancelNext, RetryCancels, HaltIdle, QueryFails, QueryOpen,
       SweepNext, ConfirmEmpty, TakePositions, TakeFills, Reconciling, work
  <2>2. CASE \/ Select \/ SkipSide \/ PollFails \/ PollEnds \/ UnknownFill \/ BadFill
             \/ CountFill \/ Judge \/ AfterFill \/ Stop \/ VerifyStopped \/ StopAgain
             \/ QuoteSide \/ UNCHANGED vars
    BY <2>2 DEF Select, SkipSide, PollFails, PollEnds, UnknownFill, BadFill, CountFill, Judge,
       AfterFill, Stop, VerifyStopped, StopAgain, NextPass, QuoteSide, vars, work
  <2>3. CASE PollFills
    BY <2>3 DEF PollFills, Unseen, venue
  <2>4. ASSUME NEW m \in Markets, GatePulls(m) \/ GatesPass(m) PROVE batch' \subseteq batch
    BY <2>4 DEF GatePulls, GatesPass
  <2>5. ASSUME NEW o \in Sent, VenueFill(o) PROVE batch' \subseteq batch
    BY <2>5 DEF VenueFill, work
  <2>6. ASSUME NEW r \in DOMAIN audit, MainLoopHedges(r) PROVE batch' \subseteq batch
    BY <2>6 DEF MainLoopHedges, work
  <2> QED BY <2>1, <2>2, <2>3, <2>4, <2>5, <2>6 DEF Next
<1> QED BY <1>1, <1>2 DEF TypeInv, BatchInv, Recorded

LEMMA TypeStep == TypeInv /\ [Next]_vars => TypeInv'
<1> SUFFICES ASSUME TypeInv, [Next]_vars PROVE TypeInv'
  OBVIOUS
<1>1. TypeOK /\ batch \subseteq Recorded
  BY DEF TypeInv, BatchInv
<1>2. TypeOK'
  <2>1. CASE UNCHANGED vars
    BY <1>1, <2>1 DEF vars, venue, registry, books, canary, halts, sight, work, control, TypeOK,
       Sent
  <2>2. CASE Next
    BY <1>1, <2>2, StartType, CrashType, CancelNextType, RoundsType, QueriesType, TakesType,
       SelectType, QuoteSideType, PollFailsType, UnknownFillType, BadFillType, CountFillType,
       JudgeType, AfterFillType, StopsType, GatesType, VenueFillType, MainLoopHedgesType
    DEF Next
  <2> QED BY <2>1, <2>2
<1> QED BY <1>2, BatchStep DEF TypeInv

-----------------------------------------------------------------------------
(***************************************************************************)
(* Live orders.                                                            *)
(***************************************************************************)

\* Live orders have something left, are known to a pilot that trusts its books,
\* and there are none once the venue was seen empty, to reconcile or to stop.
OpenInv ==
  /\ \A o \in open : quote[o].left >= 1
  /\ pc \in {"positions", "fills", "stopped"} => open = {}
  /\ LiveOrdersKnown

Rounds == Returns \cup {"pull"}

\* Where a round of cancels leads.
LEMMA PullStage ==
  ASSUME NEW S, NEW rest, NEW next \in Returns, Pulling(S, rest, next) \/ HaltAll(rest, next)
  PROVE  pc' \in Rounds
  BY DEF HaltAll, Pulling, Rounds

LEMMA HaltMarketStage ==
  ASSUME NEW m, NEW next \in Returns, HaltMarket(m, next)
  PROVE  pc' \in Rounds
<1>1. \/ Pulling({o \in known' : quote[o].market = m}, {}, next)
      \/ HaltAll({o \in known' : quote[o].market = m}, next)
  BY DEF HaltMarket
<1> QED BY <1>1, PullStage

\* Live orders only go, and those that stay stay known.
LEMMA OpenKept ==
  ASSUME OpenInv, open' \subseteq open, quote' = quote,
         reconciled' => reconciled /\ known \cap open' \subseteq known',
         pc' \in {"positions", "fills", "stopped"} => pc' = pc \/ open' = {}
  PROVE  OpenInv'
  BY DEF OpenInv, LiveOrdersKnown

LEMMA OpenStep == TypeInv /\ OpenInv /\ [Next]_vars => OpenInv'
<1> SUFFICES ASSUME TypeInv, OpenInv, [Next]_vars PROVE OpenInv'
  OBVIOUS
<1> USE DEF Rounds, Returns
<1>0. VenueType /\ then \in Returns
  BY Groups DEF TypeInv, ControlType
<1>1. CASE Start \/ Crash
  BY <1>1, OpenKept DEF Start, Fresh, Crash, venue, registry, sight
<1>2. CASE CancelNext
  <2>1. quote' = quote /\ reconciled' = reconciled
    BY <1>2 DEF CancelNext, sight
  <2>2. PICK o \in todo :
        \/ /\ o \notin known /\ Pulling(todo \ {o}, later, then)
           /\ UNCHANGED <<open, registry>>
        \/ \E ok \in BOOLEAN, next \in Returns :
             /\ CancelAnswers(o, ok)
             /\ known' = known \/ (ok /\ known' = known \ {o})
             /\ \E S, rest : Pulling(S, rest, next) \/ HaltAll(rest, next)
    <3>1. PICK o \in todo :
          \/ /\ o \notin known /\ then # "stop"
             /\ Pulling(todo \ {o}, later, then)
             /\ UNCHANGED <<open, registry, halted, saved, faults>>
          \/ \E ok \in BOOLEAN :
               LET going == ok \/ then # "place"
                   rest  == IF going THEN todo \ {o} ELSE {}
                   next  == IF going THEN then ELSE "idle"
               IN  /\ CancelAnswers(o, ok)
                   /\ IF o \notin known
                      THEN Pulling(rest, later, next) /\ UNCHANGED <<registry, halted, saved>>
                      ELSE IF ok
                      THEN /\ known' = known \ {o} /\ tries' = [tries EXCEPT ![o] = 0]
                           /\ saved' = cursor
                           /\ Pulling(rest, later, next) /\ UNCHANGED halted
                      ELSE /\ tries' = [tries EXCEPT ![o] = IF @ < MaxCancels THEN @ + 1 ELSE @]
                           /\ UNCHANGED <<known, saved>>
                           /\ IF tries'[o] >= MaxCancels
                              THEN HaltAll(rest \cup later, next)
                              ELSE Pulling(rest, later, next) /\ UNCHANGED halted
      BY <1>2, Zenon DEF CancelNext
    <3>2. ASSUME NEW ok \in BOOLEAN, NEW rest \in SUBSET todo, NEW next \in Returns,
                 CancelAnswers(o, ok),
                 IF o \notin known
                 THEN Pulling(rest, later, next) /\ UNCHANGED <<registry, halted, saved>>
                 ELSE IF ok
                 THEN /\ known' = known \ {o} /\ tries' = [tries EXCEPT ![o] = 0]
                      /\ saved' = cursor
                      /\ Pulling(rest, later, next) /\ UNCHANGED halted
                 ELSE /\ tries' = [tries EXCEPT ![o] = IF @ < MaxCancels THEN @ + 1 ELSE @]
                      /\ UNCHANGED <<known, saved>>
                      /\ IF tries'[o] >= MaxCancels
                         THEN HaltAll(rest \cup later, next)
                         ELSE Pulling(rest, later, next) /\ UNCHANGED halted
          PROVE  /\ CancelAnswers(o, ok)
                 /\ known' = known \/ (ok /\ known' = known \ {o})
                 /\ \E S, other : Pulling(S, other, next) \/ HaltAll(other, next)
      BY <3>2, Zenon DEF registry
    <3>3. ASSUME NEW ok \in BOOLEAN
          PROVE  /\ (IF ok \/ then # "place" THEN todo \ {o} ELSE {}) \in SUBSET todo
                 /\ (IF ok \/ then # "place" THEN then ELSE "idle") \in Returns
      BY <1>0
    <3> QED BY <3>1, <3>2, <3>3, ZenonT(40)
  <2>3. pc' \in Rounds
    BY <1>0, <2>2, PullStage
  <2>4. open' \subseteq open /\ known \cap open' \subseteq known'
    BY <2>2 DEF CancelAnswers, registry
  <2> QED BY <2>1, <2>3, <2>4, OpenKept
<1>3. CASE RetryCancels \/ HaltIdle
  <2>1. UNCHANGED <<quote, open, known, reconciled>>
    BY <1>3 DEF RetryCancels, HaltIdle, venue, registry, sight
  <2>2. pc' \in Rounds
    BY <1>3, PullStage DEF RetryCancels, HaltIdle
  <2> QED BY <2>1, <2>2, OpenKept
<1>4. CASE QueryFails \/ ConfirmEmpty
  BY <1>4, OpenKept DEF QueryFails, ConfirmEmpty, Reconciling, venue, registry, sight
<1>5. CASE QueryOpen
  BY <1>5, OpenKept DEF QueryOpen, venue, registry, sight
<1>6. CASE SweepNext
  <2>1. UNCHANGED <<quote, known, reconciled>> /\ open' \subseteq open
    BY <1>6 DEF SweepNext, CancelAnswers, registry, sight
  <2>2. pc' \in Returns \cup {"sweep"}
    BY <1>0, <1>6 DEF SweepNext
  <2> QED BY <2>1, <2>2, OpenKept
<1>7. CASE TakePositions
  BY <1>7, OpenKept DEF TakePositions, venue, registry, sight, OpenInv
<1>8. CASE TakeFills
  BY <1>8 DEF TakeFills, venue, OpenInv, LiveOrdersKnown
<1>9. CASE Select \/ SkipSide \/ PollEnds \/ PollFills
  BY <1>9, OpenKept
  DEF Select, SkipSide, PollEnds, PollFills, venue, registry, sight, control
<1>10. CASE PollFails
  <2>1. UNCHANGED <<quote, open, known, reconciled>>
    BY <1>10 DEF PollFails, venue, registry
  <2>2. pc' \in Rounds \/ pc' = pc
    BY <1>10, PullStage DEF PollFails, control
  <2> QED BY <2>1, <2>2, OpenKept
<1>11. CASE UnknownFill
  <2>1. UNCHANGED <<quote, open, known, reconciled>>
    BY <1>11 DEF UnknownFill, venue, sight
  <2>2. HaltAll({}, "idle") \/ UNCHANGED control
    BY <1>11 DEF UnknownFill
  <2>3. pc' \in Rounds \/ pc' = pc
    BY <2>2, PullStage DEF control
  <2> QED BY <2>1, <2>3, OpenKept
<1>12. CASE BadFill
  <2>1. UNCHANGED <<quote, open, known>> /\ (reconciled' => reconciled)
    BY <1>12 DEF BadFill, RequireReconciliation, venue
  <2>2. HaltAll({}, "idle")
    BY <1>12 DEF BadFill, RequireReconciliation
  <2>3. pc' \in Rounds
    BY <2>2, PullStage
  <2> QED BY <2>1, <2>3, OpenKept
<1>13. CASE CountFill
  <2>1. /\ UNCHANGED <<quote, open, reconciled>> /\ pc' \in {"process", "judge"}
        /\ \E i \in Oldest(batch) :
             known' = known \/ (quote[fills[i].order].left = 0 /\ known' = known \ {fills[i].order})
    BY <1>13 DEF CountFill, venue, sight
  <2>2. known \cap open' \subseteq known'
    <3>1. \A o \in open : quote[o].left \in Nat /\ quote[o].left >= 1
      BY <1>0, Places DEF VenueType, Quotes, OpenInv
    <3> QED BY <2>1, <3>1
  <2> QED BY <2>1, <2>2, OpenKept
<1>14. CASE Judge \/ AfterFill
  <2>1. UNCHANGED <<quote, open, known, reconciled>>
    BY <1>14 DEF Judge, AfterFill, venue, sight
  <2>2. \E next \in Returns : Pulling({}, {}, next) \/ HaltAll({}, next) \/ HaltMarket(at, next)
    BY <1>14 DEF Judge, AfterFill
  <2>3. pc' \in Rounds
    BY <2>2, PullStage, HaltMarketStage
  <2> QED BY <2>1, <2>3, OpenKept
<1>15. CASE Stop \/ VerifyStopped \/ StopAgain
  <2>1. UNCHANGED <<quote, open, known, reconciled>>
    BY <1>15 DEF Stop, VerifyStopped, StopAgain, NextPass, venue, registry, sight
  <2>2. \/ \E S \in {known, open} : \E next \in Returns : Pulling(S, {}, next)
        \/ Pulling({}, {}, "unconfirmed")
        \/ open = {} /\ Pulling({}, {}, "stopped")
    BY <1>15 DEF Stop, VerifyStopped, StopAgain, NextPass, Cleared
  <2>3. pc' \in Rounds \cup {"unconfirmed"} \/ open = {}
    BY <2>2, PullStage DEF Pulling
  <2> QED BY <2>1, <2>3, OpenKept
<1>16. ASSUME NEW m \in Markets, GatePulls(m) \/ GatesPass(m) PROVE OpenInv'
  <2>1. UNCHANGED <<quote, open, known, reconciled>>
    BY <1>16 DEF GatePulls, GatesPass, venue, registry, sight
  <2>2. \E S : \E next \in Returns : Pulling(S, {}, next)
    BY <1>16 DEF GatePulls, GatesPass
  <2>3. pc' \in Rounds
    BY <2>2, PullStage
  <2> QED BY <2>1, <2>3, OpenKept
<1>17. CASE QuoteSide
  <2>1. PICK n \in 1 .. QuoteSize :
        /\ quote' = Append(quote, [market |-> at, sign |-> Side, left |-> n, own |-> TRUE])
        /\ \/ /\ open' = open \cup {Len(quote')} /\ known' = known \cup {Len(quote')}
              /\ UNCHANGED <<reconciled, control>>
           \/ /\ open' \in {open, open \cup {Len(quote')}}
              /\ RequireReconciliation("place")
    BY <1>17 DEF QuoteSide
  <2>2. pc = "place" /\ (pc' = pc \/ pc' \in Rounds)
    BY <1>17, <2>1, PullStage DEF QuoteSide, RequireReconciliation, control
  <2>3. /\ \A o \in open : quote'[o] = quote[o]
        /\ quote'[Len(quote')].left = n /\ n >= 1
    <3> DEFINE q == [market |-> at, sign |-> Side, left |-> n, own |-> TRUE]
    <3>1. quote \in Seq(Quotes) /\ Len(quote) \in Nat /\ open \subseteq 1 .. Len(quote)
      BY <1>0, Places DEF VenueType
    <3>2. q.left = n /\ quote' = Append(quote, q)
      BY <2>1
    <3> HIDE DEF q
    <3>3. n >= 1
      BY Bounds
    <3> QED BY <3>1, <3>2, <3>3
  <2>4. \A o \in open' : quote'[o].left >= 1
    BY <2>1, <2>3 DEF OpenInv
  <2>5. LiveOrdersKnown'
    BY <2>1 DEF RequireReconciliation, LiveOrdersKnown, OpenInv
  <2> QED BY <2>2, <2>4, <2>5 DEF OpenInv
<1>18. ASSUME NEW o \in Sent, VenueFill(o) PROVE OpenInv'
  <2>1. PICK n \in 1 .. quote[o].left :
          /\ quote' = [quote EXCEPT ![o] = [quote[o] EXCEPT !.left = quote[o].left - n]]
          /\ open' = IF n = quote[o].left THEN open \ {o} ELSE open
    BY <1>18, Zenon DEF VenueFill
  <2>2. o \in open /\ UNCHANGED <<known, reconciled, pc>>
    BY <1>18 DEF VenueFill, registry, sight, control
  <2>3. quote[o] \in Quotes /\ quote[o].left \in Nat
    BY <1>0, Places DEF Quotes
  <2>4. \A p \in open' : quote'[p].left >= 1
    <3>1. [quote[o] EXCEPT !.left = quote[o].left - n].left = quote[o].left - n
      BY <2>3 DEF Quotes
    <3>2. quote'[o].left = quote[o].left - n /\ \A p \in Sent : p # o => quote'[p] = quote[p]
      BY <2>1, <3>1, Zenon DEF Sent
    <3>3. open \subseteq Sent
      BY <1>0 DEF VenueType
    <3>4. o \in open' => quote[o].left - n >= 1
      BY <2>1, <2>3
    <3> QED BY <2>1, <3>2, <3>3, <3>4 DEF OpenInv
  <2> QED BY <2>1, <2>2, <2>4 DEF OpenInv, LiveOrdersKnown
<1>19. ASSUME NEW r \in DOMAIN audit, MainLoopHedges(r) PROVE OpenInv'
  <2>1. UNCHANGED <<open, known, reconciled, pc>>
    BY <1>19 DEF MainLoopHedges, registry, sight, control
  <2>2. \A o \in open : quote'[o] = quote[o]
    <3>1. quote \in Seq(Quotes) /\ Len(quote) \in Nat /\ open \subseteq 1 .. Len(quote)
      BY <1>0, Places DEF VenueType
    <3>2. \/ quote' = quote
          \/ \E q : quote' = Append(quote, q)
      BY <1>19 DEF MainLoopHedges
    <3> QED BY <3>1, <3>2
  <2> QED BY <2>1, <2>2 DEF OpenInv, LiveOrdersKnown
<1>20. CASE UNCHANGED vars
  BY <1>20, OpenKept DEF vars, venue, registry, sight, control
<1> QED
  BY <1>1, <1>2, <1>3, <1>4, <1>5, <1>6, <1>7, <1>8, <1>9, <1>10, <1>11, <1>12, <1>13, <1>14,
     <1>15, <1>16, <1>17, <1>18, <1>19, <1>20
  DEF Next

-----------------------------------------------------------------------------
(***************************************************************************)
(* Fills.                                                                  *)
(***************************************************************************)

Own(i)     == quote[fills[i].order].own
Settled(i) == i \in counted \/ i \in passed

\* The batch holds it, or the cursor has not reached it and whatever the batch
\* holds, which moves the cursor, is older.
Ahead(i)      == i >= cursor /\ \A b \in batch : b < i
AskedAgain(i) == i \notin seen /\ (i \in batch \/ Ahead(i))

Processing ==
  pc \in {"process", "judge", "hedge", "down"} \/ (pc = "pull" /\ then \in {"process", "hedge"})

MissedInv ==
  /\ cursor <= Len(fills) /\ saved <= Len(fills) /\ seen \subseteq Recorded
  /\ batch # {} => Processing
  /\ pc = "fills" => \A i \in Recorded : Own(i) => i \in counted
  /\ reconciled /\ ~halted => \A i \in Recorded : Own(i) => Settled(i) \/ AskedAgain(i)

\* The venue forgets no fill, and a fill stays whose it was.
LEMMA OwnKept ==
  ASSUME TypeInv, [Next]_vars
  PROVE  /\ Recorded \subseteq Recorded'
         /\ \A i \in Recorded : Own(i)' = Own(i)
<1>1. \A i \in Recorded : fills[i].order \in Sent
  BY Places, Groups DEF TypeInv
<1> QED BY <1>1, History DEF TypeInv, Own, SameOrder

LEMMA MissedKept ==
  ASSUME TypeInv, [Next]_vars,
         MissedInv, UNCHANGED <<fills, counted, passed, seen, cursor, batch>>,
         saved' \in {saved, cursor}, reconciled' => reconciled, halted => halted',
         pc' = "fills" => pc = "fills", batch # {} => Processing',
         halted \in BOOLEAN, halted' \in BOOLEAN
  PROVE  MissedInv'
<1>1. Recorded' = Recorded /\ \A i \in Recorded : Own(i)' = Own(i)
  BY OwnKept DEF Recorded
<1>2. \A i \in Recorded : Settled(i)' = Settled(i) /\ AskedAgain(i)' = AskedAgain(i)
  BY DEF Settled, AskedAgain, Ahead
<1>3. cursor' <= Len(fills') /\ saved' <= Len(fills') /\ seen' \subseteq Recorded'
  BY <1>1 DEF MissedInv
<1>4. pc' = "fills" => \A i \in Recorded' : Own(i)' => i \in counted'
  BY <1>1 DEF MissedInv
<1>5. reconciled' /\ ~halted' => \A i \in Recorded' : Own(i)' => (Settled(i) \/ AskedAgain(i))'
  BY <1>1, <1>2 DEF MissedInv
<1> QED BY <1>3, <1>4, <1>5 DEF MissedInv

\* A new fill is one the poll still asks for.
LEMMA MissedGrows ==
  ASSUME TypeInv, [Next]_vars, MissedInv,
         UNCHANGED <<counted, passed, seen, cursor, batch, saved, reconciled, halted, pc, then>>,
         \A i \in Recorded' \ Recorded : pc = "fills" => ~Own(i)'
  PROVE  MissedInv'
<1>1. /\ Len(fills) \in Nat /\ Recorded = 1 .. Len(fills)
      /\ Len(fills') \in Nat /\ Recorded' = 1 .. Len(fills')
  <2>1. VenueType /\ VenueType'
    BY TypeStep, Groups, GroupsNext DEF TypeInv
  <2>2. Len(fills') \in Nat /\ Recorded' = 1 .. Len(fills')
    <3> DEFINE F == [order : Sent', n : Nat \ {0}]
    <3>1. fills' \in Seq(F)
      BY <2>1 DEF VenueType
    <3> HIDE DEF F
    <3> QED BY <3>1, LenProperties DEF Recorded
  <2> QED BY <2>1, <2>2, Places
<1>2. Recorded \subseteq Recorded' /\ \A i \in Recorded : Own(i)' = Own(i)
  BY OwnKept
<1>3. Len(fills) <= Len(fills')
  BY <1>1, <1>2
<1>4. cursor \in Nat /\ saved \in Nat
  BY Groups, Bounds DEF TypeInv, BooksType
<1>5. cursor' <= Len(fills') /\ saved' <= Len(fills') /\ seen' \subseteq Recorded'
  BY <1>1, <1>2, <1>3, <1>4 DEF MissedInv
<1>6. \A i \in Recorded : (Settled(i) \/ AskedAgain(i))' <=> (Settled(i) \/ AskedAgain(i))
  BY DEF Settled, AskedAgain, Ahead
<1>7. ASSUME NEW i \in Recorded' \ Recorded PROVE AskedAgain(i)'
  <2>1. i \in Nat /\ i > Len(fills)
    BY <1>1
  <2>2. i \notin seen /\ i >= cursor /\ \A b \in batch : b < i
    BY <1>1, <1>4, <2>1 DEF MissedInv, TypeInv, BatchInv
  <2> QED BY <2>2 DEF AskedAgain, Ahead
<1>8. batch' # {} => Processing'
  BY DEF MissedInv, Processing
<1>9. pc' = "fills" => \A i \in Recorded' : Own(i)' => i \in counted'
  BY <1>2 DEF MissedInv
<1>10. reconciled' /\ ~halted' => \A i \in Recorded' : Own(i)' => (Settled(i) \/ AskedAgain(i))'
  BY <1>2, <1>6, <1>7 DEF MissedInv
<1> QED BY <1>5, <1>8, <1>9, <1>10 DEF MissedInv

\* What the main loop sells is no order of the pilot.
LEMMA SoldByOthers ==
  ASSUME TypeOK, NEW r \in DOMAIN audit, MainLoopHedges(r)
  PROVE  /\ Len(quote') = Len(quote) \/ ~quote'[Len(quote')].own
         /\ \A i \in Recorded' \ Recorded : ~quote'[fills'[i].order].own
<1> DEFINE q == [market |-> audit[r].market, sign |-> audit[r].sign, left |-> 0, own |-> FALSE]
           F == [order : Sent, n : Nat \ {0}]
           e == [order |-> Len(quote'), n |-> audit[r].n]
<1>1. q.own = FALSE /\ e.order = Len(quote')
  OBVIOUS
<1>2. /\ quote \in Seq(Quotes) /\ Len(quote) \in Nat
      /\ fills \in Seq(F) /\ Len(fills) \in Nat /\ Recorded = 1 .. Len(fills)
  BY Groups, Places DEF VenueType
<1>3. CASE UNCHANGED <<quote, fills>>
  BY <1>3 DEF Recorded
<1>4. CASE quote' = Append(quote, q) /\ (fills' = fills \/ fills' = Append(fills, e))
  <2> HIDE DEF q, F, e
  <2>1. Len(quote') = Len(quote) + 1 /\ quote'[Len(quote')] = q
    BY <1>2, <1>4
  <2>2. fills' = Append(fills, e) =>
          Recorded' = 1 .. Len(fills) + 1 /\ fills'[Len(fills) + 1] = e
    BY <1>2, LenProperties DEF Recorded
  <2>3. \A i \in Recorded' \ Recorded : fills'[i] = e
    BY <1>2, <1>4, <2>2 DEF Recorded
  <2> QED BY <1>1, <2>1, <2>3
<1> QED BY <1>3, <1>4 DEF MainLoopHedges, Filled

LEMMA PullGoesOn ==
  ASSUME NEW S, NEW rest, NEW next, Pulling(S, rest, next) \/ HaltAll(rest, next)
  PROVE  pc' = next \/ (pc' = "pull" /\ then' = next)
  BY DEF HaltAll, Pulling

LEMMA HaltMarketGoesOn ==
  ASSUME NEW m, NEW next, HaltMarket(m, next)
  PROVE  pc' = next \/ (pc' = "pull" /\ then' = next)
<1>1. \/ Pulling({o \in known' : quote[o].market = m}, {}, next)
      \/ HaltAll({o \in known' : quote[o].market = m}, next)
  BY DEF HaltMarket
<1> QED BY <1>1, PullGoesOn

LEMMA HaltsOnly ==
  ASSUME NEW m, NEW rest, NEW next, halted \in BOOLEAN,
         HaltAll(rest, next) \/ HaltMarket(m, next) \/ UNCHANGED halted
  PROVE  halted' \in BOOLEAN /\ (halted => halted')
  BY DEF HaltAll, HaltMarket

LEMMA CancelNextGoesOn ==
  ASSUME halted \in BOOLEAN, CancelNext
  PROVE  /\ halted' \in BOOLEAN /\ (halted => halted')
         /\ saved' \in {saved, cursor}
         /\ \E next \in {then, "idle"} :
              /\ then # "place" => next = then
              /\ pc' = next \/ (pc' = "pull" /\ then' = next)
<1>1. PICK o \in todo :
        \/ /\ o \notin known /\ then # "stop"
           /\ Pulling(todo \ {o}, later, then)
           /\ UNCHANGED <<open, registry, halted, saved, faults>>
        \/ \E ok \in BOOLEAN :
             LET going == ok \/ then # "place"
                 rest  == IF going THEN todo \ {o} ELSE {}
                 next  == IF going THEN then ELSE "idle"
             IN  /\ CancelAnswers(o, ok)
                 /\ IF o \notin known
                    THEN Pulling(rest, later, next) /\ UNCHANGED <<registry, halted, saved>>
                    ELSE IF ok
                    THEN /\ known' = known \ {o} /\ tries' = [tries EXCEPT ![o] = 0]
                         /\ saved' = cursor
                         /\ Pulling(rest, later, next) /\ UNCHANGED halted
                    ELSE /\ tries' = [tries EXCEPT ![o] = IF @ < MaxCancels THEN @ + 1 ELSE @]
                         /\ UNCHANGED <<known, saved>>
                         /\ IF tries'[o] >= MaxCancels
                            THEN HaltAll(rest \cup later, next)
                            ELSE Pulling(rest, later, next) /\ UNCHANGED halted
  BY Zenon DEF CancelNext
<1>2. ASSUME NEW ok \in BOOLEAN, NEW rest, NEW next \in {then, "idle"},
             then # "place" => next = then,
             IF o \notin known
             THEN Pulling(rest, later, next) /\ UNCHANGED <<registry, halted, saved>>
             ELSE IF ok
             THEN /\ known' = known \ {o} /\ tries' = [tries EXCEPT ![o] = 0]
                  /\ saved' = cursor
                  /\ Pulling(rest, later, next) /\ UNCHANGED halted
             ELSE /\ tries' = [tries EXCEPT ![o] = IF @ < MaxCancels THEN @ + 1 ELSE @]
                  /\ UNCHANGED <<known, saved>>
                  /\ IF tries'[o] >= MaxCancels
                     THEN HaltAll(rest \cup later, next)
                     ELSE Pulling(rest, later, next) /\ UNCHANGED halted
      PROVE  /\ halted' \in BOOLEAN /\ (halted => halted')
             /\ saved' \in {saved, cursor}
             /\ \E to \in {then, "idle"} :
                  /\ then # "place" => to = then
                  /\ pc' = to \/ (pc' = "pull" /\ then' = to)
  <2>1. saved' \in {saved, cursor}
    BY <1>2, Zenon
  <2>2. \/ Pulling(rest, later, next) /\ UNCHANGED halted
        \/ HaltAll(rest \cup later, next)
    BY <1>2, Zenon
  <2>3. pc' = next \/ (pc' = "pull" /\ then' = next)
    BY <2>2, PullGoesOn
  <2>4. halted' \in BOOLEAN /\ (halted => halted')
    BY <2>2 DEF HaltAll
  <2> QED BY <1>2, <2>1, <2>3, <2>4
<1>3. CASE Pulling(todo \ {o}, later, then) /\ UNCHANGED <<open, registry, halted, saved, faults>>
  <2>1. pc' = then \/ (pc' = "pull" /\ then' = then)
    BY <1>3, PullGoesOn
  <2> QED BY <1>3, <2>1
<1>4. ASSUME NEW ok \in BOOLEAN
      PROVE  /\ (IF ok \/ then # "place" THEN then ELSE "idle") \in {then, "idle"}
             /\ then # "place" => (IF ok \/ then # "place" THEN then ELSE "idle") = then
  OBVIOUS
<1> QED BY <1>1, <1>2, <1>3, <1>4, Zenon

LEMMA MissedStep == TypeInv /\ OpenInv /\ MissedInv /\ [Next]_vars => MissedInv'
<1> SUFFICES ASSUME TypeInv, OpenInv, MissedInv, [Next]_vars PROVE MissedInv'
  OBVIOUS
<1>0. /\ halted \in BOOLEAN /\ then \in Returns
      /\ cursor \in Nat /\ saved \in Nat /\ Len(fills) \in Nat /\ Recorded = 1 .. Len(fills)
      /\ batch \subseteq Recorded
  BY Places, Groups, Bounds DEF TypeInv, BatchInv, FlagsType, ControlType, BooksType
<1>00. /\ pc \in {"idle", "confirm", "positions", "fills", "sweep", "place", "stop", "verify",
                   "stopped", "unconfirmed"} => batch = {}
       /\ pc = "pull" /\ then \notin {"process", "hedge"} => batch = {}
  BY DEF MissedInv, Processing
<1>1. CASE Start
  <2>1. /\ fills' = fills /\ cursor' = Len(fills) /\ saved' = saved /\ seen' = {} /\ batch' = {}
        /\ reconciled' = FALSE /\ pc' = "idle"
    BY <1>1 DEF Start, Fresh, venue
  <2> QED BY <1>0, <2>1 DEF MissedInv
<1>2. CASE Crash
  <2>1. UNCHANGED <<fills, counted, passed, seen, cursor, batch, saved, reconciled, halted>>
        /\ pc' = "down"
    BY <1>2 DEF Crash, venue, books, halts, sight, work
  <2> QED BY <1>0, <2>1, MissedKept DEF Processing
<1>3. CASE CancelNext
  <2>1. UNCHANGED <<fills, counted, passed, seen, cursor, batch, reconciled>> /\ pc = "pull"
    BY <1>3 DEF CancelNext, books, sight, work
  <2>2. PICK next \in {then, "idle"} :
          /\ then # "place" => next = then
          /\ pc' = next \/ (pc' = "pull" /\ then' = next)
    BY <1>0, <1>3, CancelNextGoesOn
  <2>3. halted' \in BOOLEAN /\ (halted => halted') /\ saved' \in {saved, cursor}
    BY <1>0, <1>3, CancelNextGoesOn
  <2>4. pc' # "fills"
    BY <1>0, <2>2 DEF Returns
  <2>5. batch # {} => Processing'
    BY <1>00, <2>1, <2>2 DEF Processing
  <2> QED BY <1>0, <2>1, <2>3, <2>4, <2>5, MissedKept
<1>4. CASE RetryCancels \/ HaltIdle
  <2>1. UNCHANGED <<fills, counted, passed, seen, cursor, batch, saved, reconciled>> /\ pc = "idle"
    BY <1>4 DEF RetryCancels, HaltIdle, venue, books, sight, work
  <2>2. \E S : Pulling(S, {}, "idle") \/ HaltAll(S, "idle")
    BY <1>4 DEF RetryCancels, HaltIdle
  <2>3. halted' \in BOOLEAN /\ (halted => halted')
    BY <1>0, <1>4 DEF RetryCancels, HaltIdle, HaltAll, halts
  <2>4. pc' # "fills"
    BY <2>2, PullGoesOn
  <2> QED BY <1>0, <1>00, <2>1, <2>3, <2>4, MissedKept
<1>5. CASE QueryFails \/ ConfirmEmpty \/ QueryOpen \/ SweepNext
  <2>1. UNCHANGED <<fills, counted, passed, seen, cursor, batch, saved, reconciled, halted>>
    BY <1>5 DEF QueryFails, ConfirmEmpty, QueryOpen, SweepNext, Reconciling, venue, books, halts,
       sight, work
  <2>2. pc \in {"idle", "confirm", "positions", "fills", "sweep"} /\ pc' # "fills"
    BY <1>0, <1>5
    DEF QueryFails, ConfirmEmpty, QueryOpen, SweepNext, Reconciling, Returns
  <2> QED BY <1>0, <1>00, <2>1, <2>2, MissedKept
<1>6. CASE TakePositions
  <2>1. /\ UNCHANGED <<quote, fills, seen, passed, cursor, batch, saved, reconciled, halted>>
        /\ pc = "positions" /\ counted' = Recorded /\ Recorded' = Recorded
    BY <1>6 DEF TakePositions, venue, halts, sight, work, Recorded
  <2> QED BY <1>00, <2>1 DEF MissedInv, Settled
<1>7. CASE TakeFills
  <2>1. /\ UNCHANGED <<quote, fills, counted, passed, batch, halted>>
        /\ pc = "fills" /\ pc' = "idle" /\ saved' = cursor' /\ Recorded' = Recorded
        /\ cursor' \in {Len(fills), cursor, saved} /\ seen' \subseteq seen \cup Recorded
    BY <1>7 DEF TakeFills, venue, halts, work, Recorded
  <2>2. \A i \in Recorded : Own(i)' = Own(i) /\ Settled(i)' = Settled(i)
    BY <2>1 DEF Own, Settled
  <2>3. cursor' <= Len(fills') /\ saved' <= Len(fills')
    BY <1>0, <2>1 DEF MissedInv
  <2>4. seen' \subseteq Recorded' /\ batch' = {} /\ pc' # "fills"
    BY <1>00, <2>1 DEF MissedInv
  <2>5. \A i \in Recorded' : Own(i)' => Settled(i)'
    BY <2>1, <2>2 DEF MissedInv, Settled
  <2> QED BY <2>3, <2>4, <2>5 DEF MissedInv
<1>8. CASE Select \/ SkipSide \/ PollFails \/ PollEnds
  <2>1. UNCHANGED <<fills, counted, passed, seen, cursor, batch, reconciled, halted>>
        /\ saved' \in {saved, cursor}
    BY <1>8 DEF Select, SkipSide, PollFails, PollEnds, venue, books, halts, sight, work
  <2>2. batch = {} /\ (pc' = "fills" => pc = "fills")
    <3>1. CASE PollFails
      <4>1. UNCHANGED control \/ Pulling(known, {}, "idle")
        BY <3>1 DEF PollFails
      <4>2. UNCHANGED pc \/ pc' \in {"idle", "pull"}
        BY <4>1, PullGoesOn DEF control
      <4> QED BY <1>00, <3>1, <4>2 DEF PollFails
    <3> QED BY <1>8, <1>00, <3>1 DEF Select, SkipSide, PollEnds, control
  <2> QED BY <1>0, <2>1, <2>2, MissedKept
<1>9. CASE PollFills
  <2>1. PICK w \in 0 .. MaxFills : batch' = {i \in Unseen : i >= cursor - w}
    BY <1>9 DEF PollFills
  <2>2. /\ UNCHANGED <<quote, fills, counted, passed, seen, cursor, saved, reconciled, halted>>
        /\ pc = "idle" /\ pc' = "process" /\ Recorded' = Recorded
    BY <1>9 DEF PollFills, PollDue, venue, books, registry, halts, Recorded
  <2>3. ASSUME NEW i \in Recorded, AskedAgain(i) PROVE AskedAgain(i)'
    <3>1. i \notin seen /\ i >= cursor
      BY <1>00, <2>2, <2>3 DEF AskedAgain, Ahead
    <3>2. i >= cursor - w
      BY <1>0, <3>1, Bounds
    <3> QED BY <2>1, <2>2, <3>1, <3>2 DEF AskedAgain, Unseen
  <2>4. \A i \in Recorded : Own(i)' = Own(i) /\ Settled(i)' = Settled(i)
    BY <2>2 DEF Own, Settled
  <2> QED BY <2>2, <2>3, <2>4 DEF MissedInv, Processing
<1>10. CASE UnknownFill
  <2>1. PICK i \in Oldest(batch) :
          \/ seen' = seen \cup {i} /\ batch' = {} /\ UNCHANGED passed /\ HaltAll({}, "idle")
          \/ passed' = passed \cup {i} /\ batch' = batch \ {i} /\ UNCHANGED <<seen, halted, control>>
    BY <1>10 DEF UnknownFill
  <2>2. /\ UNCHANGED <<quote, fills, counted, cursor, saved, reconciled>>
        /\ pc = "process" /\ Recorded' = Recorded
    BY <1>10 DEF UnknownFill, venue, sight, Recorded
  <2>3. i \in batch
    BY DEF Oldest
  <2>4. CASE seen' = seen \cup {i} /\ batch' = {} /\ UNCHANGED passed /\ HaltAll({}, "idle")
    <3>1. halted' = TRUE /\ pc' # "fills"
      BY <2>4, PullGoesOn DEF HaltAll
    <3> QED BY <1>0, <2>2, <2>3, <2>4, <3>1 DEF MissedInv
  <2>5. CASE passed' = passed \cup {i} /\ batch' = batch \ {i} /\ UNCHANGED <<seen, halted, control>>
    <3>1. pc' = "process"
      BY <2>2, <2>5 DEF control
    <3>2. \A j \in Recorded : Own(j)' = Own(j)
      BY <2>2 DEF Own
    <3>3. \A j \in Recorded : Settled(j) \/ AskedAgain(j) => (Settled(j) \/ AskedAgain(j))'
      BY <2>2, <2>5 DEF Settled, AskedAgain, Ahead
    <3> QED BY <2>2, <2>5, <3>1, <3>2, <3>3 DEF MissedInv, Processing
  <2> QED BY <2>1, <2>4, <2>5
<1>11. CASE BadFill
  <2>1. UNCHANGED <<fills, seen, cursor, saved>> /\ batch' = {} /\ HaltAll({}, "idle")
    BY <1>11 DEF BadFill, RequireReconciliation, venue, books
  <2>2. halted' = TRUE /\ pc' # "fills" /\ Recorded' = Recorded
    BY <2>1, PullGoesOn DEF HaltAll, Recorded
  <2> QED BY <2>1, <2>2 DEF MissedInv
<1>12. CASE CountFill
  <2>1. PICK i \in Oldest(batch) :
          /\ seen' = seen \cup {i} /\ counted' = counted \cup {i}
          /\ cursor' = IF i > cursor THEN i ELSE cursor
          /\ saved' = cursor' /\ batch' = batch \ {i}
          /\ pc' = IF halted THEN "process" ELSE "judge"
    BY <1>12 DEF CountFill
  <2>2. UNCHANGED <<quote, fills, passed, reconciled, halted>> /\ Recorded' = Recorded
    BY <1>12 DEF CountFill, venue, halts, sight, Recorded
  <2>3. i \in batch /\ i \in Nat /\ i <= Len(fills)
    BY <1>0 DEF Oldest
  <2>4. cursor' <= Len(fills) /\ seen' \subseteq Recorded
    BY <1>0, <2>1, <2>3 DEF MissedInv
  <2>5. ASSUME NEW j \in Recorded, Settled(j) \/ AskedAgain(j) PROVE (Settled(j) \/ AskedAgain(j))'
    <3>1. CASE Settled(j) \/ j = i
      BY <2>1, <2>2, <3>1 DEF Settled
    <3>2. CASE j # i /\ j \in batch /\ j \notin seen
      BY <2>1, <3>2 DEF AskedAgain
    <3>3. CASE j # i /\ j \notin seen /\ Ahead(j)
      <4>1. j >= cursor /\ i < j /\ \A b \in batch' : b < j
        BY <2>1, <2>3, <3>3 DEF Ahead
      <4>2. j >= cursor'
        BY <1>0, <2>1, <2>3, <4>1
      <4> QED BY <2>1, <3>3, <4>1, <4>2 DEF AskedAgain, Ahead
    <3> QED BY <2>5, <3>1, <3>2, <3>3 DEF AskedAgain
  <2>6. \A j \in Recorded : Own(j)' = Own(j)
    BY <2>2 DEF Own
  <2> QED BY <2>1, <2>2, <2>4, <2>5, <2>6 DEF MissedInv, Processing
<1>13. CASE Judge \/ AfterFill
  <2>1. UNCHANGED <<fills, counted, passed, seen, cursor, batch, saved, reconciled>>
    BY <1>13 DEF Judge, AfterFill, venue, books, sight, work
  <2>2. PICK next \in {"process", "hedge"} :
          \/ Pulling({}, {}, next) /\ UNCHANGED halted
          \/ HaltAll({}, next) \/ HaltMarket(at, next)
    BY <1>13 DEF Judge, AfterFill, halts
  <2>3. pc' = next \/ (pc' = "pull" /\ then' = next)
    BY <2>2, PullGoesOn, HaltMarketGoesOn
  <2>4. halted' \in BOOLEAN /\ (halted => halted')
    BY <1>0, <2>2, HaltsOnly
  <2> QED BY <1>0, <2>1, <2>3, <2>4, MissedKept DEF Processing
<1>14. CASE Stop \/ VerifyStopped \/ StopAgain
  <2>1. UNCHANGED <<fills, counted, passed, seen, cursor, batch, reconciled, halted>>
        /\ saved' \in {saved, cursor}
    BY <1>14 DEF Stop, VerifyStopped, StopAgain, NextPass, venue, books, halts, sight, work
  <2>2. pc \in {"idle", "verify", "stop"}
    BY <1>14 DEF Stop, VerifyStopped, StopAgain
  <2>3. \E S, next : Pulling(S, {}, next) /\ next \in {"verify", "stop", "stopped", "unconfirmed"}
    BY <1>14 DEF Stop, VerifyStopped, StopAgain, NextPass
  <2>4. pc' # "fills"
    BY <2>3, PullGoesOn
  <2> QED BY <1>0, <1>00, <2>1, <2>2, <2>4, MissedKept
<1>15. ASSUME NEW m \in Markets, GatePulls(m) \/ GatesPass(m) PROVE MissedInv'
  <2>1. UNCHANGED <<fills, counted, passed, seen, cursor, batch, saved, reconciled, halted>>
        /\ pc = "idle"
    BY <1>15 DEF GatePulls, GatesPass, Refreshes, venue, books, halts, sight
  <2>2. \E S, next : Pulling(S, {}, next) /\ next \in {"idle", "place"}
    BY <1>15 DEF GatePulls, GatesPass
  <2>3. pc' # "fills"
    BY <2>2, PullGoesOn
  <2> QED BY <1>0, <1>00, <2>1, <2>3, MissedKept
<1>16. CASE QuoteSide
  <2>1. UNCHANGED <<fills, counted, passed, seen, cursor, batch>> /\ pc = "place"
    BY <1>16 DEF QuoteSide, books
  <2>2. \/ UNCHANGED <<reconciled, halted, control>> /\ saved' = cursor
        \/ saved' = saved /\ RequireReconciliation("place")
    BY <1>16 DEF QuoteSide
  <2>3. /\ saved' \in {saved, cursor} /\ (reconciled' => reconciled)
        /\ (halted => halted') /\ halted' \in BOOLEAN /\ pc' # "fills"
    <3>1. CASE UNCHANGED <<reconciled, halted, control>> /\ saved' = cursor
      BY <1>0, <2>1, <3>1 DEF control
    <3>2. CASE saved' = saved /\ RequireReconciliation("place")
      <4>1. reconciled' = FALSE /\ HaltAll({}, "place")
        BY <3>2 DEF RequireReconciliation
      <4>2. halted' = TRUE /\ pc' # "fills"
        BY <4>1, PullGoesOn DEF HaltAll
      <4> QED BY <3>2, <4>1, <4>2
    <3> QED BY <2>2, <3>1, <3>2
  <2> QED BY <1>0, <1>00, <2>1, <2>3, MissedKept
<1>17. ASSUME NEW o \in Sent, VenueFill(o) PROVE MissedInv'
  <2>1. UNCHANGED <<counted, passed, seen, cursor, batch, saved, reconciled, halted, pc, then>>
    BY <1>17 DEF VenueFill, books, halts, sight, work, control
  <2>2. pc # "fills"
    BY <1>17 DEF VenueFill, OpenInv
  <2> QED BY <2>1, <2>2, MissedGrows
<1>18. ASSUME NEW r \in DOMAIN audit, MainLoopHedges(r) PROVE MissedInv'
  <2>1. UNCHANGED <<counted, passed, seen, cursor, batch, saved, reconciled, halted, pc, then>>
    BY <1>18 DEF MainLoopHedges, books, halts, sight, work, control
  <2>2. ASSUME NEW i \in Recorded' \ Recorded PROVE ~Own(i)'
    BY <1>18, SoldByOthers DEF TypeInv, Own
  <2> QED BY <2>1, <2>2, MissedGrows
<1>19. CASE UNCHANGED vars
  <2>1. UNCHANGED <<fills, counted, passed, seen, cursor, batch, saved, reconciled, halted, pc, then>>
    BY <1>19 DEF vars, venue, books, halts, sight, work, control
  <2> QED BY <1>0, <2>1, MissedKept DEF MissedInv, Processing
<1> QED
  BY <1>1, <1>2, <1>3, <1>4, <1>5, <1>6, <1>7, <1>8, <1>9, <1>10, <1>11, <1>12, <1>13, <1>14,
     <1>15, <1>16, <1>17, <1>18, <1>19
  DEF Next

-----------------------------------------------------------------------------
(***************************************************************************)
(* The books.                                                              *)
(***************************************************************************)

\* What the fills S of the list f add up to in market m, q being the orders.
Worth(q, f)        == [i \in DOMAIN f |-> q[f[i].order].sign * f[i].n]
Booked(q, f, m, S) == SumFunctionOnSet(Worth(q, f), {i \in S : q[f[i].order].market = m})

Checking == {"sweep", "confirm", "positions", "fills"}

\* The venue's positions are its fills; the pilot's net is the fills counted, from
\* the positions on, and none of those is counted again: a poll skips the ids it
\* has seen, and the fills the reconciliation takes over unseen, those the saved
\* cursor is past, are of orders no longer registered.
BooksInv ==
  /\ \A m \in Markets : position[m] = Booked(quote, fills, m, Recorded)
  /\ counted \subseteq Recorded
  /\ pc \in Checking => ~reconciled
  /\ pc = "pull" => then # "confirm"
  /\ pc = "fills" \/ reconciled => \A m \in Markets : net[m] = Booked(quote, fills, m, counted)
  /\ reconciled => \A i \in counted : i \in seen \/ fills[i].order \notin known
  /\ \A o \in known : quote[o].own
  /\ batch \cap seen = {}

\* A list of fills with an amount each.
Fit(q, f) == IsFiniteSet(DOMAIN f) /\ \A i \in DOMAIN f : q[f[i].order].sign * f[i].n \in Int

LEMMA BookedInsert ==
  \A q, f, m : Fit(q, f) => \A S \in SUBSET DOMAIN f : \A x \in DOMAIN f \ S :
     /\ q[f[x].order].market = m =>
          Booked(q, f, m, S \cup {x}) = q[f[x].order].sign * f[x].n + Booked(q, f, m, S)
     /\ q[f[x].order].market # m => Booked(q, f, m, S \cup {x}) = Booked(q, f, m, S)
<1> SUFFICES ASSUME NEW q, NEW f, NEW m, Fit(q, f), NEW S \in SUBSET DOMAIN f,
                    NEW x \in DOMAIN f \ S
             PROVE  /\ q[f[x].order].market = m =>
                         Booked(q, f, m, S \cup {x})
                           = q[f[x].order].sign * f[x].n + Booked(q, f, m, S)
                    /\ q[f[x].order].market # m =>
                         Booked(q, f, m, S \cup {x}) = Booked(q, f, m, S)
  OBVIOUS
<1> DEFINE T == {i \in S : q[f[i].order].market = m}
           U == {i \in S \cup {x} : q[f[i].order].market = m}
           w == Worth(q, f)
<1>1. IsFiniteSet(T) /\ x \notin T /\ \A i \in T \cup {x} : w[i] \in Int
  BY FS_Subset DEF Fit, Worth
<1>2. w[x] = q[f[x].order].sign * f[x].n
  BY DEF Worth
<1>3. q[f[x].order].market = m => U = T \cup {x}
  OBVIOUS
<1>4. q[f[x].order].market # m => U = T
  OBVIOUS
<1>5. Booked(q, f, m, S) = SumFunctionOnSet(w, T)
      /\ Booked(q, f, m, S \cup {x}) = SumFunctionOnSet(w, U)
  BY DEF Booked
<1> HIDE DEF T, U, w
<1>6. SumFunctionOnSet(w, T \cup {x}) = w[x] + SumFunctionOnSet(w, T)
  BY <1>1, SumInsert
<1> QED BY <1>2, <1>3, <1>4, <1>5, <1>6

\* The sum looks at the fills it adds and at their orders.
LEMMA BookedSame ==
  \A q, f, p, g, m : Fit(q, f) => \A S \in SUBSET DOMAIN f :
     (\A i \in S : /\ i \in DOMAIN g /\ g[i] = f[i]
                   /\ p[f[i].order].sign = q[f[i].order].sign
                   /\ p[f[i].order].market = q[f[i].order].market)
       => Booked(p, g, m, S) = Booked(q, f, m, S)
<1> SUFFICES ASSUME NEW q, NEW f, NEW p, NEW g, NEW m, Fit(q, f), NEW S \in SUBSET DOMAIN f,
                    \A i \in S : /\ i \in DOMAIN g /\ g[i] = f[i]
                                 /\ p[f[i].order].sign = q[f[i].order].sign
                                 /\ p[f[i].order].market = q[f[i].order].market
             PROVE  Booked(p, g, m, S) = Booked(q, f, m, S)
  OBVIOUS
<1> DEFINE T == {i \in S : q[f[i].order].market = m}
           U == {i \in S : p[g[i].order].market = m}
           w == Worth(q, f)
           v == Worth(p, g)
<1>1. U = T
  OBVIOUS
<1>2. IsFiniteSet(T) /\ \A i \in T : w[i] = v[i]
  BY FS_Subset DEF Fit, Worth
<1>3. Booked(q, f, m, S) = SumFunctionOnSet(w, T)
      /\ Booked(p, g, m, S) = SumFunctionOnSet(v, U)
  BY DEF Booked
<1> HIDE DEF T, U, w, v
<1>4. SumFunctionOnSet(w, T) = SumFunctionOnSet(v, T)
  BY <1>2, SumSame
<1> QED BY <1>1, <1>3, <1>4

LEMMA FillsFit == ASSUME VenueType PROVE Fit(quote, fills)
<1>1. IsFiniteSet(DOMAIN fills)
  BY Places, FS_Interval DEF Recorded
<1> QED BY <1>1, Places DEF Fit, Recorded, Signed

\* The same of the next state.
LEMMA PlacesNext ==
  ASSUME VenueType'
  PROVE  /\ Len(fills') \in Nat /\ Recorded' = 1 .. Len(fills')
         /\ Fit(quote', fills')
<1> DEFINE F == [order : Sent', n : Nat \ {0}]
<1>1. fills' \in Seq(F) /\ quote' \in Seq(Quotes)
  BY DEF VenueType
<1>2. Len(fills') \in Nat /\ Recorded' = 1 .. Len(fills') /\ \A i \in Recorded' : fills'[i] \in F
  <2> HIDE DEF F
  <2> QED BY <1>1, LenProperties, ElementOfSeq DEF Recorded
<1>3. \A o \in Sent' : quote'[o] \in Quotes
  BY <1>1, LenProperties, ElementOfSeq DEF Sent
<1>4. ASSUME NEW i \in Recorded' PROVE quote'[fills'[i].order].sign * fills'[i].n \in Int
  <2>1. fills'[i].order \in Sent' /\ fills'[i].n \in Nat \ {0}
    BY <1>2
  <2>2. quote'[fills'[i].order].sign \in Signs
    BY <1>3, <2>1 DEF Quotes
  <2> QED BY <2>1, <2>2, SMT DEF Signs
<1>5. IsFiniteSet(DOMAIN fills')
  BY <1>2, FS_Interval DEF Recorded
<1> QED BY <1>2, <1>4, <1>5 DEF Fit, Recorded

\* What was booked stays booked.
LEMMA BookedKept ==
  ASSUME TypeOK, [Next]_vars
  PROVE  \A m \in Markets : \A S \in SUBSET Recorded :
           Booked(quote', fills', m, S) = Booked(quote, fills, m, S)
<1>1. Fit(quote, fills) /\ \A i \in Recorded : fills[i].order \in Sent
  BY Groups, FillsFit, Places
<1>2. \A i \in Recorded : /\ i \in DOMAIN fills' /\ fills'[i] = fills[i]
                          /\ quote'[fills[i].order].sign = quote[fills[i].order].sign
                          /\ quote'[fills[i].order].market = quote[fills[i].order].market
  BY <1>1, History DEF Recorded, SameOrder
<1>3. ASSUME NEW m \in Markets, NEW S \in SUBSET Recorded
      PROVE  Booked(quote', fills', m, S) = Booked(quote, fills, m, S)
  BY <1>1, <1>2, BookedSame DEF Recorded
<1> QED BY <1>3

\* A fill goes to the end of the venue's list, and into the position.
NewFill(i) ==
  /\ i = Len(fills) + 1 /\ i \notin Recorded /\ Recorded' = Recorded \cup {i}
  /\ position' = [position EXCEPT ![quote'[fills'[i].order].market] =
                    @ + quote'[fills'[i].order].sign * fills'[i].n]

LEMMA FilledIsNew ==
  ASSUME TypeOK, NEW o \in Nat, NEW m, NEW n \in Nat \ {0}, Filled(o, m, n),
         m = quote'[o].market
  PROVE  NewFill(Len(fills) + 1)
<1> DEFINE F == [order : Nat, n : Nat \ {0}]
           e == [order |-> o, n |-> n]
<1>1. fills \in Seq(F)
  <2> DEFINE G == [order : Sent, n : Nat \ {0}]
  <2>1. fills \in Seq(G) /\ G \subseteq F
    BY Places, Groups DEF VenueType
  <2> HIDE DEF F, G
  <2> QED BY <2>1, SeqMonotonic
<1>2. e \in F /\ e.order = o /\ e.n = n
  OBVIOUS
<1>3. fills' = Append(fills, e) /\ position' = [position EXCEPT ![m] = @ + quote'[o].sign * n]
  BY DEF Filled
<1> HIDE DEF F, e
<1>4. fills' \in Seq(F) /\ Len(fills') = Len(fills) + 1 /\ fills'[Len(fills) + 1] = e
      /\ Len(fills) \in Nat
  BY <1>1, <1>2, <1>3, LenProperties
<1>5. Recorded = 1 .. Len(fills) /\ Recorded' = 1 .. Len(fills) + 1
  BY <1>1, <1>4, LenProperties DEF Recorded
<1> DEFINE x == Len(fills) + 1
           k == quote'[fills'[x].order].market
           d == quote'[fills'[x].order].sign * fills'[x].n
<1>6. k = m /\ d = quote'[o].sign * n
  BY <1>2, <1>4
<1>7. position' = [position EXCEPT ![k] = position[k] + d]
  <2>1. position' = [position EXCEPT ![m] = position[m] + quote'[o].sign * n]
    BY <1>3
  <2> HIDE DEF k, d
  <2> QED BY <1>6, <2>1
<1>8. x \notin Recorded /\ Recorded' = Recorded \cup {x}
  BY <1>4, <1>5
<1> QED BY <1>7, <1>8 DEF NewFill

LEMMA VenueMoves ==
  ASSUME TypeOK, NEW o \in Sent, VenueFill(o)
  PROVE  NewFill(Len(fills) + 1)
<1>1. PICK n \in 1 .. quote[o].left :
        /\ quote' = [quote EXCEPT ![o] = [quote[o] EXCEPT !.left = quote[o].left - n]]
        /\ Filled(o, quote[o].market, n)
  BY Zenon DEF VenueFill
<1>2. quote[o] \in Quotes /\ o \in Nat
  BY Places, Groups
<1>3. n \in Nat \ {0}
  BY <1>2 DEF Quotes
<1> DEFINE q == [quote[o] EXCEPT !.left = quote[o].left - n]
<1>4. q.market = quote[o].market
  BY <1>2 DEF Quotes
<1>5. quote'[o].market = quote[o].market
  BY <1>1, <1>4, Zenon DEF Sent
<1> QED BY <1>1, <1>2, <1>3, <1>5, FilledIsNew

LEMMA HedgeMoves ==
  ASSUME TypeOK, NEW r \in DOMAIN audit, MainLoopHedges(r)
  PROVE  UNCHANGED <<fills, position>> \/ NewFill(Len(fills) + 1)
<1> DEFINE q == [market |-> audit[r].market, sign |-> audit[r].sign, left |-> 0, own |-> FALSE]
<1>1. CASE /\ quote' = Append(quote, q)
           /\ Filled(Len(quote'), audit[r].market, audit[r].n)
  <2>1. audit[r].n \in Nat \ {0}
    <3> DEFINE A == [market : Markets, sign : Signs, n : Nat \ {0}, tries : 0 .. HedgeAttempts]
    <3>1. audit \in Seq(A) /\ r \in 1 .. Len(audit)
      BY Groups, LenProperties DEF AuditType
    <3>2. audit[r] \in A
      BY <3>1, ElementOfSeq
    <3> QED BY <3>2
  <2>2. q.market = audit[r].market
    OBVIOUS
  <2>3. quote \in Seq(Quotes) /\ Len(quote) \in Nat
    BY Groups, Places DEF VenueType
  <2> HIDE DEF q
  <2>4. Len(quote') \in Nat /\ quote'[Len(quote')] = q
    BY <1>1, <2>3, LenProperties
  <2> QED BY <1>1, <2>1, <2>2, <2>4, FilledIsNew
<1> QED BY <1>1 DEF MainLoopHedges

\* A fill that arrives is in the positions and not yet in the books.
LEMMA BooksGrow ==
  ASSUME TypeInv, [Next]_vars, BooksInv, NewFill(Len(fills) + 1),
         UNCHANGED <<net, counted, seen, known, batch, reconciled, pc, then>>
  PROVE  BooksInv'
<1> DEFINE x == Len(fills) + 1
<1>1. x \notin Recorded /\ Recorded' = Recorded \cup {x}
      /\ position' = [position EXCEPT ![quote'[fills'[x].order].market] =
                        @ + quote'[fills'[x].order].sign * fills'[x].n]
  BY DEF NewFill
<1>2. TypeOK /\ VenueType /\ VenueType' /\ RegistryType
  BY TypeStep, Groups, GroupsNext DEF TypeInv
<1>3. Fit(quote', fills') /\ Fit(quote, fills)
  BY <1>2, PlacesNext, FillsFit
<1> HIDE DEF x
<1>4. \A m \in Markets : \A S \in SUBSET Recorded :
        Booked(quote', fills', m, S) = Booked(quote, fills, m, S)
  BY <1>2, BookedKept
<1>5. ASSUME NEW m \in Markets
      PROVE  position'[m] = Booked(quote', fills', m, Recorded \cup {x})
  <2>1. Booked(quote', fills', m, Recorded) = position[m]
    BY <1>4 DEF BooksInv
  <2>2. /\ quote'[fills'[x].order].market = m =>
             Booked(quote', fills', m, Recorded \cup {x})
               = quote'[fills'[x].order].sign * fills'[x].n + Booked(quote', fills', m, Recorded)
        /\ quote'[fills'[x].order].market # m =>
             Booked(quote', fills', m, Recorded \cup {x}) = Booked(quote', fills', m, Recorded)
    <3>1. Recorded \in SUBSET DOMAIN fills' /\ x \in DOMAIN fills' \ Recorded
      BY <1>1 DEF Recorded
    <3> QED BY <1>3, <3>1, BookedInsert
  <2>3. position \in [Markets -> Int] /\ quote'[fills'[x].order].sign * fills'[x].n \in Int
    BY <1>1, <1>2, <1>3 DEF VenueType, Fit, Recorded
  <2> QED BY <1>1, <2>1, <2>2, <2>3
<1>6. \A m \in Markets : position'[m] = Booked(quote', fills', m, Recorded')
  BY <1>1, <1>5
<1>7. pc' = "fills" \/ reconciled' =>
        \A m \in Markets : net'[m] = Booked(quote', fills', m, counted')
  BY <1>4 DEF BooksInv
<1>8. /\ counted' \subseteq Recorded'
      /\ reconciled' => \A i \in counted' : i \in seen' \/ fills'[i].order \notin known'
  BY <1>1, <1>2, History DEF BooksInv
<1>9. \A o \in known' : quote'[o].own
  BY <1>2, History DEF BooksInv, RegistryType, SameOrder
<1> QED BY <1>6, <1>7, <1>8, <1>9 DEF BooksInv

\* A step that leaves the books alone, or no longer trusts them.
LEMMA BooksLeft ==
  ASSUME TypeInv, [Next]_vars, BooksInv, UNCHANGED <<fills, position>>,
         counted' = counted \/ counted' = {},
         reconciled' => /\ reconciled /\ pc' \notin Checking
                        /\ net' = net /\ counted' = counted /\ seen \subseteq seen'
                        /\ \A o \in known' : o \in known \/ o \notin Sent,
         pc' = "fills" => pc = "fills" /\ net' = net /\ counted' = counted,
         pc' = "pull" => then' # "confirm",
         \A o \in known' : o \in known \/ quote'[o].own,
         batch' \cap seen' = {}
  PROVE  BooksInv'
<1>1. TypeOK /\ RegistryType /\ Recorded' = Recorded /\ VenueType
  BY Groups DEF TypeInv, Recorded
<1>2. \A m \in Markets : \A S \in SUBSET Recorded :
        Booked(quote', fills', m, S) = Booked(quote, fills, m, S)
  BY <1>1, BookedKept
<1>3. \A m \in Markets : position'[m] = Booked(quote', fills', m, Recorded')
  BY <1>1, <1>2 DEF BooksInv
<1>4. counted' \subseteq Recorded' /\ (pc' \in Checking => ~reconciled')
  BY <1>1 DEF BooksInv
<1>5. pc' = "fills" \/ reconciled' =>
        \A m \in Markets : net'[m] = Booked(quote', fills', m, counted')
  BY <1>2 DEF BooksInv
<1>6. reconciled' => \A i \in counted' : i \in seen' \/ fills'[i].order \notin known'
  BY <1>1, Places DEF BooksInv
<1>7. \A o \in known' : quote'[o].own
  BY <1>1, History DEF BooksInv, RegistryType, SameOrder
<1> QED BY <1>3, <1>4, <1>5, <1>6, <1>7 DEF BooksInv

LEMMA CancelNextKnown == CancelNext => known' \subseteq known
<1> SUFFICES ASSUME CancelNext PROVE known' \subseteq known
  OBVIOUS
<1>1. \/ UNCHANGED registry \/ UNCHANGED known \/ \E o \in todo : known' = known \ {o}
  BY Zenon DEF CancelNext
<1> QED BY <1>1 DEF registry

\* An order that is sent is new: none of the fills there are is of it.
LEMMA QuoteBooks ==
  ASSUME TypeInv, BooksInv, QuoteSide
  PROVE  BooksInv'
<1>1. PICK n \in 1 .. QuoteSize :
        /\ quote' = Append(quote, [market |-> at, sign |-> Side, left |-> n, own |-> TRUE])
        /\ \/ /\ known' = known \cup {Len(quote')}
              /\ UNCHANGED <<reconciled, control>>
           \/ UNCHANGED known /\ RequireReconciliation("place")
  BY DEF QuoteSide
<1>2. UNCHANGED <<fills, position, net, counted, seen, batch>> /\ pc = "place"
  BY DEF QuoteSide, books
<1>3. TypeOK /\ VenueType /\ [Next]_vars /\ batch \cap seen = {}
  BY Groups DEF TypeInv, BooksInv, Next
<1>4. Len(quote') \notin Sent /\ quote'[Len(quote')].own
  <2> DEFINE q == [market |-> at, sign |-> Side, left |-> n, own |-> TRUE]
  <2>1. quote \in Seq(Quotes) /\ Len(quote) \in Nat /\ Sent = 1 .. Len(quote)
    BY <1>3, Places DEF VenueType
  <2>2. q.own /\ quote' = Append(quote, q)
    BY <1>1
  <2> HIDE DEF q
  <2> QED BY <2>1, <2>2
<1>5. CASE known' = known \cup {Len(quote')} /\ UNCHANGED <<reconciled, control>>
  BY <1>2, <1>3, <1>4, <1>5, BooksLeft DEF control, Checking
<1>6. CASE UNCHANGED known /\ RequireReconciliation("place")
  <2>1. ~reconciled' /\ HaltAll({}, "place")
    BY <1>6 DEF RequireReconciliation
  <2>2. pc' = "place" \/ (pc' = "pull" /\ then' = "place")
    BY <2>1, PullGoesOn
  <2> QED BY <1>2, <1>3, <1>6, <2>1, <2>2, BooksLeft
<1> QED BY <1>1, <1>5, <1>6

\* A fill that is counted was not: its id is unseen and its order registered.
LEMMA CountBooks ==
  ASSUME TypeInv, BooksInv, CountFill
  PROVE  BooksInv'
<1>1. PICK i \in Oldest(batch) :
        /\ fills[i].order \in known
        /\ seen' = seen \cup {i} /\ counted' = counted \cup {i}
        /\ net' = [net EXCEPT ![MarketOf(i)] = @ + Signed(i)]
        /\ batch' = batch \ {i} /\ known' \subseteq known
        /\ pc' = IF halted THEN "process" ELSE "judge"
  BY DEF CountFill
<1>2. UNCHANGED <<quote, fills, position, reconciled>> /\ Recorded' = Recorded
  BY DEF CountFill, venue, sight, Recorded
<1>3. /\ VenueType /\ BooksType /\ i \in batch /\ i \in Recorded /\ i \notin seen
      /\ Signed(i) \in Int
  BY OldestInBatch, Groups, Places DEF TypeInv, BatchInv, BooksInv
<1>4. reconciled => i \notin counted
  BY <1>1, <1>3 DEF BooksInv
<1>5. ASSUME reconciled, NEW m \in Markets
      PROVE  net'[m] = Booked(quote, fills, m, counted \cup {i})
  <2>1. /\ MarketOf(i) = m =>
             Booked(quote, fills, m, counted \cup {i}) = Signed(i) + Booked(quote, fills, m, counted)
        /\ MarketOf(i) # m =>
             Booked(quote, fills, m, counted \cup {i}) = Booked(quote, fills, m, counted)
    <3>1. counted \in SUBSET DOMAIN fills /\ i \in DOMAIN fills \ counted /\ Fit(quote, fills)
      BY <1>3, <1>4, <1>5, FillsFit DEF BooksInv, Recorded
    <3> QED BY <3>1, BookedInsert DEF MarketOf, Signed
  <2>2. net[m] = Booked(quote, fills, m, counted) /\ net \in [Markets -> Int]
    BY <1>3, <1>5 DEF BooksInv, BooksType
  <2>3. net' = [net EXCEPT ![MarketOf(i)] = net[MarketOf(i)] + Signed(i)]
    BY <1>1
  <2> QED BY <1>3, <2>1, <2>2, <2>3
<1>6. pc' \notin {"sweep", "confirm", "positions", "fills", "pull"}
  BY <1>1
<1>7. reconciled' => \A m \in Markets : net'[m] = Booked(quote', fills', m, counted')
  BY <1>1, <1>2, <1>5
<1>8. batch' \cap seen' = {} /\ counted' \subseteq Recorded'
  BY <1>1, <1>2, <1>3 DEF BooksInv
<1>9. \A m \in Markets : position'[m] = Booked(quote', fills', m, Recorded')
  BY <1>2 DEF BooksInv
<1>10. /\ reconciled' => \A j \in counted' : j \in seen' \/ fills'[j].order \notin known'
       /\ \A o \in known' : quote'[o].own
  BY <1>1, <1>2 DEF BooksInv
<1> QED BY <1>6, <1>7, <1>8, <1>9, <1>10 DEF BooksInv, Checking

LEMMA BooksStep == TypeInv /\ MissedInv /\ BooksInv /\ [Next]_vars => BooksInv'
<1> SUFFICES ASSUME TypeInv, MissedInv, BooksInv, [Next]_vars PROVE BooksInv'
  OBVIOUS
<1> USE DEF Checking
<1>0. /\ TypeOK /\ halted \in BOOLEAN /\ then \in Returns /\ known \subseteq Sent
      /\ batch \subseteq Recorded /\ VenueType /\ batch \cap seen = {}
  BY Groups DEF TypeInv, BatchInv, FlagsType, ControlType, RegistryType, BooksInv
<1>00. pc \in {"positions", "fills"} => batch = {}
  BY DEF MissedInv, Processing
<1>1. CASE Start
  BY <1>1, BooksLeft DEF Start, Fresh, venue
<1>2. CASE Crash
  BY <1>0, <1>2, BooksLeft DEF Crash, venue, books, sight, work, registry
<1>3. CASE CancelNext
  <2>1. UNCHANGED <<fills, position, net, counted, seen, batch, reconciled>> /\ pc = "pull"
        /\ known' \subseteq known
    BY <1>3, CancelNextKnown DEF CancelNext, books, sight, work
  <2>2. PICK next \in {then, "idle"} : pc' = next \/ (pc' = "pull" /\ then' = next)
    BY <1>0, <1>3, CancelNextGoesOn
  <2>3. pc' \notin Checking /\ (pc' = "pull" => then' # "confirm")
    BY <1>0, <2>1, <2>2 DEF BooksInv, Returns
  <2> QED BY <1>0, <2>1, <2>3, BooksLeft
<1>4. CASE RetryCancels \/ HaltIdle
  <2>1. UNCHANGED <<fills, position, net, counted, seen, batch, reconciled, known>>
    BY <1>4 DEF RetryCancels, HaltIdle, venue, books, sight, work, registry
  <2>2. \E S : Pulling(S, {}, "idle") \/ HaltAll(S, "idle")
    BY <1>4 DEF RetryCancels, HaltIdle
  <2>3. pc' = "idle" \/ (pc' = "pull" /\ then' = "idle")
    BY <2>2, PullGoesOn
  <2> QED BY <1>0, <2>1, <2>3, BooksLeft
<1>5. CASE QueryFails \/ ConfirmEmpty \/ QueryOpen \/ SweepNext
  <2>1. UNCHANGED <<fills, position, net, counted, seen, batch, reconciled, known>>
    BY <1>5 DEF QueryFails, ConfirmEmpty, QueryOpen, SweepNext, Reconciling, venue, books,
       sight, work, registry
  <2>2. ~reconciled
    BY <1>5 DEF QueryFails, ConfirmEmpty, QueryOpen, SweepNext, BooksInv
  <2>3. pc' # "fills" /\ (pc' = "pull" => then' # "confirm")
    BY <1>0, <1>5 DEF QueryFails, ConfirmEmpty, QueryOpen, SweepNext, Reconciling, Returns
  <2> QED BY <1>0, <2>1, <2>2, <2>3, BooksLeft
<1>6. CASE TakePositions
  <2>1. /\ UNCHANGED <<quote, fills, position, seen, known, batch, reconciled>>
        /\ pc = "positions" /\ pc' = "fills" /\ net' = position /\ counted' = Recorded
        /\ Recorded' = Recorded
    BY <1>6 DEF TakePositions, venue, registry, sight, work, Recorded
  <2> QED BY <1>0, <2>1 DEF BooksInv
<1>7. CASE TakeFills
  <2>1. /\ UNCHANGED <<quote, fills, position, net, counted, batch>>
        /\ pc = "fills" /\ pc' = "idle" /\ known' = {} /\ Recorded' = Recorded
    BY <1>7 DEF TakeFills, venue, work, Recorded
  <2> QED BY <1>0, <1>00, <2>1 DEF BooksInv
<1>8. CASE Select \/ SkipSide \/ PollEnds
  <2>1. UNCHANGED <<fills, position, net, counted, seen, batch, reconciled, known>>
    BY <1>8 DEF Select, SkipSide, PollEnds, venue, books, sight, work, registry
  <2>2. pc' \in {"idle", "place"}
    BY <1>8 DEF Select, SkipSide, PollEnds, control
  <2> QED BY <1>0, <2>1, <2>2, BooksLeft
<1>9. CASE PollFails
  <2>1. UNCHANGED <<fills, position, net, counted, seen, batch, reconciled, known>>
    BY <1>9 DEF PollFails, venue, books, work, registry
  <2>2. UNCHANGED control \/ Pulling(known, {}, "idle")
    BY <1>9 DEF PollFails
  <2>3. pc' = "idle" \/ (pc' = "pull" /\ then' = "idle")
    BY <1>9, <2>2, PullGoesOn DEF control, PollFails
  <2> QED BY <1>0, <2>1, <2>3, BooksLeft
<1>10. CASE PollFills
  <2>1. /\ UNCHANGED <<fills, position, net, counted, seen, reconciled, known>>
        /\ pc' = "process" /\ batch' \subseteq Unseen
    BY <1>10 DEF PollFills, venue, books, registry
  <2> QED BY <1>0, <2>1, BooksLeft DEF Unseen
<1>11. CASE UnknownFill
  <2>1. PICK i \in Oldest(batch) :
          \/ seen' = seen \cup {i} /\ batch' = {} /\ HaltAll({}, "idle")
          \/ batch' = batch \ {i} /\ UNCHANGED <<seen, control>>
    BY <1>11 DEF UnknownFill
  <2>2. UNCHANGED <<fills, position, net, counted, reconciled, known>> /\ pc = "process"
    BY <1>11 DEF UnknownFill, venue, sight
  <2>3. CASE seen' = seen \cup {i} /\ batch' = {} /\ HaltAll({}, "idle")
    <3>1. pc' = "idle" \/ (pc' = "pull" /\ then' = "idle")
      BY <2>3, PullGoesOn
    <3> QED BY <1>0, <2>2, <2>3, <3>1, BooksLeft
  <2>4. CASE batch' = batch \ {i} /\ UNCHANGED <<seen, control>>
    BY <1>0, <2>2, <2>4, BooksLeft DEF control
  <2> QED BY <2>1, <2>3, <2>4
<1>12. CASE BadFill
  <2>1. /\ UNCHANGED <<fills, position, net, counted, seen, known>>
        /\ batch' = {} /\ HaltAll({}, "idle") /\ (reconciled' => reconciled)
    BY <1>12 DEF BadFill, RequireReconciliation, venue, books
  <2>2. pc' = "idle" \/ (pc' = "pull" /\ then' = "idle")
    BY <2>1, PullGoesOn
  <2> QED BY <1>0, <2>1, <2>2, BooksLeft
<1>13. CASE CountFill
  BY <1>13, CountBooks
<1>14. CASE Judge \/ AfterFill
  <2>1. UNCHANGED <<fills, position, net, counted, seen, batch, reconciled, known>>
    BY <1>14 DEF Judge, AfterFill, venue, books, sight, work
  <2>2. PICK next \in {"process", "hedge"} :
          Pulling({}, {}, next) \/ HaltAll({}, next) \/ HaltMarket(at, next)
    BY <1>14 DEF Judge, AfterFill
  <2>3. pc' = next \/ (pc' = "pull" /\ then' = next)
    BY <2>2, PullGoesOn, HaltMarketGoesOn
  <2> QED BY <1>0, <2>1, <2>3, BooksLeft
<1>15. CASE Stop \/ VerifyStopped \/ StopAgain
  <2>1. UNCHANGED <<fills, position, net, counted, seen, batch, reconciled, known>>
    BY <1>15 DEF Stop, VerifyStopped, StopAgain, NextPass, venue, books, sight, work, registry
  <2>2. \E S, next : Pulling(S, {}, next) /\ next \in {"verify", "stop", "stopped", "unconfirmed"}
    BY <1>15 DEF Stop, VerifyStopped, StopAgain, NextPass
  <2>3. pc' \notin Checking /\ (pc' = "pull" => then' # "confirm")
    BY <2>2, PullGoesOn
  <2> QED BY <1>0, <2>1, <2>3, BooksLeft
<1>16. ASSUME NEW m \in Markets, GatePulls(m) \/ GatesPass(m) PROVE BooksInv'
  <2>1. UNCHANGED <<fills, position, net, counted, seen, batch, reconciled, known>>
    BY <1>16 DEF GatePulls, GatesPass, venue, books, sight, registry
  <2>2. \E S, next : Pulling(S, {}, next) /\ next \in {"idle", "place"}
    BY <1>16 DEF GatePulls, GatesPass
  <2>3. pc' \notin Checking /\ (pc' = "pull" => then' # "confirm")
    BY <2>2, PullGoesOn
  <2> QED BY <1>0, <2>1, <2>3, BooksLeft
<1>17. CASE QuoteSide
  BY <1>17, QuoteBooks
<1>18. ASSUME NEW o \in Sent, VenueFill(o) PROVE BooksInv'
  <2>1. UNCHANGED <<net, counted, seen, known, batch, reconciled, pc, then>>
    BY <1>18 DEF VenueFill, books, registry, sight, work, control
  <2> QED BY <1>0, <1>18, <2>1, VenueMoves, BooksGrow
<1>19. ASSUME NEW r \in DOMAIN audit, MainLoopHedges(r) PROVE BooksInv'
  <2>1. UNCHANGED <<net, counted, seen, known, batch, reconciled, pc, then>>
    BY <1>19 DEF MainLoopHedges, books, registry, sight, work, control
  <2>2. CASE NewFill(Len(fills) + 1)
    BY <2>1, <2>2, BooksGrow
  <2>3. CASE UNCHANGED <<fills, position>>
    BY <1>0, <2>1, <2>3, BooksLeft DEF BooksInv
  <2> QED BY <1>0, <1>19, <2>2, <2>3, HedgeMoves
<1>20. CASE UNCHANGED vars
  <2>1. UNCHANGED <<fills, position, net, counted, seen, known, batch, reconciled, pc, then>>
    BY <1>20 DEF vars, venue, books, registry, sight, work, control
  <2> QED BY <1>0, <2>1, BooksLeft DEF BooksInv
<1> QED
  BY <1>1, <1>2, <1>3, <1>4, <1>5, <1>6, <1>7, <1>8, <1>9, <1>10, <1>11, <1>12, <1>13, <1>14,
     <1>15, <1>16, <1>17, <1>18, <1>19, <1>20
  DEF Next

-----------------------------------------------------------------------------
(***************************************************************************)
(* The inductive invariant.                                                *)
(***************************************************************************)

IInv == TypeInv /\ OpenInv /\ MissedInv /\ BooksInv

LEMMA BooksInit == Init => BooksInv
<1> SUFFICES ASSUME Init PROVE BooksInv
  OBVIOUS
<1>1. /\ Recorded = {} /\ counted = {} /\ ~reconciled /\ pc = "idle" /\ known = {} /\ batch = {}
      /\ \A m \in Markets : position[m] = 0
  BY DEF Init, Recorded
<1>2. \A m : Booked(quote, fills, m, {}) = 0
  BY SumEmpty DEF Booked
<1> QED BY <1>1, <1>2 DEF BooksInv, Checking

LEMMA InvInit == Init => IInv
<1> SUFFICES ASSUME Init PROVE IInv
  OBVIOUS
<1>1. TypeOK
  BY TypeInit
<1>2. Recorded = {} /\ Len(fills) = 0
  BY DEF Init, Recorded
<1>3. batch = {} /\ open = {} /\ seen = {} /\ cursor = 0 /\ saved = 0 /\ reconciled = FALSE
      /\ pc = "idle"
  BY DEF Init
<1>4. BatchInv /\ OpenInv
  BY <1>3 DEF BatchInv, OpenInv, LiveOrdersKnown
<1>5. MissedInv
  BY <1>2, <1>3 DEF MissedInv
<1> QED BY <1>1, <1>4, <1>5, BooksInit DEF IInv, TypeInv

LEMMA InvAlways == Spec => []IInv
<1>1. IInv /\ [Next]_vars => IInv'
  BY TypeStep, OpenStep, MissedStep, BooksStep DEF IInv
<1> QED BY InvInit, <1>1, PTL DEF Spec

-----------------------------------------------------------------------------
(***************************************************************************)
(* The ledger: every step of the pilot is a step of a polled inventory, or *)
(* none.                                                                   *)
(***************************************************************************)

Arrived  == [i \in DOMAIN fills |-> [market |-> MarketOf(i), amount |-> Signed(i),
                                     own |-> quote[fills[i].order].own]]
InBook   == IF reconciled THEN counted ELSE {}
BookOf   == [m \in Markets |-> IF reconciled THEN net[m] ELSE 0]

\* Fills that have arrived stay what they are.
LEMMA ArrivedKept ==
  ASSUME TypeOK, [Next]_vars
  PROVE  /\ \A i \in Recorded : Arrived'[i] = Arrived[i]
         /\ DOMAIN Arrived = Recorded /\ DOMAIN Arrived' = Recorded'
         /\ fills' = fills => Arrived' = Arrived
<1>1. /\ Recorded \subseteq Recorded'
      /\ \A i \in Recorded : fills'[i] = fills[i] /\ SameOrder(fills[i].order)
  BY History, Groups, Places
<1>2. DOMAIN Arrived = Recorded /\ DOMAIN Arrived' = Recorded'
  BY DEF Arrived, Recorded
<1>3. \A i \in Recorded : Arrived'[i] = Arrived[i]
  BY <1>1 DEF Arrived, Recorded, MarketOf, Signed, SameOrder
<1>4. fills' = fills => Arrived' = Arrived
  BY <1>1 DEF Arrived, Recorded, MarketOf, Signed, SameOrder
<1> QED BY <1>2, <1>3, <1>4

LEMMA LedgerInit == Init => Ledger!Init
<1> SUFFICES ASSUME Init PROVE Ledger!Init
  OBVIOUS
<1>1. fills = <<>> /\ reconciled = FALSE
  BY DEF Init
<1>2. Arrived = <<>>
  BY <1>1 DEF Arrived
<1> QED BY <1>1, <1>2 DEF Ledger!Init, Arrived

LEMMA LedgerStutters ==
  ASSUME TypeOK, [Next]_vars, UNCHANGED <<fills, reconciled>>,
         reconciled => UNCHANGED <<net, counted>>
  PROVE  UNCHANGED Ledger!vars
<1>1. Arrived' = Arrived
  BY ArrivedKept
<1>2. InBook' = InBook /\ BookOf' = BookOf
  BY DEF InBook, BookOf
<1> QED BY <1>1, <1>2 DEF Ledger!vars, Arrived, InBook, BookOf

LEMMA LedgerDistrusts ==
  ASSUME TypeOK, [Next]_vars, UNCHANGED fills, reconciled' = FALSE
  PROVE  Ledger!Distrust
<1>1. Arrived' = Arrived
  BY ArrivedKept
<1> QED BY <1>1 DEF Ledger!Distrust, Arrived

LEMMA LedgerArrives ==
  ASSUME TypeInv, [Next]_vars, NewFill(Len(fills) + 1), UNCHANGED <<net, counted, reconciled>>
  PROVE  Ledger!Arrive
<1>1. /\ \A i \in Recorded : Arrived'[i] = Arrived[i]
      /\ DOMAIN Arrived = Recorded /\ DOMAIN Arrived' = Recorded'
  BY ArrivedKept DEF TypeInv
<1>2. /\ Len(fills) \in Nat /\ Recorded = 1 .. Len(fills)
      /\ Len(fills') \in Nat /\ Recorded' = 1 .. Len(fills')
  BY TypeStep, Groups, GroupsNext, Places, PlacesNext DEF TypeInv
<1>3. Len(fills') = Len(fills) + 1
  <2> DEFINE n == Len(fills)
             k == Len(fills')
  <2>1. 1 .. k = (1 .. n) \cup {n + 1} /\ n \in Nat /\ k \in Nat
    BY <1>2 DEF NewFill
  <2> HIDE DEF n, k
  <2>2. k >= n + 1 /\ ~(n + 2 \in 1 .. k)
    BY <2>1
  <2>3. k = n + 1
    BY <2>1, <2>2
  <2> QED BY <2>3 DEF n, k
<1>4. Len(Arrived') = Len(Arrived) + 1
  <2>1. Len(Arrived) = Len(fills)
    BY <1>2 DEF Arrived, Recorded
  <2>2. Len(Arrived') = Len(fills')
    BY <1>2 DEF Arrived, Recorded
  <2> QED BY <1>3, <2>1, <2>2
<1>5. UNCHANGED <<InBook, BookOf, reconciled>>
  BY DEF InBook, BookOf
<1> QED BY <1>1, <1>4, <1>5 DEF Ledger!Arrive, Arrived, InBook, BookOf

LEMMA LedgerCounts ==
  ASSUME IInv, CountFill, reconciled
  PROVE  Ledger!Count
<1>1. PICK i \in Oldest(batch) :
        /\ fills[i].order \in known /\ counted' = counted \cup {i}
        /\ net' = [net EXCEPT ![MarketOf(i)] = @ + Signed(i)]
  BY DEF CountFill
<1>2. UNCHANGED <<fills, reconciled>> /\ [Next]_vars
  BY DEF CountFill, venue, sight, Next
<1>3. /\ i \in Recorded /\ i \notin counted /\ quote[fills[i].order].own
      /\ MarketOf(i) \in Markets /\ net \in [Markets -> Int]
  BY <1>1, OldestInBatch, Groups, Places DEF IInv, TypeInv, BatchInv, BooksInv, BooksType
<1>4. Arrived' = Arrived
  BY <1>2, ArrivedKept DEF IInv, TypeInv
<1>5. /\ Arrived[i].market = MarketOf(i) /\ Arrived[i].amount = Signed(i) /\ Arrived[i].own
      /\ i \in DOMAIN Arrived
  BY <1>3 DEF Arrived, Recorded
<1>6. InBook' = InBook \cup {i} /\ i \notin InBook /\ reconciled'
  BY <1>1, <1>2, <1>3 DEF InBook
<1>7. BookOf' = [BookOf EXCEPT ![Arrived[i].market] = @ + Arrived[i].amount]
  <2>1. net' = [net EXCEPT ![MarketOf(i)] = net[MarketOf(i)] + Signed(i)]
    BY <1>1
  <2>2. BookOf = net /\ BookOf' = net'
    BY <1>2, <1>3, <2>1 DEF BookOf
  <2> QED BY <1>5, <2>1, <2>2
<1> QED BY <1>2, <1>4, <1>5, <1>6, <1>7 DEF Ledger!Count, Ledger!Ours, Arrived, InBook, BookOf

LEMMA LedgerSum == \A f, S : Ledger!SumFunctionOnSet(f, S) = SumFunctionOnSet(f, S)
  BY DEF Ledger!SumFunctionOnSet, Ledger!FoldFunctionOnSet, Ledger!MapThenFoldSet,
         SumFunctionOnSet, FoldFunctionOnSet, MapThenFoldSet

LEMMA LedgerTotal ==
  ASSUME NEW m, NEW S \in SUBSET Recorded
  PROVE  Ledger!Total(m, S) = Booked(quote, fills, m, S)
<1>1. [i \in DOMAIN Arrived |-> Arrived[i].amount] = Worth(quote, fills)
  BY DEF Arrived, Worth, Signed
<1>2. {i \in S : Arrived[i].market = m} = {i \in S : quote[fills[i].order].market = m}
  BY DEF Arrived, Recorded, MarketOf
<1> QED BY <1>1, <1>2, LedgerSum DEF Ledger!Total, Booked, Arrived

LEMMA LedgerRebases ==
  ASSUME IInv, TakeFills
  PROVE  Ledger!Rebase
<1>1. UNCHANGED <<fills, counted, net>> /\ [Next]_vars /\ pc = "fills" /\ reconciled' = TRUE
  BY DEF TakeFills, venue, Next
<1>2. /\ ~reconciled /\ counted \subseteq Recorded
      /\ \A m \in Markets : net[m] = Booked(quote, fills, m, counted)
      /\ \A i \in Recorded : quote[fills[i].order].own => i \in counted
  BY <1>1 DEF IInv, BooksInv, Checking, MissedInv, Own
<1>3. Arrived' = Arrived
  BY <1>1, ArrivedKept DEF IInv, TypeInv
<1>4. \A m \in Markets : net[m] = Ledger!Total(m, counted)
  BY <1>2, LedgerTotal
<1>5. DOMAIN Arrived = Recorded /\ \A i \in Recorded : Arrived[i].own => i \in counted
  BY <1>2 DEF Arrived, Recorded
<1>6. InBook' = counted /\ BookOf' = [m \in Markets |-> Ledger!Total(m, counted)]
  BY <1>1, <1>4 DEF InBook, BookOf
<1>7. Ledger!Ours \subseteq counted /\ counted \in SUBSET DOMAIN Arrived
  BY <1>2, <1>5 DEF Ledger!Ours, Arrived
<1> QED BY <1>1, <1>2, <1>3, <1>6, <1>7 DEF Ledger!Rebase, Arrived, InBook, BookOf

LEMMA LedgerStep == IInv /\ [Next]_vars => [Ledger!Next]_(Ledger!vars)
<1> SUFFICES ASSUME IInv, [Next]_vars PROVE Ledger!Next \/ UNCHANGED Ledger!vars
  OBVIOUS
<1> USE DEF Ledger!Next
<1>0. TypeInv /\ TypeOK
  BY DEF IInv, TypeInv
<1>1. CASE Start
  BY <1>0, <1>1, LedgerDistrusts DEF Start, Fresh, venue
<1>2. CASE \/ Crash \/ CancelNext \/ RetryCancels \/ HaltIdle
           \/ QueryFails \/ QueryOpen \/ SweepNext \/ ConfirmEmpty
  BY <1>0, <1>2, LedgerStutters DEF Crash, CancelNext, RetryCancels, HaltIdle, QueryFails,
     QueryOpen, SweepNext, ConfirmEmpty, Reconciling, venue, books, sight
<1>3. CASE TakePositions
  BY <1>0, <1>3, LedgerStutters DEF TakePositions, venue, sight, IInv, BooksInv, Checking
<1>4. CASE TakeFills
  BY <1>4, LedgerRebases
<1>5. CASE \/ Select \/ SkipSide \/ PollFails \/ PollFills \/ PollEnds \/ UnknownFill
           \/ Judge \/ AfterFill \/ Stop \/ VerifyStopped \/ StopAgain \/ UNCHANGED vars
  BY <1>0, <1>5, LedgerStutters DEF Select, SkipSide, PollFails, PollFills, PollEnds, UnknownFill,
     Judge, AfterFill, Stop, VerifyStopped, StopAgain, NextPass, vars, venue, books, sight
<1>6. CASE BadFill
  <2>1. UNCHANGED <<fills, net, counted>> /\ (UNCHANGED reconciled \/ reconciled' = FALSE)
    BY <1>6 DEF BadFill, RequireReconciliation, venue, books
  <2> QED BY <1>0, <2>1, LedgerStutters, LedgerDistrusts
<1>7. CASE QuoteSide
  <2>1. UNCHANGED <<fills, net, counted>> /\ (UNCHANGED reconciled \/ reconciled' = FALSE)
    BY <1>7 DEF QuoteSide, RequireReconciliation, books
  <2> QED BY <1>0, <2>1, LedgerStutters, LedgerDistrusts
<1>8. CASE CountFill
  <2>1. UNCHANGED <<fills, reconciled>>
    BY <1>8 DEF CountFill, venue, sight
  <2> QED BY <1>0, <1>8, <2>1, LedgerStutters, LedgerCounts
<1>9. ASSUME NEW m \in Markets, GatePulls(m) \/ GatesPass(m) PROVE UNCHANGED Ledger!vars
  <2>1. UNCHANGED <<fills, net, counted, reconciled>>
    BY <1>9 DEF GatePulls, GatesPass, venue, books, sight
  <2> QED BY <1>0, <2>1, LedgerStutters
<1>10. ASSUME NEW o \in Sent, VenueFill(o) PROVE Ledger!Arrive
  <2>1. UNCHANGED <<net, counted, reconciled>>
    BY <1>10 DEF VenueFill, books, sight
  <2> QED BY <1>0, <1>10, <2>1, VenueMoves, LedgerArrives
<1>11. ASSUME NEW r \in DOMAIN audit, MainLoopHedges(r)
       PROVE  Ledger!Arrive \/ UNCHANGED Ledger!vars
  <2>1. UNCHANGED <<net, counted, reconciled>>
    BY <1>11 DEF MainLoopHedges, books, sight
  <2> QED BY <1>0, <1>11, <2>1, HedgeMoves, LedgerArrives, LedgerStutters
<1> QED BY <1>1, <1>2, <1>3, <1>4, <1>5, <1>6, <1>7, <1>8, <1>9, <1>10, <1>11 DEF Next

-----------------------------------------------------------------------------
(***************************************************************************)
(* The theorems.                                                           *)
(***************************************************************************)

\* Every variable of the pilot and of the venue keeps its type: the counters of
\* cancels, failures, passes and faults never leave their bounds.
THEOREM TypeCorrect == Spec => []TypeOK
<1>1. IInv => TypeOK
  BY DEF IInv, TypeInv
<1> QED BY InvAlways, <1>1, PTL

\* A pilot that trusts its books has every live order in its registry, whatever
\* cancels, placements and reconciliations fail and however often it restarts.
THEOREM LiveOrdersKnownAlways == Spec => []LiveOrdersKnown
<1>1. IInv => LiveOrdersKnown
  BY DEF IInv, OpenInv
<1> QED BY InvAlways, <1>1, PTL

\* stop() reports success only when the venue has no order left.
THEOREM StopConfirmedAlways == Spec => []StopConfirmed
<1>1. IInv => StopConfirmed
  BY DEF IInv, OpenInv, StopConfirmed
<1> QED BY InvAlways, <1>1, PTL

\* While the pilot trusts its books and is not halted, each of its fills is in the
\* inventory, was passed by as someone else's, or will be asked for again.
THEOREM NothingMissedAlways == Spec => []NothingMissed
<1>1. IInv => NothingMissed
  BY DEF IInv, MissedInv, NothingMissed, Own, Settled, AskedAgain, Ahead
<1> QED BY InvAlways, <1>1, PTL

\* A pilot that trusts its books holds in _net exactly the sum of the fills it has
\* counted, whatever polls overlap, reconciliations and restarts lie between: the
\* ids that are seen, the registry that a reconciliation empties and the venue's
\* positions keep a fill from being added twice.
THEOREM NetIsCountedAlways == Spec => []NetIsCounted
<1>1. IInv => NetIsCounted
  <2> SUFFICES ASSUME IInv, reconciled, NEW m \in Markets PROVE net[m] = SumOf(m, counted)
    BY DEF NetIsCounted
  <2>1. net[m] = Booked(quote, fills, m, counted)
    BY DEF IInv, BooksInv
  <2> QED BY <2>1 DEF Booked, Worth, SumOf, Recorded, Signed, MarketOf
<1> QED BY <1>1, InvAlways, PTL

\* The pilot is a polled ledger: every step of run_loop, of the venue and of the
\* main loop's hedger is to the ledger a fill that arrives, the counting of a fill
\* of the pilot's that was not counted, the loss of trust, a new start from all
\* that has arrived, or nothing.
THEOREM PilotKeepsLedger == Spec => ImplementsLedger
  BY InvAlways, LedgerInit, LedgerStep, PTL DEF Spec, ImplementsLedger, Ledger!Spec

\* As long as the books are trusted nothing but a fill moves them: _net changes by
\* one fill of the pilot's that it did not have, which it then has for good.
BooksMove ==
  reconciled /\ reconciled' =>
    \/ UNCHANGED <<net, counted>>
    \/ \E i \in Recorded \ counted :
         /\ quote[fills[i].order].own /\ counted' = counted \cup {i}
         /\ net' = [net EXCEPT ![MarketOf(i)] = @ + Signed(i)]

\* What being a ledger says of the pilot: cancels, halts, failed polls, hedges and
\* the venue's own steps leave a trusted inventory alone, and a poll adds to it one
\* fill at a time, never one twice (poll_fills, _process_fill, reconcile).
THEOREM BooksMoveByOwnFills == Spec => [][BooksMove]_vars
<1>1. IInv /\ IInv' /\ [Next]_vars => [BooksMove]_vars
  <2> SUFFICES ASSUME IInv, IInv', [Next]_vars, reconciled, reconciled'
               PROVE  \/ UNCHANGED <<net, counted>>
                      \/ \E i \in Recorded \ counted :
                           /\ quote[fills[i].order].own /\ counted' = counted \cup {i}
                           /\ net' = [net EXCEPT ![MarketOf(i)] = @ + Signed(i)]
    BY DEF BooksMove
  <2>1. net \in [Markets -> Int] /\ net' \in [Markets -> Int]
    BY DEF IInv, TypeInv, TypeOK
  <2>2. BookOf = net /\ BookOf' = net' /\ InBook = counted /\ InBook' = counted'
    BY <2>1 DEF BookOf, InBook
  <2>3. CASE Ledger!Arrive \/ UNCHANGED Ledger!vars
    <3>1. BookOf' = BookOf
      BY <2>3, Zenon DEF Ledger!Arrive, Ledger!vars, BookOf
    <3>2. InBook' = InBook
      BY <2>3, Zenon DEF Ledger!Arrive, Ledger!vars, InBook
    <3> QED BY <2>2, <3>1, <3>2
  <2>4. CASE Ledger!Count
    <3>1. PICK i \in Ledger!Ours \ InBook :
            /\ InBook' = InBook \cup {i}
            /\ BookOf' = [BookOf EXCEPT ![Arrived[i].market] = @ + Arrived[i].amount]
      BY <2>4, Zenon DEF Ledger!Count, Ledger!Ours, BookOf, InBook, Arrived
    <3>2. /\ i \in Recorded /\ quote[fills[i].order].own
          /\ Arrived[i].market = MarketOf(i) /\ Arrived[i].amount = Signed(i)
      BY <3>1 DEF Ledger!Ours, Arrived, Recorded
    <3>3. net' = [net EXCEPT ![Arrived[i].market] = @ + Arrived[i].amount]
      BY <2>2, <3>1, Zenon
    <3>4. net' = [net EXCEPT ![MarketOf(i)] = @ + Signed(i)]
      BY <3>2, <3>3, Zenon
    <3>5. i \in Recorded \ counted /\ counted' = counted \cup {i}
      BY <2>2, <3>1, <3>2, Zenon
    <3> QED BY <3>2, <3>4, <3>5, Zenon
  <2>5. ~Ledger!Distrust /\ ~Ledger!Rebase
    BY DEF Ledger!Distrust, Ledger!Rebase
  <2> QED BY <2>3, <2>4, <2>5, LedgerStep DEF Ledger!Next
<1> QED BY <1>1, InvAlways, PTL DEF Spec
=============================================================================
