------------------------- MODULE ExecutionGateProofs -------------------------
(***************************************************************************)
(* Theorems about the gates of execute(), for any set of opportunities,    *)
(* any windows, limits and cash, and any number of pauses and restarts.    *)
(***************************************************************************)
EXTENDS ExecutionGate, SequenceTheorems, TLAPS

-----------------------------------------------------------------------------
(***************************************************************************)
(* The inductive invariant.                                                *)
(***************************************************************************)

Before  == {"verify", "risk", "size", "approve", "send"}  \* screened, not sent
Sized   == {"approve", "send"}                            \* its size is taken
Decided == Sized \cup {"preflight", "legs"}               \* risk has passed it

\* What execute() holds has passed the session caps, which nothing else moves.
InHand ==
  pc # "idle" =>
    /\ opp \in Opps
    /\ canary < CanaryTrades
    /\ TypeOf[opp.kind] \in Whales => whales < MaxWhales
TypeInv == TypeOK /\ InHand

\* The one opportunity past the kill switch is sent once.
PauseInv == paused => sentPaused = 0 \/ (sentPaused = 1 /\ pc \notin Before)

\* The row of the last send covers what is left of its window, and what has
\* been screened was sent a window ago.
Apart ==
  /\ \A m \in Markets : recent[m] + sinceSent[m] >= Window
  /\ pc \in Before => sinceSent[MarketOf[opp.kind]] >= Window

\* Nothing enters or leaves the positions between risk.check and the fill.
Entry == pc \in Decided => MayEnter(opp)

\* Balances that were read, and cached ones, are there but for what left since.
Budgeted ==
  /\ cache.left > 0 => cache.amount <= cash + unseen
  /\ pc \in Sized \cup {"size"} /\ budget >= 0 => budget <= cash + unseen
  /\ pc \in Sized /\ budget > 0 => NumLegs * size <= budget

IInv == TypeInv /\ PauseInv /\ Apart /\ Entry /\ EntriesImprove /\ Budgeted

-----------------------------------------------------------------------------
(***************************************************************************)
(* Sequences and sizes.                                                    *)
(***************************************************************************)

\* An element taken out of a sequence leaves the others in their order.
LEMMA RemoveAtKeepsOrder ==
  ASSUME NEW S, NEW s \in Seq(S), NEW k \in 1 .. Len(s)
  PROVE  /\ RemoveAt(s, k) \in Seq(S)
         /\ Len(RemoveAt(s, k)) = Len(s) - 1
         /\ \A i \in 1 .. Len(s) - 1 :
              RemoveAt(s, k)[i] = IF i < k THEN s[i] ELSE s[i + 1]
<1> DEFINE a == SubSeq(s, 1, k - 1)
           b == SubSeq(s, k + 1, Len(s))
<1>1. Len(s) \in Nat /\ \A i \in 1 .. Len(s) : s[i] \in S
  BY LenProperties, ElementOfSeq
<1>2. /\ a \in Seq(S) /\ Len(a) = k - 1
      /\ \A i \in 1 .. k - 1 : a[i] = s[i]
  BY <1>1, SubSeqProperties
<1>3. /\ b \in Seq(S) /\ Len(b) = Len(s) - k
      /\ \A i \in 1 .. Len(s) - k : b[i] = s[k + i]
  <2>1. k + 1 \in Int /\ \A i \in k + 1 .. Len(s) : s[i] \in S
    BY <1>1
  <2>2. /\ b \in Seq(S)
        /\ Len(b) = IF k + 1 <= Len(s) THEN Len(s) - (k + 1) + 1 ELSE 0
        /\ \A i \in 1 .. Len(s) - (k + 1) + 1 : b[i] = s[(k + 1) + i - 1]
    BY <1>1, <2>1, SubSeqProperties
  <2> QED BY <1>1, <2>2
<1> HIDE DEF a, b
<1>4. /\ a \o b \in Seq(S) /\ Len(a \o b) = Len(s) - 1
      /\ \A i \in 1 .. Len(s) - 1 :
           (a \o b)[i] = IF i <= k - 1 THEN a[i] ELSE b[i - (k - 1)]
  BY <1>1, <1>2, <1>3, ConcatProperties
<1>5. ASSUME NEW i \in 1 .. Len(s) - 1
      PROVE  (a \o b)[i] = IF i < k THEN s[i] ELSE s[i + 1]
  <2>1. CASE i < k
    <3>1. i \in 1 .. k - 1 /\ i <= k - 1
      BY <1>1, <2>1
    <3> QED BY <1>2, <1>4, <2>1, <3>1
  <2>2. CASE ~(i < k)
    <3>1. /\ i - (k - 1) \in 1 .. Len(s) - k /\ ~(i <= k - 1)
          /\ k + (i - (k - 1)) = i + 1
      BY <1>1, <2>2
    <3>2. (a \o b)[i] = b[i - (k - 1)]
      BY <1>4, <3>1
    <3>3. b[i - (k - 1)] = s[k + (i - (k - 1))]
      BY <1>3, <3>1
    <3> QED BY <2>2, <3>1, <3>2, <3>3
  <2> QED BY <2>1, <2>2
<1> QED BY <1>4, <1>5 DEF RemoveAt, a, b

\* Every order of a set of at most MaxList opportunities is a list.
LEMMA ScanList ==
  ASSUME NEW n \in 1 .. MaxList, NEW found \in kSubset(n, Opps), NEW s \in SetToSeqs(found)
  PROVE  s \in Seq(Opps) /\ Len(s) <= MaxList
<1>1. s \in [1 .. n -> Opps]
  <2>1. PICK f \in [1 .. Cardinality(found) -> found] : f = s
    BY DEF SetToSeqs
  <2> QED BY <2>1 DEF kSubset
<1>2. n \in Nat /\ n <= MaxList
  BY GateAssumption
<1> QED BY <1>1, <1>2

\* A size taken from a budget is paid by it in every leg.
LEMMA SizePaid ==
  ASSUME NEW b \in Nat, NEW s \in 1 .. Smaller(MaxSize, b \div NumLegs)
  PROVE  s \in 0 .. MaxSize /\ NumLegs * s <= b
<1> DEFINE q == b \div NumLegs
<1>1. NumLegs \in Nat \ {0} /\ MaxSize \in Nat
  BY GateAssumption
<1>2. q \in Nat /\ NumLegs * q <= b
  BY <1>1, SMT
<1> HIDE DEF q
<1>3. s \in Nat /\ s <= q /\ s <= MaxSize
  BY <1>1, <1>2 DEF Smaller, q
<1>4. NumLegs * s <= NumLegs * q
  BY <1>1, <1>2, <1>3, SMT
<1> QED BY <1>1, <1>2, <1>3, <1>4

-----------------------------------------------------------------------------
(***************************************************************************)
(* Types.                                                                  *)
(***************************************************************************)

LEMMA NoneIsTyped == None.kind \in Kinds /\ TypeOf[None.kind] \in Types
<1>1. \E k \in Kinds : TRUE
  BY GateAssumption
<1>2. (CHOOSE k \in Kinds : TRUE) \in Kinds
  BY <1>1
<1>3. None.kind = (CHOOSE k \in Kinds : TRUE)
  BY DEF None
<1> QED BY <1>2, <1>3, GateAssumption

LEMMA NoCacheIsTyped ==
  NoCache \in [for : Types, amount : 0 .. MaxCash, left : 0 .. CacheTTL]
  BY NoneIsTyped, GateAssumption DEF NoCache

LEMMA Bounds ==
  /\ Window \in Nat /\ Cooldown \in Nat /\ Dedupe \in Nat /\ CacheTTL \in Nat
  /\ MaxOpen \in Nat /\ MaxWhales \in Nat /\ CanaryTrades \in Nat /\ MaxSize \in Nat
  /\ MaxCash \in Nat /\ MaxQueue \in Nat /\ MaxList \in Nat
  /\ MaxPauses \in Nat /\ MaxCrashes \in Nat
  BY GateAssumption

\* An execution that ends leaves nothing in hand.
LEMMA SkipType ==
  ASSUME Skip
  PROVE  /\ pc' = "idle" /\ opp' \in Opps \cup {None}
         /\ budget' \in -1 .. MaxCash /\ size' \in 0 .. MaxSize
<1>1. 0 \in 0 .. MaxSize
  BY Bounds
<1>2. -1 \in -1 .. MaxCash
  BY Bounds
<1> QED BY <1>1, <1>2 DEF Skip

\* What ages stays in its range.
LEMMA OlderType ==
  ASSUME NEW D, NEW n \in Nat, NEW left \in [D -> 0 .. n]
  PROVE  Older(left) \in [D -> 0 .. n]
  BY DEF Older

\* A balance, cached or read, is there but for what left since; the cache keeps
\* its type and holds no more than that.
LEMMA BalanceThere ==
  ASSUME TypeInv, pc # "idle", NEW b \in -1 .. MaxCash, GetBalance(b),
         cache.left > 0 => cache.amount <= cash + unseen
  PROVE  /\ cache' \in [for : Types, amount : 0 .. MaxCash, left : 0 .. CacheTTL]
         /\ unseen' \in Nat
         /\ cache'.left > 0 => cache'.amount <= cash + unseen'
         /\ b >= 0 => b <= cash + unseen'
<1>1. /\ opp \in Opps /\ TypeOf[opp.kind] \in Types
      /\ cash \in 0 .. MaxCash /\ unseen \in Nat
      /\ cache \in [for : Types, amount : 0 .. MaxCash, left : 0 .. CacheTTL]
  BY GateAssumption DEF TypeInv, InHand, TypeOK, Opps
<1>2. CASE cache.left > 0 /\ b = cache.amount /\ UNCHANGED <<cache, unseen>>
  BY <1>1, <1>2, Bounds
<1>3. CASE b = -1 /\ UNCHANGED <<cache, unseen>>
  BY <1>1, <1>3, Bounds
<1>4. CASE /\ b = cash \/ b = 0
           /\ cache' = [for |-> TypeOf[opp.kind], amount |-> b, left |-> CacheTTL]
           /\ unseen' = 0
  <2>1. b \in 0 .. MaxCash /\ CacheTTL \in 0 .. CacheTTL /\ b <= cash + 0
    BY <1>1, <1>4, Bounds
  <2> QED BY <1>1, <1>4, <2>1
<1> QED BY <1>2, <1>3, <1>4 DEF GetBalance

LEMMA TypeInit == Init => TypeInv
<1> SUFFICES ASSUME Init PROVE TypeInv
  OBVIOUS
<1>1. /\ queue \in Seq(Opps) /\ Len(queue) <= MaxQueue
      /\ list \in Seq(Opps) /\ Len(list) <= MaxList
      /\ positions \in Seq([market : Markets, pnl : Profits])
  BY GateAssumption, EmptySeq DEF Init
<1>2. /\ admitted \in [Kinds -> 0 .. Dedupe] /\ cooling \in [Keys -> 0 .. Cooldown]
      /\ recent \in [Markets -> 0 .. Window] /\ sinceSent \in [Markets -> 0 .. Window]
  BY GateAssumption DEF Init
<1>3. cache \in [for : Types, amount : 0 .. MaxCash, left : 0 .. CacheTTL]
  BY NoCacheIsTyped DEF Init
<1>4. /\ whales \in 0 .. MaxWhales /\ canary \in 0 .. CanaryTrades /\ paused \in BOOLEAN
      /\ opp \in Opps \cup {None} /\ pc = "idle"
      /\ budget \in -1 .. MaxCash /\ size \in 0 .. MaxSize
      /\ cash \in 0 .. MaxCash /\ unseen \in Nat /\ sentPaused \in Nat
      /\ pauses \in 0 .. MaxPauses /\ crashes \in 0 .. MaxCrashes
  <2>1. 0 \in 0 .. MaxWhales /\ 0 \in 0 .. CanaryTrades /\ -1 \in -1 .. MaxCash
        /\ 0 \in 0 .. MaxSize /\ MaxCash \in 0 .. MaxCash /\ 0 \in 0 .. MaxPauses
        /\ 0 \in 0 .. MaxCrashes
    BY Bounds
  <2> QED BY <2>1 DEF Init
<1> QED BY <1>1, <1>2, <1>3, <1>4 DEF TypeInv, TypeOK, InHand

LEMMA TypeStep == TypeInv /\ Budgeted /\ [Next]_vars => TypeInv'
<1> SUFFICES ASSUME TypeInv, Budgeted, [Next]_vars PROVE TypeInv'
  OBVIOUS
<1> USE DEF TypeInv, InHand
<1>1. CASE Tick
  <2>1. /\ admitted' \in [Kinds -> 0 .. Dedupe] /\ cooling' \in [Keys -> 0 .. Cooldown]
        /\ recent' \in [Markets -> 0 .. Window]
    BY <1>1, OlderType, GateAssumption DEF Tick, TypeOK
  <2>2. sinceSent' \in [Markets -> 0 .. Window]
    <3>1. \A m \in Markets : Smaller(sinceSent[m] + 1, Window) \in 0 .. Window
      BY Bounds, SMTT(30) DEF TypeOK, Smaller
    <3> QED BY <1>1, <3>1 DEF Tick
  <2>3. cache' \in [for : Types, amount : 0 .. MaxCash, left : 0 .. CacheTTL]
    <3>1. /\ cache \in [for : Types, amount : 0 .. MaxCash, left : 0 .. CacheTTL]
          /\ cache' = [cache EXCEPT !.left = IF @ > 0 THEN @ - 1 ELSE 0]
      BY <1>1 DEF Tick, TypeOK
    <3>2. ASSUME NEW n \in 0 .. CacheTTL PROVE (IF n > 0 THEN n - 1 ELSE 0) \in 0 .. CacheTTL
      BY Bounds
    <3> QED BY <3>1, <3>2
  <2> QED BY <1>1, <2>1, <2>2, <2>3 DEF Tick, TypeOK, inHand, account
<1>2. CASE Pause \/ Resume
  <2>1. paused' \in BOOLEAN /\ sentPaused' \in Nat /\ pauses' \in 0 .. MaxPauses
    <3>1. pauses \in 0 .. MaxPauses
      BY DEF TypeOK
    <3>2. /\ paused' \in BOOLEAN /\ sentPaused' = 0
          /\ pauses' = pauses \/ (pauses < MaxPauses /\ pauses' = pauses + 1)
      BY <1>2 DEF Pause, Resume
    <3> QED BY <3>1, <3>2, Bounds
  <2> QED BY <1>2, <2>1 DEF Pause, Resume, TypeOK, inHand, database, account
<1>3. CASE CashMoves
  <2>1. cash' \in 0 .. MaxCash /\ unseen' \in Nat
    BY <1>3, GateAssumption DEF CashMoves, TypeOK
  <2> QED BY <1>3, <2>1 DEF CashMoves, TypeOK, memory, inHand, database, history
<1>4. CASE Settle
  <2>1. positions' \in Seq([market : Markets, pnl : Profits])
    BY <1>4, RemoveAtKeepsOrder, LenProperties DEF Settle, TypeOK
  <2> QED BY <1>4, <2>1 DEF Settle, TypeOK, memory, inHand, account, history
<1>5. CASE Restart
  <2>1. /\ queue' \in Seq(Opps) /\ Len(queue') <= MaxQueue
        /\ list' \in Seq(Opps) /\ Len(list') <= MaxList
    BY <1>5, GateAssumption, EmptySeq DEF Restart
  <2>2. /\ admitted' \in [Kinds -> 0 .. Dedupe] /\ cooling' \in [Keys -> 0 .. Cooldown]
    BY <1>5, GateAssumption DEF Restart
  <2>3. cache' \in [for : Types, amount : 0 .. MaxCash, left : 0 .. CacheTTL]
    BY <1>5, NoCacheIsTyped DEF Restart
  <2>4. /\ whales' \in 0 .. MaxWhales /\ canary' \in 0 .. CanaryTrades /\ paused' \in BOOLEAN
        /\ crashes' \in 0 .. MaxCrashes /\ sentPaused' \in Nat
    <3>1. crashes \in 0 .. MaxCrashes
      BY DEF TypeOK
    <3>2. /\ whales' = 0 /\ canary' = 0 /\ paused' = FALSE /\ sentPaused' = 0
          /\ crashes < MaxCrashes /\ crashes' = crashes + 1
      BY <1>5 DEF Restart
    <3>3. crashes' \in 0 .. MaxCrashes
      BY <3>1, <3>2, Bounds
    <3>4. 0 \in 0 .. MaxWhales /\ 0 \in 0 .. CanaryTrades /\ 0 \in Nat
      BY Bounds
    <3> QED BY <3>2, <3>3, <3>4
  <2>5. Skip
    BY <1>5 DEF Restart, Skip
  <2> QED BY <1>5, <2>1, <2>2, <2>3, <2>4, <2>5, SkipType DEF Restart, TypeOK, database, account
<1>6. ASSUME NEW o \in Opps, Trigger(o) PROVE TypeInv'
  <2>1. queue' \in Seq(Opps) /\ Len(queue') <= MaxQueue
    BY <1>6, GateAssumption DEF Trigger, TypeOK
  <2>2. admitted' \in [Kinds -> 0 .. Dedupe]
    <3>1. Dedupe \in 0 .. Dedupe
      BY Bounds
    <3> QED BY <1>6, <3>1 DEF Trigger, TypeOK
  <2> QED BY <1>6, <2>1, <2>2
          DEF Trigger, TypeOK, inHand, database, account, history
<1>7. ASSUME NEW n \in 1 .. MaxList, NEW found \in kSubset(n, Opps), ScanPass(found)
      PROVE  TypeInv'
  <2>1. list' \in Seq(Opps) /\ Len(list') <= MaxList
    BY <1>7, ScanList DEF ScanPass
  <2> QED BY <1>7, <2>1 DEF ScanPass, TypeOK, inHand, database, account, history
<1>8. ASSUME NEW o \in Opps, Screen(o) PROVE TypeInv'
  <2>1. /\ queue' \in Seq(Opps) /\ Len(queue') <= MaxQueue
        /\ list' \in Seq(Opps) /\ Len(list') <= MaxList
    <3>1. CASE list # <<>> /\ list' = Tail(list) /\ UNCHANGED queue
      BY <3>1, HeadTailProperties, LenProperties, GateAssumption DEF TypeOK
    <3>2. ASSUME NEW i \in DOMAIN queue, queue' = RemoveAt(queue, i), UNCHANGED list
          PROVE  /\ queue' \in Seq(Opps) /\ Len(queue') <= MaxQueue
                 /\ list' \in Seq(Opps) /\ Len(list') <= MaxList
      <4>1. queue \in Seq(Opps) /\ Len(queue) <= MaxQueue /\ i \in 1 .. Len(queue)
        BY LenProperties DEF TypeOK
      <4>2. queue' \in Seq(Opps) /\ Len(queue') = Len(queue) - 1
        BY <3>2, <4>1, RemoveAtKeepsOrder
      <4> QED BY <3>2, <4>1, <4>2, LenProperties, GateAssumption DEF TypeOK
    <3> QED BY <1>8, <3>1, <3>2 DEF Screen, Taken
  <2>2. CASE Screened(o)
    <3>1. o \in Opps /\ canary < CanaryTrades
          /\ (TypeOf[o.kind] \in Whales => whales < MaxWhales)
      BY <1>8, <2>2 DEF Screened, WhaleAllowed, CanaryAllowed
    <3>2. pc' = "verify" /\ opp' = o /\ budget' = budget /\ size' = size
      BY <1>8, <2>2 DEF Screen
    <3> QED BY <1>8, <2>1, <3>1, <3>2
            DEF Screen, TypeOK, database, account, history
  <2>3. CASE ~Screened(o)
    BY <1>8, <2>1, <2>3, SkipType DEF Screen, TypeOK, database, account, history
  <2> QED BY <2>2, <2>3
<1>9. CASE Revalidate \/ Approve
  <2>1. CASE Skip
    BY <1>9, <2>1, SkipType DEF Revalidate, Approve, TypeOK, memory, database, account, history
  <2>2. CASE pc' \in {"risk", "send"} /\ UNCHANGED <<opp, budget, size>>
    BY <1>9, <2>2 DEF Revalidate, Approve, TypeOK, memory, database, account, history
  <2> QED BY <1>9, <2>1, <2>2 DEF Revalidate, Approve
<1>10. CASE ReadBalances
  <2>1. PICK b \in -1 .. MaxCash : GetBalance(b) /\ budget' = b
    BY <1>10 DEF ReadBalances
  <2>2. pc = "risk" /\ pc' = "size"
    BY <1>10 DEF ReadBalances
  <2>3. /\ cache' \in [for : Types, amount : 0 .. MaxCash, left : 0 .. CacheTTL]
        /\ unseen' \in Nat
    BY <2>1, <2>2, BalanceThere DEF Budgeted
  <2> QED BY <1>10, <2>1, <2>2, <2>3 DEF ReadBalances, TypeOK, database, history
<1>11. CASE RiskGate
  <2>1. CASE Skip
    BY <1>11, <2>1, SkipType
    DEF RiskGate, TypeOK, memory, database, account, history
  <2>2. CASE size' \in SizesFor(budget) /\ pc' = "approve" /\ UNCHANGED <<opp, budget>>
    <3>1. budget \in Nat \/ ~(budget > 0)
      BY DEF TypeOK
    <3>2. size' \in 0 .. MaxSize
      BY <2>2, <3>1, SizePaid, Bounds DEF SizesFor
    <3> QED BY <1>11, <2>2, <3>2
            DEF RiskGate, TypeOK, memory, database, account, history
  <2> QED BY <1>11, <2>1, <2>2 DEF RiskGate
<1>12. CASE Send
  <2>1. MarketOf[opp.kind] \in Markets /\ Window \in Nat
    BY <1>12, GateAssumption DEF Send, Opps
  <2>2. recent' \in [Markets -> 0 .. Window] /\ sinceSent' \in [Markets -> 0 .. Window]
    BY <1>12, <2>1, SMTT(30) DEF Send, LogOpportunity, TypeOK
  <2>3. sentPaused' \in Nat
    BY <1>12 DEF Send, TypeOK
  <2> QED BY <1>12, <2>2, <2>3 DEF Send, TypeOK, memory, account
<1>13. CASE Preflight
  <2>1. PICK b \in -1 .. MaxCash :
          /\ GetBalance(b)
          /\ \/ pc' = "legs" /\ UNCHANGED <<cooling, opp, budget, size>>
             \/ /\ cooling' = [cooling EXCEPT ![KeyOf[opp.kind]] = Cooldown]
                /\ Skip
    BY <1>13 DEF Preflight
  <2>2. /\ cache' \in [for : Types, amount : 0 .. MaxCash, left : 0 .. CacheTTL]
        /\ unseen' \in Nat
    BY <1>13, <2>1, BalanceThere DEF Budgeted, Preflight
  <2>3. CASE pc' = "legs" /\ UNCHANGED <<cooling, opp, budget, size>>
    BY <1>13, <2>2, <2>3 DEF Preflight, TypeOK, database, history
  <2>4. CASE cooling' = [cooling EXCEPT ![KeyOf[opp.kind]] = Cooldown] /\ Skip
    <3>1. Cooldown \in 0 .. Cooldown
      BY Bounds
    <3>2. cooling' \in [Keys -> 0 .. Cooldown]
      BY <2>4, <3>1 DEF TypeOK
    <3> QED BY <1>13, <2>2, <2>4, <3>2, SkipType DEF Preflight, TypeOK, database, history
  <2> QED BY <2>1, <2>3, <2>4
<1>14. CASE Win
  <2>1. opp \in Opps /\ opp.profit \in Profits /\ MarketOf[opp.kind] \in Markets
    BY <1>14, GateAssumption DEF Win, Opps
  <2>2. positions' \in Seq([market : Markets, pnl : Profits])
    BY <1>14, <2>1 DEF Win, TypeOK
  <2>3. cash' \in 0 .. MaxCash
    <3>1. NumLegs * size \in Nat
      BY GateAssumption, SMT DEF TypeOK
    <3>2. cash \in 0 .. MaxCash /\ NumLegs * size <= cash /\ cash' = cash - NumLegs * size
      BY <1>14 DEF Win, TypeOK
    <3> HIDE DEF TypeInv
    <3> QED BY <3>1, <3>2, Bounds
  <2>4. cache' \in [for : Types, amount : 0 .. MaxCash, left : 0 .. CacheTTL]
    BY <1>14, NoCacheIsTyped DEF Win, AfterWin
  <2>5. whales' \in 0 .. MaxWhales /\ canary' \in 0 .. CanaryTrades
    BY <1>14, Bounds DEF Win, TypeOK
  <2> QED BY <1>14, <2>2, <2>3, <2>4, <2>5, SkipType DEF Win, TypeOK, history
<1>15. CASE Lose
  <2>1. PICK n \in 0 .. NumLegs - 1 :
          n * size <= cash /\ cash' = cash - n * size /\ unseen' = unseen + n * size
    BY <1>15 DEF Lose
  <2>2. n * size \in Nat
    BY GateAssumption, SMT DEF TypeOK
  <2>3. cash' \in 0 .. MaxCash /\ unseen' \in Nat
    <3>1. cash \in 0 .. MaxCash /\ unseen \in Nat
      BY DEF TypeOK
    <3>2. ASSUME NEW d \in Nat, d <= cash
          PROVE  cash - d \in 0 .. MaxCash /\ unseen + d \in Nat
      BY <3>1, <3>2, Bounds
    <3> QED BY <2>1, <2>2, <3>2
  <2>4. cooling' \in [Keys -> 0 .. Cooldown]
    <3>1. Cooldown \in 0 .. Cooldown
      BY Bounds
    <3> QED BY <1>15, <3>1 DEF Lose, TypeOK
  <2> QED BY <1>15, <2>3, <2>4, SkipType DEF Lose, TypeOK, database, history
<1>16. CASE UNCHANGED vars
  BY <1>16 DEF vars, TypeOK, memory, inHand, database, account, history
<1> QED
  BY <1>1, <1>2, <1>3, <1>4, <1>5, <1>6, <1>7, <1>8, <1>9, <1>10, <1>11, <1>12, <1>13,
     <1>14, <1>15, <1>16
  DEF Next

-----------------------------------------------------------------------------
(***************************************************************************)
(* The pause.                                                              *)
(***************************************************************************)

LEMMA PauseStep == TypeInv /\ PauseInv /\ [Next]_vars => PauseInv'
<1> SUFFICES ASSUME TypeInv, PauseInv, [Next]_vars PROVE PauseInv'
  OBVIOUS
<1> USE DEF PauseInv, Before
<1>1. CASE Tick \/ CashMoves \/ Settle
  BY <1>1 DEF Tick, CashMoves, Settle, memory, inHand, history
<1>2. CASE Pause \/ Resume \/ Restart
  BY <1>2 DEF Pause, Resume, Restart
<1>3. ASSUME NEW o \in Opps, Trigger(o) PROVE PauseInv'
  BY <1>3 DEF Trigger, inHand, history
<1>4. ASSUME NEW found, ScanPass(found) PROVE PauseInv'
  BY <1>4 DEF ScanPass, inHand, history
<1>5. ASSUME NEW o \in Opps, Screen(o) PROVE PauseInv'
  BY <1>5 DEF Screen, Screened, Skip, history
<1>6. CASE Revalidate \/ ReadBalances \/ RiskGate \/ Approve
  BY <1>6 DEF Revalidate, ReadBalances, RiskGate, Approve, Skip, memory, history
<1>7. CASE Send
  BY <1>7 DEF Send, memory
<1>8. CASE Preflight \/ Win \/ Lose
  BY <1>8 DEF Preflight, Win, Lose, Skip, history
<1>9. CASE UNCHANGED vars
  BY <1>9 DEF vars, memory, inHand, history
<1> QED BY <1>1, <1>2, <1>3, <1>4, <1>5, <1>6, <1>7, <1>8, <1>9 DEF Next

-----------------------------------------------------------------------------
(***************************************************************************)
(* The duplicate window.                                                   *)
(***************************************************************************)

LEMMA ApartStep == TypeInv /\ Apart /\ [Next]_vars => Apart'
<1> SUFFICES ASSUME TypeInv, Apart, [Next]_vars PROVE Apart'
  OBVIOUS
<1> USE DEF Apart, Before
<1>1. CASE Tick
  <2>1. /\ pc' = pc /\ opp' = opp
        /\ recent' = Older(recent)
        /\ sinceSent' = [m \in Markets |-> Smaller(sinceSent[m] + 1, Window)]
    BY <1>1 DEF Tick, inHand
  <2>2. /\ recent \in [Markets -> 0 .. Window] /\ sinceSent \in [Markets -> 0 .. Window]
        /\ Window \in Nat /\ opp \in Opps \cup {None}
    BY Bounds DEF TypeInv, TypeOK
  <2>3. ASSUME NEW m \in Markets
        PROVE  /\ recent'[m] + sinceSent'[m] >= Window
               /\ sinceSent[m] >= Window => sinceSent'[m] >= Window
    BY <2>1, <2>2 DEF Older, Smaller
  <2>4. pc # "idle" => MarketOf[opp.kind] \in Markets
    BY GateAssumption DEF TypeInv, InHand, Opps
  <2> QED BY <2>1, <2>3, <2>4
<1>2. CASE Pause \/ Resume \/ CashMoves \/ Settle
  BY <1>2 DEF Pause, Resume, CashMoves, Settle, inHand, database, history
<1>3. CASE Restart
  BY <1>3 DEF Restart, database
<1>4. ASSUME NEW o \in Opps, Trigger(o) PROVE Apart'
  BY <1>4 DEF Trigger, inHand, database, history
<1>5. ASSUME NEW found, ScanPass(found) PROVE Apart'
  BY <1>5 DEF ScanPass, inHand, database, history
<1>6. ASSUME NEW o \in Opps, Screen(o) PROVE Apart'
  <2>1. CASE Screened(o)
    <3>1. recent[MarketOf[o.kind]] = 0 /\ MarketOf[o.kind] \in Markets
      BY <2>1, GateAssumption DEF Screened, Opps
    <3>2. sinceSent[MarketOf[o.kind]] >= Window
      BY <3>1, Bounds DEF TypeInv, TypeOK
    <3> QED BY <1>6, <2>1, <3>2 DEF Screen, database, history
  <2>2. CASE ~Screened(o)
    BY <1>6, <2>2 DEF Screen, Skip, database, history
  <2> QED BY <2>1, <2>2
<1>7. CASE Revalidate \/ ReadBalances \/ RiskGate \/ Approve
  BY <1>7 DEF Revalidate, ReadBalances, RiskGate, Approve, Skip, database, history
<1>8. CASE Send
  <2>1. /\ recent' = [recent EXCEPT ![MarketOf[opp.kind]] = Window]
        /\ sinceSent' = [sinceSent EXCEPT ![MarketOf[opp.kind]] = 0]
        /\ pc' \in {"preflight", "legs"}
    BY <1>8 DEF Send, LogOpportunity
  <2>2. recent \in [Markets -> 0 .. Window] /\ sinceSent \in [Markets -> 0 .. Window]
    BY DEF TypeInv, TypeOK
  <2> QED BY <2>1, <2>2, Bounds
<1>9. CASE Preflight \/ Win \/ Lose
  BY <1>9 DEF Preflight, Win, Lose, Skip, database, history
<1>10. CASE UNCHANGED vars
  BY <1>10 DEF vars, inHand, database, history
<1> QED BY <1>1, <1>2, <1>3, <1>4, <1>5, <1>6, <1>7, <1>8, <1>9, <1>10 DEF Next

-----------------------------------------------------------------------------
(***************************************************************************)
(* The open positions.                                                     *)
(***************************************************************************)

\* What may enter improves on every position its market has.
LEMMA EntriesStep ==
  TypeInv /\ Entry /\ EntriesImprove /\ [Next]_vars => Entry' /\ EntriesImprove'
<1> SUFFICES ASSUME TypeInv, Entry, EntriesImprove, [Next]_vars
             PROVE  Entry' /\ EntriesImprove'
  OBVIOUS
<1>1. ASSUME pc' \notin Decided \/ (pc \in Decided /\ opp' = opp), positions' = positions
      PROVE  Entry' /\ EntriesImprove'
  BY <1>1 DEF Entry, EntriesImprove, MayEnter, OpenIn
<1> USE DEF Sized
<1>2. CASE Tick \/ Pause \/ Resume \/ CashMoves
  BY <1>1, <1>2 DEF Tick, Pause, Resume, CashMoves, inHand, database
<1>3. CASE Settle
  <2>1. pc' = "idle"
    BY <1>3 DEF Settle, Idle, inHand
  <2>2. PICK k \in DOMAIN positions : positions' = RemoveAt(positions, k)
    BY <1>3 DEF Settle
  <2> DEFINE S == [market : Markets, pnl : Profits]
             n == Len(positions)
  <2>3. positions \in Seq(S) /\ k \in 1 .. n /\ n \in Nat
    BY LenProperties DEF TypeInv, TypeOK
  <2>4. /\ positions' \in Seq(S) /\ Len(positions') = n - 1
        /\ \A i \in 1 .. n - 1 :
             positions'[i] = IF i < k THEN positions[i] ELSE positions[i + 1]
    BY <2>2, <2>3, RemoveAtKeepsOrder
  <2>5. DOMAIN positions' = 1 .. n - 1 /\ DOMAIN positions = 1 .. n
    BY <2>3, <2>4, LenProperties
  <2>6. Len(positions') <= MaxOpen
    BY <2>3, <2>4, Bounds DEF EntriesImprove
  <2>7. ASSUME NEW i \in 1 .. n - 1, NEW j \in 1 .. n - 1,
               i < j, positions'[i].market = positions'[j].market
        PROVE  5 * positions'[j].pnl > 6 * positions'[i].pnl
    <3> DEFINE at(x) == IF x < k THEN x ELSE x + 1
    <3>1. /\ at(i) \in 1 .. n /\ at(j) \in 1 .. n /\ at(i) < at(j)
          /\ positions'[i] = positions[at(i)] /\ positions'[j] = positions[at(j)]
      BY <2>3, <2>4, <2>7
    <3> HIDE DEF at
    <3> QED BY <2>5, <2>7, <3>1 DEF EntriesImprove
  <2>8. Entry'
    BY <2>1 DEF Entry, Decided
  <2> QED BY <2>5, <2>6, <2>7, <2>8 DEF EntriesImprove
<1>4. CASE Restart
  BY <1>1, <1>4 DEF Restart, database, Decided
<1>5. ASSUME NEW o \in Opps, Trigger(o) PROVE Entry' /\ EntriesImprove'
  BY <1>1, <1>5 DEF Trigger, inHand, database
<1>6. ASSUME NEW found, ScanPass(found) PROVE Entry' /\ EntriesImprove'
  BY <1>1, <1>6 DEF ScanPass, inHand, database
<1>7. ASSUME NEW o \in Opps, Screen(o) PROVE Entry' /\ EntriesImprove'
  BY <1>1, <1>7 DEF Screen, Skip, database, Decided
<1>8. CASE Revalidate \/ ReadBalances
  BY <1>1, <1>8 DEF Revalidate, ReadBalances, Skip, database, Decided
<1>9. CASE RiskGate
  <2>1. CASE Skip
    BY <1>1, <1>9, <2>1 DEF RiskGate, Skip, database, Decided
  <2>2. CASE MayEnter(opp) /\ opp' = opp
    BY <1>9, <2>2 DEF RiskGate, database, Entry, EntriesImprove, MayEnter, OpenIn
  <2> QED BY <1>9, <2>1, <2>2 DEF RiskGate
<1>10. CASE Approve
  BY <1>1, <1>10 DEF Approve, Skip, database, Decided
<1>11. CASE Send \/ Preflight
  BY <1>1, <1>11 DEF Send, Preflight, Skip, database, Decided
<1>12. CASE Win
  <2> DEFINE S == [market : Markets, pnl : Profits]
             n == Len(positions)
             e == [market |-> MarketOf[opp.kind], pnl |-> opp.profit]
  <2>1. /\ pc = "legs" /\ pc' = "idle"
        /\ positions' = Append(positions, e)
    BY <1>12 DEF Win, Skip
  <2>2. positions \in Seq(S) /\ n \in Nat /\ DOMAIN positions = 1 .. n
    BY LenProperties DEF TypeInv, TypeOK
  <2>3. MayEnter(opp) /\ TypeOf[opp.kind] \notin Exempt
    BY <1>12, <2>1 DEF Entry, Decided, Win
  <2>4. /\ DOMAIN positions' = 1 .. n + 1 /\ Len(positions') = n + 1
        /\ positions'[n + 1] = e
        /\ \A i \in 1 .. n : positions'[i] = positions[i]
    BY <2>1, <2>2
  <2>5. Len(positions') <= MaxOpen
    BY <2>2, <2>3, <2>4, Bounds DEF MayEnter
  <2>6. ASSUME NEW i \in 1 .. n + 1, NEW j \in 1 .. n + 1,
               i < j, positions'[i].market = positions'[j].market
        PROVE  5 * positions'[j].pnl > 6 * positions'[i].pnl
    <3>1. i \in 1 .. n /\ positions'[i] = positions[i]
      BY <2>2, <2>4, <2>6
    <3>2. CASE j = n + 1
      <4>1. i \in OpenIn(MarketOf[opp.kind])
        BY <2>2, <2>4, <2>6, <3>1, <3>2 DEF OpenIn
      <4>2. 5 * opp.profit > 6 * positions[i].pnl
        BY <2>3, <4>1 DEF MayEnter
      <4> QED BY <2>4, <3>1, <3>2, <4>2
    <3>3. CASE j \in 1 .. n
      BY <2>2, <2>4, <2>6, <3>1, <3>3 DEF EntriesImprove
    <3> QED BY <2>2, <3>2, <3>3
  <2>7. Entry'
    BY <2>1 DEF Entry, Decided
  <2> QED BY <2>4, <2>5, <2>6, <2>7 DEF EntriesImprove
<1>13. CASE Lose
  BY <1>1, <1>13 DEF Lose, Skip, database, Decided
<1>14. CASE UNCHANGED vars
  BY <1>1, <1>14 DEF vars, inHand, database
<1> QED
  BY <1>2, <1>3, <1>4, <1>5, <1>6, <1>7, <1>8, <1>9, <1>10, <1>11, <1>12, <1>13, <1>14
  DEF Next

-----------------------------------------------------------------------------
(***************************************************************************)
(* The balances.                                                           *)
(***************************************************************************)

LEMMA BudgetedStep == TypeInv /\ Budgeted /\ [Next]_vars => Budgeted'
<1> SUFFICES ASSUME TypeInv, Budgeted, [Next]_vars PROVE Budgeted'
  OBVIOUS
<1> USE DEF Budgeted, Sized
<1>0. /\ cash \in Nat /\ unseen \in Nat /\ cache.amount \in Nat /\ cache.left \in Nat
      /\ budget \in Int /\ size \in Nat /\ NumLegs \in Nat \ {0}
      /\ budget = -1 \/ budget \in Nat
      /\ cache = [for |-> cache.for, amount |-> cache.amount, left |-> cache.left]
  BY GateAssumption DEF TypeInv, TypeOK
<1>1. ASSUME pc' = pc, budget' = budget, size' = size,
             cache'.amount = cache.amount, cache'.left > 0 => cache.left > 0,
             cash' + unseen' >= cash + unseen, cash' \in Nat, unseen' \in Nat
      PROVE  Budgeted'
  BY <1>0, <1>1
<1>2. CASE Tick
  <2>1. /\ pc' = pc /\ budget' = budget /\ size' = size /\ cash' = cash /\ unseen' = unseen
        /\ cache' = [cache EXCEPT !.left = IF @ > 0 THEN @ - 1 ELSE 0]
    BY <1>2 DEF Tick, inHand, account
  <2>2. cache'.amount = cache.amount /\ (cache'.left > 0 => cache.left > 0)
    BY <1>0, <2>1
  <2> QED BY <1>0, <1>1, <2>1, <2>2
<1>3. CASE Pause \/ Resume \/ Settle
  BY <1>0, <1>1, <1>3 DEF Pause, Resume, Settle, memory, inHand, account
<1>4. CASE CashMoves
  <2>1. /\ pc' = pc /\ budget' = budget /\ size' = size /\ cache' = cache
        /\ cash' \in 0 .. MaxCash
        /\ unseen' = IF cash' < cash THEN unseen + (cash - cash') ELSE unseen
    BY <1>4 DEF CashMoves, memory, inHand
  <2> QED BY <1>0, <1>1, <2>1, Bounds
<1>5. CASE Restart
  BY <1>5 DEF Restart, NoCache
<1>6. ASSUME NEW o \in Opps, Trigger(o) PROVE Budgeted'
  BY <1>0, <1>1, <1>6 DEF Trigger, inHand, account
<1>7. ASSUME NEW found, ScanPass(found) PROVE Budgeted'
  BY <1>0, <1>1, <1>7 DEF ScanPass, inHand, account
<1>8. ASSUME NEW o \in Opps, Screen(o) PROVE Budgeted'
  BY <1>8 DEF Screen, Skip, account
<1>9. CASE Revalidate
  BY <1>9 DEF Revalidate, Skip, memory, account
<1>10. CASE ReadBalances
  <2>1. PICK b \in -1 .. MaxCash : GetBalance(b) /\ budget' = b
    BY <1>10 DEF ReadBalances
  <2>2. pc = "risk" /\ pc' = "size" /\ cash' = cash
    BY <1>10 DEF ReadBalances
  <2> QED BY <2>1, <2>2, BalanceThere
<1>11. CASE RiskGate
  <2>1. CASE Skip
    BY <1>11, <2>1 DEF RiskGate, Skip, memory, account
  <2>2. CASE size' \in SizesFor(budget) /\ pc' = "approve" /\ UNCHANGED <<opp, budget>>
    <3>1. /\ pc = "size" /\ cache' = cache /\ cash' = cash /\ unseen' = unseen
      BY <1>11, <2>2 DEF RiskGate, memory, account
    <3>2. budget > 0 => NumLegs * size' <= budget
      BY <1>0, <2>2, SizePaid DEF SizesFor
    <3> QED BY <1>0, <2>2, <3>1, <3>2
  <2> QED BY <1>11, <2>1, <2>2 DEF RiskGate
<1>12. CASE Approve
  BY <1>12 DEF Approve, Skip, memory, account
<1>13. CASE Send
  BY <1>13 DEF Send, memory, account
<1>14. CASE Preflight
  <2>1. PICK b \in -1 .. MaxCash : GetBalance(b)
    BY <1>14 DEF Preflight
  <2>2. pc = "preflight" /\ pc' \in {"legs", "idle"} /\ cash' = cash
    BY <1>14 DEF Preflight, Skip
  <2> QED BY <2>1, <2>2, BalanceThere
<1>15. CASE Win
  BY <1>15 DEF Win, AfterWin, NoCache, Skip
<1>16. CASE Lose
  <2>1. PICK n \in 0 .. NumLegs - 1 : cash' = cash - n * size /\ unseen' = unseen + n * size
    BY <1>16 DEF Lose
  <2>2. n * size \in Nat
    BY <1>0, SMT
  <2>3. cash' + unseen' = cash + unseen
    BY <1>0, <2>1, <2>2
  <2> QED BY <1>16, <2>3 DEF Lose, Skip
<1>17. CASE UNCHANGED vars
  BY <1>0, <1>1, <1>17 DEF vars, memory, inHand, account
<1> QED
  BY <1>2, <1>3, <1>4, <1>5, <1>6, <1>7, <1>8, <1>9, <1>10, <1>11, <1>12, <1>13, <1>14,
     <1>15, <1>16, <1>17
  DEF Next

-----------------------------------------------------------------------------
(***************************************************************************)
(* The theorems.                                                           *)
(***************************************************************************)

LEMMA InvInit == Init => IInv
<1> SUFFICES ASSUME Init PROVE IInv
  OBVIOUS
<1>1. TypeInv
  BY TypeInit
<1>2. PauseInv
  BY DEF Init, PauseInv
<1>3. Apart
  BY Bounds DEF Init, Apart, Before
<1>4. Entry
  BY DEF Init, Entry, Decided, Sized
<1>5. EntriesImprove
  <2>1. Len(positions) = 0 /\ DOMAIN positions = {}
    BY DEF Init
  <2> QED BY <2>1, Bounds DEF EntriesImprove
<1>6. Budgeted
  BY DEF Init, Budgeted, Sized, NoCache
<1> QED BY <1>1, <1>2, <1>3, <1>4, <1>5, <1>6 DEF IInv

LEMMA InvAlways == Spec => []IInv
<1>1. Init => IInv
  BY InvInit
<1>2. IInv /\ [Next]_vars => IInv'
  BY TypeStep, PauseStep, ApartStep, EntriesStep, BudgetedStep DEF IInv
<1> QED BY <1>1, <1>2, PTL DEF Spec

\* Every variable keeps its type; among the types, the whale and canary counts
\* stay within their session caps (run_continuous, Executor.execute).
THEOREM TypeCorrect == Spec => []TypeOK
<1>1. IInv => TypeOK
  BY DEF IInv, TypeInv
<1> QED BY <1>1, InvAlways, PTL

\* After the dashboard's pause at most one more opportunity is sent, however
\* long the queue and the scan pass are (executor.execute reads it once).
THEOREM OneAfterPauseAlways == Spec => []OneAfterPause
<1>1. IInv => OneAfterPause
  BY DEF IInv, PauseInv, OneAfterPause
<1> QED BY <1>1, InvAlways, PTL

\* Sends into one market are the duplicate window apart, across copies in the
\* queue and the scan pass and across restarts (has_recent_trade, log_opportunity).
THEOREM SentApartAlways == Spec => SentApart
<1>1. IInv /\ [Next]_vars =>
        [pc = "send" /\ pc' \in {"preflight", "legs"}
           => sinceSent[MarketOf[opp.kind]] >= Window]_vars
  BY DEF IInv, Apart, Before
<1> QED BY <1>1, InvAlways, PTL DEF Spec, SentApart

\* The open positions stay within their limit, and each of a market was worth a
\* fifth more than all before it (RiskManager.check).
THEOREM EntriesImproveAlways == Spec => []EntriesImprove
<1>1. IInv => EntriesImprove
  BY DEF IInv
<1> QED BY <1>1, InvAlways, PTL

\* What is about to be sent, when its size was taken from a balance, is money that
\* was there when the balance was read and is there but for what left it since by
\* other ways than a whole execution (_get_cached_balances, _per_leg_budget,
\* clamp_size and the cache that a success empties).
THEOREM SizedWithinCashAlways == Spec => []SizedWithinCash
<1>1. ASSUME IInv PROVE SizedWithinCash
  <2>1. /\ cash \in Nat /\ unseen \in Nat /\ budget \in Int /\ NumLegs * size \in Int
    BY <1>1, GateAssumption, SMT DEF IInv, TypeInv, TypeOK
  <2> QED BY <1>1, <2>1 DEF IInv, Budgeted, Sized, SizedWithinCash
<1> QED BY <1>1, InvAlways, PTL
=============================================================================
