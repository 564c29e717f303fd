----------------------------- MODULE StoresProofs -----------------------------
(***************************************************************************)
(* The tables and those who read them, for every value of the bounds: the  *)
(* candlesticks, the rows of the other collectors, the pages, the charts,  *)
(* the time bins, and all of them together with the snapshots and the      *)
(* blocks, whose proofs are in modules of their own.                       *)
(***************************************************************************)
EXTENDS Stores, SnapshotTakerProofs, PropagationProofs

-----------------------------------------------------------------------------
(* Rows and replies in the order of their times. *)

\* Numbers in ascending order.
LEMMA AscendingSeq ==
  ASSUME NEW S \in SUBSET Int, IsFiniteSet(S)
  PROVE  /\ Ascending(S) \in [1..Cardinality(S) -> S] /\ Cardinality(S) \in Nat
         /\ Ascending(S) \in Seq(S) /\ Len(Ascending(S)) = Cardinality(S)
         /\ \A x \in S : \E k \in 1..Cardinality(S) : Ascending(S)[k] = x
         /\ \A i, j \in 1..Cardinality(S) : i < j => Ascending(S)[i] < Ascending(S)[j]
<1> DEFINE Upto(x) == {y \in S : y <= x}
           n == Cardinality(S)
           rank == [x \in S |-> Cardinality(Upto(x))]
<1>1. n \in Nat
  BY FS_CardinalityType
<1>2. ASSUME NEW x \in S
      PROVE  rank[x] \in 1..n /\ IsFiniteSet(Upto(x)) /\ rank[x] = Cardinality(Upto(x))
  <2>1. IsFiniteSet(Upto(x)) /\ Cardinality(Upto(x)) <= n /\ Cardinality(Upto(x)) \in Nat
    BY FS_Subset, FS_CardinalityType
  <2>2. Cardinality(Upto(x)) # 0
    <3>1. x \in Upto(x)
      OBVIOUS
    <3> QED BY <2>1, <3>1, FS_EmptySet
  <2> QED BY <1>1, <2>1, <2>2
<1>3. ASSUME NEW x \in S, NEW y \in S, x < y
      PROVE  rank[x] < rank[y]
  <2>0. x \in Int /\ y \in Int
    OBVIOUS
  <2>1. Upto(x) \in SUBSET Upto(y) /\ y \in Upto(y) /\ y \notin Upto(x)
    <3>1. \A z \in S : z \in Int
      OBVIOUS
    <3>2. \A z \in S : z <= x => z <= y
      BY <1>3, <2>0, <3>1
    <3>3. y <= y /\ ~(y <= x)
      BY <1>3, <2>0
    <3> QED BY <3>2, <3>3
  <2>2. Upto(x) # Upto(y)
    BY <2>1
  <2>3. /\ Cardinality(Upto(x)) <= Cardinality(Upto(y))
        /\ Cardinality(Upto(y)) = Cardinality(Upto(x)) => Upto(y) = Upto(x)
    BY <1>2, <2>1, FS_Subset
  <2> HIDE DEF Upto
  <2>4. rank[x] \in Int /\ rank[y] \in Int /\ rank[x] = Cardinality(Upto(x)) /\ rank[y] = Cardinality(Upto(y))
    BY <1>2
  <2> HIDE DEF rank
  <2> QED BY <2>2, <2>3, <2>4
<1> HIDE DEF rank, Upto
<1>4. ASSUME NEW x \in S, NEW y \in S, rank[x] = rank[y] PROVE x = y
  <2>1. x \in Int /\ y \in Int /\ rank[x] \in Int
    BY <1>2
  <2>2. ~(x < y) /\ ~(y < x)
    BY <1>3, <1>4, <2>1
  <2> QED BY <2>1, <2>2
<1>5. rank \in Surjection(S, 1..n)
  <2>1. rank \in [S -> 1..n]
    BY <1>2 DEF rank
  <2>2. rank \in Injection(S, 1..n)
    BY <1>4, <2>1 DEF Injection, IsInjective
  <2>3. IsFiniteSet(1..n) /\ Cardinality(1..n) = n
    BY <1>1, FS_Interval
  <2> QED BY <2>2, <2>3, FS_Injection
<1>6. \A k \in 1..n : \E x \in S : rank[x] = k
  BY <1>5 DEF Surjection
<1>7. \A x \in S : rank[x] = Cardinality({y \in S : y <= x})
  BY <1>2 DEF Upto
<1>8. ASSUME NEW k \in 1..n PROVE Ascending(S)[k] \in S /\ rank[Ascending(S)[k]] = k
  <2>1. Ascending(S)[k] = CHOOSE x \in S : Cardinality({y \in S : y <= x}) = k
    BY DEF Ascending
  <2>2. \E x \in S : Cardinality({y \in S : y <= x}) = k
    BY <1>6, <1>7
  <2>3. /\ Ascending(S)[k] \in S
        /\ Cardinality({y \in S : y <= Ascending(S)[k]}) = k
    BY <2>1, <2>2, Zenon
  <2> QED BY <1>7, <2>3
<1> DEFINE s == Ascending(S)
<1>9. s \in [1..n -> S]
  <2>1. s = [k \in 1..n |-> CHOOSE x \in S : Cardinality({y \in S : y <= x}) = k]
    BY Zenon DEF Ascending
  <2>2. DOMAIN s = 1..n /\ s = [k \in 1..n |-> s[k]]
    BY <2>1, Zenon
  <2> QED BY <1>8, <2>2
<1>10. ASSUME NEW i \in 1..n, NEW j \in 1..n, i < j PROVE s[i] < s[j]
  <2>1. s[i] \in S /\ s[j] \in S /\ rank[s[i]] = i /\ rank[s[j]] = j
    BY <1>8
  <2> HIDE DEF s, n
  <2>2. i \in Int /\ j \in Int
    BY <1>1
  <2>4. ASSUME s[j] < s[i] PROVE FALSE
    <3>1. rank[s[j]] < rank[s[i]]
      BY <1>3, <2>1, <2>4
    <3> QED BY <1>10, <2>1, <2>2, <3>1
  <2>5. s[i] # s[j]
    BY <1>10, <2>1, <2>2
  <2>3. s[i] \in Int /\ s[j] \in Int
    BY <2>1
  <2> QED BY <2>3, <2>4, <2>5
<1>11. \A x \in S : \E k \in 1..n : s[k] = x
  <2> SUFFICES ASSUME NEW x \in S PROVE s[rank[x]] = x /\ rank[x] \in 1..n
    OBVIOUS
  <2>1. rank[x] \in 1..n
    BY <1>2
  <2> QED BY <1>4, <1>8, <2>1
<1> HIDE DEF s
<1>12. s \in Seq(S) /\ Len(s) = n
  <2> HIDE DEF n
  <2> QED BY <1>1, <1>9
<1> QED BY <1>1, <1>9, <1>10, <1>11, <1>12 DEF s, n

-----------------------------------------------------------------------------
(* The candlesticks. *)

\* The tick is stored, or nobody will ask for it.
Kept(p, t) == t \in tickRows[p] \/ <<p, t>> \in passedOver

TicksTypes ==
  /\ exchange \in Exchanges /\ time \in 0..MaxNow /\ faults \in Nat /\ single \in BOOLEAN
  /\ market \in [Pairs -> SUBSET (0..time)] /\ tickRows \in [Pairs -> SUBSET (0..time)]
  /\ \A p \in Pairs : tickRows[p] \subseteq market[p]
  /\ lastTick \in [Pairs -> 0..time] /\ getting \in Pairs \cup {NoPair}

\* What is left of the reply is in order, and from the time asked for on.
ReplyInOrder ==
  /\ reply \in Seq(Nat) /\ (reply # <<>> => getting # NoPair)
  /\ \A i \in 1..Len(reply) : reply[i] \in market[getting] /\ lastTick[getting] <= reply[i]
  /\ \A i, j \in 1..Len(reply) : i < j => reply[i] < reply[j]

\* Of what comes before any of it, all is in the reply, or has been stored or passed over.
ReplyWhole ==
  \A i \in 1..Len(reply) : \A t \in market[getting] :
    lastTick[getting] <= t /\ t < reply[i] =>
      Kept(getting, t) \/ \E j \in 1..Len(reply) : reply[j] = t

\* Nor is anything missing between the first row and the time from which a pair is asked for
\* next, or between this and the newest row.
BehindWhole ==
  \A p \in Pairs : \A t \in market[p] : \A a \in tickRows[p] :
    a < t /\ t < lastTick[p] => Kept(p, t)

AheadWhole ==
  \A p \in Pairs : \A t \in market[p] : \A b \in tickRows[p] :
    lastTick[p] <= t /\ t < b => Kept(p, t)

TicksInv == TicksTypes /\ ReplyInOrder /\ ReplyWhole /\ BehindWhole /\ AheadWhole

LEMMA StartPast ==
  ASSUME NEW t \in Nat
  PROVE  Start(t) \in 0..t
<1> DEFINE S == {0, t - LookBack}
<1>1. LookBack \in Nat
  BY TicksAssumption DEF TicksAssumption
<1>2. \E m \in {0, t - LookBack} : m >= 0 /\ m >= t - LookBack /\ m <= t
  BY <1>1
<1>3. PICK m \in S : \A y \in S : m >= y
  BY <1>1, <1>2
<1>4. Max(S) \in S /\ \A y \in S : Max(S) >= y
  BY <1>3 DEF Max
<1> QED BY <1>1, <1>4 DEF Start

LEMMA TicksInitInv == TicksInit => TicksInv
<1> SUFFICES ASSUME TicksInit PROVE TicksInv
  OBVIOUS
<1>1. Start(0) \in 0..0
  BY StartPast
<1>2. MaxNow \in Nat
  BY TicksAssumption DEF TicksAssumption
<1>3. TicksTypes
  <2>1. lastTick = [p \in Pairs |-> Start(0)] /\ time = 0
    BY DEF TicksInit
  <2>2. lastTick \in [Pairs -> 0..time]
    BY <1>1, <2>1
  <2>3. market \in [Pairs -> SUBSET (0..time)] /\ tickRows \in [Pairs -> SUBSET (0..time)]
    BY DEF TicksInit
  <2>4. \A p \in Pairs : tickRows[p] \subseteq market[p]
    BY DEF TicksInit
  <2>5. exchange \in Exchanges /\ time \in 0..MaxNow /\ faults \in Nat /\ single \in BOOLEAN
    <3>1. time = 0 /\ faults = 0 /\ exchange \in Exchanges
      BY DEF TicksInit
    <3>2. single \in BOOLEAN
      BY DEF TicksInit
    <3> QED BY <1>2, <3>1, <3>2
  <2>6. getting \in Pairs \cup {NoPair}
    BY DEF TicksInit
  <2> QED BY <2>2, <2>3, <2>4, <2>5, <2>6 DEF TicksTypes
<1>4. reply = <<>> /\ Len(reply) = 0 /\ reply \in Seq(Nat)
  BY DEF TicksInit
<1>5. \A p \in Pairs : market[p] = {}
  BY DEF TicksInit
<1> QED BY <1>3, <1>4, <1>5
     DEF TicksInv, ReplyInOrder, ReplyWhole, BehindWhole, AheadWhole

LEMMA TimePassesInv ==
  ASSUME TicksInv, NEW traded \in SUBSET Pairs, TimePasses(traded)
  PROVE  TicksInv'
<1> USE DEF TicksInv
<1>1. /\ time \in Nat /\ time' = time + 1 /\ time' \in 0..MaxNow
      /\ UNCHANGED <<exchange, tickRows, lastTick, getting, reply, single, faults, passedOver>>
  BY TicksAssumption DEF TimePasses, TicksTypes, TicksAssumption
<1>2. Pairs' = Pairs /\ \A p, t : Kept(p, t)' <=> Kept(p, t)
  BY <1>1 DEF Pairs, Kept
<1>3. /\ market' \in [Pairs -> SUBSET (0..time')]
      /\ \A p \in Pairs : market[p] \subseteq market'[p]
      /\ \A p \in Pairs : \A t \in market'[p] : t \in market[p] \/ t = time + 1
  <2>1. market' = [p \in Pairs |-> IF p \in traded THEN market[p] \cup {time'} ELSE market[p]]
    BY DEF TimePasses
  <2>2. \A p \in Pairs : market[p] \in SUBSET (0..time) /\ market[p] \cup {time'} \in SUBSET (0..time')
    BY <1>1 DEF TicksTypes
  <2>3. \A p \in Pairs : market[p] \in SUBSET (0..time')
    BY <1>1, <2>2
  <2> QED BY <1>1, <2>1, <2>2, <2>3
<1>4. TicksTypes'
  <2>1. 0..time \subseteq 0..time'
    BY <1>1
  <2>2. tickRows' \in [Pairs -> SUBSET (0..time')]
    BY <1>1, <2>1 DEF TicksTypes
  <2>3. lastTick' \in [Pairs -> 0..time']
    BY <1>1, <2>1 DEF TicksTypes
  <2>4. \A p \in Pairs : tickRows'[p] \subseteq market'[p]
    BY <1>1, <1>3 DEF TicksTypes
  <2> QED BY <1>1, <1>2, <1>3, <2>2, <2>3, <2>4 DEF TicksTypes
<1>5. \A p \in Pairs : /\ lastTick[p] \in 0..time
                       /\ \A t \in tickRows[p] : t \in 0..time
  BY DEF TicksTypes
<1>6. reply # <<>> => getting \in Pairs
  BY DEF ReplyInOrder, TicksTypes
<1>7. \A i \in 1..Len(reply) : reply # <<>>
  BY DEF ReplyInOrder
<1>8. \A i \in 1..Len(reply) : reply[i] \in 0..time
  BY <1>6, <1>7 DEF ReplyInOrder, TicksTypes
<1>9. ReplyInOrder'
  BY <1>1, <1>3, <1>6, <1>7 DEF ReplyInOrder
<1>10. ReplyWhole'
  <2> SUFFICES ASSUME NEW i \in 1..Len(reply), NEW t \in market'[getting],
                      lastTick[getting] <= t, t < reply[i]
               PROVE  Kept(getting, t) \/ \E j \in 1..Len(reply) : reply[j] = t
    BY <1>1, <1>2 DEF ReplyWhole
  <2>1. t \in market[getting]
    BY <1>1, <1>3, <1>6, <1>7, <1>8
  <2> QED BY <2>1 DEF ReplyWhole
<1>11. BehindWhole' /\ AheadWhole'
  <2> SUFFICES ASSUME NEW p \in Pairs, NEW t \in market'[p]
               PROVE  /\ \A a \in tickRows[p] : a < t /\ t < lastTick[p] => Kept(p, t)
                      /\ \A b \in tickRows[p] : lastTick[p] <= t /\ t < b => Kept(p, t)
    BY <1>1, <1>2 DEF BehindWhole, AheadWhole
  <2>1. CASE t \in market[p]
    BY <2>1 DEF BehindWhole, AheadWhole
  <2>2. CASE t = time + 1
    BY <1>1, <1>5, <2>2
  <2> QED BY <1>3, <2>1, <2>2
<1> QED BY <1>4, <1>9, <1>10, <1>11

\* Nothing but the request that runs is given up.
LEMMA GivesUpRequest ==
  ASSUME TicksInv, reply' = <<>>, getting' = NoPair, faults' \in Nat,
         UNCHANGED <<exchange, time, market, tickRows, lastTick, single, passedOver>>
  PROVE  TicksInv'
<1> USE DEF TicksInv
<1>1. Pairs' = Pairs /\ \A p, t : Kept(p, t)' <=> Kept(p, t)
  BY DEF Pairs, Kept
<1>2. reply' \in Seq(Nat) /\ Len(reply') = 0
  OBVIOUS
<1>3. TicksTypes'
  BY <1>1 DEF TicksTypes
<1>4. ReplyInOrder' /\ ReplyWhole'
  BY <1>2 DEF ReplyInOrder, ReplyWhole
<1>5. BehindWhole' /\ AheadWhole'
  BY <1>1 DEF BehindWhole, AheadWhole
<1> QED BY <1>3, <1>4, <1>5


\* What the exchange sends of a pair: all from some time on, but what it has forgotten.
LEMMA SentOfMarket ==
  ASSUME TicksTypes, NEW p \in Pairs, Sent(p) # {}
  PROVE  /\ Sent(p) \subseteq market[p] /\ Min(Sent(p)) \in Sent(p)
         /\ \A t \in market[p], s \in Sent(p) : lastTick[p] <= t /\ t < s =>
              t \in Sent(p) \/ t < Min(Sent(p))
<1>1. /\ market[p] \subseteq 0..time /\ lastTick[p] \in 0..time /\ time \in Nat /\ Window \in Nat
  BY TicksAssumption DEF TicksTypes, TicksAssumption
<1>2. PICK from \in Int, to \in Int :
        /\ Sent(p) = {t \in market[p] : t >= from /\ t <= to}
        /\ from = IF exchange = "bittrex" THEN time - Window ELSE lastTick[p]
        /\ to = IF exchange = "binance" THEN lastTick[p] + Window ELSE time
  <2>1. /\ (IF exchange = "bittrex" THEN time - Window ELSE lastTick[p]) \in Int
        /\ (IF exchange = "binance" THEN lastTick[p] + Window ELSE time) \in Int
    BY <1>1
  <2> QED BY <2>1 DEF Sent
<1>3. Sent(p) \in SUBSET Nat
  BY <1>1, <1>2
<1>4. Min(Sent(p)) \in Sent(p) /\ \A s \in Sent(p) : Min(Sent(p)) <= s
  BY <1>3, MinIn
<1>5. ASSUME NEW t \in market[p], NEW s \in Sent(p), lastTick[p] <= t, t < s, t \notin Sent(p)
      PROVE  t < Min(Sent(p))
  <2>1. /\ t \in Nat /\ s \in Nat /\ Min(Sent(p)) \in Nat
        /\ s >= from /\ s <= to /\ Min(Sent(p)) >= from
    <3>1. \A y \in Sent(p) : y >= from /\ y <= to
      BY <1>2
    <3> QED BY <1>1, <1>3, <1>4, <3>1
  <2>2. t < from
    BY <1>2, <1>5, <2>1
  <2> QED BY <2>1, <2>2
<1> QED BY <1>2, <1>4, <1>5

LEMMA RequestInv ==
  ASSUME TicksInv, NEW p \in Pairs, Request(p)
  PROVE  TicksInv'
<1> USE DEF TicksInv
<1> DEFINE S == {t \in Sent(p) : t >= lastTick[p]}
<1>1. /\ getting' = p /\ reply' = Ascending(S) /\ reply' # <<>> /\ single' \in BOOLEAN
      /\ UNCHANGED <<exchange, time, market, tickRows, lastTick, faults>>
      /\ passedOver' = passedOver \cup
           {<<p, t>> : t \in {t \in market[p] : lastTick[p] <= t /\ t < Min(Sent(p))}}
  BY DEF Request, toTicks
<1>2. /\ market[p] \subseteq 0..time /\ lastTick[p] \in 0..time /\ time \in Nat
      /\ Sent(p) \subseteq market[p]
  BY TicksAssumption DEF TicksTypes, TicksAssumption, Sent
<1>3. S \in SUBSET Nat /\ S \subseteq market[p] /\ IsFiniteSet(S)
  <2>1. S \in SUBSET (0..time) /\ S \subseteq market[p]
    BY <1>2
  <2>2. IsFiniteSet(0..time)
    BY <1>2, FS_Interval
  <2> QED BY <1>2, <2>1, <2>2, FS_Subset
<1>4. PICK n \in Nat : n = Cardinality(S)
  BY <1>3, FS_CardinalityType
<1>5. /\ reply' \in Seq(S) /\ Len(reply') = n
      /\ \A x \in S : \E k \in 1..n : reply'[k] = x
      /\ \A i, j \in 1..n : i < j => reply'[i] < reply'[j]
      /\ \A i \in 1..n : reply'[i] \in S
  <2>1. S \in SUBSET Int
    BY <1>3
  <2> HIDE DEF S
  <2> QED BY <1>1, <1>3, <1>4, <2>1, AscendingSeq
<1>6. Pairs' = Pairs /\ \A q, t : Kept(q, t) => Kept(q, t)'
  BY <1>1 DEF Pairs, Kept
<1>7. \A x \in S : x \in Sent(p) /\ x \in market[p] /\ lastTick[p] <= x
  BY <1>2
<1>8. TicksTypes'
  BY <1>1, <1>6 DEF TicksTypes
<1>9. ReplyInOrder'
  <2>1. reply' \in Seq(Nat)
    BY <1>3, <1>5
  <2>2. p # NoPair
    BY DEF Pairs, NoPair
  <2> HIDE DEF S
  <2> QED BY <1>1, <1>5, <1>7, <2>1, <2>2 DEF ReplyInOrder
<1>10. ReplyWhole'
  <2> SUFFICES ASSUME NEW i \in 1..n, NEW t \in market[p], lastTick[p] <= t, t < reply'[i]
               PROVE  Kept(p, t)' \/ \E j \in 1..n : reply'[j] = t
    BY <1>1, <1>5 DEF ReplyWhole
  <2>1. reply'[i] \in Sent(p)
    BY <1>5, <1>7
  <2>2. t \in Sent(p) \/ t < Min(Sent(p))
    BY <2>1, SentOfMarket
  <2>3. CASE t \in Sent(p)
    BY <1>2, <1>5, <2>3
  <2>4. CASE t < Min(Sent(p))
    BY <1>1, <2>4 DEF Kept
  <2> QED BY <2>2, <2>3, <2>4
<1>11. BehindWhole' /\ AheadWhole'
  BY <1>1, <1>6 DEF BehindWhole, AheadWhole
<1> QED BY <1>8, <1>9, <1>10, <1>11

LEMMA StoreTickInv ==
  ASSUME TicksInv, StoreTick
  PROVE  TicksInv'
<1> USE DEF TicksInv
<1>0. PICK g, x, n : g = getting /\ x = reply[1] /\ n = Len(reply)
  OBVIOUS
<1>1. /\ reply # <<>> /\ reply' = Tail(reply)
      /\ tickRows' = [tickRows EXCEPT ![g] = @ \cup {x}]
      /\ UNCHANGED <<exchange, time, market, single, faults, passedOver>>
  BY <1>0 DEF StoreTick, ReplyInOrder
<1>2. /\ n \in Nat \ {0} /\ g \in Pairs /\ x \in market[g] /\ lastTick[g] <= x
      /\ \A i \in 2..n : x < reply[i]
  BY <1>0, <1>1 DEF ReplyInOrder, TicksTypes
<1>3. /\ reply' \in Seq(Nat) /\ Len(reply') = n - 1
      /\ \A i \in 1..(n - 1) : reply'[i] = reply[i + 1]
  BY <1>0, <1>1, <1>2 DEF ReplyInOrder
<1>4. /\ \A p \in Pairs : tickRows'[p] = IF p = g THEN tickRows[g] \cup {x} ELSE tickRows[p]
      /\ tickRows' \in [Pairs -> SUBSET (0..time)] /\ x \in 0..time
      /\ \A p \in Pairs : tickRows'[p] \subseteq market[p]
  <2>1. x \in 0..time
    BY <1>2 DEF TicksTypes
  <2>2. \A p \in Pairs : tickRows'[p] = IF p = g THEN tickRows[g] \cup {x} ELSE tickRows[p]
    BY <1>1 DEF TicksTypes
  <2>3. tickRows' \in [Pairs -> SUBSET (0..time)]
    BY <1>1, <1>2, <2>1 DEF TicksTypes
  <2> QED BY <1>2, <2>1, <2>2, <2>3 DEF TicksTypes
<1>5. Pairs' = Pairs /\ \A p \in Pairs : \A t : Kept(p, t) => Kept(p, t)'
  BY <1>1, <1>4 DEF Pairs, Kept
<1>6. Kept(g, x)'
  BY <1>2, <1>4 DEF Kept
<1>7. \A t \in market[g] : lastTick[g] <= t /\ t < x => Kept(g, t)
  <2> SUFFICES ASSUME NEW t \in market[g], lastTick[g] <= t, t < x PROVE Kept(g, t)
    OBVIOUS
  <2>1. t \in Int /\ x \in Int /\ \A j \in 1..n : reply[j] \in Int
    BY <1>0, <1>2 DEF TicksTypes, ReplyInOrder
  <2>2. \A j \in 1..n : reply[j] # t
    BY <1>0, <1>2, <2>1
  <2> QED BY <1>0, <1>2, <2>2 DEF ReplyWhole
<1>8. \A p \in Pairs : \A t \in market[p] : t \in Nat /\ lastTick[p] \in Nat
  BY DEF TicksTypes
<1>9. CASE n > 1
  <2>1. UNCHANGED <<lastTick, getting>>
    BY <1>0, <1>9 DEF StoreTick
  <2>2. TicksTypes'
    BY <1>1, <1>4, <1>5, <2>1 DEF TicksTypes
  <2>3. ReplyInOrder'
    BY <1>0, <1>1, <1>2, <1>3, <2>1 DEF ReplyInOrder
  <2>4. ReplyWhole'
    <3> SUFFICES ASSUME NEW i \in 1..(n - 1), NEW t \in market[g], lastTick[g] <= t, t < reply[i + 1]
                 PROVE  Kept(g, t)' \/ \E j \in 1..(n - 1) : reply[j + 1] = t
      BY <1>0, <1>1, <1>3, <2>1 DEF ReplyWhole
    <3>1. i + 1 \in 1..n
      BY <1>2
    <3>2. Kept(g, t) \/ \E j \in 1..n : reply[j] = t
      BY <1>0, <3>1 DEF ReplyWhole
    <3>3. ASSUME NEW j \in 1..n, reply[j] = t PROVE Kept(g, t)' \/ \E k \in 1..(n - 1) : reply[k + 1] = t
      <4>1. CASE j = 1
        BY <1>0, <1>6, <3>3, <4>1
      <4>2. CASE j # 1
        <5>1. j - 1 \in 1..(n - 1) /\ reply[(j - 1) + 1] = t
          BY <1>2, <3>3, <4>2
        <5> QED BY <5>1
      <4> QED BY <4>1, <4>2
    <3> QED BY <1>2, <1>5, <3>2, <3>3
  <2>5. BehindWhole'
    <3> SUFFICES ASSUME NEW p \in Pairs, NEW t \in market[p], NEW a \in tickRows'[p],
                        a < t, t < lastTick[p]
                 PROVE  Kept(p, t)'
      BY <1>1, <1>5, <2>1 DEF BehindWhole
    <3>1. CASE a \in tickRows[p]
      BY <1>5, <3>1 DEF BehindWhole
    <3>2. CASE a \notin tickRows[p]
      <4>1. p = g /\ a = x
        BY <1>4, <3>2
      <4> QED BY <1>2, <1>4, <1>8, <4>1
    <3> QED BY <3>1, <3>2
  <2>6. AheadWhole'
    <3> SUFFICES ASSUME NEW p \in Pairs, NEW t \in market[p], NEW b \in tickRows'[p],
                        lastTick[p] <= t, t < b
                 PROVE  Kept(p, t)'
      BY <1>1, <1>5, <2>1 DEF AheadWhole
    <3>1. CASE b \in tickRows[p]
      BY <1>5, <3>1 DEF AheadWhole
    <3>2. CASE b \notin tickRows[p]
      <4>1. p = g /\ b = x
        BY <1>4, <3>2
      <4> QED BY <1>5, <1>7, <4>1
    <3> QED BY <3>1, <3>2
  <2> QED BY <2>2, <2>3, <2>4, <2>5, <2>6
<1>10. CASE n = 1
  <2>1. lastTick' = [lastTick EXCEPT ![g] = x] /\ getting' \in {g, NoPair}
    BY <1>0, <1>10 DEF StoreTick, ReplyInOrder
  <2>2. /\ \A p \in Pairs : lastTick'[p] = IF p = g THEN x ELSE lastTick[p]
        /\ lastTick' \in [Pairs -> 0..time]
    BY <1>4, <2>1 DEF TicksTypes
  <2>3. reply' = <<>> /\ Len(reply') = 0
    BY <1>3, <1>10
  <2>4. getting' \in Pairs \cup {NoPair}
    BY <1>2, <2>1
  <2>5. TicksTypes'
    BY <1>1, <1>4, <1>5, <2>2, <2>4 DEF TicksTypes
  <2>6. ReplyInOrder' /\ ReplyWhole'
    BY <1>3, <2>3 DEF ReplyInOrder, ReplyWhole
  <2>7. BehindWhole'
    <3> SUFFICES ASSUME NEW p \in Pairs, NEW t \in market[p], NEW a \in tickRows'[p],
                        a < t, t < lastTick'[p]
                 PROVE  Kept(p, t)'
      BY <1>1, <1>5 DEF BehindWhole
    <3>1. CASE p # g
      BY <1>4, <1>5, <2>2, <3>1 DEF BehindWhole
    <3>2. CASE p = g
      <4>1. a \in tickRows[g] /\ t < x
        BY <1>2, <1>4, <1>8, <2>2, <3>2
      <4>2. CASE t < lastTick[g]
        BY <1>2, <1>5, <3>2, <4>1, <4>2 DEF BehindWhole
      <4>3. CASE ~(t < lastTick[g])
        BY <1>2, <1>5, <1>7, <1>8, <3>2, <4>1, <4>3
      <4> QED BY <4>2, <4>3
    <3> QED BY <3>1, <3>2
  <2>8. AheadWhole'
    <3> SUFFICES ASSUME NEW p \in Pairs, NEW t \in market[p], NEW b \in tickRows'[p],
                        lastTick'[p] <= t, t < b
                 PROVE  Kept(p, t)'
      BY <1>1, <1>5 DEF AheadWhole
    <3>1. CASE p # g
      BY <1>4, <1>5, <2>2, <3>1 DEF AheadWhole
    <3>2. CASE p = g
      <4>1. x <= t /\ b \in tickRows[g] /\ x \in Nat /\ t \in Nat /\ lastTick[g] \in Nat
        BY <1>2, <1>4, <1>8, <2>2, <3>2
      <4>2. lastTick[g] <= t
        BY <1>2, <4>1
      <4> QED BY <1>2, <1>5, <3>2, <4>1, <4>2 DEF AheadWhole
    <3> QED BY <3>1, <3>2
  <2> QED BY <2>5, <2>6, <2>7, <2>8
<1> QED BY <1>2, <1>9, <1>10

LEMMA RestartTicksInv ==
  ASSUME TicksInv, RestartTicks
  PROVE  TicksInv'
<1> USE DEF TicksInv
<1> DEFINE T == UNION {tickRows[p] : p \in Pairs}
           r == RegisterExchange
<1>1. /\ lastTick' = [p \in Pairs |-> r] /\ getting' = NoPair /\ reply' = <<>> /\ faults' = faults + 1
      /\ UNCHANGED <<exchange, time, market, tickRows, single>>
      /\ passedOver' = passedOver \cup
           {pt \in Pairs \X (0..MaxNow) :
              /\ pt[2] < r /\ tickRows[pt[1]] # {} /\ pt[2] > Max(tickRows[pt[1]])}
  BY DEF RestartTicks
<1>2. /\ time \in 0..MaxNow /\ MaxNow \in Nat /\ time \in Nat
      /\ \A p \in Pairs : tickRows[p] \in SUBSET Nat /\ \A t \in tickRows[p] : t <= time
      /\ \A p \in Pairs : market[p] \subseteq 0..time
  BY TicksAssumption DEF TicksTypes, TicksAssumption
<1>3. T \in SUBSET Nat /\ \A t \in T : t <= time
  BY <1>2
<1>4. r = IF T = {} THEN Start(time) ELSE Max(T)
  BY DEF RegisterExchange
<1>5. r \in 0..time /\ (T # {} => \A t \in T : t <= r)
  <2> HIDE DEF T
  <2>1. CASE T = {}
    BY <1>2, <1>4, <2>1, StartPast
  <2>2. CASE T # {}
    <3>1. Max(T) \in T /\ \A t \in T : t <= Max(T)
      BY <1>2, <1>3, <2>2, MaxIn
    <3>2. r = Max(T)
      BY <1>4, <2>2
    <3>3. r \in Nat /\ r <= time
      BY <1>3, <3>1, <3>2
    <3> QED BY <1>2, <3>1, <3>2, <3>3
  <2> QED BY <2>1, <2>2
<1>6. Pairs' = Pairs /\ \A p, t : Kept(p, t) => Kept(p, t)'
  BY <1>1 DEF Pairs, Kept
<1> HIDE DEF r
<1>7. TicksTypes'
  <2>1. lastTick' \in [Pairs -> 0..time]
    BY <1>1, <1>5
  <2> QED BY <1>1, <1>6, <2>1 DEF TicksTypes
<1>8. ReplyInOrder' /\ ReplyWhole'
  <2>1. reply' \in Seq(Nat) /\ Len(reply') = 0
    BY <1>1
  <2> QED BY <1>1, <2>1 DEF ReplyInOrder, ReplyWhole
<1>9. BehindWhole'
  <2> SUFFICES ASSUME NEW p \in Pairs, NEW t \in market[p], NEW a \in tickRows[p], a < t, t < r
               PROVE  Kept(p, t)'
    BY <1>1, <1>6 DEF BehindWhole
  <2>1. t \in Nat /\ t \in 0..MaxNow
    BY <1>2
  <2>2. PICK m \in tickRows[p] : m = Max(tickRows[p]) /\ \A y \in tickRows[p] : y <= m
    BY <1>2, MaxIn
  <2>3. CASE t > m
    <3>1. <<p, t>> \in Pairs \X (0..MaxNow) /\ <<p, t>>[1] = p /\ <<p, t>>[2] = t
      BY <2>1
    <3>2. <<p, t>> \in {pt \in Pairs \X (0..MaxNow) :
              /\ pt[2] < r /\ tickRows[pt[1]] # {} /\ pt[2] > Max(tickRows[pt[1]])}
      BY <2>2, <2>3, <3>1
    <3> QED BY <1>1, <3>2 DEF Kept
  <2>4. CASE t = m
    BY <1>6, <2>4 DEF Kept
  <2>5. CASE t < m
    <3>1. lastTick[p] \in Int
      BY DEF TicksTypes
    <3>2. t < lastTick[p] \/ lastTick[p] <= t
      BY <2>1, <3>1
    <3> QED BY <1>6, <2>5, <3>2 DEF BehindWhole, AheadWhole
  <2>6. m \in Nat
    BY <1>2
  <2> QED BY <2>1, <2>3, <2>4, <2>5, <2>6
<1>10. AheadWhole'
  <2> SUFFICES ASSUME NEW p \in Pairs, NEW t \in market[p], NEW b \in tickRows[p], r <= t, t < b
               PROVE  FALSE
    BY <1>1, <1>6 DEF AheadWhole
  <2>1. b \in T
    OBVIOUS
  <2> QED BY <1>2, <1>5, <2>1
<1> QED BY <1>7, <1>8, <1>9, <1>10

LEMMA TicksNextInv == TicksInv /\ [TicksNext]_ticksVars => TicksInv'
<1> SUFFICES ASSUME TicksInv, [TicksNext]_ticksVars PROVE TicksInv'
  OBVIOUS
<1>1. CASE UNCHANGED ticksVars
  <2>1. Pairs' = Pairs /\ \A p, t : Kept(p, t)' <=> Kept(p, t)
    BY <1>1 DEF Pairs, Kept, ticksVars
  <2> QED BY <1>1, <2>1 DEF ticksVars, TicksInv, TicksTypes, ReplyInOrder, ReplyWhole,
                            BehindWhole, AheadWhole
<1>2. ASSUME NEW traded \in SUBSET Pairs, TimePasses(traded) PROVE TicksInv'
  BY <1>2, TimePassesInv
<1>3. ASSUME NEW p \in Pairs, Request(p) PROVE TicksInv'
  BY <1>3, RequestInv
<1>4. CASE RequestFails \/ InsertFails
  <2>1. /\ reply' = <<>> /\ getting' = NoPair /\ faults' \in Nat
        /\ UNCHANGED <<exchange, time, market, tickRows, lastTick, single, passedOver>>
    BY <1>4 DEF RequestFails, InsertFails, TicksInv, TicksTypes
  <2> QED BY <2>1, GivesUpRequest
<1>5. CASE StoreTick
  BY <1>5, StoreTickInv
<1>6. CASE RestartTicks
  BY <1>6, RestartTicksInv
<1> QED BY <1>1, <1>2, <1>3, <1>4, <1>5, <1>6 DEF TicksNext

LEMMA TicksInvTypeOK == TicksInv => TicksTypeOK
<1> SUFFICES ASSUME TicksInv PROVE TicksTypeOK
  OBVIOUS
<1> USE DEF TicksInv
<1>1. {time, faults} \subseteq Nat /\ lastTick \in [Pairs -> Nat]
  BY TicksAssumption DEF TicksTypes, TicksAssumption
<1>2. reply # <<>> => getting # NoPair /\ ToSet(reply) \subseteq market[getting]
  BY DEF ReplyInOrder, ToSet
<1> QED BY <1>1, <1>2 DEF TicksTypeOK, TicksTypes

LEMMA InvTicksHaveNoGap == TicksInv => TicksHaveNoGap
<1> SUFFICES ASSUME TicksInv, NEW p \in Pairs, NEW t \in market[p],
                    NEW a \in tickRows[p], NEW b \in tickRows[p], a < t, t < b
             PROVE  Kept(p, t)
  BY DEF TicksHaveNoGap, Kept
<1>1. t \in Int /\ lastTick[p] \in Int
  BY DEF TicksInv, TicksTypes
<1>2. t < lastTick[p] \/ lastTick[p] <= t
  BY <1>1
<1> QED BY <1>2 DEF TicksInv, BehindWhole, AheadWhole

\* The variables of the candlesticks have their types, for every exchange, interval and time.
THEOREM TicksTypeCorrect == TicksSpec => []TicksTypeOK
  BY TicksInitInv, TicksNextInv, TicksInvTypeOK, PTL DEF TicksSpec

\* Between two stored ticks of a pair none is missing that the exchange has and the collector
\* would still ask for, however inserts fail and the process is killed within a reply.
THEOREM NoTickLeftOut == TicksSpec => []TicksHaveNoGap
  BY TicksInitInv, TicksNextInv, InvTicksHaveNoGap, PTL DEF TicksSpec

-----------------------------------------------------------------------------
(* The rows of the collectors. *)

\* Whose rows a table has.
Whose ==
  IF recTable = "pow_data" THEN pools
  ELSE IF recTable = "vsp_tick" THEN Vsps
  ELSE IF recTable \in Community THEN Range(Accounts) ELSE {recTable}

\* Who is asked in a round.
Whom == IF recTable = "vsp_tick" THEN {recTable} ELSE Whose

IsRow(r) ==
  IF recTable = "mempool" THEN \E t \in 1..recNow : r = mempoolDtoToModel(t)
  ELSE \E who \in Whose, t \in 1..recNow : r = Row(recTable, who, t)

RecordTypes ==
  /\ recTable \in RecTables /\ pools \in PoolSets /\ recNow \in 1..LastRecTime
  /\ place \in {"idle", "round", "ended"} /\ failed \in BOOLEAN
  /\ turns \in Seq(Whom) /\ lastUpdate \in [pools -> 0..recNow] /\ vsps \subseteq Vsps
  /\ received \in Seq(offered) /\ records \subseteq offered /\ givenUp \subseteq offered
  /\ \A r \in offered : IsRow(r)

Of(r, pool) == recTable = "pow_data" /\ r.source = pool

\* Luxor's rows come in order: none that is stored is newer than one that is not, nor than
\* what it is asked from.
LuxorInOrder ==
  /\ \A r \in records : Of(r, "luxor") => r.time <= lastUpdate["luxor"]
  /\ \A i \in 1..Len(received) : Of(received[i], "luxor") =>
       /\ received[i].time <= lastUpdate["luxor"]
       /\ \A r \in records : Of(r, "luxor") => r.time <= received[i].time
       /\ \A j \in 1..Len(received) : i < j => received[i].time < received[j].time

\* Only what luxor has not stored is asked for again.
AllKept ==
  \A r \in offered :
    \/ r \in records \cup Range(received) \cup givenUp
    \/ Of(r, "luxor") /\ r.time >= lastUpdate["luxor"]

\* No two community rows share their date: each is taken after the one before.
DatesDiffer ==
  recTable \in Community => \A r, s \in offered : r.date = s.date => r = s

\* The mempool and an account are a single row each.
SingleRow == recTable \in {"mempool"} \cup Community => Len(received) <= 1

RecordsInv == RecordTypes /\ LuxorInOrder /\ AllKept /\ DatesDiffer /\ SingleRow

LEMMA Columns ==
  /\ Uniques("pow_data") = {{"time", "source"}} /\ Uniques("mempool") = {{"time"}}
  /\ \A t \in Community : Uniques(t) = {{"date"}}
  /\ \A k \in Uniques("vsp_tick") :
       "id" \in k \cap createTableScripts["vsp_tick"].defaults \/ {"vsp_id", "time"} \subseteq k
<1>1. /\ createTableScripts["pow_data"].key = {"time", "source"}
      /\ createTableScripts["mempool"].key = {"time"}
      /\ createTableScripts["reddit"].key = {"date"} /\ createTableScripts["twitter"].key = {"date"}
      /\ createTableScripts["github"].key = {"date"} /\ createTableScripts["youtube"].key = {"date"}
      /\ createTableScripts["vsp_tick"].key = {"id"}
      /\ createTableScripts["vsp_tick"].defaults = {"id"}
  BY DEF createTableScripts, createPowDataTable, createMempoolTable, createRedditTable,
         createTwitterTable, createGithubTable, createYoutubeTable, createVSPTickTable, Table
<1>2. {"pow_data", "mempool", "reddit", "twitter", "github", "youtube", "vsp_tick"} \subseteq
        DOMAIN createTableScripts
  BY DEF createTableScripts
<1>3. /\ createIndexScripts["pow_data"] = {} /\ createIndexScripts["mempool"] = {}
      /\ createIndexScripts["reddit"] = {} /\ createIndexScripts["twitter"] = {}
      /\ createIndexScripts["github"] = {} /\ createIndexScripts["youtube"] = {}
      /\ createIndexScripts["vsp_tick"] = {createVSPTickIndex}
  BY <1>2 DEF createIndexScripts
<1>4. {"vsp_id", "time"} \subseteq createVSPTickIndex
  BY DEF createVSPTickIndex
<1>5. Uniques("pow_data") = {{"time", "source"}} /\ Uniques("mempool") = {{"time"}}
  BY <1>1, <1>3 DEF Uniques
<1>6. \A t \in Community : Uniques(t) = {{"date"}}
  <2>1. \A t \in Community : createTableScripts[t].key = {"date"} /\ createIndexScripts[t] = {}
    BY <1>1, <1>3, Zenon DEF Community
  <2>2. \A t \in Community : Uniques(t) = {{"date"}} \cup {}
    BY <2>1, Zenon DEF Uniques
  <2> QED BY <2>2
<1>7. Uniques("vsp_tick") = {{"id"}} \cup {createVSPTickIndex}
  BY <1>1, <1>3, Zenon DEF Uniques
<1> QED BY <1>1, <1>4, <1>5, <1>6, <1>7

\* What a row says.
LEMMA RowColumns ==
  /\ \A w, t : LET r == Row("pow_data", w, t)
               IN  DOMAIN r = {"time", "source"} /\ r.time = t /\ r.source = w
  /\ \A w, t : LET r == Row("vsp_tick", w, t)
               IN  DOMAIN r = {"time", "vsp_id"} /\ r.time = t /\ r.vsp_id = w
  /\ \A c \in Community : \A w, t : LET r == Row(c, w, t)
               IN  "date" \in DOMAIN r /\ r.date = t
  /\ \A t : DOMAIN mempoolDtoToModel(t) = {"time"} /\ mempoolDtoToModel(t).time = t
  BY DEF Row, WhenColumn, WhoColumn, Community, mempoolDtoToModel

LEMMA PowRow ==
  ASSUME RecordTypes, recTable = "pow_data", NEW r \in offered
  PROVE  /\ r.source \in pools /\ r.time \in 1..recNow /\ r = Row("pow_data", r.source, r.time)
         /\ DOMAIN r = {"time", "source"}
<1>1. PICK w \in pools, t \in 1..recNow : r = Row("pow_data", w, t)
  BY DEF RecordTypes, IsRow, Whose
<1> QED BY <1>1, RowColumns

\* A row that is refused is there already.
LEMMA TwinIsThere ==
  ASSUME RecordTypes, DatesDiffer, NEW r \in offered, Refused(recTable, records, r)
  PROVE  r \in records
<1>1. PICK s \in records : Clash(recTable, r, s)
  BY DEF Refused
<1>2. PICK k \in Uniques(recTable) :
        /\ k \cap createTableScripts[recTable].defaults \subseteq DOMAIN r
        /\ \A c \in k \cap DOMAIN r : r[c] = s[c]
  BY <1>1 DEF Clash
<1>3. s \in offered /\ IsRow(r) /\ IsRow(s)
  BY DEF RecordTypes
<1>4. CASE recTable = "pow_data"
  <2>1. /\ r = Row("pow_data", r.source, r.time) /\ s = Row("pow_data", s.source, s.time)
        /\ DOMAIN r = {"time", "source"}
    BY <1>3, <1>4, PowRow
  <2>2. r.time = s.time /\ r.source = s.source
    BY <1>2, <1>4, <2>1, Columns
  <2> QED BY <2>1, <2>2
<1>5. CASE recTable = "vsp_tick"
  <2>1. PICK w \in Vsps, t \in 1..recNow : r = Row("vsp_tick", w, t)
    BY <1>3, <1>5 DEF IsRow, Whose
  <2>2. PICK x \in Vsps, u \in 1..recNow : s = Row("vsp_tick", x, u)
    BY <1>3, <1>5 DEF IsRow, Whose
  <2>3. DOMAIN r = {"time", "vsp_id"} /\ r.time = t /\ r.vsp_id = w /\ s.time = u /\ s.vsp_id = x
    BY <2>1, <2>2, RowColumns
  <2>4. "id" \notin k \cap createTableScripts["vsp_tick"].defaults
    BY <1>2, <1>5, <2>3
  <2>5. {"vsp_id", "time"} \subseteq k
    BY <1>2, <1>5, <2>3, <2>4, Columns
  <2> QED BY <1>2, <2>1, <2>2, <2>3, <2>5
<1>6. CASE recTable = "mempool"
  <2>1. PICK t : r = mempoolDtoToModel(t)
    BY <1>3, <1>6 DEF IsRow
  <2>2. PICK u : s = mempoolDtoToModel(u)
    BY <1>3, <1>6 DEF IsRow
  <2> QED BY <1>2, <1>6, <2>1, <2>2, Columns, RowColumns
<1>7. CASE recTable \in Community
  <2>1. PICK w, t : r = Row(recTable, w, t)
    BY <1>3, <1>7 DEF IsRow, Community
  <2> QED BY <1>2, <1>3, <1>7, <2>1, Columns, RowColumns DEF DatesDiffer
<1>8. recTable \in {"pow_data", "vsp_tick", "mempool"} \cup Community
  BY RecordsAssumption DEF RecordsAssumption, RecordTypes
<1> QED BY <1>4, <1>5, <1>6, <1>7, <1>8

LEMMA NewsPast ==
  ASSUME RecordTypes, NEW pool \in pools, recTable = "pow_data"
  PROVE  /\ LastPowEntryTime(pool) \in 0..recNow
         /\ \A r \in records : r.source = pool => r.time <= LastPowEntryTime(pool)
         /\ \A n \in Nat : (\A r \in records : r.source = pool => r.time <= n) => LastPowEntryTime(pool) <= n
<1> DEFINE S == {0} \cup {r.time : r \in {x \in records : x.source = pool}}
<1>1. recNow \in Nat /\ \A r \in records : r.time \in 1..recNow
  BY PowRow, RecordsAssumption DEF RecordTypes, RecordsAssumption
<1>2. S \in SUBSET Nat /\ S # {} /\ \A x \in S : x <= recNow
  BY <1>1
<1>3. Max(S) \in S /\ \A x \in S : x <= Max(S)
  <2> HIDE DEF S
  <2> QED BY <1>1, <1>2, MaxIn
<1>4. LastPowEntryTime(pool) = Max(S)
  BY DEF LastPowEntryTime
<1>5. \A n \in Nat : (\A r \in records : r.source = pool => r.time <= n) => \A x \in S : x <= n
  BY <1>1
<1>6. \A r \in records : r.source = pool => r.time \in S
  OBVIOUS
<1>7. Max(S) \in 0..recNow
  <2> HIDE DEF S
  <2>1. Max(S) \in Nat /\ Max(S) <= recNow
    BY <1>2, <1>3
  <2> QED BY <1>1, <2>1
<1> HIDE DEF S
<1> QED BY <1>3, <1>4, <1>5, <1>6, <1>7

LEMMA RecordsInitInv == RecordsInit => RecordsInv
<1> SUFFICES ASSUME RecordsInit PROVE RecordsInv
  OBVIOUS
<1>1. /\ recNow = 1 /\ 1 \in 1..LastRecTime /\ offered = {} /\ records = {} /\ received = <<>>
      /\ Len(received) = 0 /\ received \in Seq(offered) /\ turns \in Seq(Whom) /\ givenUp = {}
      /\ vsps = {}
  BY RecordsAssumption DEF RecordsInit, RecordsAssumption
<1>2. lastUpdate \in [pools -> 0..recNow]
  <2>1. lastUpdate = [p \in pools |-> 0]
    BY DEF RecordsInit
  <2> QED BY <1>1, <2>1
<1>3. RecordTypes
  BY <1>1, <1>2 DEF RecordsInit, RecordTypes
<1> QED BY <1>1, <1>3 DEF RecordsInv, LuxorInOrder, AllKept, DatesDiffer, SingleRow

\* Time goes by, or the sources to ask change.
LEMMA OnlyTimeAndTurns ==
  ASSUME RecordsInv, recNow' \in recNow..LastRecTime, turns' \in Seq(Whom),
         place' \in {"idle", "round", "ended"}, failed' \in BOOLEAN, vsps' \subseteq Vsps,
         UNCHANGED <<recFixed, records, received, lastUpdate, offered, givenUp>>
  PROVE  RecordsInv'
<1> USE DEF RecordsInv
<1>1. recNow \in Nat /\ recNow' \in 1..LastRecTime /\ 1..recNow \subseteq 1..recNow' /\ 0..recNow \subseteq 0..recNow'
  BY RecordsAssumption DEF RecordsAssumption, RecordTypes
<1>2. /\ UNCHANGED <<recTable, pools, Whose, Whom, Range(received)>>
      /\ \A r, p : Of(r, p)' <=> Of(r, p)
  BY DEF recFixed, Whose, Whom, Of
<1>3. \A r : IsRow(r) => IsRow(r)'
  BY <1>1, <1>2 DEF IsRow
<1>4. lastUpdate' \in [pools -> 0..recNow']
  BY <1>1 DEF RecordTypes
<1>5. RecordTypes'
  BY <1>1, <1>2, <1>3, <1>4 DEF RecordTypes
<1>6. LuxorInOrder' /\ AllKept' /\ DatesDiffer' /\ SingleRow'
  BY <1>2 DEF LuxorInOrder, AllKept, DatesDiffer, SingleRow
<1> QED BY <1>5, <1>6

\* A reply brings rows.
LEMMA ReplyTypes ==
  ASSUME RecordTypes, turns # <<>>, NEW rep, NEW R, rep \in Seq(R), Replied(rep),
         \A r \in R : IsRow(r)', recNow' \in recNow..LastRecTime, lastUpdate' \in [pools -> 0..recNow']
  PROVE  RecordTypes'
<1>1. recNow \in Nat /\ recNow' \in 1..LastRecTime /\ 1..recNow \subseteq 1..recNow'
  BY RecordsAssumption DEF RecordsAssumption, RecordTypes
<1>2. /\ received' = rep /\ offered' = offered \cup Range(rep) /\ turns' = Tail(turns)
      /\ UNCHANGED <<recTable, pools, records, vsps, place, failed, givenUp, Whose, Whom>>
  BY DEF Replied, recFixed, Whose, Whom
<1>3. \A r : IsRow(r) => IsRow(r)'
  BY <1>1, <1>2 DEF IsRow
<1>4. Range(rep) \subseteq R /\ rep \in Seq(Range(rep))
  <2>1. \A i \in 1..Len(rep) : rep[i] \in R /\ rep[i] \in Range(rep)
    BY DEF Range
  <2>2. Range(rep) \subseteq R
    BY <2>1 DEF Range
  <2> QED BY <2>1, <2>2
<1>5. received' \in Seq(offered')
  BY <1>2, <1>4
<1>6. turns' \in Seq(Whom)
  BY <1>2 DEF RecordTypes
<1> QED BY <1>1, <1>2, <1>3, <1>4, <1>5, <1>6 DEF RecordTypes

\* Nor does it disturb luxor's unless it is from there.
LEMMA OtherReply ==
  ASSUME RecordsInv, received = <<>>, NEW rep, Replied(rep), RecordTypes',
         \A r \in Range(rep) : ~Of(r, "luxor"),
         recTable = "pow_data" => \E p \in pools \ {"luxor"}, t \in Nat : lastUpdate' = [lastUpdate EXCEPT ![p] = t]
  PROVE  LuxorInOrder' /\ AllKept'
<1> USE DEF RecordsInv
<1>1. /\ received' = rep /\ offered' = offered \cup Range(rep)
      /\ UNCHANGED <<recTable, pools, records, givenUp>>
      /\ \A r, p : Of(r, p)' <=> Of(r, p)
  BY DEF Replied, recFixed, Of
<1>2. \A r \in offered : Of(r, "luxor") => lastUpdate'["luxor"] = lastUpdate["luxor"]
  <2> SUFFICES ASSUME NEW r \in offered, recTable = "pow_data", r.source = "luxor"
               PROVE  lastUpdate'["luxor"] = lastUpdate["luxor"]
    BY DEF Of
  <2>1. "luxor" \in pools
    BY PowRow
  <2> QED BY <2>1 DEF RecordTypes
<1>3. \A i \in 1..Len(rep) : rep[i] \in Range(rep)
  <2>1. rep \in Seq(offered')
    BY <1>1 DEF RecordTypes
  <2> QED BY <2>1 DEF Range
<1>4. records \subseteq offered
  BY DEF RecordTypes
<1>5. LuxorInOrder'
  BY <1>1, <1>2, <1>3, <1>4 DEF LuxorInOrder
<1>6. \A r : r \notin Range(received)
  BY DEF Range
<1>7. AllKept'
  BY <1>1, <1>2, <1>6 DEF AllKept
<1> QED BY <1>5, <1>7

LEMMA HistoryAsked ==
  ASSUME RecordsInv, NEW pool, NEW orders, CollectHistory(pool, orders)
  PROVE  /\ recTable = "pow_data" /\ received = <<>> /\ turns # <<>> /\ pool \in pools
         /\ UNCHANGED recNow /\ recNow \in Nat \ {0} /\ recNow \in recNow..LastRecTime
         /\ lastUpdate[pool] \in 0..recNow
         /\ fetch(pool) \in SUBSET (1..recNow) /\ recNow \in fetch(pool) /\ IsFiniteSet(fetch(pool))
         /\ Cardinality(fetch(pool)) \in Nat \ {0}
<1>1. /\ recTable = "pow_data" /\ received = <<>> /\ turns # <<>> /\ Head(turns) = pool /\ UNCHANGED recNow
  BY DEF CollectHistory, Asks
<1>2. pool \in pools
  <2>1. Whom = pools
    BY <1>1 DEF Whom, Whose
  <2> QED BY <1>1, <2>1 DEF RecordsInv, RecordTypes
<1>3. recNow \in Nat \ {0} /\ recNow \in recNow..LastRecTime /\ lastUpdate[pool] \in 0..recNow
  BY <1>2, RecordsAssumption DEF RecordsInv, RecordTypes, RecordsAssumption
<1>4. fetch(pool) \in SUBSET (1..recNow) /\ recNow \in fetch(pool)
  BY <1>3 DEF fetch
<1>5. IsFiniteSet(fetch(pool))
  <2>1. IsFiniteSet(1..recNow)
    BY <1>3, FS_Interval
  <2> QED BY <1>4, <2>1, FS_Subset
<1>6. Cardinality(fetch(pool)) \in Nat \ {0}
  BY <1>4, <1>5, FS_EmptySet, FS_CardinalityType
<1> QED BY <1>1, <1>2, <1>3, <1>4, <1>5, <1>6

RowsOf(pool, times) == [i \in DOMAIN times |-> responseToPowModel(pool, times[i])]

\* What a pool answers is rows of it.
LEMMA RowsSeq ==
  ASSUME NEW pool, NEW n \in Nat \ {0}, NEW S, NEW times \in [1..n -> S]
  PROVE  /\ Len(RowsOf(pool, times)) = n /\ RowsOf(pool, times) \in Seq(Range(RowsOf(pool, times)))
         /\ Last(times) = times[n] /\ Last(times) \in S
<1> PICK rep : rep = RowsOf(pool, times)
  OBVIOUS
<1>1. DOMAIN times = 1..n
  OBVIOUS
<1>2. Len(rep) = n /\ DOMAIN rep = 1..n /\ \A i \in 1..n : rep[i] = responseToPowModel(pool, times[i])
  BY <1>1 DEF RowsOf
<1>3. rep = [i \in 1..n |-> rep[i]]
  BY <1>1, <1>2 DEF RowsOf
<1>4. \A i \in 1..n : rep[i] \in Range(rep)
  BY <1>2 DEF Range
<1>5. rep \in Seq(Range(rep))
  <2> PICK R : R = Range(rep)
    OBVIOUS
  <2>1. rep \in [1..n -> R]
    BY <1>3, <1>4
  <2> QED BY <2>1
<1>7. Last(times) = times[n] /\ Last(times) \in S
  <2>1. Len(times) = n
    BY <1>1
  <2> QED BY <2>1 DEF Last
<1> QED BY <1>2, <1>5, <1>7

LEMMA PoolRow ==
  ASSUME NEW pool \in pools, recTable = "pow_data", UNCHANGED <<recTable, pools, recNow>>, NEW t \in 1..recNow
  PROVE  IsRow(responseToPowModel(pool, t))'
<1>1. Whose' = pools /\ recTable' = "pow_data"
  BY DEF Whose
<1> QED BY <1>1 DEF IsRow, responseToPowModel

LEMMA CollectLuxorInv ==
  ASSUME RecordsInv, CollectLuxor
  PROVE  RecordsInv'
<1> DEFINE S == fetch("luxor")
           n == Cardinality(S)
<1> USE DEF RecordsInv
<1>1. /\ recTable = "pow_data" /\ received = <<>> /\ turns # <<>> /\ "luxor" \in pools
      /\ UNCHANGED recNow /\ recNow \in Nat \ {0} /\ recNow \in recNow..LastRecTime
      /\ lastUpdate["luxor"] \in 0..recNow
      /\ S \in SUBSET (1..recNow) /\ recNow \in S /\ IsFiniteSet(S) /\ n \in Nat \ {0}
  BY HistoryAsked DEF CollectLuxor
<1>2. PICK times, rep :
        /\ times = Ascending(S) /\ lastUpdate' = [lastUpdate EXCEPT !["luxor"] = Last(times)]
        /\ rep = RowsOf("luxor", times) /\ Replied(rep)
  BY DEF CollectLuxor, CollectHistory, RowsOf
<1>3. /\ times \in [1..n -> S] /\ \A x \in S : \E k \in 1..n : times[k] = x
      /\ \A i, j \in 1..n : i < j => times[i] < times[j]
  <2>1. S \in SUBSET Int
    BY <1>1
  <2> HIDE DEF S
  <2> QED BY <1>1, <1>2, <2>1, AscendingSeq
<1>4. UNCHANGED <<recTable, pools, recNow>>
  BY <1>1, <1>2 DEF Replied, recFixed
<1>5. \A x \in S : x \in 1..recNow /\ lastUpdate["luxor"] <= x
  BY <1>1 DEF fetch
<1>6. \A x \in 1..recNow : lastUpdate["luxor"] <= x => x \in S
  BY <1>1 DEF fetch
<1> HIDE DEF n, S
<1>7. /\ Len(rep) = n /\ rep \in Seq(Range(rep)) /\ \A r \in Range(rep) : IsRow(r)'
      /\ \A i \in 1..n : rep[i] = responseToPowModel("luxor", times[i])
      /\ \A i \in 1..n : rep[i].source = "luxor" /\ rep[i].time = times[i]
      /\ Last(times) = times[n] /\ Last(times) \in S
  <2>1. /\ Len(rep) = n /\ rep \in Seq(Range(rep)) /\ Last(times) = times[n] /\ Last(times) \in S
        /\ \A i \in 1..n : rep[i] = responseToPowModel("luxor", times[i])
        /\ \A r \in Range(rep) : \E t \in S : r = responseToPowModel("luxor", t)
    <3>1. Len(RowsOf("luxor", times)) = n /\ RowsOf("luxor", times) \in Seq(Range(RowsOf("luxor", times)))
      BY <1>1, <1>3, RowsSeq
    <3>2. \A i \in 1..n : RowsOf("luxor", times)[i] = responseToPowModel("luxor", times[i])
      BY <1>1, <1>3 DEF RowsOf
    <3>3. \A r \in Range(RowsOf("luxor", times)) : \E t \in S : r = responseToPowModel("luxor", t)
      BY <1>1, <1>3 DEF RowsOf, Range
    <3>4. Last(times) = times[n] /\ Last(times) \in S
      BY <1>1, <1>3, RowsSeq
    <3> QED BY <1>2, <3>1, <3>2, <3>3, <3>4
  <2>2. \A t \in S : IsRow(responseToPowModel("luxor", t))'
    BY <1>1, <1>4, <1>5, PoolRow
  <2>3. \A i \in 1..n : rep[i].source = "luxor" /\ rep[i].time = times[i]
    BY <2>1, RowColumns DEF responseToPowModel
  <2> QED BY <2>1, <2>2, <2>3
<1>8. lastUpdate' \in [pools -> 0..recNow'] /\ lastUpdate'["luxor"] = times[n]
  <2>1. Last(times) \in 0..recNow
    <3>1. \A x \in S : x \in 0..recNow
      BY <1>1, <1>5
    <3> QED BY <1>7, <3>1
  <2> QED BY <1>1, <1>2, <1>4, <1>7, <2>1 DEF RecordTypes
<1>9. RecordTypes'
  <2>1. PICK R : R = Range(rep) /\ rep \in Seq(R) /\ \A r \in R : IsRow(r)'
    BY <1>7
  <2>2. RecordTypes
    OBVIOUS
  <2> QED BY <1>1, <1>2, <1>4, <1>8, <2>1, <2>2, ReplyTypes
<1>10. \A i \in 1..n : times[i] \in 1..recNow /\ lastUpdate["luxor"] <= times[i] /\ times[i] <= times[n]
  <2> SUFFICES ASSUME NEW i \in 1..n
               PROVE  times[i] \in 1..recNow /\ lastUpdate["luxor"] <= times[i] /\ times[i] <= times[n]
    OBVIOUS
  <2>1. times[i] \in S /\ times[n] \in S /\ times[i] \in Nat /\ times[n] \in Nat
    <3>1. n \in 1..n /\ \A j \in 1..n : times[j] \in S
      BY <1>1, <1>3
    <3> QED BY <1>5, <3>1
  <2>2. i < n \/ i = n
    BY <1>1
  <2>3. i < n => times[i] < times[n]
    BY <1>1, <1>3
  <2> QED BY <1>5, <2>1, <2>2, <2>3
<1>11. /\ received' = rep /\ UNCHANGED <<records, givenUp>> /\ offered' = offered \cup Range(rep)
       /\ \A r, p : Of(r, p)' <=> Of(r, p)
  BY <1>2, <1>4 DEF Replied, Of
<1>12. \A r \in offered : r.time \in 1..recNow
  BY <1>1, PowRow
<1>13. records \subseteq offered
  BY DEF RecordTypes
<1>14. LuxorInOrder'
  <2>1. \A r \in records : Of(r, "luxor") => r.time <= lastUpdate["luxor"]
    BY DEF LuxorInOrder
  <2>2. \A r \in records, i \in 1..n : Of(r, "luxor") => r.time <= times[i]
    BY <1>1, <1>10, <1>12, <1>13, <2>1
  <2>3. n \in 1..n
    BY <1>1
  <2>4. \A r \in records : Of(r, "luxor") => r.time <= lastUpdate'["luxor"]
    BY <1>8, <2>2, <2>3
  <2>5. \A i \in 1..n : /\ rep[i].time <= lastUpdate'["luxor"]
                        /\ \A r \in records : Of(r, "luxor") => r.time <= rep[i].time
                        /\ \A j \in 1..n : i < j => rep[i].time < rep[j].time
    BY <1>3, <1>7, <1>8, <1>10, <2>2
  <2> QED BY <1>7, <1>11, <2>4, <2>5 DEF LuxorInOrder
<1>15. AllKept'
  <2> SUFFICES ASSUME NEW r \in offered', r \notin records \cup givenUp, r \notin Range(rep) PROVE FALSE
    BY <1>11 DEF AllKept
  <2>1. r \in offered /\ r \notin Range(received)
    BY <1>1, <1>11 DEF Range
  <2>2. Of(r, "luxor") /\ r.time >= lastUpdate["luxor"]
    BY <2>1 DEF AllKept
  <2>3. r.time \in S /\ r = responseToPowModel("luxor", r.time)
    BY <1>1, <1>6, <2>1, <2>2, PowRow DEF Of, responseToPowModel
  <2>4. PICK k \in 1..n : times[k] = r.time
    BY <1>3, <2>3
  <2>5. rep[k] = r /\ k \in DOMAIN rep
    BY <1>7, <2>3, <2>4
  <2> QED BY <2>5 DEF Range
<1>16. DatesDiffer' /\ SingleRow'
  BY <1>1, <1>4 DEF DatesDiffer, SingleRow, Community
<1> QED BY <1>9, <1>14, <1>15, <1>16

LEMMA CollectOtherInv ==
  ASSUME RecordsInv, NEW pool \in pools \ {"luxor"}, recTable = "pow_data", received = <<>>, turns # <<>>,
         NEW n \in Nat \ {0}, NEW S \in SUBSET (1..recNow), NEW times \in [1..n -> S],
         lastUpdate' = [lastUpdate EXCEPT ![pool] = Last(times)], UNCHANGED recNow,
         NEW rep, rep = RowsOf(pool, times), Replied(rep)
  PROVE  RecordsInv'
<1> USE DEF RecordsInv
<1>1. UNCHANGED <<recTable, pools, recNow>>
  BY DEF Replied, recFixed
<1>2. /\ Len(rep) = n /\ rep \in Seq(Range(rep)) /\ \A r \in Range(rep) : IsRow(r)' /\ ~Of(r, "luxor")
      /\ Last(times) \in S
  <2>1. /\ Len(rep) = n /\ rep \in Seq(Range(rep)) /\ Last(times) \in S
        /\ \A r \in Range(rep) : \E t \in S : r = responseToPowModel(pool, t)
    <3>1. Len(RowsOf(pool, times)) = n /\ RowsOf(pool, times) \in Seq(Range(RowsOf(pool, times)))
      BY RowsSeq
    <3>2. \A i \in 1..n : RowsOf(pool, times)[i] = responseToPowModel(pool, times[i])
      BY DEF RowsOf
    <3>3. \A r \in Range(RowsOf(pool, times)) : \E t \in S : r = responseToPowModel(pool, t)
      BY DEF RowsOf, Range
    <3>4. Last(times) = times[n] /\ Last(times) \in S
      BY RowsSeq
    <3> QED BY <3>1, <3>2, <3>3, <3>4
  <2>2. \A t \in S : IsRow(responseToPowModel(pool, t))'
    BY <1>1, PoolRow
  <2>3. \A t \in S : ~Of(responseToPowModel(pool, t), "luxor")
    BY RowColumns DEF responseToPowModel, Of
  <2> QED BY <2>1, <2>2, <2>3
<1>3. recNow \in Nat /\ recNow' \in recNow..LastRecTime
  BY <1>1, RecordsAssumption DEF RecordTypes, RecordsAssumption
<1>4. Last(times) \in 0..recNow
  <2>1. \A x \in S : x \in 0..recNow
    BY <1>3
  <2> QED BY <1>2, <2>1
<1>5. lastUpdate' \in [pools -> 0..recNow']
  BY <1>1, <1>4 DEF RecordTypes
<1>6. RecordTypes'
  <2>1. PICK R : R = Range(rep) /\ rep \in Seq(R) /\ \A r \in R : IsRow(r)'
    BY <1>2
  <2>2. RecordTypes
    OBVIOUS
  <2> QED BY <1>3, <1>5, <2>1, <2>2, ReplyTypes
<1>8. LuxorInOrder' /\ AllKept'
  <2>1. Last(times) \in Nat
    BY <1>3, <1>4
  <2> QED BY <1>2, <1>6, <2>1, OtherReply
<1>9. DatesDiffer' /\ SingleRow'
  BY <1>1 DEF DatesDiffer, SingleRow, Community
<1> QED BY <1>6, <1>8, <1>9

LEMMA CollectPoolsInv ==
  ASSUME RecordsInv, CollectCoinmine \/ CollectF2pool \/ CollectUupool
  PROVE  RecordsInv'
<1>1. ASSUME CollectF2pool PROVE RecordsInv'
  <2> DEFINE S == fetch("f2pool")
             n == Cardinality(S)
  <2>1. /\ recTable = "pow_data" /\ received = <<>> /\ turns # <<>> /\ "f2pool" \in pools \ {"luxor"}
        /\ UNCHANGED recNow /\ S \in SUBSET (1..recNow) /\ n \in Nat \ {0}
    BY <1>1, HistoryAsked DEF CollectF2pool
  <2>2. PICK times, rep :
          /\ times \in OrdersOf(S) /\ lastUpdate' = [lastUpdate EXCEPT !["f2pool"] = Last(times)]
          /\ rep = RowsOf("f2pool", times) /\ Replied(rep)
    BY <1>1 DEF CollectF2pool, CollectHistory, RowsOf
  <2>3. times \in [1..n -> S]
    BY <2>2 DEF OrdersOf
  <2> HIDE DEF S, n
  <2> QED BY <2>1, <2>2, <2>3, CollectOtherInv
<1>2. ASSUME NEW pool \in {"coinmine", "uupool"}, CollectNumber(pool) PROVE RecordsInv'
  <2>1. /\ recTable = "pow_data" /\ received = <<>> /\ turns # <<>> /\ Head(turns) = pool /\ UNCHANGED recNow
        /\ lastUpdate' = [lastUpdate EXCEPT ![pool] = recNow]
    BY <1>2 DEF CollectNumber, Asks
  <2>2. pool \in pools \ {"luxor"}
    <3>1. Whom = pools
      BY <2>1 DEF Whom, Whose
    <3> QED BY <2>1, <3>1 DEF RecordsInv, RecordTypes
  <2>3. PICK times : times = <<recNow>>
    OBVIOUS
  <2>4. /\ times \in [1..1 -> {recNow}] /\ Last(times) = recNow /\ {recNow} \in SUBSET (1..recNow)
    BY <2>3, RecordsAssumption DEF Last, RecordsInv, RecordTypes, RecordsAssumption
  <2>5. PICK rep : rep = RowsOf(pool, times)
    OBVIOUS
  <2>6. rep = <<responseToPowModel(pool, recNow)>>
    BY <2>3, <2>4, <2>5 DEF RowsOf
  <2>7. Replied(rep)
    BY <1>2, <2>6 DEF CollectNumber
  <2>8. lastUpdate' = [lastUpdate EXCEPT ![pool] = Last(times)]
    BY <2>1, <2>4
  <2>9. PICK S : S = {recNow}
    OBVIOUS
  <2>10. S \in SUBSET (1..recNow) /\ times \in [1..1 -> S] /\ 1 \in Nat \ {0}
    BY <2>4, <2>9
  <2> QED BY <2>1, <2>2, <2>5, <2>7, <2>8, <2>10, CollectOtherInv
<1> QED BY <1>1, <1>2 DEF CollectCoinmine, CollectUupool

LEMMA CollectVspsInv ==
  ASSUME RecordsInv, CollectVsps
  PROVE  RecordsInv'
<1> USE DEF RecordsInv
<1>1. recTable = "vsp_tick" /\ received = <<>> /\ turns # <<>> /\ UNCHANGED <<recNow, lastUpdate>>
  BY DEF CollectVsps, Asks
<1>2. PICK order, times, rep :
        /\ order \in OrdersOf(Vsps) /\ times \in [Vsps -> 1..recNow] /\ Replied(rep)
        /\ rep = [i \in DOMAIN order |-> responseToVSPTick(order[i], times[order[i]])]
  BY DEF CollectVsps
<1>3. PICK n \in Nat : n = Cardinality(Vsps)
  BY RecordsAssumption, FS_CardinalityType DEF RecordsAssumption
<1>4. order \in [1..n -> Vsps] /\ DOMAIN rep = 1..n
  BY <1>2, <1>3 DEF OrdersOf
<1>5. UNCHANGED <<recTable, pools, recNow>> /\ recNow' \in recNow..LastRecTime
  BY <1>1, <1>2, RecordsAssumption DEF Replied, recFixed, RecordTypes, RecordsAssumption
<1>6. \A w \in Vsps, t \in 1..recNow : IsRow(responseToVSPTick(w, t))'
  <2>1. Whose' = Vsps /\ recTable' = "vsp_tick"
    BY <1>1, <1>5 DEF Whose
  <2> QED BY <1>5, <2>1 DEF IsRow, responseToVSPTick
<1>7. PICK R : R = {r \in Range(rep) : IsRow(r)'}
  OBVIOUS
<1>8. \A i \in 1..n : rep[i] \in R
  <2> SUFFICES ASSUME NEW i \in 1..n PROVE rep[i] \in R
    OBVIOUS
  <2>1. order[i] \in Vsps /\ times[order[i]] \in 1..recNow /\ rep[i] = responseToVSPTick(order[i], times[order[i]])
    BY <1>2, <1>4
  <2>2. IsRow(rep[i])' /\ rep[i] \in Range(rep)
    BY <1>4, <1>6, <2>1 DEF Range
  <2> QED BY <1>7, <2>2
<1>9. rep \in Seq(R) /\ \A r \in R : IsRow(r)'
  <2>1. rep = [i \in 1..n |-> rep[i]]
    BY <1>2, <1>4
  <2>2. rep \in [1..n -> R]
    BY <1>8, <2>1
  <2> QED BY <1>7, <2>2
<1>10. lastUpdate' \in [pools -> 0..recNow']
  BY <1>1 DEF RecordTypes
<1>11. RecordTypes'
  <2>1. RecordTypes
    OBVIOUS
  <2> QED BY <1>1, <1>2, <1>5, <1>9, <1>10, <2>1, ReplyTypes
<1>12. LuxorInOrder' /\ AllKept'
  <2>1. \A r \in Range(rep) : ~Of(r, "luxor")
    BY <1>1 DEF Of
  <2> QED BY <1>1, <1>2, <1>11, <2>1, OtherReply
<1>13. DatesDiffer' /\ SingleRow'
  BY <1>1, <1>5 DEF DatesDiffer, SingleRow, Community
<1> QED BY <1>11, <1>12, <1>13

LEMMA CollectMempoolInv ==
  ASSUME RecordsInv, CollectMempool
  PROVE  RecordsInv'
<1> USE DEF RecordsInv
<1>1. recTable = "mempool" /\ received = <<>> /\ turns # <<>> /\ UNCHANGED <<recNow, lastUpdate>>
  BY DEF CollectMempool, Asks
<1>2. PICK rep : Replied(rep) /\ (rep = <<>> \/ rep = <<mempoolDtoToModel(recNow)>>)
  BY DEF CollectMempool
<1>3. UNCHANGED <<recTable, pools, recNow>> /\ recNow' \in recNow..LastRecTime /\ recNow \in 1..recNow
  BY <1>1, <1>2, RecordsAssumption DEF Replied, recFixed, RecordTypes, RecordsAssumption
<1>4. PICK x, R : x = mempoolDtoToModel(recNow) /\ R = {x}
  OBVIOUS
<1>5. IsRow(x)'
  BY <1>1, <1>3, <1>4 DEF IsRow
<1>6. rep \in Seq(R) /\ Len(rep) <= 1 /\ \A r \in R : IsRow(r)'
  <2>1. \A r \in R : IsRow(r)'
    BY <1>4, <1>5
  <2>2. CASE rep = <<>>
    BY <2>1, <2>2
  <2>3. CASE rep = <<mempoolDtoToModel(recNow)>>
    <3>1. rep = <<x>> /\ x \in R
      BY <1>4, <2>3
    <3> QED BY <2>1, <3>1
  <2> QED BY <1>2, <2>2, <2>3
<1>7. lastUpdate' \in [pools -> 0..recNow']
  BY <1>1 DEF RecordTypes
<1>8. RecordTypes'
  <2>1. RecordTypes
    OBVIOUS
  <2> QED BY <1>1, <1>2, <1>3, <1>6, <1>7, <2>1, ReplyTypes
<1>9. LuxorInOrder' /\ AllKept'
  <2>1. \A r \in Range(rep) : ~Of(r, "luxor")
    BY <1>1 DEF Of
  <2> QED BY <1>1, <1>2, <1>8, <2>1, OtherReply
<1>10. DatesDiffer' /\ SingleRow'
  BY <1>1, <1>2, <1>3, <1>6 DEF DatesDiffer, SingleRow, Community, Replied
<1> QED BY <1>8, <1>9, <1>10

\* Each is newer than all before.
LEMMA CollectAccountInv ==
  ASSUME RecordsInv, NEW c \in Community, CollectAccount(c)
  PROVE  RecordsInv'
<1> USE DEF RecordsInv
<1>1. /\ recTable = c /\ received = <<>> /\ turns # <<>> /\ UNCHANGED lastUpdate
      /\ recNow < LastRecTime /\ recNow' = recNow + 1
  BY DEF CollectAccount, Asks
<1>2. PICK rep, who, m : m = recNow' /\ who = Head(turns) /\ rep = <<Row(c, who, m)>> /\ Replied(rep)
  BY DEF CollectAccount
<1>3. recTable \notin {"pow_data", "vsp_tick", "mempool"}
  BY <1>1 DEF Community
<1>4. /\ UNCHANGED <<recTable, pools>> /\ recNow \in Nat /\ LastRecTime \in Nat
      /\ recNow' \in recNow..LastRecTime /\ recNow' \in 1..recNow'
  BY <1>1, <1>2, RecordsAssumption DEF Replied, recFixed, RecordTypes, RecordsAssumption
<1>5. who \in Whose
  <2>1. Whom = Whose
    BY <1>3 DEF Whom
  <2> QED BY <1>1, <1>2, <2>1 DEF RecordTypes
<1>6. IsRow(Row(c, who, m))'
  <2>1. Whose' = Whose
    BY <1>4 DEF Whose
  <2>2. m \in 1..recNow' /\ recTable' = c
    BY <1>1, <1>2, <1>4
  <2> QED BY <1>1, <1>3, <1>5, <2>1, <2>2 DEF IsRow
<1>7. PICK x, R : x = Row(c, who, m) /\ R = {x}
  OBVIOUS
<1>8. rep \in Seq(R) /\ Len(rep) = 1 /\ Range(rep) = {x} /\ \A r \in R : IsRow(r)'
  <2>1. rep = <<x>> /\ DOMAIN rep = 1..1
    BY <1>2, <1>7
  <2>2. Range(rep) = {x}
    BY <2>1 DEF Range
  <2>3. \A r \in R : IsRow(r)'
    BY <1>6, <1>7
  <2>4. rep \in Seq(R) /\ Len(rep) = 1
    BY <1>7, <2>1
  <2> QED BY <2>2, <2>3, <2>4
<1>9. lastUpdate' \in [pools -> 0..recNow']
  <2>1. 0..recNow \subseteq 0..recNow'
    BY <1>1, <1>4
  <2> QED BY <1>1, <2>1 DEF RecordTypes
<1>10. RecordTypes'
  <2>1. RecordTypes
    OBVIOUS
  <2> QED BY <1>1, <1>2, <1>4, <1>8, <1>9, <2>1, ReplyTypes
<1>11. LuxorInOrder' /\ AllKept'
  <2>1. \A r \in Range(rep) : ~Of(r, "luxor")
    BY <1>3 DEF Of
  <2> QED BY <1>1, <1>2, <1>3, <1>10, <2>1, OtherReply
<1>12. DatesDiffer'
  <2>1. x.date = recNow'
    BY <1>2, <1>7, RowColumns
  <2>2. \A r \in offered : r.date \in 1..recNow
    <3> SUFFICES ASSUME NEW r \in offered PROVE r.date \in 1..recNow
      OBVIOUS
    <3>1. PICK w \in Whose, t \in 1..recNow : r = Row(c, w, t)
      BY <1>1, <1>3 DEF RecordTypes, IsRow
    <3> QED BY <3>1, RowColumns
  <2>3. offered' = offered \cup {x}
    BY <1>2, <1>8 DEF Replied
  <2>4. \A r \in offered : r.date # x.date
    BY <1>1, <1>4, <2>1, <2>2
  <2> QED BY <1>1, <2>3, <2>4 DEF DatesDiffer
<1>13. SingleRow'
  BY <1>2, <1>8 DEF SingleRow, Replied
<1> QED BY <1>10, <1>11, <1>12, <1>13

LEMMA CollectReplyInv == RecordsInv /\ CollectReply => RecordsInv'
<1> SUFFICES ASSUME RecordsInv, CollectReply PROVE RecordsInv'
  OBVIOUS
<1>1. CASE CollectLuxor
  BY <1>1, CollectLuxorInv
<1>2. CASE CollectCoinmine \/ CollectF2pool \/ CollectUupool
  BY <1>2, CollectPoolsInv
<1>3. CASE CollectVsps
  BY <1>3, CollectVspsInv
<1>4. CASE CollectMempool
  BY <1>4, CollectMempoolInv
<1>5. CASE getRedditStat \/ getTwitterStat \/ getGithubStat \/ getYoutubeStat
  BY <1>5, CollectAccountInv DEF getRedditStat, getTwitterStat, getGithubStat, getYoutubeStat, Community
<1> QED BY <1>1, <1>2, <1>3, <1>4, <1>5 DEF CollectReply

LEMMA StoreRecordInv ==
  ASSUME RecordsInv, StoreRecord
  PROVE  RecordsInv'
<1> USE DEF RecordsInv
<1>1. PICK r, n : r = Head(received) /\ n = Len(received)
  OBVIOUS
<1>2. /\ received # <<>> /\ records' = Inserted(recTable, records, r) /\ received' = Tail(received)
      /\ UNCHANGED <<recTable, pools, recNow, vsps, place, turns, failed, lastUpdate, offered, givenUp>>
      /\ UNCHANGED <<Whose, Whom>> /\ \A x, p : (Of(x, p)' <=> Of(x, p)) /\ (IsRow(x)' <=> IsRow(x))
  BY <1>1 DEF StoreRecord, recFixed, Of, IsRow, Whose, Whom
<1>3. /\ n \in Nat \ {0} /\ r = received[1] /\ r \in offered /\ received' \in Seq(offered) /\ Len(received') = n - 1
      /\ \A i \in 1..(n - 1) : received'[i] = received[i + 1] /\ i + 1 \in 1..n
      /\ \A i \in 1..n : received[i] \in offered
  BY <1>1, <1>2 DEF RecordTypes
<1>4. records' = records \cup {r}
  <2>1. Refused(recTable, records, r) => r \in records
    BY <1>3, TwinIsThere
  <2>2. records' = IF Refused(recTable, records, r) THEN records ELSE records \cup {r}
    BY <1>2 DEF Inserted
  <2> QED BY <2>1, <2>2
<1>5. RecordTypes'
  BY <1>2, <1>3, <1>4 DEF RecordTypes
<1>6. \A x \in offered : Of(x, "luxor") => x.time \in Nat /\ lastUpdate["luxor"] \in Int
  <2> SUFFICES ASSUME NEW x \in offered, Of(x, "luxor") PROVE x.time \in Nat /\ lastUpdate["luxor"] \in Int
    OBVIOUS
  <2>1. x.time \in 1..recNow /\ "luxor" \in pools
    BY PowRow DEF Of
  <2> QED BY <2>1 DEF RecordTypes
<1>7. LuxorInOrder'
  <2>1. \A x \in records' : Of(x, "luxor") => x.time <= lastUpdate["luxor"]
    BY <1>1, <1>3, <1>4 DEF LuxorInOrder
  <2>2. ASSUME NEW i \in 1..(n - 1), Of(received'[i], "luxor")
        PROVE  /\ received'[i].time <= lastUpdate["luxor"]
               /\ \A x \in records' : Of(x, "luxor") => x.time <= received'[i].time
               /\ \A j \in 1..(n - 1) : i < j => received'[i].time < received'[j].time
    <3>1. PICK k \in 1..n : k = i + 1
      BY <1>3
    <3>2. received'[i] = received[k] /\ Of(received[k], "luxor")
      BY <1>3, <2>2, <3>1
    <3>3. /\ received[k].time <= lastUpdate["luxor"]
          /\ \A x \in records : Of(x, "luxor") => x.time <= received[k].time
          /\ \A j \in 1..n : k < j => received[k].time < received[j].time
      BY <1>1, <3>2 DEF LuxorInOrder
    <3>4. Of(r, "luxor") => r.time < received[k].time
      <4>1. 1 \in 1..n /\ 1 < k
        BY <1>3, <3>1
      <4> QED BY <1>1, <1>3, <4>1 DEF LuxorInOrder
    <3>5. \A x \in records' : Of(x, "luxor") => x.time <= received[k].time
      BY <1>3, <1>4, <1>6, <3>2, <3>3, <3>4
    <3>6. \A j \in 1..(n - 1) : i < j => received[k].time < received'[j].time
      BY <1>3, <3>1, <3>3
    <3> QED BY <3>2, <3>3, <3>5, <3>6
  <2> QED BY <1>2, <1>3, <2>1, <2>2 DEF LuxorInOrder
<1>8. Range(received) \subseteq Range(received') \cup {r}
  <2> SUFFICES ASSUME NEW i \in 1..n PROVE received[i] \in Range(received') \cup {r}
    BY <1>1 DEF Range
  <2>1. CASE i = 1
    BY <1>3, <2>1
  <2>2. CASE i # 1
    <3>1. i - 1 \in 1..(n - 1) /\ received'[i - 1] = received[(i - 1) + 1] /\ (i - 1) + 1 = i
      BY <1>3, <2>2
    <3>2. i - 1 \in DOMAIN received'
      BY <1>3, <3>1
    <3> QED BY <3>1, <3>2 DEF Range
  <2> QED BY <2>1, <2>2
<1>9. AllKept'
  BY <1>2, <1>4, <1>8 DEF AllKept
<1>10. DatesDiffer' /\ SingleRow'
  BY <1>1, <1>2, <1>3 DEF DatesDiffer, SingleRow
<1> QED BY <1>5, <1>7, <1>9, <1>10

\* An error costs what is not kept, and leaves the rest of the reply or ends it.
LEMMA GivesUp ==
  ASSUME RecordsInv, UNCHANGED <<recFixed, recNow, records, vsps, lastUpdate, offered, place>>,
         received' \in {<<>>, Tail(received)}, received # <<>>, failed' \in BOOLEAN, turns' \in {turns, <<>>},
         givenUp' \subseteq offered, givenUp \subseteq givenUp',
         \A r \in Range(received) :
            r \in Range(received') \cup givenUp' \/ (Of(r, "luxor") /\ r.time >= lastUpdate["luxor"])
  PROVE  RecordsInv'
<1> USE DEF RecordsInv
<1>1. PICK n : n = Len(received)
  OBVIOUS
<1>2. /\ UNCHANGED <<recTable, pools, recNow, records, vsps, lastUpdate, offered, place>>
      /\ UNCHANGED <<Whose, Whom>> /\ \A x, p : (Of(x, p)' <=> Of(x, p)) /\ (IsRow(x)' <=> IsRow(x))
  BY DEF recFixed, Of, IsRow, Whose, Whom
<1>3. /\ n \in Nat \ {0} /\ received' \in Seq(offered) /\ Len(received') \in {0, n - 1}
      /\ \A i \in 1..Len(received') : received'[i] = received[i + 1] /\ i + 1 \in 1..n
  <2>1. n \in Nat \ {0} /\ received \in Seq(offered)
    BY <1>1 DEF RecordTypes
  <2>2. CASE received' = <<>>
    BY <2>1, <2>2
  <2>3. CASE received' = Tail(received)
    BY <1>1, <2>1, <2>3
  <2> QED BY <2>1, <2>2, <2>3
<1>4. turns' \in Seq(Whom)
  <2>1. turns \in Seq(Whom) /\ <<>> \in Seq(Whom)
    BY DEF RecordTypes
  <2> QED BY <2>1
<1>5. RecordTypes'
  BY <1>2, <1>3, <1>4 DEF RecordTypes
<1>6. LuxorInOrder'
  <2>1. ASSUME NEW i \in 1..Len(received'), Of(received'[i], "luxor")
        PROVE  /\ received'[i].time <= lastUpdate["luxor"]
               /\ \A x \in records : Of(x, "luxor") => x.time <= received'[i].time
               /\ \A j \in 1..Len(received') : i < j => received'[i].time < received'[j].time
    <3>1. PICK k \in 1..n : k = i + 1
      BY <1>3
    <3>2. received'[i] = received[k] /\ Of(received[k], "luxor")
      BY <1>3, <2>1, <3>1
    <3>3. /\ received[k].time <= lastUpdate["luxor"]
          /\ \A x \in records : Of(x, "luxor") => x.time <= received[k].time
          /\ \A j \in 1..n : k < j => received[k].time < received[j].time
      BY <1>1, <3>2 DEF LuxorInOrder
    <3>4. \A j \in 1..Len(received') : i < j => received[k].time < received'[j].time
      BY <1>3, <3>1, <3>3
    <3> QED BY <3>2, <3>3, <3>4
  <2> QED BY <1>2, <2>1 DEF LuxorInOrder
<1>7. AllKept'
  BY <1>2 DEF AllKept
<1>8. DatesDiffer' /\ SingleRow'
  BY <1>1, <1>2, <1>3 DEF DatesDiffer, SingleRow
<1> QED BY <1>5, <1>6, <1>7, <1>8

LEMMA StoreFailsInv == RecordsInv /\ StoreFails => RecordsInv'
<1> SUFFICES ASSUME RecordsInv, StoreFails PROVE RecordsInv'
  OBVIOUS
<1>1. /\ received # <<>> /\ UNCHANGED <<recFixed, recNow, records, vsps, lastUpdate, offered, place>>
      /\ received' \in {<<>>, Tail(received)} /\ failed' \in BOOLEAN /\ turns' \in {turns, <<>>}
      /\ givenUp \subseteq givenUp'
  BY DEF StoreFails, AddPowDataFails, StoreVSPFails, StoreMempoolFails, StoreStatFails, MayFail,
         RecordsInv, RecordTypes
<1>2. /\ received \in Seq(offered) /\ Head(received) \in offered /\ Range(received) \subseteq offered
      /\ givenUp \subseteq offered /\ Head(received) = received[1] /\ Len(received) \in Nat \ {0}
  BY <1>1 DEF RecordsInv, RecordTypes, Range
<1>3. /\ givenUp' \subseteq offered
      /\ \A r \in Range(received) :
           r \in Range(received') \cup givenUp' \/ (Of(r, "luxor") /\ r.time >= lastUpdate["luxor"])
  <2>1. CASE AddPowDataFails
    <3>1. ASSUME NEW r \in Range(received), r \notin givenUp' PROVE r.source = "luxor" /\ ~(r.time < lastUpdate["luxor"])
      BY <2>1, <3>1 DEF AddPowDataFails
    <3>2. \A r \in Range(received) : r.source = "luxor" => r.time \in Int /\ lastUpdate["luxor"] \in Int
      <4> SUFFICES ASSUME NEW r \in Range(received), r.source = "luxor"
                   PROVE  r.time \in Int /\ lastUpdate["luxor"] \in Int
        OBVIOUS
      <4>1. r.source \in pools /\ r.time \in 1..recNow
        BY <1>2, <2>1, PowRow DEF AddPowDataFails, RecordsInv
      <4> QED BY <4>1 DEF RecordsInv, RecordTypes
    <3> QED BY <1>2, <2>1, <3>1, <3>2 DEF AddPowDataFails, Of
  <2>2. CASE StoreVSPFails
    <3>1. received' = Tail(received) /\ givenUp' = givenUp \cup {received[1]}
      BY <1>2, <2>2 DEF StoreVSPFails
    <3>2. ASSUME NEW i \in 1..Len(received), i # 1 PROVE received[i] \in Range(received')
      <4>1. i - 1 \in DOMAIN received' /\ received'[i - 1] = received[i]
        BY <1>2, <3>1, <3>2
      <4> QED BY <4>1 DEF Range
    <3> QED BY <1>2, <3>1, <3>2 DEF Range
  <2>3. CASE StoreMempoolFails \/ StoreStatFails
    <3>1. recTable \in {"mempool"} \cup Community /\ givenUp' = givenUp \cup {received[1]}
      BY <1>2, <2>3 DEF StoreMempoolFails, StoreStatFails
    <3>2. Len(received) = 1
      <4>1. PICK n : n = Len(received)
        OBVIOUS
      <4>2. n <= 1
        BY <3>1, <4>1 DEF RecordsInv, SingleRow
      <4>3. n \in Nat /\ n # 0
        BY <1>2, <4>1
      <4> QED BY <4>1, <4>2, <4>3
    <3>3. \A r \in Range(received) : r = received[1]
      BY <1>2, <3>2 DEF Range
    <3> QED BY <1>2, <3>1, <3>3
  <2> QED BY <2>1, <2>2, <2>3 DEF StoreFails
<1> QED BY <1>1, <1>2, <1>3, GivesUp

LEMMA RecRebootInv == RecordsInv /\ RecReboot => RecordsInv'
<1> SUFFICES ASSUME RecordsInv, RecReboot PROVE RecordsInv'
  OBVIOUS
<1> USE DEF RecordsInv
<1>1. /\ place' = "idle" /\ turns' = <<>> /\ received' = <<>> /\ failed' = FALSE
      /\ UNCHANGED <<recTable, pools, recNow, records, vsps, offered, Whose, Whom>>
      /\ \A x, p : (Of(x, p)' <=> Of(x, p)) /\ (IsRow(x)' <=> IsRow(x))
  BY DEF RecReboot, recFixed, Of, IsRow, Whose, Whom
<1>2. received' \in Seq(offered) /\ Len(received') = 0 /\ turns' \in Seq(Whom) /\ Range(received) \subseteq offered
  BY <1>1 DEF RecordTypes, Range
<1>3. DatesDiffer' /\ SingleRow'
  BY <1>1, <1>2 DEF DatesDiffer, SingleRow
<1>4. CASE recTable # "pow_data"
  <2>1. givenUp' = givenUp \cup Range(received) /\ UNCHANGED lastUpdate
    BY <1>4 DEF RecReboot
  <2>2. RecordTypes'
    BY <1>1, <1>2, <2>1 DEF RecordTypes
  <2>3. LuxorInOrder' /\ AllKept'
    BY <1>1, <1>2, <1>4, <2>1 DEF LuxorInOrder, AllKept, Of
  <2> QED BY <1>3, <2>2, <2>3
<1>5. CASE recTable = "pow_data"
  <2>1. /\ lastUpdate' = NewPows
        /\ givenUp' = {r \in givenUp \cup {x \in Range(received) : x.source # "luxor"} :
                         r.source = "luxor" => r.time < NewPows["luxor"]}
    BY <1>5 DEF RecReboot
  <2>2. lastUpdate' \in [pools -> 0..recNow]
    BY <1>5, <2>1, NewsPast DEF NewPows
  <2>3. givenUp' \subseteq offered
    BY <1>2, <2>1 DEF RecordTypes
  <2>4. RecordTypes'
    BY <1>1, <1>2, <2>2, <2>3 DEF RecordTypes
  <2>5. ASSUME "luxor" \in pools
        PROVE  /\ lastUpdate'["luxor"] \in Nat
               /\ \A r \in records : r.source = "luxor" => r.time <= lastUpdate'["luxor"]
               /\ lastUpdate'["luxor"] <= lastUpdate["luxor"]
               /\ \A i \in 1..Len(received) : received[i].source = "luxor" => lastUpdate'["luxor"] <= received[i].time
    <3>1. PICK m : m = LastPowEntryTime("luxor")
      OBVIOUS
    <3>2. /\ m \in 0..recNow /\ \A r \in records : r.source = "luxor" => r.time <= m
          /\ \A n \in Nat : (\A r \in records : r.source = "luxor" => r.time <= n) => m <= n
      BY <1>5, <2>5, <3>1, NewsPast
    <3>3. lastUpdate'["luxor"] = m
      BY <2>1, <2>5, <3>1 DEF NewPows
    <3>4. lastUpdate["luxor"] \in Nat /\ \A r \in records : r.source = "luxor" => r.time <= lastUpdate["luxor"]
      BY <1>5, <2>5 DEF RecordTypes, LuxorInOrder, Of
    <3>5. ASSUME NEW i \in 1..Len(received), received[i].source = "luxor" PROVE m <= received[i].time
      <4>1. received[i] \in offered
        BY DEF RecordTypes
      <4>2. received[i].time \in Nat
        BY <1>5, <4>1, PowRow
      <4> QED BY <1>5, <3>2, <3>5, <4>2 DEF LuxorInOrder, Of
    <3>6. m \in Nat
      BY <3>2
    <3> QED BY <3>2, <3>3, <3>4, <3>5, <3>6
  <2>6. \A r \in offered : r.time \in Nat /\ (r.source = "luxor" => "luxor" \in pools /\ lastUpdate["luxor"] \in Nat)
    <3> SUFFICES ASSUME NEW r \in offered
                 PROVE  r.time \in Nat /\ (r.source = "luxor" => "luxor" \in pools /\ lastUpdate["luxor"] \in Nat)
      OBVIOUS
    <3>1. r.time \in 1..recNow /\ r.source \in pools
      BY <1>5, PowRow
    <3> QED BY <3>1 DEF RecordTypes
  <2>7. LuxorInOrder'
    <3>1. records \subseteq offered
      BY DEF RecordTypes
    <3> QED BY <1>1, <1>2, <2>5, <2>6, <3>1 DEF LuxorInOrder, Of
  <2>8. AllKept'
    <3> SUFFICES ASSUME NEW r \in offered, r \notin records, r \notin givenUp'
                 PROVE  r.source = "luxor" /\ r.time >= lastUpdate'["luxor"]
      BY <1>1, <1>5 DEF AllKept, Of
    <3>1. CASE r \in Range(received)
      <4>1. PICK i \in 1..Len(received) : r = received[i]
        BY <3>1 DEF RecordTypes, Range
      <4>2. r.source = "luxor"
        BY <2>1, <3>1
      <4> QED BY <2>5, <2>6, <4>1, <4>2
    <3>2. CASE r \in givenUp
      <4>1. r.source = "luxor" /\ ~(r.time < lastUpdate'["luxor"])
        BY <2>1, <3>2
      <4> QED BY <2>5, <2>6, <4>1
    <3>3. CASE r \notin Range(received) \cup givenUp
      <4>1. r.source = "luxor" /\ r.time >= lastUpdate["luxor"]
        BY <1>5, <3>3 DEF AllKept, Of
      <4> QED BY <2>5, <2>6, <4>1
    <3> QED BY <3>1, <3>2, <3>3
  <2> QED BY <1>3, <2>4, <2>7, <2>8
<1> QED BY <1>4, <1>5

LEMMA RecordsNextInv == RecordsInv /\ [RecordsNext]_recordsVars => RecordsInv'
<1> SUFFICES ASSUME RecordsInv, [RecordsNext]_recordsVars PROVE RecordsInv'
  OBVIOUS
<1>1. /\ recNow \in Nat /\ LastRecTime \in Nat /\ recNow \in recNow..LastRecTime
      /\ place \in {"idle", "round", "ended"} /\ failed \in BOOLEAN /\ turns \in Seq(Whom) /\ vsps \subseteq Vsps
  BY RecordsAssumption DEF RecordsInv, RecordTypes, RecordsAssumption
<1>2. CASE UNCHANGED recordsVars \/ RecTick \/ StartRound \/ CollectFails \/ AddVsp \/ EndRound
  <2>1. UNCHANGED <<recFixed, records, received, lastUpdate, offered, givenUp>>
    BY <1>2 DEF recordsVars, recWork, recFixed, RecTick, StartRound, Starts, CollectFails, AddVsp, EndRound
  <2>2. recNow' \in recNow..LastRecTime
    <3>1. recNow' = recNow \/ (recNow < LastRecTime /\ recNow' = recNow + 1)
      BY <1>2 DEF recordsVars, RecTick, StartRound, Starts, CollectFails, AddVsp, EndRound
    <3> QED BY <1>1, <3>1
  <2>3. place' \in {"idle", "round", "ended"} /\ failed' \in BOOLEAN
    BY <1>1, <1>2 DEF recordsVars, recWork, RecTick, StartRound, Starts, CollectFails, AddVsp, EndRound
  <2>4. vsps' \subseteq Vsps
    <3>1. CASE AddVsp
      <4>1. recTable = "vsp_tick" /\ vsps' = vsps \cup {Head(received).vsp_id} /\ Head(received) \in offered
        BY <3>1 DEF AddVsp, RecordsInv, RecordTypes
      <4>2. PICK w \in Vsps, t \in 1..recNow : Head(received) = Row("vsp_tick", w, t)
        BY <4>1 DEF RecordsInv, RecordTypes, IsRow, Whose
      <4>3. Head(received).vsp_id = w
        BY <4>2, RowColumns
      <4> QED BY <1>1, <4>1, <4>3
    <3>2. CASE ~AddVsp
      <4>1. vsps' = vsps
        BY <1>2, <3>2 DEF recordsVars, RecTick, StartRound, Starts, CollectFails, EndRound
      <4> QED BY <1>1, <4>1
    <3> QED BY <3>1, <3>2
  <2>5. turns' \in Seq(Whom)
    <3>1. CASE StartRound
      <4>1. CASE recTable = "pow_data"
        <5>1. Whom = pools
          BY <4>1 DEF Whom, Whose
        <5>2. Active(1) \in Seq(pools) /\ Active(2) \in Seq(pools) /\ Active(3) \in Seq(pools) /\ Active(4) \in Seq(pools)
          <6>1. ASSUME NEW i \in 1..4 PROVE Active(i) \in Seq(pools)
            <7>1. PICK a : a = availablePows[i]
              OBVIOUS
            <7>2. Active(i) = IF a \in pools THEN <<a>> ELSE <<>>
              BY <7>1 DEF Active
            <7> QED BY <7>2
          <6> QED BY <6>1
        <5>3. turns' = Active(1) \o Active(2) \o Active(3) \o Active(4)
          <6>1. CASE recTable \in Community
            BY <4>1, <6>1 DEF Community
          <6>2. CASE recTable \notin Community
            BY <3>1, <4>1, <6>2 DEF StartRound, Starts
          <6> QED BY <6>1, <6>2
        <5>4. (Active(1) \o Active(2)) \in Seq(pools)
          BY <5>2
        <5>5. (Active(1) \o Active(2)) \o Active(3) \in Seq(pools)
          BY <5>2, <5>4
        <5> QED BY <5>1, <5>2, <5>3, <5>5
      <4>2. CASE recTable \in Community
        <5>1. Whom = Range(Accounts)
          BY <4>2 DEF Whom, Whose, Community
        <5>2. Accounts \in Seq(Range(Accounts))
          <6>1. Accounts \in Seq(STRING)
            BY RecordsAssumption DEF RecordsAssumption
          <6>2. \A i \in 1..Len(Accounts) : Accounts[i] \in Range(Accounts)
            BY <6>1 DEF Range
          <6>3. PICK R : R = Range(Accounts)
            OBVIOUS
          <6>4. Accounts \in Seq(R)
            BY <6>1, <6>2, <6>3
          <6> QED BY <6>3, <6>4
        <5>3. turns' = Accounts
          BY <3>1, <4>2 DEF StartRound, Starts, Community
        <5> QED BY <5>1, <5>2, <5>3
      <4>3. CASE recTable \notin {"pow_data"} \cup Community
        <5>1. turns' = <<recTable>>
          BY <3>1, <4>3 DEF StartRound, Starts
        <5>2. Whom = {recTable}
          BY <4>3 DEF Whom, Whose
        <5> QED BY <5>1, <5>2
      <4> QED BY <4>1, <4>2, <4>3
    <3>2. CASE CollectFails
      <4>1. turns # <<>> /\ turns' \in {<<>>, Tail(turns)}
        BY <3>2 DEF CollectFails
      <4>2. Tail(turns) \in Seq(Whom) /\ <<>> \in Seq(Whom)
        BY <1>1, <4>1
      <4> QED BY <4>1, <4>2
    <3>3. CASE UNCHANGED turns
      BY <1>1, <3>3
    <3> QED BY <1>2, <3>1, <3>2, <3>3 DEF recordsVars, recWork, RecTick, AddVsp, EndRound
  <2> QED BY <2>1, <2>2, <2>3, <2>4, <2>5, OnlyTimeAndTurns
<1>3. CASE CollectReply
  BY <1>3, CollectReplyInv
<1>4. CASE StoreRecord
  BY <1>4, StoreRecordInv
<1>5. CASE StoreFails
  BY <1>5, StoreFailsInv
<1>6. CASE RecReboot
  BY <1>6, RecRebootInv
<1> QED BY <1>2, <1>3, <1>4, <1>5, <1>6 DEF RecordsNext

LEMMA RecordsInvTypeOK == RecordsInv => RecordsTypeOK
<1> SUFFICES ASSUME RecordsInv PROVE RecordsTypeOK
  OBVIOUS
<1>1. recNow \in 1..LastRecTime /\ LastRecTime \in Nat /\ lastUpdate \in [pools -> 0..recNow]
  BY RecordsAssumption DEF RecordsInv, RecordTypes, RecordsAssumption
<1>2. lastUpdate \in [pools -> 0..LastRecTime]
  <2>1. 0..recNow \subseteq 0..LastRecTime
    BY <1>1
  <2> QED BY <1>1, <2>1
<1>3. Range(received) \subseteq offered
  BY DEF RecordsInv, RecordTypes, Range
<1> QED BY <1>2, <1>3 DEF RecordsInv, RecordTypes, RecordsTypeOK

LEMMA InvRecordsKept == RecordsInv => RecordsKept
<1> SUFFICES ASSUME RecordsInv, NEW r \in offered, r \notin records \cup Range(received) \cup givenUp
             PROVE  StillAsked(r)
  BY DEF RecordsKept
<1>1. recTable = "pow_data" /\ r.source = "luxor" /\ r.time >= lastUpdate["luxor"]
  BY DEF RecordsInv, AllKept, Of
<1>2. r.time \in 1..recNow
  BY <1>1, PowRow DEF RecordsInv
<1> QED BY <1>1, <1>2 DEF StillAsked, Historic, fetch

\* The variables of the collectors' rows have their types, whichever table is followed.
THEOREM RecordsTypeCorrect == RecordsSpec => []RecordsTypeOK
  BY RecordsInitInv, RecordsNextInv, RecordsInvTypeOK, PTL DEF RecordsSpec

\* Every row a reply has brought is stored, about to be, given up by an error in the database or
\* the end of the process, or asked for again.
THEOREM NoRecordLost == RecordsSpec => []RecordsKept
  BY RecordsInitInv, RecordsNextInv, InvRecordsKept, PTL DEF RecordsSpec

-----------------------------------------------------------------------------
(* The pages: who goes on to the last one has seen every row. *)

\* A row alone in its time, that nothing has moved; and those of the first page's rows
\* that were not shown yet.
Fixed(r) == r \notin moved /\ \A o \in RowIds \ {r} : key[o] # key[r]
Missed   == {r \in before \ seen : Fixed(r)}

\* The rows listed before a row are those newer than it.
RowsAbove(r) == {o \in Listed : key[o] > key[r]}

PagesTypes ==
  /\ view \in Views /\ size \in Nat \ {0}
  /\ key \in Seq(Nat) /\ Len(key) <= MaxRows /\ \A r \in RowIds : key[r] <= MaxRows + Len(key)
  /\ unlisted \subseteq RowIds /\ seen \cup before \subseteq Listed /\ moved \subseteq RowIds
  /\ {at, older} \subseteq Listed \cup {0}
  /\ page \in Nat /\ count \in 0..MaxRows /\ slipped \in BOOLEAN
  /\ shown \in Seq(Listed) /\ Len(shown) <= size

\* Where the handler is: no link is read before its turn.
Reading ==
  /\ page = 0 => todo = <<>> /\ older = 0
  /\ todo \in IF ByTime THEN {<<"last", "older", "rows">>, <<"older", "rows">>, <<"rows">>, <<>>}
                        ELSE {RowsFirst, CountFirst, <<"rows">>, <<"count">>, <<>>}
  /\ todo \notin {<<"rows">>, <<>>} => older = 0
  /\ ByTime /\ page > 1 => at # 0 /\ todo # <<"last", "older", "rows">>

\* Until its rows are read, the rows a page has missed are its own or later ones; then
\* they are later ones, and the count knows of them.
Paging ==
  ~ByTime /\ page > 0 =>
    /\ \A r \in Missed : Cardinality(RowsAbove(r)) >= Offset
    /\ todo \in {<<"count">>, <<>>} =>
         \A r \in Missed \ Range(shown) : Cardinality(RowsAbove(r)) >= Offset + size
    /\ todo = <<>> => Range(shown) \subseteq seen
    /\ todo = <<"rows">> /\ ~slipped => count >= Cardinality(Listed)
    /\ todo = <<>> /\ ~slipped /\ Missed # {} => count > Offset + size

\* The snapshot a page is about is not older than those missed, and the one it links to
\* is the next of them.
Linking ==
  ByTime /\ page > 0 /\ todo # <<"last", "older", "rows">> =>
    /\ at = 0 => before = {} /\ todo = <<>>
    /\ at # 0 => \A r \in Missed : key[r] <= key[at]
    /\ at # 0 /\ todo \in {<<"rows">>, <<>>} =>
         \A r \in Missed : key[r] < key[at] => IF older = 0 THEN slipped ELSE key[r] <= key[older]
    /\ at # 0 /\ todo = <<>> => at \in seen

PagesInv == PagesTypes /\ Reading /\ Paging /\ Linking

\* What the views have in common.
LEMMA ViewShapes ==
  ASSUME NEW v \in DOMAIN AllViews
  PROVE  /\ AllViews[v].pages \in {"rounded up", "default size", "linked", "by time"}
         /\ IF AllViews[v].pages = "by time"
            THEN AllViews[v].reads = <<"last", "older", "rows">> /\ ~AllViews[v].query.moves
            ELSE AllViews[v].reads \in {RowsFirst, CountFirst}
         /\ AllViews[v].maximum \in BOOLEAN
<1> DEFINE Shape(h) ==
      /\ h.pages \in {"rounded up", "default size", "linked", "by time"}
      /\ IF h.pages = "by time" THEN h.reads = <<"last", "older", "rows">> /\ ~h.query.moves
         ELSE h.reads \in {RowsFirst, CountFirst}
      /\ h.maximum \in BOOLEAN
<1>1. ASSUME NEW q, NEW r \in {RowsFirst, CountFirst}
      PROVE  /\ Shape(Handler(q, r)) /\ Shape(AnySize(Handler(q, r)))
             /\ Shape([AnySize(Handler(q, r)) EXCEPT !.pages = "default size"])
             /\ Shape([Handler(q, r) EXCEPT !.pages = "linked"])
  BY DEF Handler, AnySize
<1>2. Shape(nodesPage)
  BY DEF nodesPage, Handler, AnySize, Snapshots, Query
<1>3. /\ Shape(fetchMempoolData) /\ Shape(fetchPropagationData) /\ Shape(fetchBlockData)
      /\ Shape(fetchVoteData) /\ Shape(fetchExchangeData) /\ Shape(fetchVSPData)
      /\ Shape(fetchVSPDataOf) /\ Shape(fetchPoWData) /\ Shape(fetchPoWDataOf)
  BY <1>1, Zenon DEF fetchMempoolData, fetchPropagationData, fetchBlockData, fetchVoteData, fetchExchangeData,
     fetchVSPData, fetchVSPDataOf, fetchPoWData, fetchPoWDataOf
<1>4. /\ \A q : Shape(getCommunityStat(q))
      /\ Shape(snapshotsPage) /\ Shape(nodesCountUserAgents) /\ Shape(nodesCountByCountries)
      /\ Shape(ProposalsPage) /\ Shape(nodesOfSnapshot) /\ Shape(TreasuryPage) /\ Shape(TreasuryTable)
  BY <1>1, Zenon DEF getCommunityStat, snapshotsPage, nodesCountUserAgents, nodesCountByCountries,
     ProposalsPage, nodesOfSnapshot, TreasuryPage, TreasuryTable
<1> HIDE DEF Shape
<1>5. Shape(AllViews[v])
  BY <1>2, <1>3, <1>4 DEF AllViews
<1> QED BY <1>5 DEF Shape

\* A request for a page reads as its handler does.
LEMMA Shapes ==
  ASSUME PagesAssumption, PagesTypes
  PROVE  /\ ~ByTime => AllViews[view].reads \in {RowsFirst, CountFirst}
         /\ ByTime => AllViews[view].reads = <<"last", "older", "rows">> /\ ~AllViews[view].query.moves
         /\ \A p \in Nat : ReadsOf(p) = IF ByTime /\ p > 1 THEN <<"older", "rows">> ELSE AllViews[view].reads
<1>1. view \in DOMAIN AllViews
  BY DEF PagesAssumption, PagesTypes
<1>2. /\ ~ByTime => AllViews[view].reads \in {RowsFirst, CountFirst}
      /\ ByTime => AllViews[view].reads = <<"last", "older", "rows">> /\ ~AllViews[view].query.moves
  BY <1>1, ViewShapes DEF ByTime
<1>3. Tail(<<"last", "older", "rows">>) = <<"older", "rows">>
  OBVIOUS
<1> QED BY <1>2, <1>3 DEF ReadsOf

LEMMA ListedFinite ==
  ASSUME PagesTypes
  PROVE  /\ RowIds = 1..Len(key) /\ Len(key) \in Nat
         /\ IsFiniteSet(RowIds) /\ Cardinality(RowIds) = Len(key)
         /\ Listed \subseteq RowIds /\ IsFiniteSet(Listed)
         /\ Cardinality(Listed) \in Nat /\ Cardinality(Listed) <= Len(key)
         /\ \A r : IsFiniteSet(RowsAbove(r)) /\ Cardinality(RowsAbove(r)) \in Nat
         /\ \A r \in Listed : Cardinality(RowsAbove(r)) < Cardinality(Listed)
<1>1. RowIds = 1..Len(key) /\ Len(key) \in Nat
  BY DEF PagesTypes, RowIds
<1>2. IsFiniteSet(RowIds) /\ Cardinality(RowIds) = Len(key)
  BY <1>1, FS_Interval
<1>3. Listed \subseteq RowIds
  BY DEF Listed
<1>4. /\ IsFiniteSet(Listed) /\ Cardinality(Listed) \in Nat /\ Cardinality(Listed) <= Len(key)
  BY <1>1, <1>2, <1>3, FS_Subset, FS_CardinalityType
<1>5. ASSUME NEW r PROVE IsFiniteSet(RowsAbove(r)) /\ Cardinality(RowsAbove(r)) \in Nat
  <2>1. RowsAbove(r) \in SUBSET Listed
    BY DEF RowsAbove
  <2> QED BY <1>4, <2>1, FS_Subset, FS_CardinalityType
<1>6. ASSUME NEW r \in Listed PROVE Cardinality(RowsAbove(r)) < Cardinality(Listed)
  <2>1. RowsAbove(r) \in SUBSET Listed
    BY DEF RowsAbove
  <2>2. key[r] \in Nat
    BY <1>1, <1>3 DEF PagesTypes
  <2>3. RowsAbove(r) # Listed
    <3>1. r \notin RowsAbove(r)
      BY <2>2 DEF RowsAbove
    <3> QED BY <3>1
  <2> QED BY <1>4, <1>5, <2>1, <2>3, FS_Subset
<1> QED BY <1>1, <1>2, <1>3, <1>4, <1>5, <1>6

LEMMA TopKeyIsTop ==
  ASSUME PagesAssumption, PagesTypes
  PROVE  TopKey \in Nat /\ \A r \in RowIds : key[r] <= TopKey
<1>1. CASE key = <<>>
  BY <1>1 DEF TopKey, RowIds
<1>2. CASE key # <<>>
  <2>1. RowIds = 1..Len(key) /\ IsFiniteSet(RowIds) /\ Range(key) = {key[r] : r \in RowIds} /\ Len(key) # 0
    BY <1>2, ListedFinite DEF Range, RowIds, PagesTypes
  <2>2. Range(key) \in SUBSET Nat /\ Range(key) # {}
    BY <2>1 DEF PagesTypes
  <2>3. MaxRows + Len(key) \in Nat /\ \A x \in Range(key) : x <= MaxRows + Len(key)
    <3>1. MaxRows \in Nat /\ Len(key) \in Nat
      BY ListedFinite DEF PagesAssumption
    <3>2. \A r \in RowIds : key[r] <= MaxRows + Len(key)
      BY DEF PagesTypes
    <3> QED BY <2>1, <3>1, <3>2
  <2>4. Max(Range(key)) \in Range(key) /\ \A y \in Range(key) : y <= Max(Range(key))
    BY <2>2, <2>3, MaxIn
  <2> QED BY <1>2, <2>1, <2>2, <2>4 DEF TopKey
<1> QED BY <1>1, <1>2

LEMMA NewestIn ==
  ASSUME PagesAssumption, PagesTypes, NEW R \in SUBSET RowIds
  PROVE  /\ R = {} => NewestRow(R) = 0
         /\ R # {} => NewestRow(R) \in R /\ \A r \in R : key[r] <= key[NewestRow(R)]
<1>1. CASE R = {}
  BY <1>1 DEF NewestRow
<1>2. CASE R # {}
  <2> DEFINE T == {key[r] : r \in R}
  <2>1. T \in SUBSET Nat /\ T # {} /\ MaxRows + Len(key) \in Nat /\ \A x \in T : x <= MaxRows + Len(key)
    <3>1. \A r \in R : key[r] \in Nat /\ key[r] <= MaxRows + Len(key)
      BY ListedFinite DEF PagesTypes
    <3> QED BY <1>2, <3>1, ListedFinite DEF PagesAssumption
  <2>2. Max(T) \in T /\ \A y \in T : y <= Max(T)
    <3> HIDE DEF T
    <3> QED BY <2>1, MaxIn
  <2>3. PICK r \in R : \A o \in R : key[o] <= key[r]
    BY <2>2
  <2>4. /\ NewestRow(R) \in R
        /\ \A o \in R : key[o] <= key[NewestRow(R)]
    BY <1>2, <2>3, Zenon DEF NewestRow
  <2> QED BY <1>2, <2>4
<1> QED BY <1>1, <1>2

LEMMA PagesInitInv == PagesAssumption /\ PagesInit => PagesInv
<1> SUFFICES ASSUME PagesAssumption, PagesInit PROVE PagesInv
  OBVIOUS
<1>1. view \in Views /\ view \in DOMAIN AllViews
  BY DEF PagesInit, PagesAssumption
<1>2. PICK asked \in AskedSizes : size = PageSizeOf(view, asked)
  BY DEF PagesInit
<1>3. size \in Nat \ {0}
  <2>1. asked \in Nat /\ MaxPageSize \in Nat \ {0} /\ DefaultPageSize \in Nat \ {0}
    BY DEF PagesAssumption
  <2>2. asked # 0 => Min({asked, MaxPageSize}) \in {asked, MaxPageSize}
    <3>1. asked <= MaxPageSize \/ MaxPageSize <= asked
      BY <2>1
    <3>2. \E x \in {asked, MaxPageSize} : \A y \in {asked, MaxPageSize} : x <= y
      BY <2>1, <3>1
    <3> QED BY <3>2, Zenon DEF Min
  <2> QED BY <1>2, <2>1, <2>2 DEF PageSizeOf
<1>4. PagesTypes
  <2>1. key \in Seq(Nat) /\ Len(key) = 0 /\ RowIds = {} /\ shown \in Seq(Listed) /\ Len(shown) = 0
    BY DEF PagesInit, RowIds
  <2>2. MaxRows \in Nat
    BY DEF PagesAssumption
  <2>3. /\ unlisted = {} /\ seen = {} /\ before = {} /\ moved = {} /\ at = 0 /\ older = 0
        /\ page = 0 /\ count = 0 /\ slipped = FALSE
    BY DEF PagesInit
  <2>4. slipped \in BOOLEAN
    BY <2>3
  <2>5. Len(key) <= MaxRows /\ (\A r \in RowIds : key[r] <= MaxRows + Len(key)) /\ Len(shown) <= size
    BY <1>3, <2>1, <2>2
  <2>6. {at, older} \subseteq Listed \cup {0} /\ seen \cup before \subseteq Listed
    BY <2>3
  <2> QED BY <1>1, <1>3, <2>1, <2>2, <2>3, <2>4, <2>5, <2>6 DEF PagesTypes
<1>5. Reading /\ Paging /\ Linking
  BY DEF PagesInit, Reading, Paging, Linking
<1> QED BY <1>4, <1>5 DEF PagesInv

\* Rows that come in, or are moved up, only push those missed further down.
LEMMA MissedStay ==
  ASSUME PagesTypes, PagesTypes',
         before' = before, seen \subseteq seen', moved \subseteq moved', Listed \subseteq Listed',
         RowIds \subseteq RowIds',
         \A r \in RowIds : key'[r] >= key[r],
         \A r \in RowIds \ moved' : key'[r] = key[r],
         \A r \in RowIds : Fixed(r)' => Fixed(r)
  PROVE  /\ Missed' \subseteq Missed
         /\ \A r \in Missed' : /\ key'[r] = key[r]
                               /\ Cardinality(RowsAbove(r)) <= Cardinality(RowsAbove(r)')
                               /\ Cardinality(RowsAbove(r)) \in Nat /\ Cardinality(RowsAbove(r)') \in Nat
<1>1. before \subseteq RowIds /\ Listed \subseteq RowIds
  BY ListedFinite DEF PagesTypes
<1>2. Missed' \subseteq Missed
  BY <1>1 DEF Missed
<1>3. ASSUME NEW r \in Missed'
      PROVE  /\ key'[r] = key[r]
             /\ Cardinality(RowsAbove(r)) <= Cardinality(RowsAbove(r)')
             /\ Cardinality(RowsAbove(r)) \in Nat /\ Cardinality(RowsAbove(r)') \in Nat
  <2>1. r \in RowIds /\ r \notin moved'
    BY <1>1, <1>3 DEF Missed, Fixed
  <2>2. key'[r] = key[r]
    BY <2>1
  <2>3. IsFiniteSet(RowsAbove(r)') /\ Cardinality(RowsAbove(r)) \in Nat /\ Cardinality(RowsAbove(r)') \in Nat
    <3>1. /\ \A x : IsFiniteSet(RowsAbove(x)) /\ Cardinality(RowsAbove(x)) \in Nat
      BY ListedFinite
    <3>2. \A x : IsFiniteSet(RowsAbove(x)') /\ Cardinality(RowsAbove(x)') \in Nat
      <4>0. Len(key') \in Nat /\ Listed' \subseteq 1..Len(key')
        BY DEF PagesTypes, Listed, RowIds
      <4>3. \A n \in Nat : IsFiniteSet(1..n)
        BY ONLY FS_Interval
      <4>1. IsFiniteSet(1..Len(key')) /\ Listed' \subseteq 1..Len(key')
        BY ONLY <4>0, <4>3
      <4> SUFFICES ASSUME NEW x PROVE IsFiniteSet(RowsAbove(x)') /\ Cardinality(RowsAbove(x)') \in Nat
        OBVIOUS
      <4>2. RowsAbove(x)' \in SUBSET 1..Len(key')
        BY <4>1 DEF RowsAbove
      <4> QED BY <4>1, <4>2, FS_Subset, FS_CardinalityType
    <3> QED BY <3>1, <3>2
  <2>4. RowsAbove(r) \subseteq RowsAbove(r)'
    <3> SUFFICES ASSUME NEW o \in RowsAbove(r) PROVE o \in Listed' /\ key'[o] > key'[r]
      BY DEF RowsAbove
    <3>1. o \in Listed /\ o \in RowIds /\ key[o] > key[r]
      BY <1>1 DEF RowsAbove
    <3>2. key'[o] \in Nat /\ key[o] \in Nat /\ key[r] \in Nat
      BY <2>1, <3>1 DEF PagesTypes, RowIds
    <3>3. key'[o] >= key[o]
      BY <3>1
    <3> QED BY <2>2, <3>1, <3>2, <3>3
  <2> QED BY <2>2, <2>3, <2>4, FS_Subset
<1> QED BY <1>2, <1>3

LEMMA InsertRowInv ==
  ASSUME PagesAssumption, PagesInv, NEW k, NEW listed \in BOOLEAN, InsertRow(k, listed)
  PROVE  PagesInv'
<1> USE DEF PagesInv
<1>1. k \in Nat /\ k <= TopKey + 1 /\ TopKey \in Nat /\ \A r \in RowIds : key[r] <= TopKey
  BY TopKeyIsTop DEF InsertRow
<1>2. /\ key' = Append(key, k) /\ Len(key) < MaxRows /\ MaxRows \in Nat
      /\ RowIds = 1..Len(key) /\ Len(key) \in Nat
  BY ListedFinite DEF InsertRow, PagesAssumption
<1>3. /\ key' \in Seq(Nat) /\ Len(key') = Len(key) + 1
      /\ \A r \in RowIds : key'[r] = key[r] /\ key[r] \in Nat
      /\ key'[Len(key) + 1] = k /\ RowIds' = 1..(Len(key) + 1)
  BY <1>1, <1>2 DEF PagesTypes, RowIds
<1>4. UNCHANGED <<view, size, page, todo, shown, count, seen, at, older, before, moved>>
  BY DEF InsertRow
<1>5. Listed \subseteq Listed' /\ RowIds \subseteq RowIds' /\ unlisted' \subseteq RowIds'
  <2>1. RowIds \subseteq RowIds' /\ Len(key) + 1 \notin RowIds
    BY <1>2, <1>3
  <2>2. unlisted' = unlisted \/ unlisted' = unlisted \cup {Len(key) + 1}
    BY DEF InsertRow
  <2>3. unlisted' \subseteq RowIds'
    <3>1. unlisted \subseteq RowIds /\ Len(key) + 1 \in RowIds'
      BY <1>2, <1>3 DEF PagesTypes
    <3> QED BY <2>1, <2>2, <3>1
  <2> QED BY <2>1, <2>2, <2>3 DEF Listed
<1>6. TopKey <= MaxRows + Len(key)
  <2>1. key # <<>> => TopKey \in Range(key)
    <3> SUFFICES ASSUME key # <<>> PROVE Max(Range(key)) \in Range(key)
      BY DEF TopKey
    <3>1. Range(key) = {key[r] : r \in RowIds} /\ Len(key) # 0
      BY <1>2 DEF Range, RowIds, PagesTypes
    <3>2. Range(key) \in SUBSET Nat /\ Range(key) # {} /\ MaxRows + Len(key) \in Nat
          /\ \A x \in Range(key) : x <= MaxRows + Len(key)
      BY <1>2, <1>3, <3>1 DEF PagesTypes
    <3> QED BY <3>2, MaxIn
  <2>2. \A x \in Range(key) : x <= MaxRows + Len(key)
    BY <1>2 DEF Range, RowIds, PagesTypes
  <2>3. key = <<>> => TopKey = 0
    BY DEF TopKey
  <2> QED BY <1>2, <2>1, <2>2, <2>3
<1>7. PagesTypes'
  <2>1. \A r \in RowIds' : key'[r] <= MaxRows + Len(key')
    <3> SUFFICES ASSUME NEW r \in RowIds' PROVE key'[r] <= MaxRows + Len(key) + 1
      BY <1>2, <1>3
    <3>1. CASE r \in RowIds
      BY <1>2, <1>3, <3>1 DEF PagesTypes
    <3>2. CASE r = Len(key) + 1
      BY <1>1, <1>2, <1>3, <1>6, <3>2
    <3> QED BY <1>2, <1>3, <3>1, <3>2
  <2>2. slipped' \in BOOLEAN
    BY DEF InsertRow, PagesTypes
  <2>3. seen \cup before \subseteq Listed' /\ {at, older} \subseteq Listed' \cup {0} /\ moved \subseteq RowIds'
    BY <1>5 DEF PagesTypes
  <2>4. shown \in Seq(Listed')
    BY <1>5 DEF PagesTypes
  <2> QED BY <1>2, <1>3, <1>4, <1>5, <2>1, <2>2, <2>3, <2>4 DEF PagesTypes
<1>8. /\ Missed' \subseteq Missed
      /\ \A r \in Missed' : /\ key'[r] = key[r]
                            /\ Cardinality(RowsAbove(r)) <= Cardinality(RowsAbove(r)')
                            /\ Cardinality(RowsAbove(r)) \in Nat /\ Cardinality(RowsAbove(r)') \in Nat
  <2>1. \A r \in RowIds : Fixed(r)' => Fixed(r)
    BY <1>3, <1>4, <1>5 DEF Fixed
  <2>2. \A r \in RowIds : key'[r] >= key[r]
    BY <1>3
  <2> QED BY <1>3, <1>4, <1>5, <1>7, <2>1, <2>2, MissedStay
<1>9. /\ todo = <<"rows">> => slipped'
      /\ todo # <<"rows">> => slipped' = slipped
  BY DEF InsertRow, PagesTypes
<1>10. Reading'
  BY <1>4 DEF Reading, ReadsOf, ByTime
<1>11. Paging'
  <2> SUFFICES ASSUME ~ByTime, page > 0 PROVE Paging'
    BY <1>4 DEF Paging, ByTime
  <2>1. Offset' = Offset /\ Offset \in Int /\ size \in Nat
    BY <1>4 DEF Offset, PagesTypes
  <2>2. \A r \in Missed' : Cardinality(RowsAbove(r)') >= Offset
    BY <1>8, <2>1 DEF Paging
  <2>3. todo \in {<<"count">>, <<>>} => \A r \in Missed' \ Range(shown) : Cardinality(RowsAbove(r)') >= Offset + size
    BY <1>8, <2>1 DEF Paging
  <2>4. todo = <<>> /\ ~slipped' /\ Missed' # {} => count > Offset + size
    BY <1>8, <1>9 DEF Paging
  <2>5. todo = <<>> => Range(shown) \subseteq seen
    BY DEF Paging
  <2> QED BY <1>4, <1>9, <2>1, <2>2, <2>3, <2>4, <2>5 DEF Paging
<1>12. Linking'
  <2> SUFFICES ASSUME ByTime, page > 0, todo # <<"last", "older", "rows">> PROVE Linking'
    BY <1>4 DEF Linking, ByTime
  <2>1. at = 0 => before = {} /\ todo = <<>>
    BY DEF Linking
  <2>2. at # 0 => at \in RowIds /\ key'[at] = key[at]
    BY <1>3, ListedFinite DEF PagesTypes
  <2>3. older # 0 => older \in RowIds /\ key'[older] = key[older]
    BY <1>3, ListedFinite DEF PagesTypes
  <2>4. at # 0 => \A r \in Missed' : key'[r] <= key'[at]
    BY <1>8, <2>2 DEF Linking
  <2>5. at # 0 /\ todo \in {<<"rows">>, <<>>} =>
          \A r \in Missed' : key'[r] < key'[at] => IF older = 0 THEN slipped' ELSE key'[r] <= key'[older]
    BY <1>8, <1>9, <2>2, <2>3 DEF Linking
  <2>6. at # 0 /\ todo = <<>> => at \in seen
    BY DEF Linking
  <2> QED BY <1>4, <2>1, <2>4, <2>5, <2>6 DEF Linking
<1> QED BY <1>7, <1>10, <1>11, <1>12

LEMMA SeenAgainInv ==
  ASSUME PagesAssumption, PagesInv, NEW n \in RowIds, SeenAgain(n)
  PROVE  PagesInv'
<1> USE DEF PagesInv
<1>1. ~ByTime
  BY Shapes DEF SeenAgain
<1>2. TopKey \in Nat /\ TopKey < MaxRows /\ MaxRows \in Nat /\ \A r \in RowIds : key[r] <= TopKey
  BY TopKeyIsTop DEF SeenAgain, PagesAssumption
<1>3. RowIds = 1..Len(key) /\ Len(key) \in Nat
  BY ListedFinite
<1>4. /\ key' \in Seq(Nat) /\ Len(key') = Len(key) /\ RowIds' = RowIds
      /\ key'[n] = TopKey + 1 /\ \A r \in RowIds \ {n} : key'[r] = key[r]
      /\ \A r \in RowIds : key[r] \in Nat
  BY <1>2, <1>3 DEF SeenAgain, PagesTypes, RowIds
<1>5. /\ moved' = moved \cup {o \in RowIds : key[o] = key[n]}
      /\ UNCHANGED <<view, size, unlisted, page, todo, shown, count, seen, at, older, before, slipped>>
  BY DEF SeenAgain
<1>6. Listed' = Listed
  BY <1>4, <1>5 DEF Listed
<1>7. PagesTypes'
  <2>1. \A r \in RowIds' : key'[r] <= MaxRows + Len(key')
    <3> SUFFICES ASSUME NEW r \in RowIds PROVE key'[r] <= MaxRows + Len(key)
      BY <1>4
    <3>1. CASE r = n
      BY <1>2, <1>3, <1>4, <3>1
    <3>2. CASE r # n
      BY <1>4, <3>2 DEF PagesTypes
    <3> QED BY <3>1, <3>2
  <2>2. moved' \subseteq RowIds'
    BY <1>4, <1>5 DEF PagesTypes
  <2> QED BY <1>4, <1>5, <1>6, <2>1, <2>2 DEF PagesTypes
<1>8. \A r \in RowIds : key'[r] >= key[r]
  BY <1>2, <1>4
<1>9. \A r \in RowIds \ moved' : r # n /\ key[r] # key[n] /\ key'[r] = key[r]
  BY <1>4, <1>5
<1>10. ASSUME NEW r \in RowIds, Fixed(r)' PROVE Fixed(r)
  <2>1. r \in RowIds \ moved'
    BY <1>10 DEF Fixed
  <2>2. ASSUME NEW o \in RowIds \ {r} PROVE key[o] # key[r]
    <3>1. key'[o] # key'[r]
      BY <1>4, <1>10 DEF Fixed
    <3>2. CASE o = n
      BY <1>9, <2>1, <3>2
    <3>3. CASE o # n
      BY <1>4, <1>9, <2>1, <3>1, <3>3
    <3> QED BY <3>2, <3>3
  <2> QED BY <1>5, <2>1, <2>2 DEF Fixed
<1>11. /\ Missed' \subseteq Missed
       /\ \A r \in Missed' : /\ Cardinality(RowsAbove(r)) <= Cardinality(RowsAbove(r)')
                             /\ Cardinality(RowsAbove(r)) \in Nat /\ Cardinality(RowsAbove(r)') \in Nat
  BY <1>4, <1>5, <1>6, <1>7, <1>8, <1>9, <1>10, MissedStay
<1>12. Reading' /\ Linking'
  BY <1>1, <1>5 DEF Reading, Linking, ByTime
<1>13. Paging'
  <2> SUFFICES ASSUME page > 0 PROVE Paging'
    BY <1>5 DEF Paging, ByTime
  <2>1. Offset' = Offset /\ Offset \in Int /\ size \in Nat
    BY <1>5 DEF Offset, PagesTypes
  <2>2. \A r \in Missed' : Cardinality(RowsAbove(r)') >= Offset
    BY <1>1, <1>11, <2>1 DEF Paging
  <2>3. todo \in {<<"count">>, <<>>} => \A r \in Missed' \ Range(shown) : Cardinality(RowsAbove(r)') >= Offset + size
    BY <1>1, <1>11, <2>1 DEF Paging
  <2>4. todo = <<>> /\ ~slipped /\ Missed' # {} => count > Offset + size
    BY <1>1, <1>11 DEF Paging
  <2>5. /\ todo = <<>> => Range(shown) \subseteq seen
        /\ todo = <<"rows">> /\ ~slipped => count >= Cardinality(Listed)
    BY <1>1 DEF Paging
  <2> QED BY <1>5, <1>6, <2>1, <2>2, <2>3, <2>4, <2>5 DEF Paging
<1> QED BY <1>7, <1>12, <1>13

LEMMA OfferedIs ==
  Offered => page > 0 /\ todo = <<>> /\ (ByTime => older # 0)
<1>1. Offered => Answered
  BY DEF Offered
<1>2. ByTime /\ Offered => older # 0
  <2> SUFFICES ASSUME AllViews[view].pages = "by time", Offered PROVE older # 0
    BY DEF ByTime
  <2>1. "by time" # "linked"
    OBVIOUS
  <2> QED BY <2>1 DEF Offered
<1> QED BY <1>1, <1>2 DEF Answered

LEMMA ReadPageInv ==
  ASSUME PagesAssumption, PagesInv, NEW p, ReadPage(p)
  PROVE  PagesInv'
<1> USE DEF PagesInv
<1>1. /\ p \in Nat \ {0} /\ page' = p /\ todo' = ReadsOf(p)
      /\ slipped' = FALSE /\ shown' = <<>> /\ count' = 0 /\ at' = older /\ older' = 0
      /\ UNCHANGED <<view, size, key, unlisted, seen>>
      /\ \/ page = 0 /\ p = 1 /\ before' = Listed /\ moved' = {}
         \/ page > 0 /\ Offered /\ p = page + 1 /\ before' = before /\ moved' = moved
  <2>1. page' = p /\ todo' = ReadsOf(p)
        /\ slipped' = FALSE /\ shown' = <<>> /\ count' = 0 /\ at' = older /\ older' = 0
        /\ UNCHANGED <<view, size, key, unlisted, seen>>
    BY DEF ReadPage
  <2>2. CASE page = 0
    <3>1. ~Offered
      BY <2>2, OfferedIs
    <3> QED BY <2>1, <2>2, <3>1 DEF ReadPage
  <2>3. CASE page # 0
    <3>1. page \in Nat /\ before' = before /\ moved' = moved /\ Offered /\ p = page + 1
      BY <2>3 DEF ReadPage, PagesTypes
    <3> QED BY <2>1, <2>3, <3>1
  <2> QED BY <2>2, <2>3
<1>2. /\ Listed' = Listed /\ RowIds' = RowIds /\ (ByTime <=> ByTime')
      /\ \A r : RowsAbove(r)' = RowsAbove(r)
  BY <1>1 DEF Listed, RowIds, ByTime, RowsAbove
<1>3. /\ ~ByTime => todo' \in {RowsFirst, CountFirst}
      /\ ByTime => todo' = IF p > 1 THEN <<"older", "rows">> ELSE <<"last", "older", "rows">>
  BY <1>1, Shapes
<1>4. PagesTypes'
  <2>1. before' \subseteq Listed' /\ moved' \subseteq RowIds'
    BY <1>1, <1>2 DEF PagesTypes
  <2>2. shown' \in Seq(Listed') /\ Len(shown') <= size'
    BY <1>1 DEF PagesTypes
  <2>4. slipped' \in BOOLEAN
    BY <1>1
  <2>3. count' \in 0..MaxRows
    BY <1>1 DEF PagesAssumption
  <2> QED BY <1>1, <1>2, <2>1, <2>2, <2>3, <2>4 DEF PagesTypes
<1>5. /\ \A r \in Missed' : Cardinality(RowsAbove(r)) \in Nat
      /\ page > 0 => Missed' = Missed /\ \A r \in Missed : key'[r] = key[r]
  BY <1>1, <1>2, ListedFinite DEF Missed, Fixed
<1>6. page > 0 => todo = <<>>
  BY <1>1, OfferedIs DEF PagesTypes
<1>7. page > 0 /\ ByTime => older # 0
  BY <1>1, OfferedIs DEF PagesTypes
<1>8. Reading'
  BY <1>1, <1>2, <1>3, <1>7 DEF Reading
<1>9. Paging'
  <2> SUFFICES ASSUME ~ByTime PROVE Paging'
    BY <1>2 DEF Paging
  <2>1. /\ todo' # <<"count">> /\ todo' # <<>> /\ todo' # <<"rows">>
    BY <1>3 DEF RowsFirst, CountFirst
  <2>2. CASE page = 0
    <3>1. Offset' = 0
      BY <1>1, <2>2 DEF Offset, PagesTypes
    <3> QED BY <1>2, <1>5, <2>1, <3>1 DEF Paging
  <2>3. CASE page > 0
    <3>1. Offset' = Offset + size
      BY <1>1, <2>3 DEF Offset, PagesTypes
    <3>2. \A r \in Missed : Cardinality(RowsAbove(r)) >= Offset + size
      BY <1>6, <2>3 DEF Paging, Missed
    <3> QED BY <1>2, <1>5, <2>1, <2>3, <3>1, <3>2 DEF Paging
  <2> QED BY <2>2, <2>3 DEF PagesTypes
<1>10. Linking'
  <2> SUFFICES ASSUME ByTime, page > 0 PROVE Linking'
    BY <1>1, <1>2, <1>3 DEF Linking, PagesTypes
  <2>1. p > 1 /\ todo' = <<"older", "rows">> /\ todo' # <<"rows">> /\ todo' # <<>> /\ todo # <<"last", "older", "rows">>
    <3>1. p > 1 /\ todo = <<>>
      BY <1>1, <1>6 DEF PagesTypes
    <3> QED BY <1>3, <3>1
  <2>2. ASSUME NEW r \in Missed PROVE key[r] <= key[older]
    <3>1. r \in before /\ r \in RowIds /\ r \notin seen /\ Fixed(r)
      BY <2>2, ListedFinite DEF Missed, PagesTypes
    <3>2. at # 0 /\ at \in seen /\ at \in RowIds /\ key[r] <= key[at]
      BY <1>6, <2>1, <2>2, <3>1, ListedFinite DEF Linking, PagesTypes
    <3>3. key[at] # key[r] /\ key[at] \in Nat /\ key[r] \in Nat
      BY <3>1, <3>2 DEF Fixed, PagesTypes, RowIds
    <3>4. key[r] < key[at]
      BY <3>2, <3>3
    <3> QED BY <1>6, <1>7, <2>1, <2>2, <3>2, <3>4 DEF Linking
  <2> QED BY <1>1, <1>2, <1>5, <1>7, <2>1, <2>2 DEF Linking
<1> QED BY <1>4, <1>8, <1>9, <1>10

LEMMA LessOfTwo ==
  ASSUME NEW a \in Int, NEW b \in Int
  PROVE  Min({a, b}) \in {a, b} /\ Min({a, b}) <= a /\ Min({a, b}) <= b
<1>1. a <= b \/ b <= a
  OBVIOUS
<1>2. \E x \in {a, b} : \A y \in {a, b} : x <= y
  BY <1>1
<1>3. Min({a, b}) \in {a, b} /\ \A y \in {a, b} : Min({a, b}) <= y
  BY <1>2, Zenon DEF Min
<1> QED BY <1>3

\* However the database lists the rows, those newer than a row come before it and no others:
\* a page shows it, or it is not its turn yet.
LEMMA PlaceInList ==
  ASSUME PagesTypes, NEW list \in NewestFirst
  PROVE  /\ list \in Seq(Listed) /\ Len(list) = Cardinality(Listed)
         /\ \A r \in Listed : Fixed(r) =>
              \E i \in 1..Len(list) : list[i] = r /\ Cardinality(RowsAbove(r)) = i - 1
<1> DEFINE N == Cardinality(Listed)
<1>1. N \in Nat /\ IsFiniteSet(Listed) /\ Listed \subseteq RowIds /\ RowIds = 1..Len(key)
  BY ListedFinite
<1>2. /\ list \in [1..N -> Listed] /\ \A i, j \in 1..N : i # j => list[i] # list[j]
  BY DEF NewestFirst, SetToSeqs
<1>3. Len(list) = N /\ list \in Seq(Listed)
  BY <1>1, <1>2
<1>4. \A i \in 1..N - 1 : key[list[i]] >= key[list[i + 1]]
  BY <1>3 DEF NewestFirst
<1>5. \A i \in 1..N : key[list[i]] \in Nat /\ list[i] \in Listed
  <2>1. \A i \in 1..N : list[i] \in Listed /\ list[i] \in 1..Len(key)
    BY <1>1, <1>2
  <2>2. \A r \in 1..Len(key) : key[r] \in Nat
    BY DEF PagesTypes
  <2> QED BY <2>1, <2>2
<1>6. \A r \in Listed : \E i \in 1..N : list[i] = r
  <2>1. list \in Injection(1..N, Listed)
    BY <1>2 DEF Injection, IsInjective
  <2>2. IsFiniteSet(1..N) /\ Cardinality(1..N) = N
    BY <1>1, FS_Interval
  <2>3. list \in Surjection(1..N, Listed)
    BY <1>1, <2>1, <2>2, FS_Injection
  <2> QED BY <2>3 DEF Surjection
<1> HIDE DEF N
<1>7. ASSUME NEW i \in 1..N, NEW j \in 1..N, i < j PROVE key[list[i]] >= key[list[j]]
  <2> DEFINE Bad == {k \in 1..N : i < k /\ key[list[i]] < key[list[k]]}
  <2>1. CASE Bad = {}
    BY <1>5, <1>7, <2>1
  <2>2. CASE Bad # {}
    <3>1. Bad \in SUBSET Nat
      BY <1>1
    <3>2. PICK m \in Bad : \A k \in Bad : m <= k
      <4> HIDE DEF Bad
      <4> QED BY <2>2, <3>1, MinIn
    <3>3. m \in 1..N /\ i < m /\ key[list[i]] < key[list[m]] /\ m - 1 \notin Bad /\ m \in Nat /\ i \in Nat
      BY <1>1, <3>1, <3>2
    <3>4. CASE m - 1 = i
      BY <1>1, <1>4, <1>5, <3>3, <3>4
    <3>5. CASE m - 1 # i
      <4>1. m - 1 \in 1..N - 1 /\ i < m - 1 /\ m - 1 \in 1..N /\ m - 1 + 1 = m
        BY <1>1, <3>3, <3>5
      <4>2. key[list[m - 1]] >= key[list[m]]
        BY <1>4, <4>1
      <4>3. ~(key[list[i]] < key[list[m - 1]])
        BY <3>3, <4>1
      <4> QED BY <1>5, <3>3, <4>1, <4>2, <4>3
    <3> QED BY <3>4, <3>5
  <2> QED BY <2>1, <2>2
<1>8. ASSUME NEW r \in Listed, Fixed(r)
      PROVE  \E i \in 1..N : list[i] = r /\ Cardinality(RowsAbove(r)) = i - 1
  <2>1. PICK i \in 1..N : list[i] = r
    BY <1>6
  <2>2. key[r] \in Nat /\ i \in Nat /\ \A o \in RowIds \ {r} : key[o] # key[r]
    BY <1>1, <1>5, <1>8, <2>1 DEF Fixed
  <2>3. ASSUME NEW j \in 1..N PROVE key[list[j]] > key[r] <=> j < i
    <3>1. CASE j < i
      <4>1. key[list[j]] >= key[list[i]]
        BY <1>7, <3>1
      <4>2. j # i
        BY <2>2, <3>1
      <4>3. list[j] # list[i] /\ list[j] \in RowIds
        BY <1>1, <1>2, <1>5, <4>2
      <4> QED BY <1>5, <2>1, <2>2, <3>1, <4>1, <4>3
    <3>2. CASE j = i
      BY <2>1, <2>2, <3>2
    <3>3. CASE i < j
      <4>1. key[list[i]] >= key[list[j]]
        BY <1>7, <3>3
      <4> QED BY <1>5, <2>1, <2>2, <3>3, <4>1
    <3> QED BY <1>1, <2>2, <3>1, <3>2, <3>3
  <2> DEFINE f == [j \in 1..(i - 1) |-> list[j]]
  <2>4. \A j \in 1..(i - 1) : j \in 1..N /\ j < i /\ j \in Nat
    BY <1>1, <2>2
  <2>5. f \in [1..(i - 1) -> RowsAbove(r)]
    <3>1. \A j \in 1..(i - 1) : list[j] \in RowsAbove(r)
      BY <1>5, <2>3, <2>4 DEF RowsAbove
    <3> QED BY <3>1
  <2>6. \A o \in RowsAbove(r) : \E j \in 1..(i - 1) : f[j] = o
    <3> SUFFICES ASSUME NEW o \in RowsAbove(r) PROVE \E j \in 1..(i - 1) : f[j] = o
      OBVIOUS
    <3>1. o \in Listed /\ key[o] > key[r]
      BY DEF RowsAbove
    <3>2. PICK j \in 1..N : list[j] = o
      BY <1>6, <3>1
    <3>3. j < i
      BY <2>3, <3>1, <3>2
    <3>4. j \in 1..(i - 1)
      BY <1>1, <2>2, <3>3
    <3> QED BY <3>2, <3>4
  <2>7. \A j, k \in 1..(i - 1) : f[j] = f[k] => j = k
    BY <1>2, <2>4
  <2> HIDE DEF f
  <2>8. f \in Bijection(1..(i - 1), RowsAbove(r))
    BY <2>5, <2>6, <2>7 DEF Bijection, Injection, Surjection, IsInjective
  <2>9. IsFiniteSet(1..(i - 1)) /\ Cardinality(1..(i - 1)) = i - 1
    <3>1. i - 1 \in Int /\ i >= 1 /\ 1 \in Int
      BY <1>1, <2>2
    <3>2. IsFiniteSet(1..(i - 1)) /\ Cardinality(1..(i - 1)) = IF 1 > i - 1 THEN 0 ELSE (i - 1) - 1 + 1
      BY <3>1, FS_Interval
    <3> QED BY <3>1, <3>2
  <2>10. Cardinality(RowsAbove(r)) = i - 1
    BY <2>8, <2>9, FS_Bijection DEF ExistsBijection
  <2> QED BY <2>1, <2>10
<1> QED BY <1>3, <1>8 DEF N

LEMMA PartOf ==
  ASSUME NEW S, NEW s \in Seq(S), NEW o \in Nat, NEW last \in Nat, last <= Len(s)
  PROVE  /\ SubSeq(s, o + 1, last) \in Seq(S)
         /\ Len(SubSeq(s, o + 1, last)) = IF o + 1 <= last THEN last - o ELSE 0
         /\ DOMAIN SubSeq(s, o + 1, last) = 1..(last - o)
         /\ \A k \in 1..(last - o) : SubSeq(s, o + 1, last)[k] = s[k + o]
<1>1. /\ SubSeq(s, o + 1, last) \in Seq(S)
      /\ Len(SubSeq(s, o + 1, last)) = IF o + 1 <= last THEN last - o ELSE 0
  OBVIOUS
<1>2. /\ DOMAIN SubSeq(s, o + 1, last) = 1..(last - o)
      /\ \A k \in 1..(last - o) : SubSeq(s, o + 1, last)[k] = s[k + o]
  OBVIOUS
<1> QED BY <1>1, <1>2

LEMMA PageOfRows ==
  ASSUME PagesTypes, page > 0, NEW list \in NewestFirst, NEW part,
         part = SubSeq(list, Offset + 1, Min({Offset + size, Len(list)}))
  PROVE  /\ part \in Seq(Listed) /\ Len(part) <= size
         /\ \A r \in Listed : Fixed(r) /\ Cardinality(RowsAbove(r)) >= Offset /\ r \notin Range(part)
              => Cardinality(RowsAbove(r)) >= Offset + size
<1>1. list \in Seq(Listed) /\ Len(list) \in Nat
  BY PlaceInList
<1>2. Offset \in Nat /\ size \in Nat \ {0}
  BY DEF Offset, PagesTypes
<1>o. PICK o : o = Offset
  OBVIOUS
<1>3. PICK last : last = Min({Offset + size, Len(list)})
  OBVIOUS
<1>4. last \in {Offset + size, Len(list)} /\ last <= Offset + size /\ last <= Len(list) /\ last \in Nat
  <2>1. Offset + size \in Int /\ Len(list) \in Int
    BY <1>1, <1>2
  <2>2. /\ Min({Offset + size, Len(list)}) \in {Offset + size, Len(list)}
        /\ Min({Offset + size, Len(list)}) <= Offset + size
        /\ Min({Offset + size, Len(list)}) <= Len(list)
    BY <2>1, LessOfTwo
  <2> QED BY <1>1, <1>2, <1>3, <2>2
<1>5. part = SubSeq(list, Offset + 1, last)
  BY <1>3
<1>6. /\ part \in Seq(Listed) /\ Len(part) <= size
      /\ \A i \in Nat : i > o /\ i <= last => i - o \in DOMAIN part /\ part[i - o] = list[i]
  <2>1. part = SubSeq(list, o + 1, last) /\ o \in Nat /\ last <= o + size /\ last <= Len(list) /\ last \in Nat
    BY <1>2, <1>o, <1>4, <1>5
  <2>2. /\ part \in Seq(Listed)
        /\ Len(part) = IF o + 1 <= last THEN last - o ELSE 0
        /\ DOMAIN part = 1..(last - o)
        /\ \A k \in 1..(last - o) : part[k] = list[k + o]
    <3>1. list \in Seq(Listed) /\ o \in Nat /\ last \in Nat /\ last <= Len(list)
      BY <1>1, <2>1
    <3>2. /\ SubSeq(list, o + 1, last) \in Seq(Listed)
          /\ Len(SubSeq(list, o + 1, last)) = IF o + 1 <= last THEN last - o ELSE 0
          /\ DOMAIN SubSeq(list, o + 1, last) = 1..(last - o)
          /\ \A k \in 1..(last - o) : SubSeq(list, o + 1, last)[k] = list[k + o]
      BY ONLY <3>1, PartOf, Zenon
    <3>3. part = SubSeq(list, o + 1, last)
      BY <2>1
    <3> QED BY ONLY <3>2, <3>3, Zenon
  <2>5. Len(part) <= size
    BY <1>2, <2>1, <2>2
  <2>4. \A i \in Nat : i > o /\ i <= last => i - o \in 1..(last - o) /\ i - o + o = i
    BY <2>1
  <2> QED BY <2>2, <2>4, <2>5
<1>7. ASSUME NEW r \in Listed, Fixed(r), Cardinality(RowsAbove(r)) >= Offset, r \notin Range(part)
      PROVE  Cardinality(RowsAbove(r)) >= Offset + size
  <2>1. PICK i \in 1..Len(list) : list[i] = r /\ Cardinality(RowsAbove(r)) = i - 1
    BY <1>7, PlaceInList
  <2>2. i \in Nat /\ i >= Offset + 1
    BY <1>1, <1>2, <1>7, <2>1
  <2>3. ASSUME i <= last PROVE FALSE
    <3>1. i - o \in DOMAIN part /\ part[i - o] = list[i]
      <4>1. i > o
        BY <1>o, <1>2, <2>2
      <4> QED BY <1>6, <2>2, <2>3, <4>1
    <3> QED BY <1>7, <2>1, <3>1 DEF Range
  <2> QED BY <1>1, <1>2, <1>4, <2>1, <2>2, <2>3
<1> QED BY <1>6, <1>7

LEMMA Turns ==
  ASSUME PagesTypes, Reading, todo # <<>>
  PROVE  /\ page > 0
         /\ Head(todo) = "last" => ByTime /\ todo = <<"last", "older", "rows">> /\ Tail(todo) = <<"older", "rows">>
         /\ Head(todo) = "older" => ByTime /\ todo = <<"older", "rows">> /\ Tail(todo) = <<"rows">>
         /\ Head(todo) = "rows" /\ ByTime => todo = <<"rows">> /\ Tail(todo) = <<>>
         /\ Head(todo) = "rows" /\ ~ByTime =>
              \/ todo = <<"rows", "count">> /\ Tail(todo) = <<"count">>
              \/ todo = <<"rows">> /\ Tail(todo) = <<>>
         /\ Head(todo) = "count" =>
              /\ ~ByTime
              /\ \/ todo = <<"count", "rows">> /\ Tail(todo) = <<"rows">>
                 \/ todo = <<"count">> /\ Tail(todo) = <<>>
<1>1. /\ Head(<<"last", "older", "rows">>) = "last" /\ Tail(<<"last", "older", "rows">>) = <<"older", "rows">>
      /\ Head(<<"older", "rows">>) = "older" /\ Tail(<<"older", "rows">>) = <<"rows">>
      /\ Head(<<"rows", "count">>) = "rows" /\ Tail(<<"rows", "count">>) = <<"count">>
      /\ Head(<<"count", "rows">>) = "count" /\ Tail(<<"count", "rows">>) = <<"rows">>
      /\ Head(<<"rows">>) = "rows" /\ Tail(<<"rows">>) = <<>>
      /\ Head(<<"count">>) = "count" /\ Tail(<<"count">>) = <<>>
  OBVIOUS
<1>2. page > 0
  BY DEF Reading, PagesTypes
<1>3. /\ "last" # "older" /\ "last" # "rows" /\ "last" # "count"
      /\ "older" # "rows" /\ "older" # "count" /\ "rows" # "count"
  OBVIOUS
<1>4. CASE ByTime
  <2>1. \/ todo = <<"last", "older", "rows">> \/ todo = <<"older", "rows">> \/ todo = <<"rows">>
    BY <1>4 DEF Reading
  <2> QED BY <1>1, <1>2, <1>3, <1>4, <2>1, Zenon
<1>5. CASE ~ByTime
  <2>1. \/ todo = <<"rows", "count">> \/ todo = <<"count", "rows">> \/ todo = <<"rows">> \/ todo = <<"count">>
    BY <1>5 DEF Reading, RowsFirst, CountFirst
  <2> QED BY <1>1, <1>2, <1>3, <1>5, <2>1, Zenon
<1> QED BY <1>4, <1>5

\* The handler's own steps leave the rows alone.
LEMMA ReadingSteps ==
  ASSUME PagesTypes, UNCHANGED <<view, size, key, unlisted, page, before, moved>>
  PROVE  /\ Listed' = Listed /\ RowIds' = RowIds /\ (ByTime <=> ByTime') /\ Offset' = Offset
         /\ Offset \in Int /\ size \in Nat \ {0}
         /\ \A r : RowsAbove(r)' = RowsAbove(r) /\ (Fixed(r) <=> Fixed(r)') /\ Cardinality(RowsAbove(r)) \in Nat
         /\ Missed' = {r \in before \ seen' : Fixed(r)}
         /\ Missed \subseteq Listed
<1>1. /\ Listed' = Listed /\ RowIds' = RowIds /\ (ByTime <=> ByTime') /\ Offset' = Offset
      /\ Offset \in Int /\ size \in Nat \ {0}
  BY DEF Listed, RowIds, ByTime, Offset, PagesTypes
<1>2. \A r : RowsAbove(r)' = RowsAbove(r) /\ (Fixed(r) <=> Fixed(r)') /\ Cardinality(RowsAbove(r)) \in Nat
  BY <1>1, ListedFinite DEF RowsAbove, Fixed
<1>3. Missed' = {r \in before \ seen' : Fixed(r)} /\ Missed \subseteq Listed
  BY <1>2 DEF Missed, PagesTypes
<1> QED BY <1>1, <1>2, <1>3

LEMMA ReadRowsInv ==
  ASSUME PagesAssumption, PagesInv, ReadRows
  PROVE  PagesInv'
<1> USE DEF PagesInv
<1>1. /\ todo # <<>> /\ Head(todo) = "rows" /\ todo' = Tail(todo)
      /\ seen' = IF todo' = <<>> THEN seen \cup Range(shown') ELSE seen
      /\ UNCHANGED <<view, size, key, unlisted, page, before, slipped, moved, count, at, older>>
  BY DEF ReadRows, Result, Turn
<1>2. page > 0
  BY <1>1, Turns
<1>3. /\ Listed' = Listed /\ RowIds' = RowIds /\ (ByTime <=> ByTime') /\ Offset' = Offset
      /\ Offset \in Int /\ size \in Nat \ {0}
      /\ \A r : RowsAbove(r)' = RowsAbove(r) /\ (Fixed(r) <=> Fixed(r)') /\ Cardinality(RowsAbove(r)) \in Nat
      /\ Missed' = {r \in before \ seen' : Fixed(r)} /\ Missed \subseteq Listed
  BY <1>1, ReadingSteps
<1>4. CASE ByTime
  <2>1. todo = <<"rows">> /\ todo' = <<>> /\ todo # <<"last", "older", "rows">> /\ todo' # <<"last", "older", "rows">>
    BY <1>1, <1>4, Turns
  <2>2. at # 0 /\ at \in Listed
    BY <1>2, <1>4, <2>1 DEF Linking, PagesTypes
  <2>3. shown' = <<at>> /\ Range(shown') = {at}
    BY <1>4 DEF ReadRows, Range
  <2>4. seen' = seen \cup {at}
    BY <1>1, <2>1, <2>3
  <2>5. PagesTypes'
    <3>1. shown' \in Seq(Listed) /\ Len(shown') = 1 /\ 1 <= size
      BY <1>3, <2>2, <2>3
    <3>2. seen' \cup before' \subseteq Listed
      BY <1>1, <2>2, <2>4 DEF PagesTypes
    <3> QED BY <1>1, <1>3, <3>1, <3>2 DEF PagesTypes
  <2>6. Missed' \subseteq Missed
    BY <1>3, <2>4 DEF Missed
  <2>7. Reading' /\ Paging'
    BY <1>1, <1>2, <1>3, <1>4, <2>1 DEF Reading, Paging
  <2>8. Linking'
    BY <1>1, <1>2, <1>3, <1>4, <2>1, <2>2, <2>4, <2>6 DEF Linking
  <2> QED BY <2>5, <2>7, <2>8
<1>5. CASE ~ByTime
  <2>1. PICK list \in NewestFirst : shown' = SubSeq(list, Offset + 1, Min({Offset + size, Len(list)}))
    BY <1>5 DEF ReadRows
  <2>2. /\ shown' \in Seq(Listed) /\ Len(shown') <= size
        /\ \A r \in Listed : Fixed(r) /\ Cardinality(RowsAbove(r)) >= Offset /\ r \notin Range(shown')
              => Cardinality(RowsAbove(r)) >= Offset + size
    BY <1>2, <2>1, PageOfRows
  <2>3. Range(shown') \subseteq Listed
    BY <2>2 DEF Range
  <2>4. PagesTypes'
    <3>1. seen' \cup before' \subseteq Listed
      BY <1>1, <2>3 DEF PagesTypes
    <3> QED BY <1>1, <1>3, <2>2, <3>1 DEF PagesTypes
  <2>5. (todo = <<"rows", "count">> /\ todo' = <<"count">>) \/ (todo = <<"rows">> /\ todo' = <<>>)
    BY <1>1, <1>5, Turns
  <2>6. Reading' /\ Linking'
    <3>1. todo' \in {<<"count">>, <<>>} /\ (todo' = <<"count">> => older = 0)
      BY <1>5, <2>5 DEF Reading
    <3> QED BY <1>1, <1>2, <1>3, <1>5, <3>1 DEF Reading, Linking
  <2>7. Missed' \subseteq Missed
    BY <1>1, <1>3 DEF Missed
  <2>8. \A r \in Missed : Fixed(r) /\ Cardinality(RowsAbove(r)) >= Offset /\ r \in Listed
    BY <1>2, <1>3, <1>5 DEF Paging, Missed
  <2>9. \A r \in Missed \ Range(shown') : Cardinality(RowsAbove(r)) >= Offset + size
    BY <2>2, <2>8
  <2>10. CASE todo' = <<"count">>
    <3>1. todo' # <<>> /\ todo' # <<"rows">>
      BY <2>10
    <3> QED BY <1>1, <1>2, <1>3, <1>5, <2>4, <2>6, <2>7, <2>8, <2>9, <3>1 DEF Paging
  <2>11. CASE todo = <<"rows">> /\ todo' = <<>>
    <3>1. seen' = seen \cup Range(shown')
      BY <1>1, <2>11
    <3>2. Missed' \subseteq Missed \ Range(shown')
      BY <1>3, <3>1 DEF Missed
    <3>3. ASSUME ~slipped, NEW r \in Missed' PROVE count > Offset + size
      <4>1. r \in Missed /\ r \notin Range(shown') /\ r \in Listed
        BY <2>8, <3>2, <3>3
      <4>2. Cardinality(RowsAbove(r)) >= Offset + size /\ Cardinality(RowsAbove(r)) \in Nat
        BY <1>3, <2>9, <4>1
      <4>3. Cardinality(RowsAbove(r)) < Cardinality(Listed) /\ Cardinality(Listed) \in Nat
        BY <4>1, ListedFinite
      <4>4. count >= Cardinality(Listed) /\ count \in Nat
        BY <1>2, <1>5, <2>11, <3>3 DEF Paging, PagesTypes, PagesAssumption
      <4> QED BY <1>3, <4>2, <4>3, <4>4
    <3>4. todo' # <<"rows">>
      BY <2>11
    <3>5. Paging'
      BY <1>1, <1>2, <1>3, <1>5, <2>8, <2>9, <2>11, <3>1, <3>2, <3>3, <3>4 DEF Paging
    <3> QED BY <2>4, <2>6, <3>5
  <2> QED BY <2>5, <2>10, <2>11
<1> QED BY <1>4, <1>5

LEMMA ReadCountInv ==
  ASSUME PagesAssumption, PagesInv, ReadCount
  PROVE  PagesInv'
<1> USE DEF PagesInv
<1>1. /\ todo # <<>> /\ Head(todo) = "count" /\ todo' = Tail(todo)
      /\ seen' = IF todo' = <<>> THEN seen \cup Range(shown') ELSE seen
      /\ UNCHANGED <<view, size, key, unlisted, page, before, slipped, moved, shown, at, older>>
  BY DEF ReadCount, Result, Turn
<1>2. page > 0 /\ ~ByTime
  BY <1>1, Turns
<1>3. /\ Listed' = Listed /\ RowIds' = RowIds /\ (ByTime <=> ByTime') /\ Offset' = Offset
      /\ Offset \in Int /\ size \in Nat \ {0}
      /\ \A r : RowsAbove(r)' = RowsAbove(r) /\ (Fixed(r) <=> Fixed(r)') /\ Cardinality(RowsAbove(r)) \in Nat
      /\ Missed' = {r \in before \ seen' : Fixed(r)} /\ Missed \subseteq Listed
  BY <1>1, ReadingSteps
<1>4. count' \in 0..MaxRows /\ count' >= Cardinality(Listed) /\ Cardinality(Listed) \in Nat
  <2>1. count' = Cardinality(RowIds) \/ count' = Cardinality(Listed)
    BY DEF ReadCount
  <2>2. /\ Cardinality(RowIds) = Len(key) /\ Cardinality(Listed) \in Nat /\ Cardinality(Listed) <= Len(key)
        /\ Len(key) \in Nat /\ Len(key) <= MaxRows /\ MaxRows \in Nat
    BY ListedFinite DEF PagesTypes, PagesAssumption
  <2> QED BY <2>1, <2>2
<1>5. Range(shown) \subseteq Listed
  BY DEF Range, PagesTypes
<1>6. PagesTypes'
  <2>1. seen' \cup before' \subseteq Listed
    BY <1>1, <1>5 DEF PagesTypes
  <2> QED BY <1>1, <1>3, <1>4, <2>1 DEF PagesTypes
<1>7. (todo = <<"count", "rows">> /\ todo' = <<"rows">>) \/ (todo = <<"count">> /\ todo' = <<>>)
  BY <1>1, Turns
<1>8. Reading' /\ Linking'
  BY <1>1, <1>2, <1>3, <1>7 DEF Reading, Linking
<1>9. Missed' \subseteq Missed /\ \A r \in Missed : Cardinality(RowsAbove(r)) >= Offset
  BY <1>1, <1>2, <1>3 DEF Missed, Paging
<1>10. CASE todo' = <<"rows">>
  <2>1. todo' # <<>> /\ todo' # <<"count">>
    BY <1>10
  <2>2. Paging'
    BY <1>1, <1>2, <1>3, <1>4, <1>9, <1>10, <2>1 DEF Paging
  <2> QED BY <1>6, <1>8, <2>2
<1>11. CASE todo = <<"count">> /\ todo' = <<>>
  <2>1. seen' = seen \cup Range(shown) /\ todo' # <<"rows">>
    BY <1>1, <1>11
  <2>2. Missed' \subseteq Missed \ Range(shown)
    BY <1>3, <2>1 DEF Missed
  <2>3. \A r \in Missed' : Cardinality(RowsAbove(r)) >= Offset + size
    BY <1>2, <1>11, <2>2 DEF Paging
  <2>4. ASSUME NEW r \in Missed' PROVE count' > Offset + size
    <3>1. Cardinality(RowsAbove(r)) < Cardinality(Listed)
      BY <1>3, <1>9, ListedFinite
    <3> QED BY <1>3, <1>4, <2>3, <3>1
  <2>5. Paging'
    BY <1>1, <1>2, <1>3, <1>9, <1>11, <2>1, <2>3, <2>4 DEF Paging
  <2> QED BY <1>6, <1>8, <2>5
<1> QED BY <1>7, <1>10, <1>11

LEMMA LastSnapshotTimeInv ==
  ASSUME PagesAssumption, PagesInv, LastSnapshotTime
  PROVE  PagesInv'
<1> USE DEF PagesInv
<1>1. /\ todo # <<>> /\ Head(todo) = "last"
      /\ at' = NewestRow(Listed) /\ todo' = IF Listed = {} THEN <<>> ELSE Tail(todo)
      /\ UNCHANGED <<view, size, key, unlisted, page, shown, count, seen, older, before, slipped, moved>>
  BY DEF LastSnapshotTime, Turn
<1>2. page > 0 /\ ByTime /\ todo = <<"last", "older", "rows">>
  BY <1>1, Turns
<1>3. /\ Listed' = Listed /\ RowIds' = RowIds /\ (ByTime <=> ByTime')
      /\ Missed' = Missed /\ Missed \subseteq Listed
  <2>1. /\ Listed' = Listed /\ RowIds' = RowIds /\ (ByTime <=> ByTime')
        /\ Missed' = {r \in before \ seen' : Fixed(r)} /\ Missed \subseteq Listed
    BY <1>1, ReadingSteps
  <2> QED BY <1>1, <2>1 DEF Missed
<1>4. /\ Listed = {} => at' = 0
      /\ Listed # {} => at' \in Listed /\ \A r \in Listed : key[r] <= key[at']
  BY <1>1, ListedFinite, NewestIn
<1>5. Listed # {} => at' # 0 /\ todo' = <<"older", "rows">>
  <2>1. 0 \notin Listed
    BY ListedFinite
  <2> QED BY <1>1, <1>2, <1>4, <2>1
<1>6. PagesTypes'
  <2>1. {at', older'} \subseteq Listed \cup {0}
    BY <1>1, <1>4 DEF PagesTypes
  <2> QED BY <1>1, <1>3, <2>1 DEF PagesTypes
<1>7. Paging'
  BY <1>2, <1>3 DEF Paging
<1>8. CASE Listed = {}
  <2>1. todo' = <<>> /\ at' = 0 /\ before' = {}
    BY <1>1, <1>4, <1>8 DEF PagesTypes
  <2>2. Linking'
    BY <2>1 DEF Linking
  <2>3. ~(page > 1)
    BY <1>2 DEF Reading
  <2>4. Reading'
    BY <1>1, <1>2, <1>3, <2>1 DEF Reading
  <2> QED BY <1>6, <1>7, <2>2, <2>4
<1>9. CASE Listed # {}
  <2>1. todo' = <<"older", "rows">> /\ todo' # <<"rows">> /\ todo' # <<>> /\ at' # 0
    BY <1>5, <1>9
  <2>2. older' = 0
    BY <1>1, <1>2 DEF Reading
  <2>3. Reading'
    BY <1>1, <1>2, <1>3, <2>1, <2>2 DEF Reading
  <2>4. Linking'
    BY <1>1, <1>3, <1>4, <1>9, <2>1 DEF Linking
  <2> QED BY <1>6, <1>7, <2>3, <2>4
<1> QED BY <1>8, <1>9

LEMMA PreviousSnapshotInv ==
  ASSUME PagesAssumption, PagesInv, PreviousSnapshot
  PROVE  PagesInv'
<1> USE DEF PagesInv
<1> DEFINE Earlier == {r \in Listed : key[r] < key[at]}
<1>1. /\ todo # <<>> /\ Head(todo) = "older" /\ todo' = Tail(todo)
      /\ seen' = IF todo' = <<>> THEN seen \cup Range(shown') ELSE seen
      /\ older' = NewestRow(Earlier)
      /\ UNCHANGED <<view, size, key, unlisted, page, before, slipped, moved, shown, at, count>>
  BY DEF PreviousSnapshot, Result, Turn
<1>2. page > 0 /\ ByTime /\ todo = <<"older", "rows">> /\ todo' = <<"rows">>
  BY <1>1, Turns
<1>3. todo # <<"last", "older", "rows">> /\ todo # <<>> /\ todo' # <<>> /\ seen' = seen
  BY <1>1, <1>2
<1>4. /\ Listed' = Listed /\ RowIds' = RowIds /\ (ByTime <=> ByTime')
      /\ Missed' = Missed /\ Missed \subseteq Listed
  <2>1. /\ Listed' = Listed /\ RowIds' = RowIds /\ (ByTime <=> ByTime')
        /\ Missed' = {r \in before \ seen' : Fixed(r)} /\ Missed \subseteq Listed
    BY <1>1, ReadingSteps
  <2> QED BY <1>3, <2>1 DEF Missed
<1>5. /\ Earlier = {} => older' = 0
      /\ Earlier # {} => older' \in Earlier /\ \A r \in Earlier : key[r] <= key[older']
  <2>1. Earlier \in SUBSET RowIds
    BY ListedFinite
  <2> HIDE DEF Earlier
  <2> QED BY <1>1, <2>1, NewestIn
<1>6. Earlier # {} => older' \in Listed /\ older' # 0
  BY <1>5, ListedFinite
<1>7. PagesTypes'
  <2>1. {at', older'} \subseteq Listed \cup {0}
    BY <1>1, <1>5, <1>6 DEF PagesTypes
  <2> QED BY <1>1, <1>3, <1>4, <2>1 DEF PagesTypes
<1>8. Reading' /\ Paging'
  BY <1>1, <1>2, <1>4 DEF Reading, Paging
<1>9. at # 0 /\ \A r \in Missed : key[r] <= key[at]
  BY <1>2, <1>3 DEF Linking
<1>10. \A r \in Missed : key[r] < key[at] => older' # 0 /\ key[r] <= key[older']
  BY <1>4, <1>5, <1>6
<1>11. Linking'
  BY <1>1, <1>2, <1>3, <1>4, <1>9, <1>10 DEF Linking
<1> QED BY <1>7, <1>8, <1>11

LEMMA QueryFailsInv ==
  ASSUME PagesAssumption, PagesInv, QueryFails
  PROVE  PagesInv'
<1> USE DEF PagesInv
<1>1. /\ todo # <<>> /\ todo' = ReadsOf(page) /\ shown' = <<>> /\ count' = 0 /\ older' = 0
      /\ slipped' = FALSE
      /\ UNCHANGED <<view, size, key, unlisted, page, seen, at, before, moved>>
  BY DEF QueryFails
<1>2. page > 0 /\ page \in Nat
  BY <1>1 DEF Reading, PagesTypes
<1>3. /\ ~ByTime => todo' \in {RowsFirst, CountFirst}
      /\ ByTime => todo' = IF page > 1 THEN <<"older", "rows">> ELSE <<"last", "older", "rows">>
  BY <1>1, <1>2, Shapes
<1>4. /\ Listed' = Listed /\ RowIds' = RowIds /\ (ByTime <=> ByTime') /\ Offset' = Offset
      /\ \A r : RowsAbove(r)' = RowsAbove(r)
      /\ Missed' = Missed
  <2>1. /\ Listed' = Listed /\ RowIds' = RowIds /\ (ByTime <=> ByTime') /\ Offset' = Offset
        /\ \A r : RowsAbove(r)' = RowsAbove(r)
        /\ Missed' = {r \in before \ seen' : Fixed(r)}
    BY <1>1, ReadingSteps
  <2> QED BY <1>1, <2>1 DEF Missed
<1>5. PagesTypes'
  <2>1. shown' \in Seq(Listed) /\ Len(shown') <= size
    BY <1>1 DEF PagesTypes
  <2>2. count' \in 0..MaxRows
    BY <1>1 DEF PagesAssumption
  <2>3. slipped' \in BOOLEAN
    BY <1>1
  <2> QED BY <1>1, <1>4, <2>1, <2>2, <2>3 DEF PagesTypes
<1>6. Reading'
  BY <1>1, <1>2, <1>3, <1>4 DEF Reading
<1>7. Paging'
  <2> SUFFICES ASSUME ~ByTime PROVE Paging'
    BY <1>4 DEF Paging
  <2>1. todo' # <<"count">> /\ todo' # <<>> /\ todo' # <<"rows">>
    BY <1>3 DEF RowsFirst, CountFirst
  <2> QED BY <1>1, <1>2, <1>4, <2>1 DEF Paging
<1>8. Linking'
  <2> SUFFICES ASSUME ByTime, page > 1 PROVE Linking'
    BY <1>1, <1>2, <1>3, <1>4 DEF Linking
  <2>1. todo' = <<"older", "rows">> /\ todo' # <<"rows">> /\ todo' # <<>> /\ at # 0
    BY <1>3 DEF Reading
  <2>2. todo # <<"last", "older", "rows">> => \A r \in Missed : key[r] <= key[at]
    BY <1>2, <2>1 DEF Linking
  <2>3. todo # <<"last", "older", "rows">>
    BY DEF Reading
  <2> QED BY <1>1, <1>4, <2>1, <2>2, <2>3 DEF Linking
<1> QED BY <1>5, <1>6, <1>7, <1>8

LEMMA LinkFailsInv ==
  ASSUME PagesAssumption, PagesInv, LinkFails
  PROVE  PagesInv'
<1> USE DEF PagesInv
<1>1. /\ todo # <<>> /\ Head(todo) = "older" /\ todo' = Tail(todo) /\ slipped' = TRUE
      /\ UNCHANGED <<view, size, key, unlisted, page, shown, count, seen, at, older, before, moved>>
  BY DEF LinkFails, Turn
<1>2. page > 0 /\ ByTime /\ todo = <<"older", "rows">> /\ todo' = <<"rows">> /\ older = 0
  <2>1. page > 0 /\ ByTime /\ todo = <<"older", "rows">> /\ todo' = <<"rows">>
    BY <1>1, Turns
  <2>2. todo # <<"rows">> /\ todo # <<>>
    BY <2>1
  <2> QED BY <2>1, <2>2 DEF Reading
<1>3. todo # <<"last", "older", "rows">> /\ todo # <<>> /\ todo' # <<>>
  BY <1>2
<1>4. /\ Listed' = Listed /\ RowIds' = RowIds /\ (ByTime <=> ByTime')
      /\ Missed' = Missed
  <2>1. /\ Listed' = Listed /\ RowIds' = RowIds /\ (ByTime <=> ByTime')
        /\ Missed' = {r \in before \ seen' : Fixed(r)}
    BY <1>1, ReadingSteps
  <2> QED BY <1>1, <2>1 DEF Missed
<1>5. PagesTypes'
  <2>1. slipped' \in BOOLEAN
    BY <1>1
  <2> QED BY <1>1, <1>4, <2>1 DEF PagesTypes
<1>6. Reading' /\ Paging'
  BY <1>1, <1>2, <1>4 DEF Reading, Paging
<1>7. Linking'
  BY <1>1, <1>2, <1>3, <1>4 DEF Linking
<1> QED BY <1>5, <1>6, <1>7

\* Every page but the last of the treasury links the one after it, however many pages
\* calcPages leaves out between the first and the last: whoever follows the links sees them all.
THEOREM NextPageLinked ==
  ASSUME NEW n \in Nat, NEW per \in Nat \ {0}, NEW current \in Nat,
         current + 1 <= n \div per
  PROVE  current + 1 \in calcPages(n, per, current)
<1> DEFINE e == n \div per
<1>1. e \in Nat /\ current + 1 <= e
  OBVIOUS
<1> HIDE DEF e
<1>2. CASE e + 1 <= 10
  BY <1>1, <1>2 DEF calcPages, e
<1>3. CASE e + 1 > 10 /\ current - 3 <= 1
  BY <1>1, <1>3 DEF calcPages, e
<1>4. CASE e + 1 > 10 /\ current - 3 > 1
  BY <1>1, <1>4 DEF calcPages, e
<1> QED BY <1>1, <1>2, <1>3, <1>4

LEMMA PagesNextInv ==
  ASSUME PagesAssumption, PagesInv, [PagesNext]_pagesVars
  PROVE  PagesInv'
<1>1. CASE UNCHANGED pagesVars
  <2>1. UNCHANGED <<view, size, key, unlisted, page, todo, shown, count, seen, at, older, before, slipped, moved>>
    BY <1>1 DEF pagesVars
  <2>2. PagesTypes
    BY DEF PagesInv
  <2>3. /\ Listed' = Listed /\ RowIds' = RowIds /\ (ByTime <=> ByTime') /\ Offset' = Offset
        /\ \A r : RowsAbove(r)' = RowsAbove(r)
        /\ Missed' = Missed
    <3>1. /\ Listed' = Listed /\ RowIds' = RowIds /\ (ByTime <=> ByTime') /\ Offset' = Offset
          /\ \A r : RowsAbove(r)' = RowsAbove(r)
          /\ Missed' = {r \in before \ seen' : Fixed(r)}
      BY <2>1, <2>2, ReadingSteps
    <3> QED BY <2>1, <3>1 DEF Missed
  <2>4. PagesTypes' /\ Reading'
    BY <2>1, <2>3 DEF PagesInv, PagesTypes, Reading
  <2>5. Paging'
    BY <2>1, <2>3 DEF PagesInv, Paging
  <2>6. Linking'
    BY <2>1, <2>3 DEF PagesInv, Linking
  <2> QED BY <2>4, <2>5, <2>6 DEF PagesInv
<1>2. ASSUME NEW k \in {TopKey, TopKey + 1}, NEW listed \in BOOLEAN, InsertRow(k, listed) PROVE PagesInv'
  BY <1>2, InsertRowInv
<1>3. ASSUME NEW r \in RowIds, SeenAgain(r) PROVE PagesInv'
  BY <1>3, SeenAgainInv
<1>4. ASSUME NEW p \in {1, page + 1}, ReadPage(p) PROVE PagesInv'
  BY <1>4, ReadPageInv
<1>5. CASE ReadRows
  BY <1>5, ReadRowsInv
<1>6. CASE ReadCount
  BY <1>6, ReadCountInv
<1>7. CASE LastSnapshotTime
  BY <1>7, LastSnapshotTimeInv
<1>8. CASE PreviousSnapshot
  BY <1>8, PreviousSnapshotInv
<1>9. CASE QueryFails
  BY <1>9, QueryFailsInv
<1>10. CASE LinkFails
  BY <1>10, LinkFailsInv
<1> QED BY <1>1, <1>2, <1>3, <1>4, <1>5, <1>6, <1>7, <1>8, <1>9, <1>10 DEF PagesNext

LEMMA PagesInvTypeOK == PagesAssumption /\ PagesInv => PagesTypeOK
<1> SUFFICES ASSUME PagesAssumption, PagesInv PROVE PagesTypeOK
  OBVIOUS
<1>1. PagesTypes
  BY DEF PagesInv
<1>2. Listed \subseteq RowIds /\ Range(shown) \subseteq Listed
  BY <1>1, ListedFinite DEF PagesTypes, Range
<1> QED BY <1>1, <1>2 DEF PagesTypes, PagesTypeOK

LEMMA Quotient ==
  ASSUME NEW n \in Nat, NEW d \in Nat \ {0}, NEW q \in Nat, n >= q * d
  PROVE  n \div d >= q
  OBVIOUS

LEMMA InvWalkShowsAll == PagesAssumption /\ PagesInv => WalkShowsAll
<1> SUFFICES ASSUME PagesAssumption, PagesInv, WalkOver, SizeFits, NEW r \in before \ seen,
                    \A o \in RowIds \ {r} : key[o] # key[r], ~slipped, r \notin moved
             PROVE  FALSE
  BY DEF WalkShowsAll
<1>1. page > 0 /\ todo = <<>> /\ ~Offered /\ todo # <<"last", "older", "rows">> /\ page \in Nat
  BY DEF WalkOver, Answered, PagesInv, PagesTypes
<1>2. r \in Missed
  BY DEF Missed, Fixed
<1>3. PagesTypes /\ size \in Nat \ {0} /\ count \in Nat /\ view \in DOMAIN AllViews
  BY DEF PagesInv, PagesTypes, PagesAssumption
<1>4. CASE ByTime
  <2>1. at # 0 /\ at \in seen /\ key[r] <= key[at]
    BY <1>1, <1>2, <1>4 DEF PagesInv, Linking
  <2>2. at \in RowIds /\ r \in RowIds /\ at # r
    BY <1>3, <2>1, ListedFinite DEF PagesTypes
  <2>3. key[r] \in Nat /\ key[at] \in Nat /\ key[at] # key[r]
    BY <1>3, <2>2 DEF PagesTypes, RowIds
  <2>4. key[r] < key[at]
    BY <2>1, <2>3
  <2>5. older # 0
    BY <1>1, <1>2, <1>4, <2>1, <2>4 DEF PagesInv, Linking
  <2>6. Offered
    <3>1. AllViews[view].pages = "by time" /\ "by time" # "linked" /\ Answered
      BY <1>1, <1>4 DEF ByTime, Answered
    <3> QED BY <2>5, <3>1 DEF Offered
  <2> QED BY <1>1, <2>6
<1>5. CASE ~ByTime
  <2>1. count > Offset + size
    BY <1>1, <1>2, <1>5 DEF PagesInv, Paging
  <2>2. Offset + size = page * size /\ page * size \in Nat
    BY <1>1, <1>3 DEF Offset
  <2>3. count >= page * size + 1
    BY <1>3, <2>1, <2>2
  <2>4. CASE AllViews[view].pages = "linked"
    <3>1. count \div size >= page /\ count \div size \in Nat
      BY <1>1, <1>3, <2>2, <2>3, Quotient
    <3>2. page - 1 \in Nat /\ (page - 1) + 1 = page
      BY <1>1
    <3>3. (page - 1) + 1 \in calcPages(count, size, page - 1)
      BY <1>3, <3>1, <3>2, NextPageLinked
    <3>4. Offered
      BY <1>1, <2>4, <3>2, <3>3 DEF Offered, Answered
    <3> QED BY <1>1, <3>4
  <2>5. CASE AllViews[view].pages # "linked"
    <3>1. PageCount = PagesOf(count, size)
      BY DEF SizeFits, PageCount
    <3>2. count + size - 1 \in Nat /\ (page + 1) * size = page * size + size
          /\ count + size - 1 >= page * size + size
      BY <1>1, <1>3, <2>2, <2>3
    <3>3. (count + size - 1) \div size >= page + 1 /\ (count + size - 1) \div size \in Nat
      BY <1>1, <1>3, <3>2, Quotient
    <3>4. page < PageCount
      BY <1>1, <3>1, <3>3 DEF PagesOf
    <3>5. Offered
      BY <1>1, <1>5, <2>5, <3>4 DEF Offered, Answered, ByTime
    <3> QED BY <1>1, <3>5
  <2> QED BY <2>4, <2>5
<1> QED BY <1>4, <1>5

\* The pages keep their types.
THEOREM PagesTypeCorrect == PagesSpec => []PagesTypeOK
<1>1. PagesInit => PagesInv
  BY PagesAssumption, PagesInitInv
<1>2. PagesInv /\ [PagesNext]_pagesVars => PagesInv'
  BY PagesAssumption, PagesNextInv
<1>3. PagesInv => PagesTypeOK
  BY PagesAssumption, PagesInvTypeOK
<1> QED BY <1>1, <1>2, <1>3, PTL DEF PagesSpec

\* Whoever follows the pages to the last is shown every row that was there when the walk
\* began, but for the exceptions WalkShowsAll names, for every view, page size and number of
\* rows that come in meanwhile.
THEOREM WalksShowAll == PagesSpec => []WalkShowsAll
<1>1. PagesInit => PagesInv
  BY PagesAssumption, PagesInitInv
<1>2. PagesInv /\ [PagesNext]_pagesVars => PagesInv'
  BY PagesAssumption, PagesNextInv
<1>3. PagesInv => WalkShowsAll
  BY PagesAssumption, InvWalkShowsAll
<1> QED BY <1>1, <1>2, <1>3, PTL DEF PagesSpec

-----------------------------------------------------------------------------
(* The charts: every point at its own date and under its own source.        *)

PointSet == [src : SourceSet \cup {""}, at : Nat, n : {0, 1}]

StoredRows ==
  /\ stored = [s \in SourceSet |-> stored[s]]
  /\ \A s \in SourceSet : DatesOf(s) \subseteq 1..LastDate /\ stored[s] \in [DatesOf(s) -> {0, 1}]

ChartTypes ==
  /\ kind \in ChartKinds /\ StoredRows
  /\ axis \in Seq(1..LastDate) /\ fetched \in Seq(Seq(PointSet)) /\ left \in Seq(SourceSet)

\* The series are fetched in the order of their sources, those of a table at once.
InTurn ==
  /\ fetched # <<>> \/ left # <<>> =>
       /\ Len(fetched) + Len(left) = Len(Series)
       /\ \A i \in 1..Len(left) : left[i] = Series[Len(fetched) + i]
  /\ Chart.axis = "table" => left = <<>>

\* Laid along the axis, a point of the axis is one of the source at that date or none.
Along(series, s) ==
  Len(series) = Len(axis) /\ \A i \in 1..Len(series) : series[i] = Gap \/ (series[i].src = s /\ series[i].at = axis[i])

ByAxis == Chart.axis \in {"all dates", "first source", "table"}

LaidOut ==
  /\ ByAxis => \A j \in 1..Len(fetched) : fetched[j] = Nothing \/ Along(fetched[j], Series[j])
  /\ ~ByAxis /\ fetched = <<>> => axis = <<>>
  /\ ~ByAxis =>
       \A j \in 1..Len(fetched) :
         /\ \A i \in 1..Len(fetched[j]) : fetched[j][i].src = Series[j]
         /\ j = 1 => /\ Len(fetched[1]) <= Len(axis)
                     /\ \A i \in 1..Len(fetched[1]) : axis[i] = fetched[1][i].at
  /\ Chart.axis = "every row" /\ Len(fetched) = 1 => Len(axis) = Len(fetched[1])

\* What is encoded.
Encoded ==
  response # Nothing =>
    /\ fetched # <<>> /\ left = <<>> /\ ChartShowsRows
    /\ \A j \in DOMAIN response : Len(response[j]) = Len(response[1])

ChartsInv == ChartTypes /\ InTurn /\ LaidOut /\ Encoded

\* What the chart functions have in common.
LEMMA ChartShapes ==
  ASSUME ChartsAssumption, kind \in ChartKinds
  PROVE  /\ Chart.series \in {"first", "rest", "all"}
         /\ Chart.axis \in {"every row", "all dates", "first source", "new dates", "table"}
         /\ Chart.series = "rest" => Chart.axis = "first source"
         /\ Chart.axis = "table" => Chart.series = "all"
         /\ Chart.series = "first" => Chart.axis = "every row" /\ Chart.inOrder
         /\ kind = "community" => Chart.series = "first"
         /\ ~Chart.inOrder => Chart.axis = "new dates"
<1> DEFINE Shape(c) ==
      /\ c.series \in {"first", "rest", "all"}
      /\ c.axis \in {"every row", "all dates", "first source", "new dates", "table"}
      /\ c.series = "rest" => c.axis = "first source"
      /\ c.axis = "table" => c.series = "all"
      /\ c.series = "first" => c.axis = "every row" /\ c.inOrder
      /\ ~c.inOrder => c.axis = "new dates"
<1>1. Shape(OneQuery) /\ Shape(DatesFirst) /\ Shape(OwnDates) /\ Shape(CellTable) /\ OneQuery.series = "first"
  BY DEF OneQuery, DatesFirst, OwnDates, CellTable
<1>2. /\ Shape(votesReceiveTimeChart) /\ Shape(FetchEncodePowChart) /\ Shape(FetchEncodeBinVspChart)
      /\ Shape(blockPropagationChart)
  BY DEF votesReceiveTimeChart, FetchEncodePowChart, FetchEncodeBinVspChart, blockPropagationChart,
         DatesFirst, OwnDates
<1> HIDE DEF Shape
<1>3. kind \in DOMAIN AllCharts
  BY DEF ChartsAssumption
<1>4. Shape(AllCharts[kind]) /\ (kind = "community" => AllCharts[kind].series = "first")
  BY <1>1, <1>2, <1>3
     DEF AllCharts, fetchEncodeMempoolSize, fetchEncodeMempoolFee, fetchEncodeMempoolTxCount,
         FetchEncodeExchangeChart, CommunityChart, blockTimestampChart, fetchEncodeSnapshotNodesChart,
         FetchPowChart, fetchVspChart, fetchEncodeSnapshotNodeVersionsChart,
         fetchEncodeSnapshotLocationsChart, nodesCountUserAgentsChart, nodesCountByCountriesChart
<1> QED BY <1>4 DEF Shape, Chart

LEMMA SeriesAsked ==
  ASSUME ChartsAssumption, kind \in ChartKinds
  PROVE  /\ Series \in Seq(SourceSet) /\ Len(Series) \in Nat /\ Len(Series) <= Len(Asked)
         /\ Chart.series = "first" => Len(Series) = 1
         /\ Chart.series = "all" => Series = Asked
         /\ Asked \in Seq(SourceSet) /\ Len(Asked) \in Nat \ {0} /\ Head(Asked) \in SourceSet
<1>1. /\ Asked \in Seq(SourceSet) /\ Asked # <<>> /\ Len(Asked) \in Nat \ {0} /\ Head(Asked) \in SourceSet
  BY DEF ChartsAssumption
<1>2. CASE Chart.series = "first"
  <2>1. Series = <<Head(Asked)>>
    BY <1>2 DEF Series
  <2>2. Series \in Seq(SourceSet) /\ Len(Series) = 1
    BY <1>1, <2>1
  <2> QED BY <1>1, <1>2, <2>2
<1>3. CASE Chart.series = "rest"
  <2>1. Series = Tail(Asked)
    <3>1. "rest" # "first"
      OBVIOUS
    <3> QED BY <1>3, <3>1 DEF Series
  <2>2. Tail(Asked) \in Seq(SourceSet) /\ Len(Tail(Asked)) = Len(Asked) - 1
    BY <1>1
  <2> QED BY <1>1, <1>3, <2>1, <2>2
<1>4. CASE Chart.series = "all"
  <2>1. Series = Asked
    <3>1. "all" # "first" /\ "all" # "rest"
      OBVIOUS
    <3> QED BY <1>4, <3>1 DEF Series
  <2> QED BY <1>1, <1>4, <2>1
<1> QED BY <1>2, <1>3, <1>4, ChartShapes

LEMMA MembersOf ==
  ASSUME NEW S, NEW s \in Seq(S)
  PROVE  /\ IsFiniteSet(Range(s)) /\ Range(s) \subseteq S
         /\ \A x \in Range(s) : \E i \in 1..Len(s) : s[i] = x
         /\ \A i \in 1..Len(s) : s[i] \in Range(s)
<1>1. s \in [1..Len(s) -> S] /\ Len(s) \in Nat /\ DOMAIN s = 1..Len(s)
  OBVIOUS
<1>2. Range(s) = {s[i] : i \in 1..Len(s)}
  BY <1>1 DEF Range
<1>3. s \in Surjection(1..Len(s), Range(s))
  BY <1>1, <1>2 DEF Surjection
<1>4. IsFiniteSet(1..Len(s))
  BY <1>1, FS_Interval
<1>5. IsFiniteSet(Range(s))
  BY <1>3, <1>4, FS_Surjection
<1>6. Range(s) \subseteq S
  BY <1>1, <1>2
<1>7. /\ \A x \in Range(s) : \E i \in 1..Len(s) : s[i] = x
      /\ \A i \in 1..Len(s) : s[i] \in Range(s)
  BY <1>2
<1> QED BY <1>5, <1>6, <1>7

LEMMA ListOfSet ==
  ASSUME NEW S, IsFiniteSet(S), NEW list \in SetToSeqs(S)
  PROVE  /\ list \in Seq(S) /\ Len(list) = Cardinality(S) /\ Cardinality(S) \in Nat
         /\ \A i, j \in 1..Len(list) : i # j => list[i] # list[j]
         /\ \A x \in S : \E i \in 1..Len(list) : list[i] = x
<1> DEFINE N == Cardinality(S)
<1>1. N \in Nat
  BY FS_CardinalityType
<1>2. /\ list \in [1..N -> S] /\ \A i, j \in 1..N : i # j => list[i] # list[j]
  BY DEF SetToSeqs
<1>3. Len(list) = N /\ list \in Seq(S)
  BY <1>1, <1>2
<1>4. list \in Injection(1..N, S)
  BY <1>2 DEF Injection, IsInjective
<1>5. IsFiniteSet(1..N) /\ Cardinality(1..N) = N
  BY <1>1, FS_Interval
<1>6. list \in Surjection(1..N, S)
  BY <1>4, <1>5, FS_Injection
<1> HIDE DEF N
<1>7. \A x \in S : \E i \in 1..N : list[i] = x
  BY <1>6 DEF Surjection
<1> QED BY <1>1, <1>2, <1>3, <1>7 DEF N

\* The sets that are encoded: the axis and the series.
Joined(V, ax, ser, sets) ==
  /\ sets \in Seq(Seq(V)) /\ Len(sets) = Len(ser) + 1 /\ DOMAIN sets = 1..(Len(ser) + 1)
  /\ sets[1] = ax /\ \A j \in 1..Len(ser) : sets[j + 1] = ser[j]
  /\ \A j \in 2..Len(sets) : j - 1 \in 1..Len(ser) /\ sets[j] = ser[j - 1]

LEMMA AxisAndSeries ==
  ASSUME NEW V, NEW ax, ax \in Seq(V), NEW ser, ser \in Seq(Seq(V)), NEW sets, sets = <<ax>> \o ser
  PROVE  Joined(V, ax, ser, sets)
<1>1. <<ax>> \in Seq(Seq(V)) /\ Len(<<ax>>) = 1 /\ <<ax>>[1] = ax
  OBVIOUS
<1>2. sets \in Seq(Seq(V)) /\ Len(sets) = Len(ser) + 1 /\ Len(ser) \in Nat
  BY <1>1
<1>3. sets[1] = ax /\ \A j \in 1..Len(ser) : sets[j + 1] = ser[j]
  BY <1>1, <1>2
<1>4. ASSUME NEW j \in 2..Len(sets) PROVE j - 1 \in 1..Len(ser) /\ sets[j] = ser[j - 1]
  <2>1. j - 1 \in 1..Len(ser) /\ (j - 1) + 1 = j
    BY <1>2
  <2> QED BY <1>3, <2>1
<1> QED BY <1>2, <1>3, <1>4 DEF Joined

LEMMA EncodeLengths ==
  ASSUME NEW V, NEW sets \in Seq(Seq(V)), Len(sets) > 0
  PROVE  \E m \in Nat :
           /\ \A j \in 1..Len(sets) : m <= Len(sets[j])
           /\ \E j \in 1..Len(sets) : m = Len(sets[j])
           /\ Encode(sets) = [j \in 1..Len(sets) |-> SubSeq(sets[j], 1, m)]
<1> DEFINE T == {Len(sets[j]) : j \in DOMAIN sets}
<1>1. DOMAIN sets = 1..Len(sets) /\ 1 \in 1..Len(sets)
  OBVIOUS
<1>2. T \in SUBSET Nat /\ T # {}
  <2>1. \A j \in 1..Len(sets) : Len(sets[j]) \in Nat
    OBVIOUS
  <2> QED BY <1>1, <2>1
<1>3. Min(T) \in T /\ \A y \in T : Min(T) <= y
  <2> HIDE DEF T
  <2> QED BY <1>2, MinIn
<1>4. Encode(sets) = [j \in 1..Len(sets) |-> SubSeq(sets[j], 1, Min(T))]
  BY <1>1, Zenon DEF Encode
<1>5. \E j \in 1..Len(sets) : Min(T) = Len(sets[j])
  BY <1>1, <1>3
<1>6. \A j \in 1..Len(sets) : Min(T) <= Len(sets[j])
  BY <1>1, <1>3
<1>7. Min(T) \in Nat
  BY <1>2, <1>3
<1> HIDE DEF T
<1> QED BY <1>4, <1>5, <1>6, <1>7

LEMMA EncodedAlike ==
  ASSUME NEW V, NEW sets \in Seq(Seq(V)), Len(sets) > 0
  PROVE  /\ DOMAIN Encode(sets) = 1..Len(sets)
         /\ \A j \in DOMAIN Encode(sets) : Len(Encode(sets)[j]) = Len(Encode(sets)[1])
<1>1. PICK m \in Nat :
           /\ \A j \in 1..Len(sets) : m <= Len(sets[j])
           /\ \E j \in 1..Len(sets) : m = Len(sets[j])
           /\ Encode(sets) = [j \in 1..Len(sets) |-> SubSeq(sets[j], 1, m)]
  BY EncodeLengths
<1>2. ASSUME NEW j \in 1..Len(sets) PROVE Len(Encode(sets)[j]) = m
  <2>1. Encode(sets)[j] = SubSeq(sets[j], 1, m)
    BY <1>1
  <2>2. sets[j] \in Seq(V) /\ m <= Len(sets[j])
    BY <1>1
  <2>3. Len(SubSeq(sets[j], 1, m)) = m
    BY <2>2
  <2> QED BY <2>1, <2>3
<1>3. 1 \in 1..Len(sets) /\ DOMAIN Encode(sets) = 1..Len(sets)
  BY <1>1
<1> QED BY <1>2, <1>3

\* An axis, and series of length L along it.
Laid(V, ax, ser, L) ==
  /\ ax \in Seq(V) /\ ser \in Seq(Seq(V)) /\ L \in Nat /\ L <= Len(ax)
  /\ \A j \in 1..Len(ser) : Len(ser[j]) = L

\* Series of one length are sent as they are, with as much of the axis.
Whole(ax, ser, L, resp) ==
  /\ DOMAIN resp = 1..(Len(ser) + 1) /\ Len(resp) = Len(ser) + 1
  /\ DOMAIN resp[1] = 1..L /\ \A i \in 1..L : resp[1][i] = ax[i]
  /\ \A j \in 1..Len(ser) : resp[j + 1] = ser[j]

LEMMA EncodedWhole ==
  ASSUME NEW V, NEW ax, NEW ser, NEW L, Laid(V, ax, ser, L), ser # <<>>,
         NEW sets, sets = <<ax>> \o ser, NEW resp, resp = Encode(sets)
  PROVE  Whole(ax, ser, L, resp)
<1> USE DEF Laid
<1>1. /\ sets \in Seq(Seq(V)) /\ Len(sets) = Len(ser) + 1
      /\ sets[1] = ax /\ \A j \in 1..Len(ser) : sets[j + 1] = ser[j]
      /\ \A j \in 2..Len(sets) : j - 1 \in 1..Len(ser) /\ sets[j] = ser[j - 1]
  BY AxisAndSeries DEF Joined
<1>2. Len(ser) \in Nat \ {0}
  OBVIOUS
<1>3. PICK m \in Nat :
           /\ \A j \in 1..Len(sets) : m <= Len(sets[j])
           /\ \E j \in 1..Len(sets) : m = Len(sets[j])
           /\ Encode(sets) = [j \in 1..Len(sets) |-> SubSeq(sets[j], 1, m)]
  <2>1. sets \in Seq(Seq(V)) /\ Len(sets) > 0
    BY <1>1, <1>2
  <2> QED BY ONLY <2>1, EncodeLengths, Zenon
<1>4. m = L
  <2>1. 2 \in 1..Len(sets) /\ sets[2] = ser[1] /\ Len(ser[1]) = L
    BY <1>1, <1>2
  <2>2. m <= L
    BY <1>3, <2>1
  <2>3. PICK j \in 1..Len(sets) : m = Len(sets[j])
    BY <1>3
  <2>4. CASE j = 1
    BY <1>1, <2>2, <2>3, <2>4
  <2>5. CASE j # 1
    <3>1. j \in 2..Len(sets)
      BY <1>1, <1>2, <2>5
    <3> QED BY <1>1, <2>3, <3>1
  <2> QED BY <2>4, <2>5
<1>5. resp = [j \in 1..(Len(ser) + 1) |-> SubSeq(sets[j], 1, L)]
  BY <1>1, <1>3, <1>4
<1>6. DOMAIN resp = 1..(Len(ser) + 1) /\ Len(resp) = Len(ser) + 1
  BY <1>2, <1>5
<1>7. resp[1] = SubSeq(ax, 1, L)
  <2>1. 1 \in 1..(Len(ser) + 1)
    BY <1>2
  <2> QED BY <1>1, <1>5, <2>1, Zenon
<1>8. DOMAIN resp[1] = 1..L /\ \A i \in 1..L : resp[1][i] = ax[i]
  <2>1. ax \in Seq(V) /\ L \in Nat /\ L <= Len(ax)
    OBVIOUS
  <2>2. /\ DOMAIN SubSeq(ax, 1, L) = 1..L /\ \A i \in 1..L : SubSeq(ax, 1, L)[i] = ax[i]
    BY ONLY <2>1
  <2> QED BY <1>7, <2>2
<1>9. ASSUME NEW j \in 1..Len(ser) PROVE resp[j + 1] = ser[j]
  <2>1. resp[j + 1] = SubSeq(ser[j], 1, L)
    <3>1. j + 1 \in 1..(Len(ser) + 1) /\ sets[j + 1] = ser[j]
      BY <1>1, <1>2
    <3> QED BY <1>5, <3>1, Zenon
  <2>2. ser[j] \in Seq(V) /\ Len(ser[j]) = L
    OBVIOUS
  <2>3. SubSeq(ser[j], 1, L) = ser[j]
    BY <2>2
  <2> QED BY <2>1, <2>3
<1> QED BY <1>6, <1>8, <1>9 DEF Whole

\* What is left of an axis and of series of length L: the points of some places, the same for
\* all series, and at least those where a series has a number.
Thinned(ax, ser, L, ax2, ser2, M) ==
  /\ Len(ser2) = Len(ser) /\ M <= Len(ax2) /\ \A j \in 1..Len(ser) : Len(ser2[j]) = M
  /\ \A i \in 1..M : \E o \in 1..L : ax2[i] = ax[o] /\ \A j \in 1..Len(ser) : ser2[j][i] = ser[j][o]
  /\ \A o \in 1..L, j \in 1..Len(ser) :
       ser[j][o].n # 0 => \E i \in 1..M : ser2[j][i] = ser[j][o]

\* To keep the places of a set, in the axis and in every series.
KeptPlaces(V, ax, ser, L, D) ==
  \E M \in Nat, ax2 \in Seq(V), ser2 \in Seq(Seq(V)) :
    /\ Thinned(ax, ser, L, ax2, ser2, M) /\ Len(ax2) = M
    /\ ax2 = [k \in DOMAIN Ascending(D) |-> ax[Ascending(D)[k]]]
    /\ \A j \in 1..Len(ser) : ser2[j] = [k \in DOMAIN Ascending(D) |-> ser[j][Ascending(D)[k]]]

Numbers(ser, L, D) ==
  D \subseteq 1..L /\ \A o \in 1..L : (\E j \in 1..Len(ser) : ser[j][o].n # 0) => o \in D

LEMMA KeepPlaces ==
  ASSUME NEW V, NEW ax, NEW ser, NEW L, Laid(V, ax, ser, L), NEW D, Numbers(ser, L, D)
  PROVE  KeptPlaces(V, ax, ser, L, D)
<1> DEFINE M == Cardinality(D)
           I == Ascending(D)
           ax2 == [k \in 1..M |-> ax[I[k]]]
           ser2 == [j \in 1..Len(ser) |-> [k \in 1..M |-> ser[j][I[k]]]]
<1>0. /\ ax \in Seq(V) /\ ser \in Seq(Seq(V)) /\ L \in Nat /\ L <= Len(ax)
      /\ \A j \in 1..Len(ser) : Len(ser[j]) = L
      /\ D \subseteq 1..L /\ \A o \in 1..L : (\E j \in 1..Len(ser) : ser[j][o].n # 0) => o \in D
  BY DEF Laid, Numbers
<1>1. D \in SUBSET Int /\ IsFiniteSet(D)
  <2>1. IsFiniteSet(1..L)
    BY <1>0, FS_Interval
  <2>2. IsFiniteSet(D)
    BY <1>0, <2>1, FS_Subset
  <2> QED BY <1>0, <2>2
<1>2. /\ I \in [1..M -> D] /\ M \in Nat /\ DOMAIN I = 1..M
      /\ \A x \in D : \E k \in 1..M : I[k] = x
  <2>1. /\ Ascending(D) \in [1..Cardinality(D) -> D] /\ Cardinality(D) \in Nat
        /\ \A x \in D : \E k \in 1..Cardinality(D) : Ascending(D)[k] = x
    BY <1>1, AscendingSeq
  <2> QED BY <2>1
<1> HIDE DEF M, I
<1>3. \A k \in 1..M : I[k] \in 1..L
  BY <1>0, <1>2
<1>4. ax2 \in Seq(V) /\ Len(ax2) = M
  <2>1. \A k \in 1..M : ax[I[k]] \in V
    BY <1>0, <1>3
  <2>2. ax2 \in [1..M -> V]
    BY <2>1
  <2> QED BY <1>2, <2>2
<1>5. ASSUME NEW j \in 1..Len(ser)
      PROVE  /\ ser2[j] = [k \in 1..M |-> ser[j][I[k]]] /\ ser2[j] \in Seq(V) /\ Len(ser2[j]) = M
             /\ \A k \in 1..M : ser2[j][k] = ser[j][I[k]]
  <2>1. ser[j] \in Seq(V) /\ Len(ser[j]) = L
    BY <1>0
  <2>2. \A k \in 1..M : ser[j][I[k]] \in V
    BY <1>3, <2>1
  <2>3. ser2[j] = [k \in 1..M |-> ser[j][I[k]]]
    OBVIOUS
  <2>4. ser2[j] \in [1..M -> V]
    BY <2>2, <2>3
  <2> QED BY <1>2, <2>3, <2>4
<1>6. ser2 \in Seq(Seq(V)) /\ Len(ser2) = Len(ser)
  <2>1. \A j \in 1..Len(ser) : ser2[j] \in Seq(V)
    BY <1>5
  <2>2. ser2 = [j \in 1..Len(ser) |-> ser2[j]]
    OBVIOUS
  <2>3. Len(ser) \in Nat
    BY <1>0
  <2> HIDE DEF ser2
  <2> QED BY <2>1, <2>2, <2>3
<1>7. \A k \in 1..M : ax2[k] = ax[I[k]]
  OBVIOUS
<1> HIDE DEF ax2, ser2
<1>8. \A i \in 1..M : \E o \in 1..L : ax2[i] = ax[o] /\ \A j \in 1..Len(ser) : ser2[j][i] = ser[j][o]
  BY <1>3, <1>5, <1>7
<1>9. ASSUME NEW o \in 1..L, NEW j \in 1..Len(ser), ser[j][o].n # 0
      PROVE  \E i \in 1..M : ser2[j][i] = ser[j][o]
  <2>1. PICK i \in 1..M : I[i] = o
    BY <1>0, <1>2, <1>9
  <2> QED BY <1>5, <2>1
<1>10. Thinned(ax, ser, L, ax2, ser2, M)
  <2>1. Len(ser2) = Len(ser) /\ M <= Len(ax2)
    BY <1>2, <1>4, <1>6
  <2>2. \A j \in 1..Len(ser) : Len(ser2[j]) = M
    BY <1>5
  <2>3. \A o \in 1..L, j \in 1..Len(ser) : ser[j][o].n # 0 => \E i \in 1..M : ser2[j][i] = ser[j][o]
    BY <1>9
  <2> QED BY <1>8, <2>1, <2>2, <2>3, Zenon DEF Thinned
<1>11. /\ ax2 = [k \in DOMAIN Ascending(D) |-> ax[Ascending(D)[k]]]
       /\ \A j \in 1..Len(ser) : ser2[j] = [k \in DOMAIN Ascending(D) |-> ser[j][Ascending(D)[k]]]
  <2>1. ax2 = [k \in DOMAIN I |-> ax[I[k]]]
    BY <1>2 DEF ax2
  <2>2. \A j \in 1..Len(ser) : ser2[j] = [k \in DOMAIN I |-> ser[j][I[k]]]
    BY <1>2, <1>5
  <2> QED BY <2>1, <2>2, Zenon DEF I
<1> QED BY <1>2, <1>4, <1>6, <1>10, <1>11 DEF KeptPlaces

\* The sets that are left; the axis may be the longer one.
CutTo(V, ax, ser, L, out, longer) ==
  \E M \in Nat, ax2 \in Seq(V), ser2 \in Seq(Seq(V)) :
    out = <<ax2>> \o ser2 /\ Thinned(ax, ser, L, ax2, ser2, M) /\ (longer \/ Len(ax2) = M)

LEMMA TrimThins ==
  ASSUME NEW V, NEW ax, NEW ser, NEW L, Laid(V, ax, ser, L), NEW sets, sets = <<ax>> \o ser
  PROVE  CutTo(V, ax, ser, L, Trim(sets), TRUE)
<1> USE DEF Laid
<1> DEFINE Zero(i) == \A j \in 2..Len(sets) : i > Len(sets[j]) \/ sets[j][i].n = 0
           Places(set) == {i \in DOMAIN set : i > Len(sets[1]) \/ ~Zero(i)}
           KeptOf(set) == [k \in DOMAIN Ascending(Places(set)) |-> set[Ascending(Places(set))[k]]]
           D == {i \in 1..L : ~Zero(i)}
<1>1. /\ sets \in Seq(Seq(V)) /\ Len(sets) = Len(ser) + 1 /\ DOMAIN sets = 1..(Len(ser) + 1)
      /\ sets[1] = ax /\ \A j \in 1..Len(ser) : sets[j + 1] = ser[j]
      /\ \A j \in 2..Len(sets) : j - 1 \in 1..Len(ser) /\ sets[j] = ser[j - 1]
  BY AxisAndSeries DEF Joined
<1>2. Len(ser) \in Nat /\ Len(ax) \in Nat
  OBVIOUS
<1>3. CASE \A i \in DOMAIN sets[1] : Zero(i)
  <2>1. Trim(sets) = sets
    BY <1>3, Zenon DEF Trim
  <2>2. Thinned(ax, ser, L, ax, ser, L)
    BY DEF Thinned
  <2> QED BY <2>1, <2>2 DEF CutTo
<1>4. CASE ~\A i \in DOMAIN sets[1] : Zero(i)
  <2>1. Trim(sets) = [j \in DOMAIN sets |-> KeptOf(sets[j])]
    BY <1>4, Zenon DEF Trim
  <2>2. \A i \in Nat : i > L => Zero(i)
    <3> SUFFICES ASSUME NEW i \in Nat, i > L, NEW j \in 2..Len(sets) PROVE i > Len(sets[j])
      OBVIOUS
    <3> QED BY <1>1
  <2>3. \A o \in 1..L : (\E j \in 1..Len(ser) : ser[j][o].n # 0) => o \in D
    <3> SUFFICES ASSUME NEW o \in 1..L, NEW j \in 1..Len(ser), ser[j][o].n # 0 PROVE ~Zero(o)
      OBVIOUS
    <3>1. j + 1 \in 2..Len(sets) /\ sets[j + 1] = ser[j] /\ ~(o > Len(ser[j]))
      BY <1>1, <1>2
    <3> QED BY <3>1
  <2> HIDE DEF Zero
  <2>4. Places(ax) = D
    <3>1. DOMAIN ax = 1..Len(ax)
      OBVIOUS
    <3> QED BY <1>1, <1>2, <2>2, <3>1
  <2>5. ASSUME NEW j \in 1..Len(ser) PROVE Places(ser[j]) = D
    <3>1. DOMAIN ser[j] = 1..L
      OBVIOUS
    <3> QED BY <1>1, <1>2, <3>1
  <2>6. D \in SUBSET (1..L)
    OBVIOUS
  <2> HIDE DEF D, Places
  <2>7. PICK M \in Nat, ax2 \in Seq(V), ser2 \in Seq(Seq(V)) :
           /\ Thinned(ax, ser, L, ax2, ser2, M) /\ Len(ax2) = M
           /\ ax2 = [k \in DOMAIN Ascending(D) |-> ax[Ascending(D)[k]]]
           /\ \A j \in 1..Len(ser) : ser2[j] = [k \in DOMAIN Ascending(D) |-> ser[j][Ascending(D)[k]]]
    <3>1. Laid(V, ax, ser, L) /\ Numbers(ser, L, D)
      BY <2>3, <2>6 DEF Laid, Numbers
    <3>2. KeptPlaces(V, ax, ser, L, D)
      BY ONLY <3>1, KeepPlaces, Zenon
    <3> QED BY <3>2, Zenon DEF KeptPlaces
  <2>8. KeptOf(ax) = ax2 /\ \A j \in 1..Len(ser) : KeptOf(ser[j]) = ser2[j]
    BY <2>4, <2>5, <2>7, Zenon
  <2> HIDE DEF KeptOf
  <2>9. PICK out : out = <<ax2>> \o ser2
    OBVIOUS
  <2>10. Len(ser2) = Len(ser)
    BY <2>7 DEF Thinned
  <2>11. /\ out \in Seq(Seq(V)) /\ DOMAIN out = 1..(Len(ser) + 1)
         /\ out[1] = ax2 /\ \A j \in 2..(Len(ser) + 1) : out[j] = ser2[j - 1]
    <3>1. /\ out \in Seq(Seq(V)) /\ Len(out) = Len(ser2) + 1 /\ DOMAIN out = 1..(Len(ser2) + 1)
          /\ out[1] = ax2 /\ \A j \in 2..Len(out) : j - 1 \in 1..Len(ser2) /\ out[j] = ser2[j - 1]
      <4>1. ax2 \in Seq(V) /\ ser2 \in Seq(Seq(V))
        OBVIOUS
      <4>2. Joined(V, ax2, ser2, out)
        BY ONLY <2>9, <4>1, AxisAndSeries, Zenon
      <4> QED BY <4>2 DEF Joined
    <3> QED BY <2>10, <3>1
  <2>12. ASSUME NEW j \in 1..(Len(ser) + 1) PROVE KeptOf(sets[j]) = out[j]
    <3>1. CASE j = 1
      BY <1>1, <2>8, <2>11, <3>1
    <3>2. CASE j # 1
      <4>1. j \in 2..(Len(ser) + 1) /\ j - 1 \in 1..Len(ser)
        BY <1>2, <3>2
      <4> QED BY <1>1, <2>8, <2>11, <4>1
    <3> QED BY <3>1, <3>2
  <2>13. Trim(sets) = out
    <3>1. out = [j \in 1..(Len(ser) + 1) |-> out[j]]
      BY <2>11
    <3>2. Trim(sets) = [j \in 1..(Len(ser) + 1) |-> KeptOf(sets[j])]
      BY <1>1, <2>1
    <3> QED BY <2>12, <3>1, <3>2
  <2> QED BY <2>7, <2>9, <2>13 DEF CutTo
<1> QED BY <1>3, <1>4

LEMMA CommunityThins ==
  ASSUME NEW V, NEW ax, NEW ser, NEW L, Laid(V, ax, ser, L), Len(ser) = 1, Len(ax) = L,
         NEW sets, sets = <<ax>> \o ser
  PROVE  CutTo(V, ax, ser, L, communityChat(sets), FALSE)
<1> USE DEF Laid
<1> DEFINE Places(set) == {i \in DOMAIN set : sets[2][i].n # 0}
           KeptOf(set) == [k \in DOMAIN Ascending(Places(set)) |-> set[Ascending(Places(set))[k]]]
           D == {i \in 1..L : ser[1][i].n # 0}
<1>1. /\ DOMAIN sets = 1..2 /\ sets[1] = ax /\ sets[2] = ser[1]
  <2>1. /\ DOMAIN sets = 1..(Len(ser) + 1) /\ sets[1] = ax /\ \A j \in 1..Len(ser) : sets[j + 1] = ser[j]
    <3>1. Joined(V, ax, ser, sets)
      BY AxisAndSeries
    <3> QED BY <3>1 DEF Joined
  <2>2. 1 \in 1..Len(ser) /\ 1 + 1 = 2
    OBVIOUS
  <2> QED BY <2>1, <2>2
<1>2. communityChat(sets) = [j \in DOMAIN sets |-> KeptOf(sets[j])]
  BY Zenon DEF communityChat
<1>3. Places(ax) = D /\ Places(ser[1]) = D
  <2>1. DOMAIN ax = 1..L /\ DOMAIN ser[1] = 1..L
    OBVIOUS
  <2> QED BY <1>1, <2>1
<1>4. D \in SUBSET (1..L) /\ \A o \in 1..L : (\E j \in 1..Len(ser) : ser[j][o].n # 0) => o \in D
  OBVIOUS
<1>5. \A j \in 1..Len(ser) : Len(ser[j]) = L
  OBVIOUS
<1> HIDE DEF D, Places
<1>6. PICK M \in Nat, ax2 \in Seq(V), ser2 \in Seq(Seq(V)) :
         /\ Thinned(ax, ser, L, ax2, ser2, M) /\ Len(ax2) = M
         /\ ax2 = [k \in DOMAIN Ascending(D) |-> ax[Ascending(D)[k]]]
         /\ \A j \in 1..Len(ser) : ser2[j] = [k \in DOMAIN Ascending(D) |-> ser[j][Ascending(D)[k]]]
  <2>1. L <= Len(ax)
    OBVIOUS
  <2>2. Laid(V, ax, ser, L) /\ Numbers(ser, L, D)
    BY <1>4, <1>5, <2>1 DEF Laid, Numbers
  <2>3. KeptPlaces(V, ax, ser, L, D)
    BY ONLY <2>2, KeepPlaces, Zenon
  <2> QED BY <2>3, Zenon DEF KeptPlaces
<1>7. KeptOf(ax) = ax2 /\ KeptOf(ser[1]) = ser2[1]
  <2>1. 1 \in 1..Len(ser)
    OBVIOUS
  <2> QED BY <1>3, <1>6, <2>1, Zenon
<1> HIDE DEF KeptOf
<1>8. PICK out : out = <<ax2>> \o ser2
  OBVIOUS
<1>9. DOMAIN out = 1..2 /\ out[1] = ax2 /\ out[2] = ser2[1] /\ out = [j \in 1..2 |-> out[j]]
  <2>1. Len(ser2) = 1 /\ 1 \in 1..Len(ser2)
    BY <1>6 DEF Thinned
  <2>2. /\ out \in Seq(Seq(V)) /\ DOMAIN out = 1..(Len(ser2) + 1)
        /\ out[1] = ax2 /\ \A j \in 1..Len(ser2) : out[j + 1] = ser2[j]
    <3>1. ax2 \in Seq(V) /\ ser2 \in Seq(Seq(V))
      OBVIOUS
    <3>2. Joined(V, ax2, ser2, out)
      BY ONLY <1>8, <3>1, AxisAndSeries, Zenon
    <3> QED BY <3>2 DEF Joined
  <2>3. DOMAIN out = 1..2 /\ out[1] = ax2 /\ out[2] = ser2[1]
    <3>1. out[1 + 1] = ser2[1]
      BY <2>1, <2>2
    <3>2. 1 + 1 = 2 /\ Len(ser2) + 1 = 2
      BY <2>1
    <3>3. out[2] = ser2[1]
      BY ONLY <3>1, <3>2
    <3>4. DOMAIN out = 1..2
      BY ONLY <2>2, <3>2
    <3> QED BY <2>2, <3>3, <3>4
  <2>4. out = [j \in DOMAIN out |-> out[j]]
    <3>1. out \in [1..Len(out) -> Seq(V)]
      BY <2>2
    <3> QED BY <3>1, Zenon
  <2> QED BY <2>3, <2>4, Zenon
<1>10. communityChat(sets) = out
  <2>1. \A j \in 1..2 : KeptOf(sets[j]) = out[j]
    BY <1>1, <1>7, <1>9
  <2>2. communityChat(sets) = [j \in 1..2 |-> KeptOf(sets[j])]
    BY <1>1, <1>2
  <2> QED BY <1>9, <2>1, <2>2
<1> QED BY <1>6, <1>8, <1>10 DEF CutTo

\* A sequence is one of the values of a larger set, too.
LEMMA SeqMore ==
  ASSUME NEW S, NEW T, S \subseteq T, NEW s, s \in Seq(S)
  PROVE  s \in Seq(T)
<1>1. s \in [1..Len(s) -> S] /\ Len(s) \in Nat
  OBVIOUS
<1>2. s \in [1..Len(s) -> T]
  BY <1>1
<1> QED BY <1>1, <1>2

LEMMA SeqIs ==
  ASSUME NEW S, NEW s, s \in Seq(S)
  PROVE  s \in [1..Len(s) -> S] /\ Len(s) \in Nat /\ DOMAIN s = 1..Len(s)
OBVIOUS

LEMMA SeqJoin ==
  ASSUME NEW S, NEW s, s \in Seq(S), NEW t, t \in Seq(S)
  PROVE  /\ s \o t \in Seq(S) /\ Len(s \o t) = Len(s) + Len(t)
         /\ \A i \in 1..Len(s) : (s \o t)[i] = s[i]
         /\ s = <<>> => s \o t = t
OBVIOUS

LEMMA PointsHaveDates ==
  ASSUME NEW series, series \in Seq(PointSet)
  PROVE  /\ Len(DatesIn(series)) = Len(series) /\ DOMAIN DatesIn(series) = 1..Len(series)
         /\ \A i \in 1..Len(series) : DatesIn(series)[i] = series[i].at
         /\ DatesIn(series) \in Seq(Nat)
<1>1. series \in [1..Len(series) -> PointSet] /\ Len(series) \in Nat /\ DOMAIN series = 1..Len(series)
  OBVIOUS
<1>2. \A i \in 1..Len(series) : series[i].at \in Nat
  BY <1>1 DEF PointSet
<1>3. DatesIn(series) = [i \in 1..Len(series) |-> series[i].at]
  BY <1>1 DEF DatesIn
<1> QED BY <1>1, <1>2, <1>3

\* The rows of a query are points of its source.
LEMMA RowsAreOf ==
  ASSUME ChartsAssumption, StoredRows, NEW s \in SourceSet
  PROVE  /\ Rows(s) \in Seq(PointSet) /\ DatesIn(Rows(s)) \in Seq(1..LastDate)
         /\ Len(DatesIn(Rows(s))) = Len(Rows(s)) /\ Len(Rows(s)) \in Nat
         /\ \A i \in 1..Len(Rows(s)) : Rows(s)[i].src = s /\ DatesIn(Rows(s))[i] = Rows(s)[i].at
<1> DEFINE D == Ascending(DatesOf(s))
<1>1. DatesOf(s) \subseteq 1..LastDate /\ stored[s] \in [DatesOf(s) -> {0, 1}] /\ LastDate \in Nat
  BY DEF StoredRows, ChartsAssumption
<1>2. IsFiniteSet(DatesOf(s)) /\ DatesOf(s) \in SUBSET Int
  <2>1. IsFiniteSet(1..LastDate)
    BY <1>1, FS_Interval
  <2>2. IsFiniteSet(DatesOf(s))
    BY <1>1, <2>1, FS_Subset
  <2>3. \A d \in DatesOf(s) : d \in Int
    BY <1>1
  <2> QED BY <2>2, <2>3
<1>3. D \in Seq(DatesOf(s))
  BY <1>2, AscendingSeq
<1> HIDE DEF D
<1>4. D \in [1..Len(D) -> DatesOf(s)] /\ Len(D) \in Nat /\ DOMAIN D = 1..Len(D)
  BY <1>3
<1>5. Rows(s) = [i \in 1..Len(D) |-> Point(s, D[i])]
  BY <1>4 DEF Rows, D
<1>6. ASSUME NEW i \in 1..Len(D)
      PROVE  /\ Point(s, D[i]) \in PointSet /\ Point(s, D[i]).src = s /\ Point(s, D[i]).at \in 1..LastDate
  <2>1. D[i] \in DatesOf(s) /\ D[i] \in 1..LastDate /\ D[i] \in Nat
    BY <1>1, <1>4
  <2>2. stored[s][D[i]] \in {0, 1}
    BY <1>1, <2>1
  <2> QED BY <2>1, <2>2 DEF Point, PointSet
<1>7. Rows(s) \in Seq(PointSet) /\ Len(Rows(s)) = Len(D) /\ \A i \in 1..Len(D) : Rows(s)[i] = Point(s, D[i])
  BY <1>4, <1>5, <1>6
<1>8. /\ Len(DatesIn(Rows(s))) = Len(Rows(s)) /\ DOMAIN DatesIn(Rows(s)) = 1..Len(Rows(s))
      /\ \A i \in 1..Len(Rows(s)) : DatesIn(Rows(s))[i] = Rows(s)[i].at
      /\ DatesIn(Rows(s)) \in Seq(Nat)
  BY <1>7, PointsHaveDates
<1>9. \A i \in 1..Len(Rows(s)) : DatesIn(Rows(s))[i] \in 1..LastDate
  BY <1>6, <1>7, <1>8
<1>10. DatesIn(Rows(s)) \in Seq(1..LastDate)
  <2>1. PICK d : d = DatesIn(Rows(s))
    OBVIOUS
  <2>2. d \in Seq(Nat) /\ \A i \in 1..Len(d) : d[i] \in 1..LastDate
    BY <1>8, <1>9, <2>1
  <2>3. d \in [1..Len(d) -> 1..LastDate] /\ Len(d) \in Nat
    BY <2>2
  <2>4. d \in Seq(1..LastDate)
    BY <2>3
  <2> QED BY <2>1, <2>4
<1> QED BY <1>4, <1>6, <1>7, <1>8, <1>10

\* The numbers up to n come one after the other.
LEMMA AscendingUpTo ==
  ASSUME NEW n \in Nat
  PROVE  Ascending(1..n) = [k \in 1..n |-> k]
<1>1. Cardinality(1..n) = n
  BY FS_Interval
<1>2. ASSUME NEW x \in 1..n PROVE Cardinality({y \in 1..n : y <= x}) = x
  <2>1. {y \in 1..n : y <= x} = 1..x
    OBVIOUS
  <2>2. x \in Int /\ 1 \in Int /\ ~(1 > x) /\ (x - 1) + 1 = x
    OBVIOUS
  <2>3. Cardinality(1..x) = IF 1 > x THEN 0 ELSE x - 1 + 1
    BY <2>2, FS_Interval
  <2> QED BY <2>1, <2>2, <2>3
<1>3. ASSUME NEW k \in 1..n
      PROVE  (CHOOSE x \in 1..n : Cardinality({y \in 1..n : y <= x}) = k) = k
  BY <1>2
<1> QED BY <1>1, <1>3, Zenon DEF Ascending

\* The dates that are there stay where they are; the first ones are put as they come.
LEMMA NewDatesAtEnd ==
  ASSUME axis \in Seq(1..LastDate), NEW dates, dates \in Seq(1..LastDate)
  PROVE  /\ WithNew(dates) \in Seq(1..LastDate) /\ Len(axis) <= Len(WithNew(dates))
         /\ \A i \in 1..Len(axis) : WithNew(dates)[i] = axis[i]
         /\ axis = <<>> => WithNew(dates) = dates
<1> DEFINE N == {i \in DOMAIN dates : dates[i] \notin Range(axis)}
           I == Ascending(N)
           more == [k \in DOMAIN I |-> dates[I[k]]]
<1>1. /\ dates \in [1..Len(dates) -> 1..LastDate] /\ Len(dates) \in Nat
      /\ DOMAIN dates = 1..Len(dates) /\ Len(axis) \in Nat
  <2>1. dates \in Seq(1..LastDate) /\ axis \in Seq(1..LastDate)
    OBVIOUS
  <2> HIDE DEF N, I, more
  <2>2. Len(dates) \in Nat /\ Len(axis) \in Nat /\ DOMAIN dates = 1..Len(dates)
    BY <2>1
  <2>3. dates \in [1..Len(dates) -> 1..LastDate]
    BY ONLY <2>1, SeqIs
  <2> QED BY <2>2, <2>3
<1>2. N \subseteq 1..Len(dates)
  BY <1>1
<1>3. IsFiniteSet(N) /\ N \in SUBSET Int
  <2> HIDE DEF N
  <2>1. IsFiniteSet(1..Len(dates))
    BY <1>1, FS_Interval
  <2>2. IsFiniteSet(N)
    BY <1>2, <2>1, FS_Subset
  <2>3. \A i \in N : i \in Int
    BY <1>1, <1>2
  <2> QED BY <2>2, <2>3
<1>4. I \in Seq(N)
  <2> HIDE DEF N
  <2> QED BY <1>3, AscendingSeq
<1>5. more \in Seq(1..LastDate)
  <2> HIDE DEF I, N
  <2>1. I \in [1..Len(I) -> N] /\ Len(I) \in Nat /\ DOMAIN I = 1..Len(I)
    BY <1>4
  <2>2. \A k \in 1..Len(I) : dates[I[k]] \in 1..LastDate
    BY <1>1, <1>2, <2>1
  <2> QED BY <2>1, <2>2
<1>6. WithNew(dates) = axis \o more
  BY Zenon DEF WithNew
<1>7. ASSUME axis = <<>> PROVE more = dates
  <2>1. N = 1..Len(dates)
    BY <1>1, <1>7 DEF Range
  <2>2. I = [k \in 1..Len(dates) |-> k]
    BY <1>1, <2>1, AscendingUpTo
  <2> HIDE DEF I
  <2>3. more = [k \in 1..Len(dates) |-> dates[k]]
    BY <2>2
  <2> QED BY <1>1, <2>3
<1> HIDE DEF more
<1>8. WithNew(dates) \in Seq(1..LastDate) /\ Len(WithNew(dates)) = Len(axis) + Len(more) /\ Len(more) \in Nat
  BY <1>5, <1>6
<1>9. \A i \in 1..Len(axis) : WithNew(dates)[i] = axis[i]
  BY <1>5, <1>6
<1>10. axis = <<>> => WithNew(dates) = dates
  BY <1>5, <1>6, <1>7
<1> QED BY <1>1, <1>8, <1>9, <1>10

LEMMA ChartsInitInv == ChartsAssumption /\ ChartsInit => ChartsInv
<1> SUFFICES ASSUME ChartsAssumption, ChartsInit PROVE ChartsInv
  OBVIOUS
<1>1. /\ kind \in ChartKinds /\ stored = [s \in SourceSet |-> [d \in {} |-> 0]]
      /\ axis = <<>> /\ fetched = <<>> /\ left = <<>> /\ response = <<>>
  BY DEF ChartsInit, Nothing
<1>2. ASSUME NEW s \in SourceSet PROVE DatesOf(s) = {} /\ stored[s] \in [DatesOf(s) -> {0, 1}]
  BY <1>1 DEF DatesOf
<1>3. StoredRows
  <2>1. stored = [s \in SourceSet |-> stored[s]]
    BY <1>1
  <2> QED BY <1>2, <2>1 DEF StoredRows
<1>4. ChartTypes
  BY <1>1, <1>3 DEF ChartTypes
<1>5. InTurn
  BY <1>1 DEF InTurn
<1>6. LaidOut
  BY <1>1 DEF LaidOut
<1>7. Encoded
  BY <1>1 DEF Encoded, Nothing
<1> QED BY <1>4, <1>5, <1>6, <1>7 DEF ChartsInv

\* The chart followed stays the same.
LEMMA KindStays ==
  ASSUME kind' = kind
  PROVE  Chart' = Chart /\ Series' = Series /\ ByAxis' = ByAxis
  BY DEF Chart, Series, ByAxis

LEMMA StoreRowInv ==
  ASSUME ChartsAssumption, ChartsInv, NEW s \in SourceSet, NEW d \in 1..LastDate, NEW n \in {0, 1},
         StoreRow(s, d, n)
  PROVE  ChartsInv'
<1>1. /\ response = <<>>
      /\ stored' = [stored EXCEPT ![s] = [e \in DatesOf(s) \cup {d} |-> IF e = d THEN n ELSE @[e]]]
      /\ kind' = kind /\ axis' = axis /\ fetched' = fetched /\ left' = left /\ response' = response
  BY DEF StoreRow, Nothing
<1>2. ChartTypes /\ InTurn /\ LaidOut
  BY DEF ChartsInv
<1>3. StoredRows'
  <2>1. /\ stored = [r \in SourceSet |-> stored[r]]
        /\ \A r \in SourceSet : DatesOf(r) \subseteq 1..LastDate /\ stored[r] \in [DatesOf(r) -> {0, 1}]
    BY <1>2 DEF ChartTypes, StoredRows
  <2> DEFINE row == [e \in DatesOf(s) \cup {d} |-> IF e = d THEN n ELSE stored[s][e]]
  <2>2. stored' = [r \in SourceSet |-> IF r = s THEN row ELSE stored[r]]
    BY <1>1, <2>1
  <2>3. row \in [DatesOf(s) \cup {d} -> {0, 1}] /\ DatesOf(s) \cup {d} \subseteq 1..LastDate
    BY <2>1
  <2> HIDE DEF row
  <2>4. ASSUME NEW r \in SourceSet
        PROVE  DOMAIN stored'[r] \subseteq 1..LastDate /\ stored'[r] \in [DOMAIN stored'[r] -> {0, 1}]
    <3>1. CASE r = s
      <4>1. stored'[r] = row
        BY <2>2, <3>1
      <4> QED BY <2>3, <4>1
    <3>2. CASE r # s
      <4>1. stored'[r] = stored[r]
        BY <2>2, <3>2
      <4> QED BY <2>1, <4>1 DEF DatesOf
    <3> QED BY <3>1, <3>2
  <2>5. stored' = [r \in SourceSet |-> stored'[r]]
    BY <2>2
  <2> QED BY <2>4, <2>5 DEF StoredRows, DatesOf
<1>4. Chart' = Chart /\ Series' = Series /\ ByAxis' = ByAxis
  BY <1>1, KindStays
<1>5. ChartTypes'
  BY <1>1, <1>2, <1>3 DEF ChartTypes
<1>6. InTurn'
  BY <1>1, <1>2, <1>4 DEF InTurn
<1>7. LaidOut'
  BY <1>1, <1>2, <1>4 DEF LaidOut, Along, Gap, Nothing
<1>8. Encoded'
  BY <1>1 DEF Encoded, Nothing
<1> QED BY <1>5, <1>6, <1>7, <1>8 DEF ChartsInv

LEMMA FetchChartInv ==
  ASSUME ChartsAssumption, ChartsInv, FetchChart
  PROVE  ChartsInv'
<1>1. /\ Chart.axis # "table" /\ left = <<>> /\ fetched = <<>> /\ response = <<>>
      /\ left' = Series /\ axis' = AxisFirst
      /\ kind' = kind /\ stored' = stored /\ fetched' = <<>> /\ response' = <<>>
  BY DEF FetchChart, Nothing
<1>2. ChartTypes /\ LaidOut
  BY DEF ChartsInv
<1>3. Chart' = Chart /\ Series' = Series /\ ByAxis' = ByAxis
  BY <1>1, KindStays
<1>4. kind \in ChartKinds
  BY <1>2 DEF ChartTypes
<1>5. StoredRows'
  BY <1>1, <1>2 DEF ChartTypes, StoredRows, DatesOf
<1>6. AxisFirst \in Seq(1..LastDate) /\ (~ByAxis => AxisFirst = <<>>)
  <2>1. \A s \in SourceSet : DatesOf(s) \subseteq 1..LastDate
    BY <1>2 DEF ChartTypes, StoredRows
  <2>2. ASSUME NEW D, D \subseteq 1..LastDate PROVE Ascending(D) \in Seq(1..LastDate)
    <3>1. LastDate \in Nat
      BY DEF ChartsAssumption
    <3>2. IsFiniteSet(1..LastDate)
      BY <3>1, FS_Interval
    <3>3. IsFiniteSet(D)
      BY <2>2, <3>2, FS_Subset
    <3>4. \A x \in D : x \in Int
      BY <2>2, <3>1
    <3>5. Ascending(D) \in Seq(D)
      BY <3>3, <3>4, AscendingSeq
    <3>6. PICK a : a = Ascending(D)
      OBVIOUS
    <3>7. a \in Seq(D)
      BY <3>5, <3>6
    <3>8. a \in Seq(1..LastDate)
      BY ONLY <2>2, <3>7, SeqMore
    <3> QED BY <3>6, <3>8
  <2>3. CASE Chart.axis = "all dates"
    <3>1. AxisFirst = Ascending(UNION {DatesOf(s) : s \in SourceSet})
      BY <2>3 DEF AxisFirst
    <3>2. UNION {DatesOf(s) : s \in SourceSet} \subseteq 1..LastDate
      BY <2>1
    <3> QED BY <2>2, <2>3, <3>1, <3>2 DEF ByAxis
  <2>4. CASE Chart.axis = "first source"
    <3>1. AxisFirst = Ascending(DatesOf(Head(Asked)))
      <4>1. "first source" # "all dates"
        OBVIOUS
      <4> QED BY <2>4, <4>1 DEF AxisFirst
    <3>2. DatesOf(Head(Asked)) \subseteq 1..LastDate
      BY <1>4, <2>1, SeriesAsked
    <3> QED BY <2>2, <2>4, <3>1, <3>2 DEF ByAxis
  <2>5. CASE Chart.axis # "all dates" /\ Chart.axis # "first source"
    <3>1. AxisFirst = <<>>
      BY <2>5 DEF AxisFirst, Nothing
    <3> QED BY <3>1
  <2> QED BY <2>3, <2>4, <2>5
<1>7. ChartTypes'
  BY <1>1, <1>4, <1>5, <1>6, SeriesAsked DEF ChartTypes
<1>8. InTurn'
  <2>1. Len(Series) \in Nat /\ Len(fetched') = 0
    BY <1>1, <1>4, SeriesAsked
  <2>2. \A i \in 1..Len(Series) : left'[i] = Series[Len(fetched') + i]
    BY <1>1, <2>1
  <2> QED BY <1>1, <1>3, <2>1, <2>2 DEF InTurn
<1>9. LaidOut'
  BY <1>1, <1>3, <1>6 DEF LaidOut
<1>10. Encoded'
  BY <1>1 DEF Encoded, Nothing
<1> QED BY <1>7, <1>8, <1>9, <1>10 DEF ChartsInv

LEMMA AtAxisAlong ==
  ASSUME ChartsAssumption, StoredRows, axis \in Seq(1..LastDate), NEW s \in SourceSet
  PROVE  AtAxis(s) \in Seq(PointSet) /\ Along(AtAxis(s), s)
<1>1. DOMAIN axis = 1..Len(axis) /\ Len(axis) \in Nat /\ \A i \in 1..Len(axis) : axis[i] \in 1..LastDate
  OBVIOUS
<1>2. DatesOf(s) \subseteq 1..LastDate /\ stored[s] \in [DatesOf(s) -> {0, 1}] /\ LastDate \in Nat
  BY DEF StoredRows, ChartsAssumption
<1>3. Gap \in PointSet
  BY DEF Gap, PointSet
<1>4. ASSUME NEW d \in DatesOf(s) PROVE Point(s, d) \in PointSet /\ Point(s, d).src = s /\ Point(s, d).at = d
  <2>1. d \in Nat /\ stored[s][d] \in {0, 1}
    BY <1>2
  <2> QED BY <2>1 DEF Point, PointSet
<1>5. AtAxis(s) = [i \in 1..Len(axis) |-> IF axis[i] \in DatesOf(s) THEN Point(s, axis[i]) ELSE Gap]
  BY <1>1 DEF AtAxis
<1>6. \A i \in 1..Len(axis) :
        /\ AtAxis(s)[i] \in PointSet
        /\ AtAxis(s)[i] = Gap \/ (AtAxis(s)[i].src = s /\ AtAxis(s)[i].at = axis[i])
  BY <1>3, <1>4, <1>5
<1>7. AtAxis(s) \in Seq(PointSet) /\ Len(AtAxis(s)) = Len(axis)
  BY <1>1, <1>5, <1>6
<1> QED BY <1>6, <1>7 DEF Along

\* One more series.
LEMMA NextSeries ==
  ASSUME ChartTypes, InTurn, kind' = kind, left # <<>>, left' = Tail(left),
         NEW more, more \in Seq(PointSet), fetched' = Append(fetched, more)
  PROVE  /\ fetched' \in Seq(Seq(PointSet)) /\ left' \in Seq(SourceSet) /\ InTurn'
         /\ Len(fetched) \in Nat /\ Len(fetched') = Len(fetched) + 1
         /\ Head(left) \in SourceSet /\ Head(left) = Series[Len(fetched) + 1]
         /\ fetched'[Len(fetched) + 1] = more
         /\ \A j \in 1..Len(fetched') :
              j # Len(fetched) + 1 => j \in 1..Len(fetched) /\ fetched'[j] = fetched[j]
<1>1. fetched \in Seq(Seq(PointSet)) /\ left \in Seq(SourceSet) /\ Len(fetched) \in Nat /\ Len(left) \in Nat \ {0}
  BY DEF ChartTypes
<1>2. /\ Len(fetched) + Len(left) = Len(Series)
      /\ \A i \in 1..Len(left) : left[i] = Series[Len(fetched) + i]
      /\ Chart.axis # "table"
  BY DEF InTurn
<1>3. /\ fetched' \in Seq(Seq(PointSet)) /\ Len(fetched') = Len(fetched) + 1
      /\ fetched'[Len(fetched) + 1] = more
      /\ \A j \in 1..Len(fetched) : fetched'[j] = fetched[j]
  BY <1>1
<1>4. /\ left' \in Seq(SourceSet) /\ Len(left') = Len(left) - 1
      /\ \A i \in 1..Len(left') : left'[i] = left[i + 1]
  BY <1>1
<1>5. Head(left) \in SourceSet /\ Head(left) = Series[Len(fetched) + 1]
  <2>1. Head(left) = left[1] /\ 1 \in 1..Len(left)
    BY <1>1
  <2> QED BY <1>1, <1>2, <2>1
<1>6. Chart' = Chart /\ Series' = Series
  BY KindStays
<1>7. \A i \in 1..Len(left') : left'[i] = Series[Len(fetched') + i]
  <2> SUFFICES ASSUME NEW i \in 1..Len(left') PROVE left'[i] = Series[Len(fetched') + i]
    OBVIOUS
  <2>1. i + 1 \in 1..Len(left) /\ left'[i] = left[i + 1]
    BY <1>1, <1>4
  <2>2. left[i + 1] = Series[Len(fetched) + (i + 1)]
    BY <1>2, <2>1
  <2>3. Len(fetched) + (i + 1) = Len(fetched') + i
    BY <1>1, <1>3
  <2> QED BY <2>1, <2>2, <2>3
<1>8. InTurn'
  <2>1. Len(fetched') + Len(left') = Len(Series)
    BY <1>1, <1>2, <1>3, <1>4
  <2> QED BY <1>2, <1>6, <1>7, <2>1 DEF InTurn
<1>9. \A j \in 1..Len(fetched') : j # Len(fetched) + 1 => j \in 1..Len(fetched)
  BY <1>1, <1>3
<1> QED BY <1>1, <1>3, <1>4, <1>5, <1>8, <1>9

LEMMA FetchSeriesInv ==
  ASSUME ChartsAssumption, ChartsInv, FetchSeries
  PROVE  ChartsInv'
<1> DEFINE s == Head(left)
           n == Len(fetched)
<1>1. /\ left # <<>> /\ left' = Tail(left)
      /\ kind' = kind /\ stored' = stored /\ response' = response
  BY DEF FetchSeries, Nothing
<1>2. ChartTypes /\ InTurn /\ LaidOut /\ StoredRows /\ kind \in ChartKinds /\ axis \in Seq(1..LastDate)
  BY DEF ChartsInv, ChartTypes
<1>3. response = <<>>
  BY <1>1 DEF ChartsInv, Encoded, Nothing
<1>4. Chart' = Chart /\ Series' = Series /\ ByAxis' = ByAxis
  BY <1>1, KindStays
<1>5. StoredRows'
  BY <1>1, <1>2 DEF StoredRows, DatesOf
<1>6. s \in SourceSet /\ s = Series[n + 1] /\ n \in Nat /\ Chart.axis # "table"
  <2>1. left \in Seq(SourceSet) /\ s \in SourceSet /\ n \in Nat /\ Len(left) \in Nat \ {0}
    BY <1>1, <1>2 DEF ChartTypes
  <2>2. s = left[1] /\ 1 \in 1..Len(left)
    BY <2>1
  <2> QED BY <1>1, <1>2, <2>1, <2>2 DEF InTurn
<1>7. Chart.axis \in {"every row", "all dates", "first source", "new dates"}
  BY <1>2, <1>6, ChartShapes
<1>8. Encoded'
  BY <1>1, <1>3 DEF Encoded, Nothing
<1> HIDE DEF s, n
<1>9. CASE Chart.axis \in {"all dates", "first source"}
  <2>1. PICK more : more = IF kind = "pow" /\ DatesOf(s) = {} THEN Nothing ELSE AtAxis(s)
    OBVIOUS
  <2>2. fetched' = Append(fetched, more) /\ axis' = axis
    BY <1>9, <2>1 DEF FetchSeries, s
  <2>3. more \in Seq(PointSet) /\ (more = Nothing \/ Along(more, s))
    BY <1>2, <1>6, <2>1, AtAxisAlong DEF Nothing
  <2>4. /\ fetched' \in Seq(Seq(PointSet)) /\ left' \in Seq(SourceSet) /\ InTurn'
        /\ Len(fetched') = n + 1 /\ fetched'[n + 1] = more
        /\ \A j \in 1..Len(fetched') : j # n + 1 => j \in 1..n /\ fetched'[j] = fetched[j]
    BY <1>1, <1>2, <2>2, <2>3, NextSeries DEF n
  <2>5. ChartTypes'
    BY <1>1, <1>2, <1>5, <2>2, <2>4 DEF ChartTypes
  <2>6. ByAxis
    BY <1>9 DEF ByAxis
  <2>7. ASSUME NEW j \in 1..Len(fetched') PROVE fetched'[j] = Nothing \/ Along(fetched'[j], Series[j])
    <3>1. CASE j = n + 1
      BY <1>6, <2>3, <2>4, <3>1
    <3>2. CASE j # n + 1
      BY <1>2, <2>4, <2>6, <3>2 DEF LaidOut, n
    <3> QED BY <3>1, <3>2
  <2>9. Chart.axis # "every row"
    BY <1>9
  <2>10. LaidOut'
    BY <1>4, <2>2, <2>6, <2>7, <2>9 DEF LaidOut, Along, Gap, Nothing
  <2> QED BY <1>8, <2>4, <2>5, <2>10 DEF ChartsInv
<1>10. CASE Chart.axis \in {"every row", "new dates"}
  <2>1. PICK more : more = Rows(s)
    OBVIOUS
  <2>2. PICK dates : dates = DatesIn(Rows(s))
    OBVIOUS
  <2>3. /\ fetched' = Append(fetched, more)
        /\ axis' = IF Chart.axis = "new dates" THEN WithNew(dates) ELSE axis \o dates
    <3>1. CASE Chart.axis = "new dates"
      <4>1. ~(Chart.axis \in {"all dates", "first source"})
        BY <3>1
      <4> QED BY <2>1, <2>2, <3>1, <4>1 DEF FetchSeries, s
    <3>2. CASE Chart.axis = "every row"
      <4>1. ~(Chart.axis \in {"all dates", "first source"}) /\ Chart.axis # "new dates"
        BY <3>2
      <4> QED BY <2>1, <2>2, <3>2, <4>1 DEF FetchSeries, s
    <3> QED BY <1>10, <3>1, <3>2
  <2>4. /\ more \in Seq(PointSet) /\ dates \in Seq(1..LastDate)
        /\ Len(dates) = Len(more) /\ Len(more) \in Nat
        /\ \A i \in 1..Len(more) : more[i].src = s /\ dates[i] = more[i].at
    BY <1>2, <1>6, <2>1, <2>2, RowsAreOf
  <2>5. /\ fetched' \in Seq(Seq(PointSet)) /\ left' \in Seq(SourceSet) /\ InTurn'
        /\ Len(fetched') = n + 1 /\ fetched'[n + 1] = more
        /\ \A j \in 1..Len(fetched') : j # n + 1 => j \in 1..n /\ fetched'[j] = fetched[j]
    BY <1>1, <1>2, <2>3, <2>4, NextSeries DEF n
  <2>6. /\ axis' \in Seq(1..LastDate) /\ Len(axis) <= Len(axis') /\ Len(axis) \in Nat /\ Len(axis') \in Nat
        /\ \A i \in 1..Len(axis) : axis'[i] = axis[i]
        /\ axis = <<>> => axis' = dates
    <3>1. CASE Chart.axis = "new dates"
      <4>1. axis' = WithNew(dates)
        BY <2>3, <3>1
      <4>2. /\ WithNew(dates) \in Seq(1..LastDate) /\ Len(axis) <= Len(WithNew(dates))
            /\ \A i \in 1..Len(axis) : WithNew(dates)[i] = axis[i]
            /\ axis = <<>> => WithNew(dates) = dates
        BY <1>2, <2>4, NewDatesAtEnd
      <4>3. PICK ax : ax = axis'
        OBVIOUS
      <4>4. ax \in Seq(1..LastDate) /\ axis \in Seq(1..LastDate)
        BY <1>2, <4>1, <4>2, <4>3
      <4>5. Len(ax) \in Nat /\ Len(axis) \in Nat
        BY ONLY <4>4, SeqIs
      <4> QED BY <4>1, <4>2, <4>3, <4>4, <4>5
    <3>2. CASE Chart.axis # "new dates"
      <4>1. axis' = axis \o dates
        BY <2>3, <3>2
      <4>2. axis \in Seq(1..LastDate) /\ dates \in Seq(1..LastDate)
        BY <1>2, <2>4
      <4>3. /\ axis \o dates \in Seq(1..LastDate) /\ Len(axis \o dates) = Len(axis) + Len(dates)
            /\ \A i \in 1..Len(axis) : (axis \o dates)[i] = axis[i]
            /\ axis = <<>> => axis \o dates = dates
        BY ONLY <4>2, SeqJoin
      <4>4. Len(axis) \in Nat /\ Len(dates) \in Nat
        BY ONLY <4>2, SeqIs
      <4> QED BY <4>1, <4>3, <4>4
    <3> QED BY <3>1, <3>2
  <2>7. ChartTypes'
    BY <1>1, <1>2, <1>5, <2>5, <2>6 DEF ChartTypes
  <2>8. ~ByAxis
    BY <1>10 DEF ByAxis
  <2>9. ASSUME NEW j \in 1..Len(fetched')
        PROVE  \A i \in 1..Len(fetched'[j]) : fetched'[j][i].src = Series[j]
    <3>1. CASE j = n + 1
      BY <1>6, <2>4, <2>5, <3>1
    <3>2. CASE j # n + 1
      BY <1>2, <2>5, <2>8, <3>2 DEF LaidOut, n
    <3> QED BY <3>1, <3>2
  <2>10. /\ Len(fetched'[1]) <= Len(axis') /\ \A i \in 1..Len(fetched'[1]) : axis'[i] = fetched'[1][i].at
         /\ n = 0 => Len(axis') = Len(fetched'[1])
    <3>1. CASE n = 0
      <4>1. axis = <<>> /\ fetched'[1] = more
        BY <1>2, <2>5, <2>8, <3>1 DEF LaidOut, ChartTypes, n
      <4> QED BY <2>4, <2>6, <4>1
    <3>2. CASE n # 0
      <4>1. 1 \in 1..n /\ fetched'[1] = fetched[1]
        BY <1>6, <2>5, <3>2
      <4>2. Len(fetched[1]) <= Len(axis) /\ \A i \in 1..Len(fetched[1]) : axis[i] = fetched[1][i].at
        BY <1>2, <2>8, <4>1 DEF LaidOut, n
      <4>3. Len(fetched[1]) \in Nat
        BY <1>2, <4>1 DEF ChartTypes, n
      <4> QED BY <2>6, <3>2, <4>1, <4>2, <4>3
    <3> QED BY <3>1, <3>2
  <2>11. Len(fetched') = 1 => n = 0
    <3>1. Len(fetched') = n + 1 /\ n \in Nat
      BY <1>6, <2>5
    <3>2. n + 1 = 1 => n = 0
      BY <3>1
    <3> QED BY <3>1, <3>2, Zenon
  <2>12. fetched' # <<>>
    BY <1>6, <2>5
  <2>13. LaidOut'
    BY <1>4, <2>8, <2>9, <2>10, <2>11, <2>12 DEF LaidOut
  <2> QED BY <1>8, <2>5, <2>7, <2>13 DEF ChartsInv
<1> QED BY <1>7, <1>9, <1>10

\* The column of a table has at each date the number of its source, if any.
LEMMA ColumnOf ==
  ASSUME NEW s, NEW cells \in SUBSET PointSet, NEW S, NEW dates, dates \in Seq(S)
  PROVE  /\ Column(s, cells, dates) \in Seq(PointSet)
         /\ Len(Column(s, cells, dates)) = Len(dates)
         /\ \A i \in 1..Len(dates) :
              LET p == Column(s, cells, dates)[i] IN p = Gap \/ (p.src = s /\ p.at = dates[i])
<1> DEFINE Cell(i) ==
      IF \E p \in cells : p.src = s /\ p.at = dates[i]
      THEN CHOOSE p \in cells : p.src = s /\ p.at = dates[i] ELSE Gap
<1>1. Len(dates) \in Nat /\ DOMAIN dates = 1..Len(dates)
  BY SeqIs
<1>2. Column(s, cells, dates) = [i \in 1..Len(dates) |-> Cell(i)]
  BY <1>1, Zenon DEF Column
<1>3. Gap \in PointSet
  BY DEF Gap, PointSet
<1>4. ASSUME NEW i \in 1..Len(dates)
      PROVE  Cell(i) \in PointSet /\ (Cell(i) = Gap \/ (Cell(i).src = s /\ Cell(i).at = dates[i]))
  <2>1. CASE \E p \in cells : p.src = s /\ p.at = dates[i]
    <3>1. Cell(i) = CHOOSE p \in cells : p.src = s /\ p.at = dates[i]
      BY <2>1, Zenon
    <3> HIDE DEF Cell
    <3>2. Cell(i) \in cells /\ Cell(i).src = s /\ Cell(i).at = dates[i]
      BY <2>1, <3>1
    <3> QED BY <3>2
  <2>2. CASE ~\E p \in cells : p.src = s /\ p.at = dates[i]
    <3>1. Cell(i) = Gap
      BY <2>2, Zenon
    <3> HIDE DEF Cell
    <3> QED BY <1>3, <3>1
  <2> QED BY <2>1, <2>2
<1> HIDE DEF Cell
<1>5. Column(s, cells, dates) \in Seq(PointSet) /\ Len(Column(s, cells, dates)) = Len(dates)
  BY <1>1, <1>2, <1>4
<1>6. \A i \in 1..Len(dates) : Column(s, cells, dates)[i] = Cell(i)
  BY <1>2
<1> QED BY <1>4, <1>5, <1>6

LEMMA FetchTableInv ==
  ASSUME ChartsAssumption, ChartsInv, FetchTable
  PROVE  ChartsInv'
<1>1. PICK dates : dates = Ascending({p.at : p \in Cells})
  OBVIOUS
<1>2. /\ Chart.axis = "table" /\ fetched = <<>> /\ response = <<>>
      /\ axis' = dates /\ fetched' = [i \in DOMAIN Asked |-> Column(Asked[i], Cells, dates)]
      /\ kind' = kind /\ stored' = stored /\ left' = left /\ response' = response
  BY <1>1 DEF FetchTable, Nothing
<1>3. ChartTypes /\ InTurn /\ StoredRows /\ kind \in ChartKinds /\ left = <<>>
  BY <1>2 DEF ChartsInv, ChartTypes, InTurn
<1>4. Chart' = Chart /\ Series' = Series /\ ByAxis' = ByAxis
  BY <1>2, KindStays
<1>5. /\ Chart.series = "all" /\ Series = Asked /\ Asked \in Seq(SourceSet) /\ Len(Asked) \in Nat \ {0}
      /\ DOMAIN Asked = 1..Len(Asked)
  BY <1>2, <1>3, ChartShapes, SeriesAsked
<1>6. Cells \in SUBSET PointSet /\ \A p \in Cells : p.at \in 1..LastDate
  <2>1. Cells = UNION {Range(Rows(s)) : s \in SourceSet}
    BY DEF Cells, PeerCountByUserAgents, PeerCountByCountries
  <2> SUFFICES ASSUME NEW p \in Cells PROVE p \in PointSet /\ p.at \in 1..LastDate
    OBVIOUS
  <2>2. PICK s \in SourceSet : p \in Range(Rows(s))
    BY <2>1
  <2>3. PICK got : got = Rows(s)
    OBVIOUS
  <2>4. /\ got \in Seq(PointSet) /\ DatesIn(got) \in Seq(1..LastDate)
        /\ Len(DatesIn(got)) = Len(got) /\ Len(got) \in Nat
        /\ \A i \in 1..Len(got) : DatesIn(got)[i] = got[i].at
    BY <1>3, <2>3, RowsAreOf
  <2>5. PICK i \in 1..Len(got) : got[i] = p
    BY <2>2, <2>3, <2>4, MembersOf
  <2>6. DatesIn(got)[i] \in 1..LastDate
    <3>1. DatesIn(got) \in [1..Len(DatesIn(got)) -> 1..LastDate]
      BY ONLY <2>4, SeqIs
    <3> QED BY <2>4, <3>1
  <2>7. p \in PointSet
    BY <2>4, <2>5
  <2> QED BY <2>4, <2>5, <2>6, <2>7
<1>7. dates \in Seq(1..LastDate)
  <2> DEFINE D == {p.at : p \in Cells}
  <2>1. D \subseteq 1..LastDate
    BY <1>6
  <2>2. LastDate \in Nat /\ IsFiniteSet(1..LastDate)
    BY FS_Interval DEF ChartsAssumption
  <2>3. \A x \in D : x \in Int
    BY <2>1, <2>2
  <2> HIDE DEF D
  <2>4. IsFiniteSet(D)
    BY <2>1, <2>2, FS_Subset
  <2>5. Ascending(D) \in Seq(D)
    BY <2>3, <2>4, AscendingSeq
  <2>6. dates \in Seq(D)
    BY <1>1, <2>5 DEF D
  <2> QED BY ONLY <2>1, <2>6, SeqMore
<1>8. /\ fetched' = [i \in 1..Len(Asked) |-> Column(Asked[i], Cells, dates)]
      /\ \A i \in 1..Len(Asked) : Column(Asked[i], Cells, dates) \in Seq(PointSet)
  BY <1>2, <1>5, <1>6, <1>7, ColumnOf
<1>9. fetched' \in Seq(Seq(PointSet)) /\ Len(fetched') = Len(Asked)
  BY <1>5, <1>8
<1>10. ChartTypes'
  <2>1. StoredRows'
    BY <1>2, <1>3 DEF StoredRows, DatesOf
  <2> QED BY <1>2, <1>3, <1>7, <1>9, <2>1 DEF ChartTypes
<1>11. InTurn'
  <2>1. Len(left') = 0 /\ Len(fetched') + Len(left') = Len(Series)
    BY <1>2, <1>3, <1>5, <1>9
  <2>2. \A i \in 1..Len(left') : left'[i] = Series'[Len(fetched') + i]
    BY <2>1
  <2> QED BY <1>2, <1>3, <1>4, <2>1, <2>2 DEF InTurn
<1>12. ASSUME NEW j \in 1..Len(fetched')
       PROVE  /\ Len(fetched'[j]) = Len(axis')
              /\ \A i \in 1..Len(fetched'[j]) :
                   fetched'[j][i] = Gap \/ (fetched'[j][i].src = Series[j] /\ fetched'[j][i].at = axis'[i])
  <2>1. j \in 1..Len(Asked)
    BY <1>9
  <2>2. PICK col : col = Column(Asked[j], Cells, dates)
    OBVIOUS
  <2>3. fetched'[j] = col
    BY <1>8, <2>1, <2>2
  <2>4. /\ Len(col) = Len(dates)
        /\ \A i \in 1..Len(dates) : col[i] = Gap \/ (col[i].src = Asked[j] /\ col[i].at = dates[i])
    <3>1. /\ Len(Column(Asked[j], Cells, dates)) = Len(dates)
          /\ \A i \in 1..Len(dates) :
               LET p == Column(Asked[j], Cells, dates)[i]
               IN p = Gap \/ (p.src = Asked[j] /\ p.at = dates[i])
      BY ONLY <1>6, <1>7, ColumnOf
    <3> QED BY <2>2, <3>1
  <2> QED BY <1>2, <1>5, <2>3, <2>4
<1>13. LaidOut'
  <2>1. ByAxis /\ Chart.axis # "every row"
    BY <1>2 DEF ByAxis
  <2> QED BY <1>4, <1>12, <2>1 DEF LaidOut, Along, Gap
<1>14. Encoded'
  BY <1>2 DEF Encoded, Nothing
<1> QED BY <1>10, <1>11, <1>13, <1>14 DEF ChartsInv

LEMMA TrimTyped ==
  ASSUME NEW V, NEW sets, sets \in Seq(Seq(V))
  PROVE  Trim(sets) \in Seq(Seq(V)) /\ Len(Trim(sets)) = Len(sets)
<1> DEFINE Zero(i) == \A j \in 2..Len(sets) : i > Len(sets[j]) \/ sets[j][i].n = 0
           Places(set) == {i \in DOMAIN set : i > Len(sets[1]) \/ ~Zero(i)}
           KeptOf(set) == [k \in DOMAIN Ascending(Places(set)) |-> set[Ascending(Places(set))[k]]]
<1>1. sets \in [1..Len(sets) -> Seq(V)] /\ Len(sets) \in Nat /\ DOMAIN sets = 1..Len(sets)
  BY SeqIs
<1>2. ASSUME NEW set, set \in Seq(V) PROVE KeptOf(set) \in Seq(V)
  <2>1. set \in [1..Len(set) -> V] /\ Len(set) \in Nat /\ DOMAIN set = 1..Len(set)
    BY <1>2, SeqIs
  <2> DEFINE P == Places(set)
             I == Ascending(P)
  <2>2. P \subseteq 1..Len(set)
    BY <2>1
  <2> HIDE DEF P
  <2>3. IsFiniteSet(1..Len(set))
    BY <2>1, FS_Interval
  <2>4. IsFiniteSet(P)
    BY <2>2, <2>3, FS_Subset
  <2>5. \A x \in P : x \in Int
    BY <2>1, <2>2
  <2>6. I \in Seq(P)
    BY <2>4, <2>5, AscendingSeq
  <2> HIDE DEF I
  <2>7. I \in [1..Len(I) -> P] /\ Len(I) \in Nat /\ DOMAIN I = 1..Len(I)
    BY <2>6, SeqIs
  <2>8. KeptOf(set) = [k \in 1..Len(I) |-> set[I[k]]]
    BY <2>7 DEF I, P
  <2>9. \A k \in 1..Len(I) : set[I[k]] \in V
    BY <2>1, <2>2, <2>7
  <2> HIDE DEF KeptOf
  <2> QED BY <2>7, <2>8, <2>9
<1> HIDE DEF KeptOf
<1>3. [j \in DOMAIN sets |-> KeptOf(sets[j])] \in Seq(Seq(V))
  BY <1>1, <1>2
<1>4. Len([j \in DOMAIN sets |-> KeptOf(sets[j])]) = Len(sets)
  BY <1>1
<1>5. Trim(sets) = sets \/ Trim(sets) = [j \in DOMAIN sets |-> KeptOf(sets[j])]
  BY Zenon DEF Trim, KeptOf, Places, Zero
<1> QED BY <1>3, <1>4, <1>5

\* What is sent when all have the same dates: series of one length, along the axis.
Sendable(ser, L) ==
  /\ ser \in Seq(Seq(PointSet)) /\ ser # <<>> /\ L \in Nat /\ L <= Len(axis)
  /\ \A j \in 1..Len(ser) : Len(ser[j]) = L
  /\ \A j \in 1..Len(ser), i \in 1..L :
       ser[j][i] = Gap \/ (ser[j][i].at = axis[i] /\ (ser[j][i].src = Series[j] \/ ~Chart.inOrder))
  /\ \A series \in Range(fetched) : \E j \in 1..Len(ser) : ser[j] = series

LEMMA DatesAreSame ==
  ASSUME fetched \in Seq(Seq(PointSet)), SameDates,
         NEW i \in 1..Len(fetched), NEW j \in 1..Len(fetched)
  PROVE  DatesIn(fetched[i]) = DatesIn(fetched[j])
<1> DEFINE T == {DatesIn(series) : series \in Range(fetched)}
           f == [series \in Range(fetched) |-> DatesIn(series)]
<1>1. IsFiniteSet(Range(fetched)) /\ fetched[i] \in Range(fetched) /\ fetched[j] \in Range(fetched)
  BY MembersOf
<1>2. f \in Surjection(Range(fetched), T)
  BY DEF Surjection
<1>3. IsFiniteSet(T)
  BY <1>1, <1>2, FS_Surjection
<1>4. DatesIn(fetched[i]) \in T /\ DatesIn(fetched[j]) \in T
  BY <1>1
<1>5. Cardinality(T) <= 1
  BY DEF SameDates
<1> HIDE DEF T
<1>6. Cardinality(T) \in Nat
  BY <1>3, FS_CardinalityType
<1>7. Cardinality(T) # 0
  BY <1>3, <1>4, FS_EmptySet
<1>8. Cardinality(T) = 1
  BY <1>5, <1>6, <1>7
<1>9. PICK x : T = {x}
  BY <1>3, <1>8, FS_Singleton
<1> QED BY <1>4, <1>9

LEMMA OneLength ==
  ASSUME ChartsAssumption, ChartsInv, fetched # <<>>, left = <<>>,
         Aligned \/ SameDates, Nothing \notin Range(fetched)
  PROVE  \E L \in Nat :
           /\ L <= Len(axis)
           /\ \A j \in 1..Len(fetched) : Len(fetched[j]) = L
           /\ \A j \in 1..Len(fetched), i \in 1..L :
                fetched[j][i] = Gap \/ (fetched[j][i].at = axis[i] /\ fetched[j][i].src = Series[j])
<1>1. /\ ChartTypes /\ InTurn /\ LaidOut /\ kind \in ChartKinds
      /\ fetched \in Seq(Seq(PointSet)) /\ Len(fetched) \in Nat \ {0} /\ Len(axis) \in Nat
  <2>1. axis \in Seq(1..LastDate) /\ fetched \in Seq(Seq(PointSet))
    BY DEF ChartsInv, ChartTypes
  <2>2. Len(axis) \in Nat
    BY ONLY <2>1, SeqIs
  <2>3. Len(fetched) \in Nat \ {0}
    BY <2>1
  <2> QED BY <2>1, <2>2, <2>3 DEF ChartsInv, ChartTypes
<1>2. \A j \in 1..Len(fetched) : fetched[j] # Nothing /\ fetched[j] \in Seq(PointSet)
  BY <1>1, MembersOf
<1>3. CASE ByAxis
  <2>1. \A j \in 1..Len(fetched) : Along(fetched[j], Series[j])
    BY <1>1, <1>2, <1>3 DEF LaidOut
  <2>2. \A j \in 1..Len(fetched) : Len(fetched[j]) = Len(axis)
    BY <2>1 DEF Along
  <2>3. \A j \in 1..Len(fetched), i \in 1..Len(axis) :
          fetched[j][i] = Gap \/ (fetched[j][i].at = axis[i] /\ fetched[j][i].src = Series[j])
    BY <2>1, <2>2 DEF Along
  <2>4. Len(axis) <= Len(axis)
    BY <1>1
  <2> QED BY <1>1, <2>2, <2>3, <2>4
<1>4. CASE ~ByAxis
  <2> DEFINE L == Len(fetched[1])
  <2>1. 1 \in 1..Len(fetched) /\ L \in Nat
    BY <1>1, <1>2
  <2>2. /\ \A j \in 1..Len(fetched) : \A i \in 1..Len(fetched[j]) : fetched[j][i].src = Series[j]
        /\ L <= Len(axis) /\ \A i \in 1..L : axis[i] = fetched[1][i].at
    BY <1>1, <1>4, <2>1 DEF LaidOut
  <2>3. ASSUME NEW j \in 1..Len(fetched)
        PROVE  Len(fetched[j]) = L /\ \A i \in 1..L : fetched[j][i].at = axis[i]
    <3>1. CASE j = 1
      BY <2>2, <3>1
    <3>2. CASE j # 1
      <4>1. Len(fetched) = Len(Series)
        <5>1. Len(fetched) + Len(left) = Len(Series) /\ Len(left) = 0
          BY <1>1 DEF InTurn
        <5> QED BY <1>1, <5>1
      <4>2. Chart.series # "first"
        <5>1. Len(fetched) # 1
          <6>1. \A m, k : k \in 1..m /\ m = 1 => k = 1
            OBVIOUS
          <6> QED BY <3>2, <6>1, Zenon
        <5>2. Chart.series = "first" => Len(Series) = 1
          BY <1>1, SeriesAsked
        <5> QED BY <4>1, <5>1, <5>2
      <4>3. SameDates
        BY <1>4, <4>2 DEF Aligned, ByAxis
      <4>4. DatesIn(fetched[j]) = DatesIn(fetched[1])
        BY <1>1, <2>1, <4>3, DatesAreSame
      <4>5. /\ Len(DatesIn(fetched[j])) = Len(fetched[j]) /\ Len(DatesIn(fetched[1])) = L
            /\ \A i \in 1..Len(fetched[j]) : DatesIn(fetched[j])[i] = fetched[j][i].at
            /\ \A i \in 1..L : DatesIn(fetched[1])[i] = fetched[1][i].at
        BY <1>2, <2>1, PointsHaveDates
      <4> QED BY <2>2, <4>4, <4>5
    <3> QED BY <3>1, <3>2
  <2> HIDE DEF L
  <2>4. \A j \in 1..Len(fetched) : \A i \in 1..L : fetched[j][i].at = axis[i] /\ fetched[j][i].src = Series[j]
    BY <2>2, <2>3
  <2> QED BY <2>1, <2>2, <2>3, <2>4
<1> QED BY <1>3, <1>4

\* What is encoded are the series fetched, in their order or as a map gives them.
LEMMA OrdersAre ==
  ASSUME fetched \in Seq(Seq(PointSet)), NEW ser, ser \in Orders
  PROVE  /\ ser \in Seq(Seq(PointSet)) /\ (Chart.inOrder => ser = fetched)
         /\ \A j \in 1..Len(ser) : ser[j] \in Range(fetched)
         /\ \A series \in Range(fetched) \ {Nothing} : \E j \in 1..Len(ser) : ser[j] = series
<1>1. /\ IsFiniteSet(Range(fetched)) /\ Range(fetched) \subseteq Seq(PointSet)
      /\ \A x \in Range(fetched) : \E i \in 1..Len(fetched) : fetched[i] = x
      /\ \A i \in 1..Len(fetched) : fetched[i] \in Range(fetched)
  BY MembersOf
<1>2. CASE Chart.inOrder
  <2>1. ser = fetched
    BY <1>2 DEF Orders
  <2> QED BY <1>1, <2>1
<1>3. CASE ~Chart.inOrder
  <2> DEFINE S == {f \in Range(fetched) : f # Nothing}
  <2>1. ser \in SetToSeqs(S)
    BY <1>3 DEF Orders
  <2>2. S \subseteq Range(fetched) /\ S \subseteq Seq(PointSet) /\ S = Range(fetched) \ {Nothing}
    BY <1>1
  <2> HIDE DEF S
  <2>3. IsFiniteSet(S)
    BY <1>1, <2>2, FS_Subset
  <2>4. ser \in Seq(S) /\ \A x \in S : \E i \in 1..Len(ser) : ser[i] = x
    BY <2>1, <2>3, ListOfSet
  <2>5. ser \in Seq(Seq(PointSet))
    BY ONLY <2>2, <2>4, SeqMore
  <2>6. \A j \in 1..Len(ser) : ser[j] \in S
    BY <2>4
  <2> QED BY <1>3, <2>2, <2>4, <2>5, <2>6
<1> QED BY <1>2, <1>3

LEMMA AllSendable ==
  ASSUME ChartsAssumption, ChartsInv, fetched # <<>>, left = <<>>,
         Aligned \/ SameDates, Nothing \notin Range(fetched), NEW ser, ser \in Orders
  PROVE  \E L \in Nat : Sendable(ser, L)
<1>1. fetched \in Seq(Seq(PointSet)) /\ Len(fetched) \in Nat \ {0}
  BY DEF ChartsInv, ChartTypes
<1>2. /\ ser \in Seq(Seq(PointSet)) /\ (Chart.inOrder => ser = fetched)
      /\ \A j \in 1..Len(ser) : ser[j] \in Range(fetched)
      /\ \A series \in Range(fetched) \ {Nothing} : \E j \in 1..Len(ser) : ser[j] = series
  BY <1>1, OrdersAre
<1>3. /\ \A x \in Range(fetched) : \E i \in 1..Len(fetched) : fetched[i] = x
      /\ \A i \in 1..Len(fetched) : fetched[i] \in Range(fetched)
  BY <1>1, MembersOf
<1>4. PICK L \in Nat :
        /\ L <= Len(axis)
        /\ \A j \in 1..Len(fetched) : Len(fetched[j]) = L
        /\ \A j \in 1..Len(fetched), i \in 1..L :
             fetched[j][i] = Gap \/ (fetched[j][i].at = axis[i] /\ fetched[j][i].src = Series[j])
  BY OneLength
<1>5. \A series \in Range(fetched) : \E j \in 1..Len(ser) : ser[j] = series
  BY <1>2
<1>6. ser # <<>>
  <2>1. fetched[1] \in Range(fetched)
    BY <1>1, <1>3
  <2>2. PICK j \in 1..Len(ser) : ser[j] = fetched[1]
    BY <1>5, <2>1
  <2> QED BY <2>2
<1>7. \A j \in 1..Len(ser) : Len(ser[j]) = L
  BY <1>2, <1>3, <1>4
<1>8. ASSUME NEW j \in 1..Len(ser), NEW i \in 1..L
      PROVE  ser[j][i] = Gap \/ (ser[j][i].at = axis[i] /\ (ser[j][i].src = Series[j] \/ ~Chart.inOrder))
  <2>1. CASE Chart.inOrder
    BY <1>2, <1>4, <2>1
  <2>2. CASE ~Chart.inOrder
    <3>1. PICK k \in 1..Len(fetched) : fetched[k] = ser[j]
      BY <1>2, <1>3
    <3> QED BY <1>4, <2>2, <3>1
  <2> QED BY <2>1, <2>2
<1> QED BY <1>2, <1>4, <1>5, <1>6, <1>7, <1>8 DEF Sendable

\* What is sent of them: the points of some places, with every one that is not zero.
SentAs(ser, L, resp, M, ax2, ser2) ==
  /\ Thinned(axis, ser, L, ax2, ser2, M)
  /\ Len(resp) = Len(ser) + 1 /\ DOMAIN resp[1] = 1..M
  /\ \A i \in 1..M : resp[1][i] = ax2[i]
  /\ \A j \in 1..Len(ser) : resp[j + 1] = ser2[j] /\ DOMAIN ser2[j] = 1..M

SentPoints(ser, L, resp) == \E M \in Nat : \E ax2, ser2 : SentAs(ser, L, resp, M, ax2, ser2)

LEMMA EncodedSent ==
  ASSUME axis \in Seq(1..LastDate), ChartsAssumption, NEW ser, NEW L \in Nat, Sendable(ser, L),
         NEW sets, sets = <<axis>> \o ser, NEW resp,
         \/ resp = communityChat(sets) /\ Len(ser) = 1 /\ Len(axis) = L
         \/ resp = Encode(sets)
         \/ resp = Encode(Trim(sets))
  PROVE  SentPoints(ser, L, resp)
<1> DEFINE V == Int \cup PointSet
<1>1. PICK W : W = V
  OBVIOUS
<1>2. /\ ser \in Seq(Seq(PointSet)) /\ ser # <<>> /\ L <= Len(axis)
      /\ \A j \in 1..Len(ser) : Len(ser[j]) = L
  BY DEF Sendable
<1>3. axis \in Seq(W)
  <2>1. 1..LastDate \subseteq W
    BY <1>1 DEF ChartsAssumption
  <2> QED BY <2>1, SeqMore
<1>4. ser \in Seq(Seq(W))
  <2>1. ser \in [1..Len(ser) -> Seq(PointSet)] /\ Len(ser) \in Nat
    BY ONLY <1>2, SeqIs
  <2>2. PointSet \subseteq W
    BY <1>1
  <2>3. \A j \in 1..Len(ser) : ser[j] \in Seq(W)
    <3> SUFFICES ASSUME NEW j \in 1..Len(ser) PROVE ser[j] \in Seq(W)
      OBVIOUS
    <3>1. ser[j] \in Seq(PointSet)
      BY <2>1
    <3> QED BY ONLY <2>2, <3>1, SeqMore
  <2>4. ser \in [1..Len(ser) -> Seq(W)]
    BY <2>1, <2>3
  <2> QED BY <2>1, <2>4
<1> HIDE DEF V
<1>5. Len(axis) \in Nat /\ Len(ser) \in Nat \ {0}
  BY <1>2, <1>3
<1>6. CASE resp = communityChat(sets) /\ Len(ser) = 1 /\ Len(axis) = L
  <2>1. Len(ser[1]) = L
    BY <1>2, <1>6
  <2>2. PICK M \in Nat, ax2 \in Seq(W), ser2 \in Seq(Seq(W)) :
          /\ communityChat(sets) = <<ax2>> \o ser2 /\ Thinned(axis, ser, L, ax2, ser2, M)
          /\ Len(ax2) = M
    <3>1. Laid(W, axis, ser, L)
      BY <1>2, <1>3, <1>4 DEF Laid
    <3>2. sets = <<axis>> \o ser
      OBVIOUS
    <3>3. CutTo(W, axis, ser, L, communityChat(sets), FALSE)
      BY ONLY <1>6, <3>1, <3>2, CommunityThins, Zenon
    <3> QED BY <3>3 DEF CutTo
  <2>3. Joined(W, ax2, ser2, resp)
    BY <1>6, <2>2, AxisAndSeries
  <2>4. Len(ser2) = 1 /\ Len(ser2[1]) = M
    BY <1>6, <2>2 DEF Thinned
  <2>5. Len(resp) = 2 /\ resp[1] = ax2 /\ resp[2] = ser2[1]
    <3>1. Len(resp) = Len(ser2) + 1 /\ resp[1] = ax2 /\ \A j \in 1..Len(ser2) : resp[j + 1] = ser2[j]
      BY <2>3 DEF Joined
    <3>2. resp[1 + 1] = ser2[1]
      BY <2>4, <3>1
    <3> QED BY <2>4, <3>1, <3>2
  <2>6. DOMAIN ax2 = 1..M /\ DOMAIN ser2[1] = 1..M
    BY <2>2, <2>4
  <2>7. \A j \in 1..Len(ser) : resp[j + 1] = ser2[j] /\ DOMAIN ser2[j] = 1..M
    BY <1>6, <2>5, <2>6
  <2>8. Len(resp) = Len(ser) + 1
    BY <1>6, <2>5
  <2>9. DOMAIN resp[1] = 1..M /\ \A i \in 1..M : resp[1][i] = ax2[i]
    BY <2>5, <2>6
  <2>10. Thinned(axis, ser, L, ax2, ser2, M)
    BY <2>2
  <2>11. SentAs(ser, L, resp, M, ax2, ser2)
    BY <2>7, <2>8, <2>9, <2>10 DEF SentAs
  <2> QED BY <2>11 DEF SentPoints
<1>7. ASSUME NEW M \in Nat, NEW ax2 \in Seq(W), NEW ser2 \in Seq(Seq(W)), NEW cut,
             cut = <<ax2>> \o ser2, Thinned(axis, ser, L, ax2, ser2, M), resp = Encode(cut)
      PROVE  SentPoints(ser, L, resp)
  <2>1. /\ Len(ser2) = Len(ser) /\ M <= Len(ax2) /\ \A j \in 1..Len(ser) : Len(ser2[j]) = M
    BY <1>7 DEF Thinned
  <2>2. ser2 # <<>>
    BY <1>5, <2>1
  <2>3. \A j \in 1..Len(ser2) : Len(ser2[j]) = M
    BY <2>1
  <2>4. /\ Len(resp) = Len(ser2) + 1
        /\ DOMAIN resp[1] = 1..M /\ \A i \in 1..M : resp[1][i] = ax2[i]
        /\ \A j \in 1..Len(ser2) : resp[j + 1] = ser2[j]
    <3>1. Laid(W, ax2, ser2, M)
      BY <2>1, <2>3 DEF Laid
    <3>2. cut = <<ax2>> \o ser2 /\ resp = Encode(cut)
      BY <1>7
    <3>3. Whole(ax2, ser2, M, resp)
      BY ONLY <2>2, <3>1, <3>2, EncodedWhole, Zenon
    <3> QED BY <3>3 DEF Whole
  <2>5. \A j \in 1..Len(ser) : resp[j + 1] = ser2[j] /\ DOMAIN ser2[j] = 1..M
    <3> SUFFICES ASSUME NEW j \in 1..Len(ser) PROVE resp[j + 1] = ser2[j] /\ DOMAIN ser2[j] = 1..M
      OBVIOUS
    <3>1. ser2[j] \in Seq(W) /\ Len(ser2[j]) = M
      BY <2>1
    <3>2. DOMAIN ser2[j] = 1..M
      BY <3>1
    <3> QED BY <2>1, <2>4, <3>2
  <2>6. Len(resp) = Len(ser) + 1
    BY <2>1, <2>4
  <2>7. Thinned(axis, ser, L, ax2, ser2, M)
    BY <1>7
  <2>8. SentAs(ser, L, resp, M, ax2, ser2)
    BY <2>4, <2>5, <2>6, <2>7 DEF SentAs
  <2> QED BY <2>8 DEF SentPoints
<1>8. CASE resp = Encode(sets)
  <2>1. Thinned(axis, ser, L, axis, ser, L)
    BY <1>2 DEF Thinned
  <2> QED BY <1>3, <1>4, <1>7, <1>8, <2>1
<1>9. CASE resp = Encode(Trim(sets))
  <2>1. PICK M \in Nat, ax2 \in Seq(W), ser2 \in Seq(Seq(W)) :
          Trim(sets) = <<ax2>> \o ser2 /\ Thinned(axis, ser, L, ax2, ser2, M)
    <3>1. Laid(W, axis, ser, L)
      BY <1>2, <1>3, <1>4 DEF Laid
    <3>2. sets = <<axis>> \o ser
      OBVIOUS
    <3>3. CutTo(W, axis, ser, L, Trim(sets), TRUE)
      BY ONLY <3>1, <3>2, TrimThins, Zenon
    <3> QED BY <3>3 DEF CutTo
  <2> QED BY <1>7, <1>9, <2>1
<1> QED BY <1>6, <1>8, <1>9

LEMMA SentShowsRows ==
  ASSUME NEW ser, NEW L \in Nat, Sendable(ser, L), NEW resp, SentPoints(ser, L, resp)
  PROVE  /\ \A j \in 2..Len(resp), i \in DOMAIN resp[1] :
              LET p == resp[j][i]
              IN p # Gap => p.at = resp[1][i] /\ (p.src = Series[j - 1] \/ ~Chart.inOrder)
         /\ \A series \in Range(fetched) : \A p \in Range(series) :
              p.n = 0 \/ \E j \in 2..Len(resp) : p \in Range(resp[j])
<1>1. PICK M \in Nat : \E ax2, ser2 : SentAs(ser, L, resp, M, ax2, ser2)
  BY DEF SentPoints
<1>0. PICK ax2, ser2 :
        /\ Thinned(axis, ser, L, ax2, ser2, M)
        /\ Len(resp) = Len(ser) + 1 /\ DOMAIN resp[1] = 1..M
        /\ \A i \in 1..M : resp[1][i] = ax2[i]
        /\ \A j \in 1..Len(ser) : resp[j + 1] = ser2[j] /\ DOMAIN ser2[j] = 1..M
  BY <1>1 DEF SentAs
<1>2. /\ \A i \in 1..M : \E o \in 1..L : ax2[i] = axis[o] /\ \A j \in 1..Len(ser) : ser2[j][i] = ser[j][o]
      /\ \A o \in 1..L, j \in 1..Len(ser) :
           ser[j][o].n # 0 => \E i \in 1..M : ser2[j][i] = ser[j][o]
  BY <1>0 DEF Thinned
<1>3. /\ ser \in Seq(Seq(PointSet)) /\ Len(ser) \in Nat
      /\ \A j \in 1..Len(ser) : Len(ser[j]) = L
      /\ \A j \in 1..Len(ser), i \in 1..L :
           ser[j][i] = Gap \/ (ser[j][i].at = axis[i] /\ (ser[j][i].src = Series[j] \/ ~Chart.inOrder))
      /\ \A series \in Range(fetched) : \E j \in 1..Len(ser) : ser[j] = series
  <2>1. ser \in Seq(Seq(PointSet))
    BY DEF Sendable
  <2>2. Len(ser) \in Nat
    BY ONLY <2>1, SeqIs
  <2> QED BY <2>1, <2>2 DEF Sendable
<1>4. ASSUME NEW j \in 2..Len(resp), NEW i \in DOMAIN resp[1], resp[j][i] # Gap
      PROVE  resp[j][i].at = resp[1][i] /\ (resp[j][i].src = Series[j - 1] \/ ~Chart.inOrder)
  <2>1. i \in 1..M /\ j - 1 \in 1..Len(ser) /\ (j - 1) + 1 = j
    BY <1>0, <1>3
  <2>2. PICK o \in 1..L : ax2[i] = axis[o] /\ \A k \in 1..Len(ser) : ser2[k][i] = ser[k][o]
    BY <1>2, <2>1
  <2>3. resp[j] = ser2[j - 1]
    BY <1>0, <2>1
  <2>4. resp[j][i] = ser[j - 1][o] /\ resp[1][i] = axis[o]
    BY <1>0, <2>1, <2>2, <2>3
  <2>5. \/ ser[j - 1][o] = Gap
        \/ ser[j - 1][o].at = axis[o] /\ (ser[j - 1][o].src = Series[j - 1] \/ ~Chart.inOrder)
    BY <1>3, <2>1
  <2> QED BY <1>4, <2>4, <2>5
<1>5. ASSUME NEW series \in Range(fetched), NEW p \in Range(series), p.n # 0
      PROVE  \E j \in 2..Len(resp) : p \in Range(resp[j])
  <2>1. PICK j \in 1..Len(ser) : ser[j] = series
    BY <1>3
  <2>2. series \in Seq(PointSet) /\ Len(series) = L
    BY <1>3, <2>1
  <2>3. PICK o \in 1..L : series[o] = p
    BY <2>2, MembersOf
  <2>4. PICK i \in 1..M : ser2[j][i] = p
    BY <1>2, <1>5, <2>1, <2>3
  <2>5. resp[j + 1] = ser2[j] /\ DOMAIN ser2[j] = 1..M /\ j + 1 \in 2..Len(resp)
    BY <1>0, <1>3
  <2>6. p \in Range(resp[j + 1])
    BY <2>4, <2>5 DEF Range
  <2> QED BY <2>5, <2>6
<1> QED BY <1>4, <1>5

\* All sets that are sent have the same length, and the community's are an axis and a series.
Alike(ser, resp) ==
  /\ \A j \in DOMAIN resp : Len(resp[j]) = Len(resp[1])
  /\ kind = "community" =>
       Len(ser) = 1 /\ Len(axis) = Len(ser[1]) /\ ser = fetched /\ Chart.series = "first"

LEMMA SentAlike ==
  ASSUME ChartsAssumption, ChartsInv, fetched # <<>>, left = <<>>, NEW ser, ser \in Orders,
         NEW sets, sets = <<axis>> \o ser, NEW resp,
         \/ kind = "community" /\ resp = communityChat(sets)
         \/ resp = Encode(sets)
         \/ resp = Encode(Trim(sets))
  PROVE  Alike(ser, resp)
<1>1. PICK W : W = Int \cup PointSet
  OBVIOUS
<1>2. /\ fetched \in Seq(Seq(PointSet)) /\ axis \in Seq(1..LastDate) /\ kind \in ChartKinds
      /\ InTurn /\ LaidOut /\ LastDate \in Nat
  BY DEF ChartsInv, ChartTypes, ChartsAssumption
<1>3. ser \in Seq(Seq(PointSet)) /\ (Chart.inOrder => ser = fetched)
  BY <1>2, OrdersAre
<1>4. axis \in Seq(W)
  <2>1. 1..LastDate \subseteq W
    BY <1>1, <1>2
  <2> QED BY <1>2, <2>1, SeqMore
<1>5. ser \in Seq(Seq(W))
  <2>1. PointSet \subseteq W
    BY <1>1
  <2>2. Seq(PointSet) \subseteq Seq(W)
    BY <2>1, SeqMore
  <2> QED BY ONLY <1>3, <2>2, SeqMore
<1>6. sets \in Seq(Seq(W)) /\ Len(sets) = Len(ser) + 1 /\ Len(ser) \in Nat
  <2>1. sets = <<axis>> \o ser
    OBVIOUS
  <2>2. Joined(W, axis, ser, sets)
    BY ONLY <1>4, <1>5, <2>1, AxisAndSeries, Zenon
  <2>3. Len(ser) \in Nat
    BY ONLY <1>5, SeqIs
  <2> QED BY <2>2, <2>3 DEF Joined
<1>7. ASSUME kind = "community"
      PROVE  Len(ser) = 1 /\ Len(axis) = Len(ser[1]) /\ ser = fetched /\ Chart.series = "first"
  <2>1. Chart.series = "first" /\ Chart.axis = "every row" /\ Chart.inOrder
    BY <1>2, <1>7, ChartShapes
  <2>2. Len(Series) = 1
    BY <1>2, <2>1, SeriesAsked
  <2>3. Len(fetched) + Len(left) = Len(Series) /\ Len(left) = 0
    BY <1>2 DEF InTurn
  <2>4. Len(fetched) = 1
    <3>1. Len(fetched) \in Nat
      BY ONLY <1>2, SeqIs
    <3> QED BY <2>2, <2>3, <3>1
  <2>5. Len(axis) = Len(fetched[1])
    BY <1>2, <2>1, <2>4 DEF LaidOut
  <2> QED BY <1>3, <2>1, <2>4, <2>5
<1>8. CASE kind = "community" /\ resp = communityChat(sets)
  <2>1. Len(ser) = 1 /\ Len(axis) = Len(ser[1])
    BY <1>7, <1>8
  <2>2. Laid(W, axis, ser, Len(axis))
    <3>1. Len(axis) \in Nat
      BY ONLY <1>4, SeqIs
    <3> QED BY <1>4, <1>5, <2>1, <3>1 DEF Laid
  <2>3. sets = <<axis>> \o ser
    OBVIOUS
  <2>4. PICK L : L = Len(axis)
    OBVIOUS
  <2>5. Laid(W, axis, ser, L) /\ Len(ser) = 1 /\ Len(axis) = L
    BY <2>1, <2>2, <2>4
  <2>6. CutTo(W, axis, ser, L, communityChat(sets), FALSE)
    BY ONLY <2>3, <2>5, CommunityThins, Zenon
  <2>7. PICK M \in Nat, ax2 \in Seq(W), ser2 \in Seq(Seq(W)) :
          resp = <<ax2>> \o ser2 /\ Thinned(axis, ser, L, ax2, ser2, M) /\ Len(ax2) = M
    BY <1>8, <2>6 DEF CutTo
  <2>8. Joined(W, ax2, ser2, resp)
    BY <2>7, AxisAndSeries
  <2>9. Len(ser2) = 1 /\ Len(ser2[1]) = M
    BY <2>1, <2>7 DEF Thinned
  <2>10. DOMAIN resp = 1..2 /\ resp[1] = ax2 /\ resp[2] = ser2[1]
    <3>1. /\ DOMAIN resp = 1..(Len(ser2) + 1) /\ resp[1] = ax2
          /\ \A j \in 1..Len(ser2) : resp[j + 1] = ser2[j]
      BY <2>8 DEF Joined
    <3>2. resp[1 + 1] = ser2[1]
      BY <2>9, <3>1
    <3> QED BY <2>9, <3>1, <3>2
  <2>11. \A j \in DOMAIN resp : j = 1 \/ j = 2
    BY <2>10
  <2>12. \A j \in DOMAIN resp : Len(resp[j]) = Len(resp[1])
    BY <2>7, <2>9, <2>10, <2>11
  <2> QED BY <1>7, <2>12 DEF Alike
<1>9. ASSUME NEW cut, cut \in Seq(Seq(W)), Len(cut) > 0, resp = Encode(cut)
      PROVE  \A j \in DOMAIN resp : Len(resp[j]) = Len(resp[1])
  BY <1>9, EncodedAlike
<1>10. CASE resp = Encode(sets)
  <2>1. Len(sets) > 0
    BY <1>6
  <2> QED BY <1>6, <1>7, <1>9, <1>10, <2>1 DEF Alike
<1>11. CASE resp = Encode(Trim(sets))
  <2>1. Trim(sets) \in Seq(Seq(W)) /\ Len(Trim(sets)) = Len(sets)
    BY <1>6, TrimTyped
  <2>2. Len(Trim(sets)) > 0
    BY <1>6, <2>1
  <2> QED BY <1>7, <1>9, <1>11, <2>1, <2>2 DEF Alike
<1> QED BY <1>8, <1>10, <1>11

LEMMA EncodeChartInv ==
  ASSUME ChartsAssumption, ChartsInv, EncodeChart
  PROVE  ChartsInv'
<1>1. /\ fetched # <<>> /\ left = <<>>
      /\ kind' = kind /\ stored' = stored /\ axis' = axis /\ fetched' = fetched /\ left' = left
  BY DEF EncodeChart, Nothing
<1>2. PICK ser \in Orders :
        LET sets == <<axis>> \o ser
        IN response' = IF kind = "community" THEN communityChat(sets)
                       ELSE Encode(IF Chart.trim THEN Trim(sets) ELSE sets)
  BY DEF EncodeChart
<1>3. PICK sets : sets = <<axis>> \o ser
  OBVIOUS
<1>4. PICK resp : resp = response'
  OBVIOUS
<1>5. \/ kind = "community" /\ resp = communityChat(sets)
      \/ resp = Encode(sets)
      \/ resp = Encode(Trim(sets))
  BY <1>2, <1>3, <1>4
<1>6. /\ \A j \in DOMAIN resp : Len(resp[j]) = Len(resp[1])
      /\ kind = "community" =>
           /\ Len(ser) = 1 /\ Len(axis) = Len(ser[1])
           /\ ser = fetched /\ Chart.series = "first"
  <2>1. Alike(ser, resp)
    BY <1>1, <1>3, <1>5, SentAlike, Zenon
  <2> QED BY <2>1 DEF Alike
<1>7. ASSUME Aligned \/ SameDates, Nothing \notin Range(fetched)
      PROVE  /\ \A j \in 2..Len(resp), i \in DOMAIN resp[1] :
                  LET p == resp[j][i]
                  IN p # Gap => p.at = resp[1][i] /\ (p.src = Series[j - 1] \/ ~Chart.inOrder)
             /\ \A series \in Range(fetched) : \A p \in Range(series) :
                  p.n = 0 \/ \E j \in 2..Len(resp) : p \in Range(resp[j])
  <2>1. PICK L \in Nat : Sendable(ser, L)
    BY <1>1, <1>7, AllSendable
  <2>2. axis \in Seq(1..LastDate)
    BY DEF ChartsInv, ChartTypes
  <2>3. kind = "community" => Len(ser) = 1 /\ Len(axis) = L
    <3>1. \A j \in 1..Len(ser) : Len(ser[j]) = L
      BY <2>1 DEF Sendable
    <3>2. ASSUME kind = "community" PROVE Len(ser) = 1 /\ Len(axis) = L
      <4>1. Len(ser) = 1 /\ Len(axis) = Len(ser[1])
        BY <1>6, <3>2
      <4>2. 1 \in 1..Len(ser)
        BY <4>1
      <4> QED BY <3>1, <4>1, <4>2
    <3> QED BY <3>2
  <2>4. \/ resp = communityChat(sets) /\ Len(ser) = 1 /\ Len(axis) = L
        \/ resp = Encode(sets)
        \/ resp = Encode(Trim(sets))
    BY <1>5, <2>3
  <2>5. SentPoints(ser, L, resp)
    BY <1>3, <2>1, <2>2, <2>4, EncodedSent
  <2> QED BY <2>1, <2>5, SentShowsRows
<1>8. Chart' = Chart /\ Series' = Series /\ ByAxis' = ByAxis
  BY <1>1, KindStays
<1>9. (Aligned <=> Aligned') /\ (SameDates <=> SameDates')
  BY <1>1, <1>8 DEF Aligned, SameDates, DatesIn
<1>10. ChartShowsRows'
  BY <1>1, <1>4, <1>7, <1>8, <1>9 DEF ChartShowsRows, Gap, Nothing
<1>11. Encoded'
  BY <1>1, <1>4, <1>6, <1>10 DEF Encoded
<1>12. ChartTypes' /\ InTurn' /\ LaidOut'
  <2>1. ChartTypes /\ InTurn /\ LaidOut
    BY DEF ChartsInv
  <2>2. ChartTypes'
    BY <1>1, <2>1 DEF ChartTypes, StoredRows, DatesOf
  <2>3. InTurn'
    BY <1>1, <1>8, <2>1 DEF InTurn
  <2>4. LaidOut'
    BY <1>1, <1>8, <2>1 DEF LaidOut, Along, Gap, Nothing
  <2> QED BY <2>2, <2>3, <2>4
<1> QED BY <1>11, <1>12 DEF ChartsInv

LEMMA ChartsNextInv == ChartsAssumption /\ ChartsInv /\ [ChartsNext]_chartsVars => ChartsInv'
<1> SUFFICES ASSUME ChartsAssumption, ChartsInv, [ChartsNext]_chartsVars PROVE ChartsInv'
  OBVIOUS
<1>1. CASE FetchChart
  BY <1>1, FetchChartInv
<1>2. CASE FetchSeries
  BY <1>2, FetchSeriesInv
<1>3. CASE FetchTable
  BY <1>3, FetchTableInv
<1>4. CASE EncodeChart
  BY <1>4, EncodeChartInv
<1>5. CASE \E s \in SourceSet, d \in 1..LastDate, n \in {0, 1} : StoreRow(s, d, n)
  BY <1>5, StoreRowInv
<1>6. CASE UNCHANGED chartsVars
  <2>1. /\ kind' = kind /\ stored' = stored /\ axis' = axis /\ fetched' = fetched /\ left' = left
        /\ response' = response
    BY <1>6 DEF chartsVars
  <2>2. Chart' = Chart /\ Series' = Series /\ ByAxis' = ByAxis
    BY <2>1, KindStays
  <2>3. ChartTypes /\ InTurn /\ LaidOut /\ Encoded
    BY DEF ChartsInv
  <2>4. ChartTypes'
    BY <2>1, <2>3 DEF ChartTypes, StoredRows, DatesOf
  <2>5. InTurn'
    BY <2>1, <2>2, <2>3 DEF InTurn
  <2>6. LaidOut'
    BY <2>1, <2>2, <2>3 DEF LaidOut, Along, Gap, Nothing
  <2>7. (Aligned <=> Aligned') /\ (SameDates <=> SameDates')
    BY <2>1, <2>2 DEF Aligned, SameDates, DatesIn
  <2>8. ChartShowsRows => ChartShowsRows'
    BY <2>1, <2>2, <2>7 DEF ChartShowsRows, Gap, Nothing
  <2>9. Encoded'
    BY <2>1, <2>3, <2>8 DEF Encoded, Nothing
  <2> QED BY <2>4, <2>5, <2>6, <2>9 DEF ChartsInv
<1> QED BY <1>1, <1>2, <1>3, <1>4, <1>5, <1>6 DEF ChartsNext

LEMMA ChartsInvTypeOK == ChartsAssumption /\ ChartsInv => ChartsTypeOK
<1> SUFFICES ASSUME ChartsAssumption, ChartsInv PROVE ChartsTypeOK
  OBVIOUS
<1>1. /\ kind \in ChartKinds /\ StoredRows /\ axis \in Seq(1..LastDate)
      /\ fetched \in Seq(Seq(PointSet)) /\ left \in Seq(SourceSet) /\ InTurn /\ Encoded
  BY DEF ChartsInv, ChartTypes
<1>2. \A s \in SourceSet : DatesOf(s) \subseteq 1..LastDate /\ Range(stored[s]) \subseteq {0, 1}
  <2> SUFFICES ASSUME NEW s \in SourceSet
               PROVE  DatesOf(s) \subseteq 1..LastDate /\ Range(stored[s]) \subseteq {0, 1}
    OBVIOUS
  <2>1. DatesOf(s) \subseteq 1..LastDate /\ stored[s] \in [DatesOf(s) -> {0, 1}]
    BY <1>1 DEF StoredRows
  <2>2. \A d \in DOMAIN stored[s] : stored[s][d] \in {0, 1}
    BY <2>1
  <2> QED BY <2>1, <2>2 DEF Range
<1>3. Range(axis) \subseteq 1..LastDate /\ Range(left) \subseteq SourceSet
  <2>1. Range(axis) \subseteq 1..LastDate
    BY ONLY <1>1, MembersOf
  <2>2. Range(left) \subseteq SourceSet
    BY ONLY <1>1, MembersOf
  <2> QED BY <2>1, <2>2
<1>4. Len(fetched) + Len(left) <= Len(Asked)
  <2>1. Len(Series) \in Nat /\ Len(Series) <= Len(Asked) /\ Len(Asked) \in Nat
    BY <1>1, SeriesAsked
  <2>2. CASE fetched # <<>> \/ left # <<>>
    <3>1. Len(fetched) + Len(left) = Len(Series)
      BY <1>1, <2>2 DEF InTurn
    <3> QED BY <2>1, <3>1
  <2>3. CASE fetched = <<>> /\ left = <<>>
    <3>1. Len(fetched) = 0 /\ Len(left) = 0
      BY <2>3
    <3> QED BY <2>1, <3>1
  <2> QED BY <2>2, <2>3
<1>5. response # Nothing => \A j \in DOMAIN response : Len(response[j]) = Len(response[1])
  BY <1>1 DEF Encoded
<1> QED BY <1>1, <1>2, <1>3, <1>4, <1>5 DEF ChartsTypeOK

LEMMA InvChartShowsRows == ChartsInv => ChartShowsRows
<1>1. CASE response = Nothing
  BY <1>1 DEF ChartShowsRows
<1>2. CASE response # Nothing
  BY <1>2 DEF ChartsInv, Encoded
<1> QED BY <1>1, <1>2

\* The charts' types: the axis and the series hold dates, numbers and sources that are
\* stored, and all sets that are sent have one length.
THEOREM ChartsTypeCorrect == ChartsSpec => []ChartsTypeOK
<1>1. ChartsSpec => []ChartsInv
  <2>1. ChartsInit => ChartsInv
    BY ChartsAssumption, ChartsInitInv
  <2>2. ChartsInv /\ [ChartsNext]_chartsVars => ChartsInv'
    BY ChartsAssumption, ChartsNextInv
  <2> QED BY <2>1, <2>2, PTL DEF ChartsSpec
<1>2. ChartsInv => ChartsTypeOK
  BY ChartsAssumption, ChartsInvTypeOK
<1> QED BY <1>1, <1>2, PTL

\* Whatever is stored between the queries of a chart, whichever chart and however many
\* sources and dates: every point is at its own date and under its own source, and none
\* is left out but zeros.
THEOREM ChartsShowRows == ChartsSpec => []ChartShowsRows
<1>1. ChartsInit => ChartsInv
  BY ChartsAssumption, ChartsInitInv
<1>2. ChartsInv /\ [ChartsNext]_chartsVars => ChartsInv'
  BY ChartsAssumption, ChartsNextInv
<1> QED BY <1>1, <1>2, InvChartShowsRows, PTL DEF ChartsSpec

-----------------------------------------------------------------------------
(* The time bins: where their pages start. *)

OnFrom(T, n) == {t \in T : t >= n}

\* What Page computes of n, where f is Page itself.
Jumps(T, step, n, f) ==
  IF OnFrom(T, n) = {} THEN {} ELSE {Min(OnFrom(T, n))} \cup f[Min(OnFrom(T, n)) + step]

LEMMA JumpsAre ==
  ASSUME NEW T, NEW from, NEW step
  PROVE  JumpPages(T, from, step) = (CHOOSE f : f = [n \in Nat |-> Jumps(T, step, n, f)])[from]
BY DEF JumpPages, Jumps, OnFrom

LEMMA FirstOfRest ==
  ASSUME NEW N \in Nat, NEW T \in SUBSET (0..N), NEW n \in Nat, OnFrom(T, n) # {}
  PROVE  /\ Min(OnFrom(T, n)) \in T /\ Min(OnFrom(T, n)) \in Nat
         /\ n <= Min(OnFrom(T, n)) /\ Min(OnFrom(T, n)) <= N
         /\ \A t \in T : n <= t => Min(OnFrom(T, n)) <= t
<1> DEFINE rest == OnFrom(T, n)
<1>1. \A t \in T : t \in Nat /\ t <= N
  <2>1. \A i \in 0..N : i \in Nat /\ i <= N
    OBVIOUS
  <2> QED BY <2>1
<1>2. rest \in SUBSET Nat /\ rest # {}
  BY <1>1 DEF OnFrom
<1>3. Min(rest) \in rest /\ \A t \in rest : Min(rest) <= t
  <2> HIDE DEF rest
  <2> QED BY <1>2, MinIn
<1>4. \A t \in T : n <= t => t \in rest
  BY <1>1 DEF OnFrom
<1>5. Min(rest) \in T /\ Min(rest) >= n
  BY <1>3 DEF OnFrom
<1> HIDE DEF rest
<1>6. /\ Min(rest) \in T /\ Min(rest) \in Nat /\ n <= Min(rest) /\ Min(rest) <= N
      /\ \A t \in T : n <= t => Min(rest) <= t
  BY <1>1, <1>3, <1>4, <1>5
<1> QED BY <1>6 DEF rest

LEMMA PageExists ==
  ASSUME NEW N \in Nat, NEW T \in SUBSET (0..N), NEW step \in Nat \ {0}
  PROVE  \E f : f = [n \in Nat |-> Jumps(T, step, n, f)]
<1> DEFINE Known(k, f) == \A n \in Nat : n + k > N => f[n] = Jumps(T, step, n, f)
           Bad == {k \in Nat : ~\E f : Known(k, f)}
<1>1. 0 \notin Bad
  <2>1. ASSUME NEW n \in Nat, n + 0 > N PROVE OnFrom(T, n) = {}
    <3>1. \A t \in T : t \in Nat /\ t <= N
      <4>1. \A i \in 0..N : i \in Nat /\ i <= N
        OBVIOUS
      <4> QED BY <4>1
    <3>2. \A t \in T : ~(t >= n)
      BY <2>1, <3>1
    <3> QED BY <3>2 DEF OnFrom
  <2>2. \A n \in Nat : n + 0 > N => \A f : Jumps(T, step, n, f) = {}
    BY <2>1 DEF Jumps
  <2>3. Known(0, [n \in Nat |-> {}])
    BY <2>2
  <2> QED BY <2>3
<1>2. ASSUME NEW k \in Nat, k \notin Bad PROVE k + 1 \notin Bad
  <2>1. PICK f : Known(k, f)
    BY <1>2
  <2> DEFINE g == [n \in Nat |-> IF n + k > N THEN f[n] ELSE Jumps(T, step, n, f)]
  <2>2. ASSUME NEW n \in Nat, n + (k + 1) > N PROVE g[n] = Jumps(T, step, n, g)
    <3>1. Jumps(T, step, n, f) = Jumps(T, step, n, g)
      <4>1. CASE OnFrom(T, n) = {}
        BY <4>1 DEF Jumps
      <4>2. CASE OnFrom(T, n) # {}
        <5> DEFINE m == Min(OnFrom(T, n))
        <5>1. m \in Nat /\ n <= m
          BY <4>2, FirstOfRest
        <5> HIDE DEF m
        <5>2. m + step \in Nat /\ (m + step) + k > N
          BY <2>2, <5>1
        <5>3. f[m + step] = g[m + step]
          BY <5>2
        <5> QED BY <4>2, <5>3 DEF Jumps, m
      <4> QED BY <4>1, <4>2
    <3>2. g[n] = Jumps(T, step, n, f)
      BY <2>1
    <3> QED BY <3>1, <3>2
  <2>3. Known(k + 1, g)
    BY <2>2
  <2> QED BY <2>3
<1>3. Bad = {}
  <2>1. Bad \in SUBSET Nat
    OBVIOUS
  <2>2. \A k \in Nat : k + 1 \in Bad => k \in Bad
    BY <1>2
  <2> HIDE DEF Bad
  <2> QED BY <1>1, <2>1, <2>2, NoFirst
<1>4. PICK f : Known(N + 1, f)
  <2>1. N + 1 \in Nat /\ N + 1 \notin Bad
    <3> HIDE DEF Bad
    <3> QED BY <1>3
  <2> QED BY <2>1
<1> DEFINE g == [n \in Nat |-> f[n]]
<1>5. ASSUME NEW n \in Nat PROVE f[n] = Jumps(T, step, n, g)
  <2>1. n + (N + 1) > N
    OBVIOUS
  <2>2. Jumps(T, step, n, f) = Jumps(T, step, n, g)
    <3>1. CASE OnFrom(T, n) = {}
      BY <3>1 DEF Jumps
    <3>2. CASE OnFrom(T, n) # {}
      <4>1. Min(OnFrom(T, n)) + step \in Nat
        <5>1. Min(OnFrom(T, n)) \in Nat
          BY <3>2, FirstOfRest
        <5> QED BY <5>1
      <4> QED BY <3>2, <4>1 DEF Jumps
    <3> QED BY <3>1, <3>2
  <2> QED BY <1>4, <2>1, <2>2
<1>6. g = [n \in Nat |-> Jumps(T, step, n, g)]
  BY <1>5
<1> QED BY <1>6

\* Pages lie apart, and what is not before the first is in one of them.
PagesApart(J, T, from, step) ==
  /\ \A p \in J : p \in T /\ from <= p
  /\ \A p, q \in J : p < q => p + step <= q
  /\ \A t \in T : from <= t => \E p \in J : p <= t /\ t < p + step

LEMMA JumpPagesApart ==
  ASSUME NEW N \in Nat, NEW T \in SUBSET (0..N), NEW step \in Nat \ {0}, NEW from \in Nat
  PROVE  PagesApart(JumpPages(T, from, step), T, from, step)
<1> DEFINE f == CHOOSE f : f = [n \in Nat |-> Jumps(T, step, n, f)]
<1>1. f = [n \in Nat |-> Jumps(T, step, n, f)]
  BY PageExists
<1>2. JumpPages(T, from, step) = f[from]
  BY JumpsAre
<1> HIDE DEF f
<1> DEFINE OK(n) == PagesApart(f[n], T, n, step)
           Bad == {k \in Nat : \E n \in Nat : n + k > N /\ ~OK(n)}
<1>3. \A t \in T : t \in Nat /\ t <= N
  <2>1. \A i \in 0..N : i \in Nat /\ i <= N
    OBVIOUS
  <2> QED BY <2>1
<1>4. ASSUME NEW n \in Nat, OnFrom(T, n) = {} PROVE OK(n)
  <2>1. f[n] = {}
    BY <1>1, <1>4 DEF Jumps
  <2>2. \A t \in T : ~(n <= t)
    BY <1>3, <1>4 DEF OnFrom
  <2> QED BY <2>1, <2>2 DEF PagesApart
<1>5. 0 \notin Bad
  <2> SUFFICES ASSUME NEW n \in Nat, n + 0 > N PROVE OK(n)
    OBVIOUS
  <2>1. OnFrom(T, n) = {}
    <3>1. \A t \in T : ~(t >= n)
      BY <1>3
    <3> QED BY <3>1 DEF OnFrom
  <2> QED BY <1>4, <2>1
<1>6. ASSUME NEW k \in Nat, k \notin Bad PROVE k + 1 \notin Bad
  <2> SUFFICES ASSUME NEW n \in Nat, n + (k + 1) > N, OnFrom(T, n) # {} PROVE OK(n)
    BY <1>4
  <2> DEFINE m == Min(OnFrom(T, n))
  <2>1. m \in T /\ m \in Nat /\ n <= m /\ \A t \in T : n <= t => m <= t
    BY FirstOfRest
  <2>2. f[n] = {m} \cup f[m + step]
    BY <1>1 DEF Jumps
  <2> HIDE DEF m
  <2>3. m + step \in Nat /\ (m + step) + k > N
    BY <2>1
  <2>4. PagesApart(f[m + step], T, m + step, step)
    BY <1>6, <2>3
  <2> DEFINE J == f[m + step]
  <2>5. \A p \in J : p \in T /\ p \in Nat /\ m + step <= p
    BY <1>3, <2>4 DEF PagesApart
  <2> HIDE DEF J
  <2>6. \A p \in J : n <= p /\ m < p /\ m # p
    BY <2>1, <2>3, <2>5
  <2>7. \A p \in {m} \cup J : p \in T /\ n <= p
    BY <2>1, <2>5, <2>6
  <2>8. \A p, q \in {m} \cup J : p < q => p + step <= q
    <3> SUFFICES ASSUME NEW p \in {m} \cup J, NEW q \in {m} \cup J, p < q PROVE p + step <= q
      OBVIOUS
    <3>1. CASE p \in J /\ q \in J
      BY <2>4, <3>1 DEF PagesApart, J
    <3>2. CASE p = m /\ q \in J
      BY <2>5, <3>2
    <3>3. CASE q = m
      BY <2>1, <2>5, <2>6, <3>3
    <3> QED BY <3>1, <3>2, <3>3
  <2>9. ASSUME NEW t \in T, n <= t PROVE \E p \in {m} \cup J : p <= t /\ t < p + step
    <3>1. t \in Nat /\ m <= t
      BY <1>3, <2>1, <2>9
    <3>2. CASE t < m + step
      BY <3>1, <3>2
    <3>3. CASE m + step <= t
      BY <2>4, <3>3 DEF PagesApart, J
    <3> QED BY <2>1, <3>1, <3>2, <3>3
  <2> QED BY <2>2, <2>7, <2>8, <2>9 DEF PagesApart, J
<1>7. Bad = {}
  <2>1. Bad \in SUBSET Nat
    OBVIOUS
  <2>2. \A k \in Nat : k + 1 \in Bad => k \in Bad
    BY <1>6
  <2> HIDE DEF Bad
  <2> QED BY <1>5, <2>1, <2>2, NoFirst
<1>8. OK(from)
  <2>1. N + 1 \in Nat /\ N + 1 \notin Bad
    <3> HIDE DEF Bad
    <3> QED BY <1>7
  <2>2. from + (N + 1) > N
    OBVIOUS
  <2> HIDE DEF OK
  <2> QED BY <2>1, <2>2
<1> QED BY <1>2, <1>8
-----------------------------------------------------------------------------
(* The time bins: what an update goes on from. *)

\* A bin has the stamp of a period that is over.
BinOK(b) ==
  /\ b.kind \in Kinds /\ b.src \in SourcesOf(table)
  /\ b.time \in Nat /\ b.time % Width(b.kind) = 0 /\ b.time + Width(b.kind) <= now
  /\ b.of \subseteq MinTime..MaxTime
  /\ table = "vote" => FirstBlock <= b.time

\* The transactions of an update: of propagation one source each.
JobOK(j) ==
  /\ j.kind \in Kinds /\ j.srcs \subseteq SourcesOf(table)
  /\ table # "propagation" => j.srcs = SourcesOf(table)

BinsTypes ==
  /\ table \in Tables /\ now \in 0..MaxTime
  /\ ticks \in [Sources -> SUBSET (MinTime..MaxTime)] /\ \A s \in Sources : \A t \in ticks[s] : t <= now
  /\ \A b \in bins : BinOK(b)
  /\ jobs \in Seq([kind : Kinds, srcs : SUBSET Sources]) /\ \A i \in 1..Len(jobs) : JobOK(jobs[i])
  /\ jobs # <<>> => table \in BinTables /\ Dates # {}
  /\ conflict = FALSE /\ errors \in 0..MaxErrors

\* Only votes and blocks come late, behind a bin of their source.
LateOK ==
  \A x \in late : /\ x \in Kinds \X Sources \X Nat /\ table \in {"propagation", "vote"}
                  /\ \/ table = "vote" /\ x[3] < FirstBlock
                     \/ \E b \in bins : /\ b.kind = x[1] /\ b.src = x[2]
                                        /\ x[3] < b.time + Width(x[1])

\* The VSPs have the same hours, up to the newest without a gap.
HourBin(s, h) == \E b \in bins : b.kind = "hour" /\ b.src = s /\ b.time = h

VspHours ==
  table = "vsp" =>
    /\ "hour" \notin backlog
    /\ \A b \in bins : b.kind = "hour" =>
         \A t \in Dates, s \in Sources : Stamp(t, AnHour) <= b.time => HourBin(s, Stamp(t, AnHour))

BinsInv == BinsTypes /\ LateOK /\ VspHours /\ WholeBins

LEMMA Widths ==
  /\ AnHour \in Nat \ {0} /\ ADay \in Nat \ {0}
  /\ \A k \in Kinds : Width(k) \in Nat \ {0} /\ Step(k) \in Nat \ {0} /\ AnHour \in Nat \ {0}
BY GroupsAssumption, BinsAssumption DEF GroupsAssumption, BinsAssumption, Width, Step, Kinds

LEMMA SourceList ==
  /\ Cardinality(Sources) \in Nat \ {0}
  /\ SetToSeq(Sources) \in [1..Cardinality(Sources) -> Sources]
  /\ Head(SetToSeq(Sources)) \in Sources
<1>1. IsFiniteSet(Sources) /\ Sources # {}
  BY BinsAssumption DEF BinsAssumption
<1>2. Cardinality(Sources) \in Nat /\ Cardinality(Sources) # 0
  BY <1>1, FS_CardinalityType, FS_EmptySet
<1>3. ExistsBijection(1..Cardinality(Sources), Sources)
  BY <1>1, FS_CardinalityType
<1>4. PICK f \in Bijection(1..Cardinality(Sources), Sources) : TRUE
  BY <1>3 DEF ExistsBijection
<1>5. f \in [1..Cardinality(Sources) -> Sources] /\ IsInjective(f)
  BY <1>4 DEF Bijection, Injection, Surjection, IsInjective
<1>6. SetToSeq(Sources) \in [1..Cardinality(Sources) -> Sources]
  BY <1>5 DEF SetToSeq
<1>7. SetToSeq(Sources)[1] \in Sources
  BY <1>2, <1>6
<1>8. Head(SetToSeq(Sources)) = SetToSeq(Sources)[1]
  BY <1>2, <1>6
<1> QED BY <1>2, <1>6, <1>7, <1>8

LEMMA SourcesOfTable == SourcesOf(table) \subseteq Sources
BY SourceList DEF SourcesOf

LEMMA DatesAre ==
  ASSUME BinsTypes
  PROVE  /\ now \in Nat /\ \A s \in Sources : ticks[s] \in SUBSET (0..now)
         /\ Dates \in SUBSET (0..now) /\ \A s \in Sources : ticks[s] \subseteq Dates
<1>1. MinTime \in Nat /\ MaxTime \in Nat
  BY BinsAssumption DEF BinsAssumption
<1>2. now \in Nat
  BY <1>1 DEF BinsTypes
<1>3. ASSUME NEW s \in Sources, NEW t \in ticks[s] PROVE t \in 0..now
  <2>1. t \in MinTime..MaxTime /\ t <= now
    BY <1>3 DEF BinsTypes
  <2> QED BY <1>1, <1>2, <2>1
<1> QED BY <1>2, <1>3 DEF Dates

\* The newest bin of some sources.
LastOK(k, ss, last) ==
  \/ last = None_ /\ \A b \in bins : ~(b.kind = k /\ b.src \in ss)
  \/ /\ last \in Nat /\ last % Width(k) = 0 /\ last + Width(k) <= now
     /\ \A b \in bins : b.kind = k /\ b.src \in ss => b.time <= last
     /\ \E b \in bins : b.kind = k /\ b.src \in ss /\ b.time = last

LEMMA LastBinOK ==
  ASSUME BinsTypes, NEW k \in Kinds, NEW ss
  PROVE  LastOK(k, ss, LastBin(k, ss))
<1> DEFINE T == {b.time : b \in {b \in bins : b.kind = k /\ b.src \in ss}}
<1>1. now \in Nat
  BY DatesAre
<1>2. Width(k) \in Nat
  BY Widths
<1>3. ASSUME NEW b \in bins PROVE b.time \in Nat /\ b.time <= now
  <2>1. BinOK(b)
    BY DEF BinsTypes
  <2>2. Width(b.kind) \in Nat
    BY <2>1, Widths DEF BinOK
  <2> QED BY <1>1, <2>1, <2>2 DEF BinOK
<1>4. CASE T = {}
  <2>1. LastBin(k, ss) = None_
    BY <1>4 DEF LastBin
  <2>2. \A b \in bins : ~(b.kind = k /\ b.src \in ss)
    BY <1>4
  <2> QED BY <2>1, <2>2 DEF LastOK
<1>5. CASE T # {}
  <2>1. T \in SUBSET Nat /\ \A t \in T : t <= now
    BY <1>3
  <2>2. Max(T) \in T /\ \A t \in T : t <= Max(T)
    <3> HIDE DEF T
    <3> QED BY <1>1, <1>5, <2>1, MaxIn
  <2>3. LastBin(k, ss) = Max(T)
    BY <1>5 DEF LastBin
  <2>4. PICK b \in bins : b.kind = k /\ b.src \in ss /\ b.time = Max(T)
    BY <2>2
  <2>5. BinOK(b)
    BY DEF BinsTypes
  <2>6. \A c \in bins : c.kind = k /\ c.src \in ss => c.time \in T
    OBVIOUS
  <2> HIDE DEF T
  <2>7. \A c \in bins : c.kind = k /\ c.src \in ss => c.time <= Max(T)
    BY <2>2, <2>6
  <2> QED BY <2>3, <2>4, <2>5, <2>7 DEF LastOK, BinOK
<1> QED BY <1>4, <1>5

\* What an update reads lies after the newest bin of the source.
ReadOK(k, s, r) ==
  /\ r.times \in SUBSET (0..now) /\ r.from \in Nat
  /\ table = "vote" => FirstBlock <= r.from
  /\ \A t \in r.times, b \in bins :
       b.kind = k /\ b.src = s /\ r.from <= Stamp(t, Width(k)) => b.time < Stamp(t, Width(k))

Apart(r, q) == (\A t \in r.times, u \in q.times : t < u) \/ (\A t \in r.times, u \in q.times : u < t)

ReadsInTurn(k, s, reads) ==
  /\ \A r \in reads : ReadOK(k, s, r)
  /\ \A r, q \in reads : r # q => Apart(r, q)

\* Pages that start in J.
Spaced(J, step) == J \subseteq Nat /\ \A p, q \in J : p < q => p + step <= q

LEMMA PagesAreApart ==
  ASSUME NEW J, NEW step \in Nat, Spaced(J, step), NEW T \in SUBSET Nat,
         NEW p \in J, NEW q \in J, p # q
  PROVE  \/ \A t \in Between(T, p, p + step), u \in Between(T, q, q + step) : t < u
         \/ \A t \in Between(T, p, p + step), u \in Between(T, q, q + step) : u < t
<1>1. p \in Nat /\ q \in Nat
  BY DEF Spaced
<1>2. CASE p < q
  <2>1. p + step <= q
    BY <1>2 DEF Spaced
  <2> QED BY <1>1, <2>1 DEF Between
<1>3. CASE q < p
  <2>1. q + step <= p
    BY <1>3 DEF Spaced
  <2> QED BY <1>1, <2>1 DEF Between
<1> QED BY <1>1, <1>2, <1>3

LEMMA FixedSpaced ==
  ASSUME NEW from \in Nat, NEW step \in Nat \ {0}, NEW until
  PROVE  /\ Spaced(FixedPages(from, step, until), step)
         /\ \A p \in FixedPages(from, step, until) : from <= p /\ p < until
<1>0. MaxTime \in Nat
  BY BinsAssumption DEF BinsAssumption
<1>1. ASSUME NEW p \in FixedPages(from, step, until)
      PROVE  \E k \in Nat : p = from + k * step /\ p < until
  BY <1>0 DEF FixedPages
<1>2. \A k \in Nat : k * step \in Nat
  OBVIOUS
<1>3. \A p \in FixedPages(from, step, until) : p \in Nat /\ from <= p /\ p < until
  BY <1>1, <1>2
<1>4. ASSUME NEW p \in FixedPages(from, step, until), NEW q \in FixedPages(from, step, until), p < q
      PROVE  p + step <= q
  <2>1. PICK j \in Nat : p = from + j * step
    BY <1>1
  <2>2. PICK k \in Nat : q = from + k * step
    BY <1>1
  <2>3. j < k
    <3> SUFFICES ASSUME k <= j PROVE FALSE
      OBVIOUS
    <3>1. j - k \in Nat /\ j = k + (j - k)
      OBVIOUS
    <3>2. PICK d \in Nat : j = k + d
      BY <3>1
    <3>3. j * step = k * step + d * step /\ d * step \in Nat /\ k * step \in Nat
      BY <3>2
    <3> QED BY <1>4, <2>1, <2>2, <3>3
  <2>4. PICK d \in Nat : k = (j + 1) + d
    <3>1. k - (j + 1) \in Nat /\ k = (j + 1) + (k - (j + 1))
      BY <2>3
    <3> QED BY <3>1
  <2>5. k * step = (j * step + step) + d * step /\ d * step \in Nat /\ j * step \in Nat
    BY <2>4
  <2> QED BY <2>1, <2>2, <2>5
<1> QED BY <1>3, <1>4 DEF Spaced

\* Bins are older than a time from which an update goes on.
LEMMA GoesOnAfter ==
  ASSUME BinsTypes, NEW k \in Kinds, NEW s, NEW ss, s \in ss, NEW from \in Nat, NEW last,
         last = LastBin(k, ss), last = None_ \/ last < from
  PROVE  \A b \in bins : b.kind = k /\ b.src = s => b.time < from
<1>1. LastOK(k, ss, last)
  BY LastBinOK
<1>2. ASSUME NEW b \in bins, b.kind = k, b.src = s PROVE b.time < from
  <2>1. last \in Nat /\ b.time <= last /\ last < from
    BY <1>1, <1>2 DEF LastOK, None_
  <2>2. b.time \in Nat
    BY DEF BinsTypes, BinOK
  <2> QED BY <2>1, <2>2
<1> QED BY <1>2

LEMMA AfterBin ==
  ASSUME BinsTypes, NEW k \in Kinds, NEW ss
  PROVE  /\ After(LastBin(k, ss), Width(k)) \in Nat /\ After(LastBin(k, ss), AnHour) \in Nat
         /\ After(LastBin(k, ss), Width(k)) % Width(k) = 0
         /\ LastBin(k, ss) = None_ \/ LastBin(k, ss) < After(LastBin(k, ss), Width(k))
         /\ LastBin(k, ss) = None_ \/ LastBin(k, ss) < After(LastBin(k, ss), AnHour)
         /\ LastBin(k, ss) # None_ => LastBin(k, ss) \in Nat
<1> DEFINE last == LastBin(k, ss)
           w == Width(k)
<1>1. LastOK(k, ss, last)
  BY LastBinOK
<1>2. w \in Nat \ {0} /\ AnHour \in Nat \ {0}
  BY Widths
<1>3. last = None_ \/ (last \in Nat /\ last % w = 0)
  BY <1>1 DEF LastOK
<1> HIDE DEF last, w
<1>4. 0 % w = 0
  BY <1>2
<1>5. ASSUME last \in Nat, last % w = 0 PROVE (last + w) % w = 0
  BY <1>2, <1>5, NextStart
<1>6. ASSUME last # None_
      PROVE  /\ last \in Nat /\ After(last, w) = last + w /\ After(last, AnHour) = last + AnHour
             /\ (last + w) % w = 0
  BY <1>3, <1>5, <1>6 DEF After
<1>7. CASE last = None_
  <2>1. After(last, w) = 0 /\ After(last, AnHour) = 0
    BY <1>7 DEF After
  <2>2. /\ After(last, w) \in Nat /\ After(last, AnHour) \in Nat /\ After(last, w) % w = 0
    BY <1>4, <2>1
  <2> QED BY <1>7, <2>2 DEF last, w
<1>8. CASE last # None_
  <2>1. /\ last + w \in Nat /\ last + AnHour \in Nat /\ last < last + w /\ last < last + AnHour
    BY <1>2, <1>6, <1>8
  <2>2. /\ After(last, w) \in Nat /\ After(last, AnHour) \in Nat /\ After(last, w) % w = 0
        /\ last < After(last, w) /\ last < After(last, AnHour) /\ last \in Nat
    BY <1>6, <1>8, <2>1
  <2> QED BY <2>2 DEF last, w
<1> QED BY <1>7, <1>8

\* A read from a time on, whose groups may not start before it.
LEMMA ReadFrom ==
  ASSUME BinsTypes, NEW k \in Kinds, NEW s, NEW ss, s \in ss, NEW r,
         r.times \in SUBSET (0..now), r.from \in Nat, table = "vote" => FirstBlock <= r.from,
         LastBin(k, ss) = None_ \/ LastBin(k, ss) < r.from
  PROVE  ReadOK(k, s, r)
<1>1. \A b \in bins : b.kind = k /\ b.src = s => b.time < r.from
  BY GoesOnAfter
<1>2. \A i \in 0..now : i \in Nat
  BY DatesAre
<1>3. \A t \in r.times : Stamp(t, Width(k)) \in Nat
  BY <1>2, StampOf, Widths
<1>4. \A b \in bins : b.time \in Nat
  BY DEF BinsTypes, BinOK
<1>5. ASSUME NEW t \in r.times, NEW b \in bins, b.kind = k, b.src = s,
             r.from <= Stamp(t, Width(k))
      PROVE  b.time < Stamp(t, Width(k))
  <2>1. b.time < r.from /\ b.time \in Nat /\ Stamp(t, Width(k)) \in Nat
    BY <1>1, <1>3, <1>4, <1>5
  <2> QED BY <1>5, <2>1
<1> QED BY <1>5 DEF ReadOK

\* A read of times of which the first period is new.
LEMMA ReadSince ==
  ASSUME BinsTypes, NEW k \in Kinds, NEW s, NEW ss, s \in ss, NEW r,
         r.times \in SUBSET (0..now), r.from \in Nat, table # "vote",
         \A t \in r.times : After(LastBin(k, ss), Width(k)) <= t
  PROVE  ReadOK(k, s, r)
<1> DEFINE from == After(LastBin(k, ss), Width(k))
<1>1. from \in Nat /\ from % Width(k) = 0 /\ (LastBin(k, ss) = None_ \/ LastBin(k, ss) < from)
  BY AfterBin
<1>2. \A b \in bins : b.kind = k /\ b.src = s => b.time < from
  BY <1>1, GoesOnAfter
<1> HIDE DEF from
<1>3. \A i \in 0..now : i \in Nat
  BY DatesAre
<1>4. ASSUME NEW t \in r.times PROVE from <= Stamp(t, Width(k)) /\ Stamp(t, Width(k)) \in Nat
  <2>1. from <= t /\ t \in Nat
    BY <1>3 DEF from
  <2> QED BY <1>1, <2>1, StampAfter, StampOf, Widths
<1>5. \A b \in bins : b.time \in Nat
  BY DEF BinsTypes, BinOK
<1>6. ASSUME NEW t \in r.times, NEW b \in bins, b.kind = k, b.src = s
      PROVE  b.time < Stamp(t, Width(k))
  <2>1. b.time < from /\ b.time \in Nat /\ from <= Stamp(t, Width(k)) /\ Stamp(t, Width(k)) \in Nat
    BY <1>2, <1>4, <1>5, <1>6
  <2> QED BY <1>1, <2>1
<1> QED BY <1>6 DEF ReadOK

LEMMA OneReading ==
  ASSUME NEW k, NEW s, NEW r, ReadOK(k, s, r)
  PROVE  ReadsInTurn(k, s, {r})
BY DEF ReadsInTurn

\* Pages of some times, each its own read.
PageReads(T, J, step, own) ==
  {[times |-> Between(T, p, p + step), from |-> IF own THEN p ELSE 0] : p \in J}

LEMMA PageReadsInTurn ==
  ASSUME NEW k, NEW s, NEW T \in SUBSET Nat, NEW J, NEW step \in Nat, Spaced(J, step),
         NEW own, \A r \in PageReads(T, J, step, own) : ReadOK(k, s, r)
  PROVE  ReadsInTurn(k, s, PageReads(T, J, step, own))
<1>1. ASSUME NEW r \in PageReads(T, J, step, own), NEW q \in PageReads(T, J, step, own), r # q
      PROVE  Apart(r, q)
  <2>1. PICK i \in J : r.times = Between(T, i, i + step) /\ r = [times |-> Between(T, i, i + step), from |-> IF own THEN i ELSE 0]
    BY DEF PageReads
  <2>2. PICK j \in J : q.times = Between(T, j, j + step) /\ q = [times |-> Between(T, j, j + step), from |-> IF own THEN j ELSE 0]
    BY DEF PageReads
  <2>3. i # j
    BY <1>1, <2>1, <2>2
  <2> QED BY <2>1, <2>2, <2>3, PagesAreApart DEF Apart
<1> QED BY <1>1 DEF ReadsInTurn

\* Of a period that a read closes it has every record of the source.
ReadWhole(k, s, r) ==
  \A p \in Nat, u \in r.times, m \in r.times :
    p % Width(k) = 0 /\ r.from <= p /\ p + Width(k) <= u /\ Stamp(m, Width(k)) = p =>
      \A t \in ticks[s] : Stamp(t, Width(k)) = p => t \in r.times

ReadsAre(k, s, reads) ==
  /\ ReadsInTurn(k, s, reads) /\ IsFiniteSet(reads)
  /\ \/ table = "vsp" /\ k = "day"
     \/ \A r \in reads : (\A q \in reads : q = r) => ReadWhole(k, s, r)

LEMMA WholeOwn ==
  ASSUME BinsTypes, NEW k \in Kinds, NEW s \in Sources, NEW T, T \in SUBSET Nat, ticks[s] \subseteq T,
         NEW p \in Nat, NEW step \in Nat, NEW r, r.times = Between(T, p, p + step), r.from = p
  PROVE  ReadWhole(k, s, r)
<1> SUFFICES ASSUME NEW i \in Nat, NEW u \in r.times, r.from <= i, i + Width(k) <= u,
                    NEW t \in ticks[s], Stamp(t, Width(k)) = i
             PROVE  t \in r.times
  BY DEF ReadWhole
<1>1. Width(k) \in Nat \ {0} /\ t \in Nat /\ t \in T
  BY Widths
<1>2. i <= t /\ t < i + Width(k)
  BY <1>1, StampOf
<1>3. u \in Nat /\ u < p + step
  BY DEF Between
<1>4. p <= t /\ t < p + step
  BY <1>1, <1>2, <1>3
<1> QED BY <1>1, <1>4 DEF Between

LEMMA WholeFrom ==
  ASSUME BinsTypes, NEW k \in Kinds, NEW s \in Sources, NEW r, r.from \in Nat,
         NEW last \in Nat \cup {None_}, last = None_ \/ last < r.from,
         \A t \in ticks[s] : t > last => t \in r.times
  PROVE  ReadWhole(k, s, r)
<1> SUFFICES ASSUME NEW p \in Nat, r.from <= p, NEW t \in ticks[s], Stamp(t, Width(k)) = p
             PROVE  t \in r.times
  BY DEF ReadWhole
<1>1. \A i \in 0..now : i \in Nat
  BY DatesAre
<1>2. t \in Nat
  BY <1>1, DatesAre
<1>3. p <= t
  BY <1>2, StampOf, Widths
<1>4. t > last
  BY <1>2, <1>3 DEF None_
<1> QED BY <1>4

LEMMA WholeSince ==
  ASSUME BinsTypes, NEW k \in Kinds, NEW s \in Sources, NEW ss, NEW reads, NEW r \in reads,
         r.times \in SUBSET (0..now),
         \A t \in r.times : After(LastBin(k, ss), Width(k)) <= t,
         \A t \in ticks[s] : After(LastBin(k, ss), Width(k)) <= t => \E q \in reads : t \in q.times,
         \A q \in reads : q = r
  PROVE  ReadWhole(k, s, r)
<1> DEFINE from == After(LastBin(k, ss), Width(k))
<1> SUFFICES ASSUME NEW p \in Nat, NEW m \in r.times, Stamp(m, Width(k)) = p,
                    NEW t \in ticks[s], Stamp(t, Width(k)) = p
             PROVE  t \in r.times
  BY DEF ReadWhole
<1>1. \A i \in 0..now : i \in Nat
  BY DatesAre
<1>2. t \in Nat /\ m \in Nat
  BY <1>1, DatesAre
<1>3. from \in Nat /\ from % Width(k) = 0 /\ Width(k) \in Nat \ {0}
  BY AfterBin, Widths
<1>4. from <= m
  OBVIOUS
<1> HIDE DEF from
<1>7. from <= Stamp(m, Width(k))
  BY <1>2, <1>3, <1>4, StampAfter
<1>8. Stamp(t, Width(k)) <= t
  BY <1>2, <1>3, StampOf
<1>5. from <= p /\ p <= t
  BY <1>7, <1>8
<1>6. from <= t
  BY <1>2, <1>3, <1>5
<1> QED BY <1>6 DEF from

LEMMA PageReadsFinite ==
  ASSUME NEW T, NEW J, NEW step, NEW own, IsFiniteSet(J)
  PROVE  IsFiniteSet(PageReads(T, J, step, own))
<1> DEFINE read(p) == [times |-> Between(T, p, p + step), from |-> IF own THEN p ELSE 0]
           f == [p \in J |-> read(p)]
<1> HIDE DEF read
<1>1. PageReads(T, J, step, own) = {read(p) : p \in J}
  BY DEF PageReads, read
<1>2. f \in Surjection(J, {read(p) : p \in J})
  BY DEF Surjection
<1> QED BY <1>1, <1>2, FS_Surjection

LEMMA UpToNowFinite ==
  ASSUME BinsTypes, NEW J \in SUBSET (0..now)
  PROVE  IsFiniteSet(J)
<1>1. now \in Nat
  BY DatesAre
<1>2. IsFiniteSet(0..now)
  BY <1>1, FS_Interval
<1> QED BY <1>2, FS_Subset

-----------------------------------------------------------------------------
(* The time bins: the reads of each table. *)

DueBins(k, s) == k \in Kinds /\ s \in SourcesOf(table) /\ BinsTypes /\ Dates # {}

LEMMA MempoolReadsAre ==
  ASSUME NEW k, NEW s, DueBins(k, s), table # "vote"
  PROVE  ReadsAre(k, s, MempoolReads(k, s))
<1> DEFINE from == After(LastBin(k, Sources), Width(k))
           J == JumpPages(ticks[s], from, Step(k))
           reads == PageReads(ticks[s], J, Step(k), FALSE)
<1>0. k \in Kinds /\ s \in Sources /\ BinsTypes
  BY SourcesOfTable DEF DueBins
<1>1. MempoolReads(k, s) = reads
  BY DEF MempoolReads, PageReads
<1>2. Step(k) \in Nat \ {0} /\ from \in Nat /\ ticks[s] \in SUBSET (0..now) /\ now \in Nat
  BY <1>0, Widths, AfterBin, DatesAre
<1>3. \A i \in 0..now : i \in Nat
  BY <1>2
<1> HIDE DEF from
<1>4. PagesApart(J, ticks[s], from, Step(k))
  BY <1>2, JumpPagesApart
<1> HIDE DEF J
<1>5. Spaced(J, Step(k)) /\ J \in SUBSET (0..now)
  BY <1>2, <1>3, <1>4 DEF PagesApart, Spaced
<1>6. ASSUME NEW r \in reads
      PROVE  /\ r.times \in SUBSET (0..now) /\ r.from = 0
             /\ \A t \in r.times : from <= t
  <2>1. PICK p \in J : r = [times |-> Between(ticks[s], p, p + Step(k)), from |-> 0]
    BY DEF PageReads
  <2>2. from <= p /\ p \in Nat
    BY <1>4, <1>5 DEF PagesApart, Spaced
  <2> QED BY <1>2, <1>3, <2>1, <2>2 DEF Between
<1>7. ASSUME NEW t \in ticks[s], from <= t PROVE \E q \in reads : t \in q.times
  <2>1. PICK p \in J : p <= t /\ t < p + Step(k)
    BY <1>4, <1>7 DEF PagesApart
  <2>2. t \in Between(ticks[s], p, p + Step(k))
    BY <2>1 DEF Between
  <2>3. [times |-> Between(ticks[s], p, p + Step(k)), from |-> 0] \in reads
    BY DEF PageReads
  <2> QED BY <2>2, <2>3
<1>8. \A r \in reads : ReadOK(k, s, r)
  <2> SUFFICES ASSUME NEW r \in reads PROVE ReadOK(k, s, r)
    OBVIOUS
  <2> HIDE DEF reads
  <2>1. /\ r.times \in SUBSET (0..now) /\ r.from = 0
        /\ \A t \in r.times : After(LastBin(k, Sources), Width(k)) <= t
    BY <1>6 DEF from
  <2>2. r.from \in Nat
    BY <2>1
  <2> QED BY <1>0, <2>1, <2>2, ReadSince
<1>9. ASSUME NEW r \in reads, \A q \in reads : q = r PROVE ReadWhole(k, s, r)
  <2>1. /\ r.times \in SUBSET (0..now)
        /\ \A t \in r.times : After(LastBin(k, Sources), Width(k)) <= t
    BY <1>6 DEF from
  <2>2. \A t \in ticks[s] : After(LastBin(k, Sources), Width(k)) <= t => \E q \in reads : t \in q.times
    BY <1>7 DEF from
  <2> HIDE DEF reads
  <2> QED BY <1>0, <1>9, <2>1, <2>2, WholeSince
<1>10. ReadsInTurn(k, s, reads)
  <2>1. ticks[s] \in SUBSET Nat
    BY <1>2, <1>3
  <2> QED BY <1>2, <1>5, <1>8, <2>1, PageReadsInTurn
<1>11. IsFiniteSet(reads)
  BY <1>0, <1>5, UpToNowFinite, PageReadsFinite
<1> QED BY <1>1, <1>9, <1>10, <1>11 DEF ReadsAre

LEMMA PropagationReadsAre ==
  ASSUME NEW k, NEW s, DueBins(k, s), table # "vote", ticks[s] # {}
  PROVE  ReadsAre(k, s, PropagationReads(k, s))
<1> DEFINE last == LastBin(k, {s})
           next == IF last = None_ THEN Min(ticks[s]) ELSE last + Width(k)
           J == JumpPages(Dates, next, Step(k))
           reads == PageReads(ticks[s], J, Step(k), FALSE)
<1>0. k \in Kinds /\ s \in Sources /\ BinsTypes
  BY SourcesOfTable DEF DueBins
<1>1. PropagationReads(k, s) = reads
  <2>1. PropagationReads(k, s) = PropagationPages(last, s, Width(k), Step(k))
    BY <1>0 DEF PropagationReads, UpdatePropagationHourlyAvgForSource,
                UpdatePropagationDailyAvgForSource, Width, Step, Kinds
  <2> QED BY <2>1 DEF PropagationPages, PageReads
<1>2. /\ Step(k) \in Nat \ {0} /\ Width(k) \in Nat \ {0} /\ now \in Nat
      /\ ticks[s] \in SUBSET (0..now) /\ Dates \in SUBSET (0..now) /\ ticks[s] \subseteq Dates
  BY <1>0, Widths, DatesAre
<1>3. \A i \in 0..now : i \in Nat
  BY <1>2
<1>4. Min(ticks[s]) \in ticks[s] /\ \A t \in ticks[s] : Min(ticks[s]) <= t
  <2>1. ticks[s] \in SUBSET Nat
    BY <1>2, <1>3
  <2> QED BY <2>1, MinIn
<1>5. /\ next \in Nat /\ After(last, Width(k)) <= next
      /\ \A t \in ticks[s] : After(last, Width(k)) <= t => next <= t
  <2>1. last # None_ => last \in Nat
    BY <1>0, AfterBin
  <2>2. CASE last = None_
    <3>1. next = Min(ticks[s]) /\ After(last, Width(k)) = 0
      BY <2>2 DEF After
    <3> HIDE DEF next, last
    <3> QED BY <1>2, <1>3, <1>4, <3>1
  <2>3. CASE last # None_
    <3>1. next = last + Width(k) /\ After(last, Width(k)) = last + Width(k) /\ last \in Nat
      BY <2>1, <2>3 DEF After
    <3> HIDE DEF next, last
    <3> QED BY <1>2, <1>3, <3>1
  <2> QED BY <2>2, <2>3
<1> HIDE DEF next
<1>6. PagesApart(J, Dates, next, Step(k))
  BY <1>2, <1>5, JumpPagesApart
<1> HIDE DEF J
<1>7. Spaced(J, Step(k)) /\ J \in SUBSET (0..now)
  BY <1>2, <1>3, <1>6 DEF PagesApart, Spaced
<1>8. After(last, Width(k)) \in Nat
  BY <1>0, AfterBin
<1>9. ASSUME NEW r \in reads
      PROVE  /\ r.times \in SUBSET (0..now) /\ r.from = 0
             /\ \A t \in r.times : After(last, Width(k)) <= t
  <2>1. PICK p \in J : r = [times |-> Between(ticks[s], p, p + Step(k)), from |-> 0]
    BY DEF PageReads
  <2>2. next <= p /\ p \in Nat
    BY <1>6, <1>7 DEF PagesApart, Spaced
  <2>3. \A t \in r.times : t \in ticks[s] /\ p <= t /\ t \in Nat
    BY <1>2, <1>3, <2>1 DEF Between
  <2>4. \A t \in r.times : After(last, Width(k)) <= t
    BY <1>5, <1>8, <2>2, <2>3
  <2> QED BY <1>2, <2>1, <2>3, <2>4
<1>10. ASSUME NEW t \in ticks[s], After(last, Width(k)) <= t PROVE \E q \in reads : t \in q.times
  <2>1. next <= t /\ t \in Dates
    BY <1>2, <1>5, <1>10
  <2>2. PICK p \in J : p <= t /\ t < p + Step(k)
    BY <1>6, <2>1 DEF PagesApart
  <2>3. t \in Between(ticks[s], p, p + Step(k))
    BY <2>2 DEF Between
  <2>4. [times |-> Between(ticks[s], p, p + Step(k)), from |-> 0] \in reads
    BY DEF PageReads
  <2> QED BY <2>3, <2>4
<1>11. \A r \in reads : ReadOK(k, s, r)
  <2> SUFFICES ASSUME NEW r \in reads PROVE ReadOK(k, s, r)
    OBVIOUS
  <2> HIDE DEF reads
  <2>1. /\ r.times \in SUBSET (0..now) /\ r.from = 0
        /\ \A t \in r.times : After(LastBin(k, {s}), Width(k)) <= t
    BY <1>9 DEF last
  <2>2. r.from \in Nat /\ s \in {s}
    BY <2>1
  <2> QED BY <1>0, <2>1, <2>2, ReadSince
<1>12. ASSUME NEW r \in reads, \A q \in reads : q = r PROVE ReadWhole(k, s, r)
  <2> HIDE DEF reads
  <2>0. PICK ss : ss = {s}
    OBVIOUS
  <2>1. /\ r.times \in SUBSET (0..now)
        /\ \A t \in r.times : After(LastBin(k, ss), Width(k)) <= t
    BY <1>9, <2>0 DEF last
  <2>2. \A t \in ticks[s] : After(LastBin(k, ss), Width(k)) <= t => \E q \in reads : t \in q.times
    BY <1>10, <2>0 DEF last
  <2> QED BY ONLY <1>0, <1>12, <2>1, <2>2, WholeSince
<1>13. ReadsInTurn(k, s, reads)
  <2>1. ticks[s] \in SUBSET Nat
    BY <1>2, <1>3
  <2> QED BY <1>2, <1>7, <1>11, <2>1, PageReadsInTurn
<1>14. IsFiniteSet(reads)
  BY <1>0, <1>7, UpToNowFinite, PageReadsFinite
<1> QED BY <1>1, <1>12, <1>13, <1>14 DEF ReadsAre

\* Pages of a fixed length from the newest bin on.
LEMMA FixedReadsAre ==
  ASSUME NEW k, NEW s, DueBins(k, s), NEW T, T \in SUBSET (0..now), ticks[s] \subseteq T,
         NEW from \in Nat, LastBin(k, Sources) = None_ \/ LastBin(k, Sources) < from,
         table = "vote" => FirstBlock <= from,
         NEW until, \A p \in Nat : p < until => p <= now
  PROVE  ReadsAre(k, s, PageReads(T, FixedPages(from, Step(k), until), Step(k), TRUE))
<1> DEFINE J == FixedPages(from, Step(k), until)
           reads == PageReads(T, J, Step(k), TRUE)
<1>0. k \in Kinds /\ s \in Sources /\ BinsTypes
  BY SourcesOfTable DEF DueBins
<1>1. Step(k) \in Nat \ {0} /\ now \in Nat
  BY <1>0, Widths, DatesAre
<1>2. \A i \in 0..now : i \in Nat
  BY <1>1
<1>3. Spaced(J, Step(k)) /\ \A p \in J : from <= p /\ p < until
  BY <1>1, FixedSpaced
<1> HIDE DEF J
<1>4. ASSUME NEW p \in J PROVE p \in Nat /\ from <= p /\ p <= now
  BY <1>3 DEF Spaced
<1>5. J \in SUBSET (0..now)
  BY <1>1, <1>4
<1>6. ASSUME NEW r \in reads
      PROVE  \E p \in J : r.times = Between(T, p, p + Step(k)) /\ r.from = p
  BY DEF PageReads
<1>7. ASSUME NEW r \in reads PROVE ReadOK(k, s, r) /\ ReadWhole(k, s, r)
  <2>1. PICK p \in J : r.times = Between(T, p, p + Step(k)) /\ r.from = p
    BY <1>6
  <2>2. r.times \in SUBSET (0..now) /\ p \in Nat /\ from <= p
    BY <1>4, <2>1 DEF Between
  <2>3. LastBin(k, Sources) = None_ \/ LastBin(k, Sources) < r.from
    <3>1. LastBin(k, Sources) # None_ => LastBin(k, Sources) \in Nat
      BY <1>0, AfterBin
    <3> QED BY <2>1, <2>2, <3>1
  <2>4. table = "vote" => FirstBlock <= r.from
    <3>1. FirstBlock \in Nat
      BY BinsAssumption DEF BinsAssumption
    <3> QED BY <2>1, <2>2, <3>1
  <2>5. ReadOK(k, s, r)
    <3> HIDE DEF reads
    <3> QED BY <1>0, <2>1, <2>2, <2>3, <2>4, ReadFrom
  <2>6. ReadWhole(k, s, r)
    <3>1. T \in SUBSET Nat
      BY <1>2
    <3> HIDE DEF reads
    <3> QED BY <1>0, <1>1, <2>1, <2>2, <3>1, WholeOwn
  <2> QED BY <2>5, <2>6
<1>8. ReadsInTurn(k, s, reads)
  <2>1. T \in SUBSET Nat
    BY <1>2
  <2> QED BY <1>1, <1>3, <1>7, <2>1, PageReadsInTurn
<1>9. IsFiniteSet(reads)
  BY <1>0, <1>5, UpToNowFinite, PageReadsFinite
<1>10. ReadsAre(k, s, reads)
  BY <1>7, <1>8, <1>9 DEF ReadsAre
<1> QED BY <1>10 DEF J

LEMMA PowReadsAre ==
  ASSUME NEW k, NEW s, DueBins(k, s), table # "vote"
  PROVE  ReadsAre(k, s, PowReads(k, s))
<1> DEFINE last == LastBin(k, Sources)
           next == IF last = None_ THEN Min(Dates) ELSE last + AnHour
<1>0. k \in Kinds /\ s \in Sources /\ BinsTypes
  BY SourcesOfTable DEF DueBins
<1>1. PowReads(k, s) = PageReads(Dates, FixedPages(next, Step(k), now + 1), Step(k), TRUE)
  BY DEF PowReads, PageReads
<1>2. Dates \in SUBSET (0..now) /\ ticks[s] \subseteq Dates /\ now \in Nat /\ AnHour \in Nat \ {0}
  BY <1>0, DatesAre, Widths
<1>3. Min(Dates) \in Nat
  <2>1. \A i \in 0..now : i \in Nat
    BY <1>2
  <2>2. Dates \in SUBSET Nat
    BY <1>2, <2>1
  <2> QED BY <2>2, MinIn DEF DueBins
<1>4. next \in Nat /\ (last = None_ \/ last < next)
  <2>1. last # None_ => last \in Nat
    BY <1>0, AfterBin
  <2> HIDE DEF last
  <2> QED BY <1>2, <1>3, <2>1
<1>5. \A p \in Nat : p < now + 1 => p <= now
  BY <1>2
<1> HIDE DEF next
<1>6. ReadsAre(k, s, PageReads(Dates, FixedPages(next, Step(k), now + 1), Step(k), TRUE))
  BY <1>2, <1>4, <1>5, FixedReadsAre
<1> QED BY <1>1, <1>6

LEMMA VoteReadsAre ==
  ASSUME NEW k, NEW s, DueBins(k, s), table = "vote", ticks[s] # {}
  PROVE  ReadsAre(k, s, VoteReads(k, s))
<1> DEFINE last == LastBin(k, Sources)
           next == IF last = None_ THEN FirstBlock ELSE last + Width(k)
           until == Max(ticks[s]) + 1
<1>0. k \in Kinds /\ s \in Sources /\ BinsTypes
  BY SourcesOfTable DEF DueBins
<1>1. VoteReads(k, s) = PageReads(ticks[s], FixedPages(next, Step(k), until), Step(k), TRUE)
  <2>1. VoteReads(k, s) = VotePages(last, s, Width(k), Step(k))
    BY <1>0 DEF VoteReads, updateVoteTimeDeviationHourlyAvgData,
                updateVoteTimeDeviationDailyAvgData, Width, Step, Kinds
  <2> QED BY <2>1 DEF VotePages, PageReads
<1>2. ticks[s] \in SUBSET (0..now) /\ now \in Nat /\ Width(k) \in Nat \ {0} /\ FirstBlock \in Nat
  BY <1>0, DatesAre, Widths, BinsAssumption DEF BinsAssumption
<1>3. Max(ticks[s]) \in Nat /\ Max(ticks[s]) <= now
  <2>1. \A i \in 0..now : i \in Nat /\ i <= now
    BY <1>2
  <2>2. ticks[s] \in SUBSET Nat /\ \A t \in ticks[s] : t <= now
    BY <1>2, <2>1
  <2> QED BY <1>2, <2>2, MaxIn
<1>4. next \in Nat /\ FirstBlock <= next /\ (last = None_ \/ last < next)
  <2>1. last = None_ \/ (last \in Nat /\ \E b \in bins : b.time = last)
    BY <1>0, LastBinOK DEF LastOK
  <2>2. \A b \in bins : FirstBlock <= b.time
    BY <1>0 DEF BinsTypes, BinOK
  <2>3. last = None_ \/ (last \in Nat /\ FirstBlock <= last)
    BY <2>1, <2>2
  <2> HIDE DEF last
  <2> QED BY <1>2, <2>3
<1>5. \A p \in Nat : p < until => p <= now
  BY <1>2, <1>3
<1> HIDE DEF next, until
<1>6. ReadsAre(k, s, PageReads(ticks[s], FixedPages(next, Step(k), until), Step(k), TRUE))
  BY <1>2, <1>4, <1>5, FixedReadsAre
<1> QED BY <1>1, <1>6

\* One read of what is newer than the newest bin.
LEMMA OneReadIs ==
  ASSUME NEW k, NEW s, DueBins(k, s), table # "vote", NEW r, r.times \in SUBSET (0..now),
         r.from \in Nat, LastBin(k, Sources) = None_ \/ LastBin(k, Sources) < r.from,
         (table = "vsp" /\ k = "day") \/ \A t \in ticks[s] : t > LastBin(k, Sources) => t \in r.times
  PROVE  ReadsAre(k, s, {r})
<1>0. k \in Kinds /\ s \in Sources /\ BinsTypes
  BY SourcesOfTable DEF DueBins
<1>1. ReadOK(k, s, r)
  BY <1>0, ReadFrom
<1>2. IsFiniteSet({r})
  BY FS_Singleton
<1>3. (table = "vsp" /\ k = "day") \/ ReadWhole(k, s, r)
  <2>1. LastBin(k, Sources) \in Nat \cup {None_}
    BY <1>0, AfterBin
  <2> QED BY <1>0, <2>1, WholeFrom
<1> QED BY <1>1, <1>2, <1>3, OneReading DEF ReadsAre

LEMMA OtherReadsAre ==
  ASSUME NEW k, NEW s, DueBins(k, s), table \in {"vsp", "snapshot", "version", "location"}
  PROVE  ReadsAre(k, s, Reads(k, s)) \/ Reads(k, s) = {}
<1> DEFINE last == LastBin(k, Sources)
<1>0. k \in Kinds /\ s \in Sources /\ BinsTypes
  BY SourcesOfTable DEF DueBins
<1>1. /\ After(last, Width(k)) \in Nat /\ After(last, AnHour) \in Nat
      /\ last = None_ \/ last < After(last, Width(k))
      /\ last = None_ \/ last < After(last, AnHour)
  BY <1>0, AfterBin
<1>2. Dates \in SUBSET (0..now) /\ ticks[s] \subseteq Dates
  BY <1>0, DatesAre
<1>3. CASE table \in {"snapshot", "version", "location"}
  <2> DEFINE from == IF table = "version" THEN After(last, AnHour) ELSE After(last, Width(k))
             r == [times |-> Newer(s, last), from |-> from]
  <2>1. Reads(k, s) = {r} \/ Reads(k, s) = {}
    BY <1>3 DEF Reads, SnapshotReads, VersionReads, LocationReads
  <2>2. r.times \in SUBSET (0..now) /\ r.from \in Nat /\ (last = None_ \/ last < r.from)
    BY <1>1, <1>2 DEF Newer
  <2>3. \A t \in ticks[s] : t > last => t \in r.times
    BY DEF Newer
  <2> HIDE DEF r
  <2>4. ReadsAre(k, s, {r})
    BY <1>3, <2>2, <2>3, OneReadIs
  <2> QED BY <2>1, <2>4
<1>4. CASE table = "vsp" /\ k = "hour"
  <2> DEFINE r == [times |-> {t \in Dates : t > last}, from |-> After(last, AnHour)]
  <2>1. Reads(k, s) = {r}
    BY <1>4 DEF Reads, VspReads, UpdateVspHourlyChart, fetchVspChartForSource
  <2>2. r.times \in SUBSET (0..now) /\ r.from \in Nat /\ (last = None_ \/ last < r.from)
    BY <1>1, <1>2
  <2>3. \A t \in ticks[s] : t > last => t \in r.times
    BY <1>2
  <2> HIDE DEF r
  <2>4. ReadsAre(k, s, {r})
    BY <1>4, <2>2, <2>3, OneReadIs
  <2> QED BY <2>1, <2>4
<1>5. CASE table = "vsp" /\ k = "day"
  <2> DEFINE r == [times |-> {b.time : b \in {b \in bins : b.kind = "hour" /\ b.src = s
                                                             /\ b.time >= After(last, Width(k))}},
                   from |-> After(last, Width(k))]
  <2>1. Reads(k, s) = {r}
    BY <1>5 DEF Reads, VspReads, UpdateVspDailyChart, Width
  <2>2. r.times \in SUBSET (0..now)
    <3>1. ASSUME NEW b \in bins PROVE b.time \in 0..now
      <4>1. BinOK(b)
        BY <1>0 DEF BinsTypes
      <4>2. b.time \in Nat /\ b.time + Width(b.kind) <= now /\ Width(b.kind) \in Nat
        BY <4>1, Widths DEF BinOK
      <4>3. now \in Nat
        BY <1>0, DatesAre
      <4> QED BY <4>2, <4>3
    <3> QED BY <3>1
  <2>3. r.from \in Nat /\ (last = None_ \/ last < r.from)
    BY <1>1
  <2> HIDE DEF r
  <2>4. ReadsAre(k, s, {r})
    BY <1>5, <2>2, <2>3, OneReadIs
  <2> QED BY <2>1, <2>4
<1> QED BY <1>0, <1>3, <1>4, <1>5 DEF Kinds

\* Whatever the table, the reads of an update lie after the newest bin and apart, and the
\* only one holds the periods it closes whole.
LEMMA AllReadsAre ==
  ASSUME NEW k, NEW s, DueBins(k, s), table \in BinTables
  PROVE  ReadsAre(k, s, Reads(k, s)) \/ Reads(k, s) = {}
<1>1. CASE table \in {"vsp", "snapshot", "version", "location"}
  BY <1>1, OtherReadsAre
<1>2. CASE table = "pow"
  <2>1. Reads(k, s) = PowReads(k, s)
    BY <1>2 DEF Reads
  <2> QED BY <1>2, <2>1, PowReadsAre
<1>3. CASE ticks[s] = {} /\ table \notin {"pow", "vsp"}
  BY <1>3 DEF Reads
<1>4. CASE ticks[s] # {} /\ table = "mempool"
  <2>1. Reads(k, s) = MempoolReads(k, s)
    BY <1>4 DEF Reads
  <2> QED BY <1>4, <2>1, MempoolReadsAre
<1>5. CASE ticks[s] # {} /\ table = "propagation"
  <2>1. Reads(k, s) = PropagationReads(k, s)
    BY <1>5 DEF Reads
  <2> QED BY <1>5, <2>1, PropagationReadsAre
<1>6. CASE ticks[s] # {} /\ table = "vote"
  <2>1. Reads(k, s) = VoteReads(k, s)
    BY <1>6 DEF Reads
  <2> QED BY <1>6, <2>1, VoteReadsAre
<1> QED BY <1>1, <1>2, <1>3, <1>4, <1>5, <1>6 DEF BinTables

LEMMA BinsStart == BinsInit => BinsInv
<1> SUFFICES ASSUME BinsInit PROVE BinsInv
  OBVIOUS
<1>1. MaxTime \in Nat /\ MaxErrors \in Nat
  BY BinsAssumption DEF BinsAssumption
<1>2. BinsTypes
  <2>1. jobs \in Seq([kind : Kinds, srcs : SUBSET Sources]) /\ Len(jobs) = 0 /\ jobs = <<>>
    BY DEF BinsInit
  <2>2. \A i \in 1..Len(jobs) : JobOK(jobs[i])
    BY <2>1
  <2> QED BY <1>1, <2>1, <2>2 DEF BinsInit, BinsTypes
<1> QED BY <1>2 DEF BinsInv, BinsInit, LateOK, VspHours, WholeBins

LEMMA UpdateTyped ==
  /\ Update \in Seq([kind : Kinds, srcs : SUBSET Sources])
  /\ \A i \in 1..Len(Update) : JobOK(Update[i])
<1>1. CASE table = "propagation"
  <2> DEFINE n == 2 * Cardinality(Sources)
             job(i) == [kind |-> IF i % 2 = 1 THEN "hour" ELSE "day",
                        srcs |-> {SetToSeq(Sources)[(i + 1) \div 2]}]
  <2>1. Update = [i \in 1..n |-> job(i)]
    BY <1>1 DEF Update
  <2>2. n \in Nat
    BY SourceList
  <2>3. ASSUME NEW i \in 1..n PROVE (i + 1) \div 2 \in 1..Cardinality(Sources)
    <3>1. Cardinality(Sources) \in Nat
      BY SourceList
    <3> QED BY <3>1
  <2>4. ASSUME NEW i \in 1..n PROVE job(i) \in [kind : Kinds, srcs : SUBSET Sources]
    <3>1. SetToSeq(Sources)[(i + 1) \div 2] \in Sources
      BY <2>3, SourceList
    <3> QED BY <3>1 DEF Kinds
  <2>5. SourcesOf(table) = Sources
    BY <1>1 DEF SourcesOf, Single
  <2>6. ASSUME NEW i \in 1..n PROVE JobOK(job(i))
    <3>1. job(i).kind \in Kinds /\ job(i).srcs \subseteq Sources
      BY <2>4
    <3> QED BY <1>1, <2>5, <3>1 DEF JobOK
  <2> HIDE DEF n, job
  <2>7. Update \in [1..n -> [kind : Kinds, srcs : SUBSET Sources]]
    BY <2>1, <2>4
  <2>8. Update \in Seq([kind : Kinds, srcs : SUBSET Sources]) /\ Len(Update) = n
    <3>1. PICK u : u = Update
      OBVIOUS
    <3>2. PICK S : S = [kind : Kinds, srcs : SUBSET Sources]
      OBVIOUS
    <3>3. u \in [1..n -> S]
      BY <2>7, <3>1, <3>2
    <3>4. u \in Seq(S) /\ Len(u) = n
      BY ONLY <2>2, <3>3
    <3> QED BY <3>1, <3>2, <3>4
  <2> QED BY <2>1, <2>6, <2>8
<1>2. CASE table # "propagation"
  <2> DEFINE h == [kind |-> "hour", srcs |-> SourcesOf(table)]
             d == [kind |-> "day", srcs |-> SourcesOf(table)]
  <2>1. Update = <<h, d>>
    BY <1>2 DEF Update
  <2>2. /\ h \in [kind : Kinds, srcs : SUBSET Sources] /\ d \in [kind : Kinds, srcs : SUBSET Sources]
    BY SourcesOfTable DEF Kinds
  <2>3. JobOK(h) /\ JobOK(d)
    BY DEF JobOK, Kinds
  <2> HIDE DEF h, d
  <2>4. Update \in Seq([kind : Kinds, srcs : SUBSET Sources]) /\ Len(Update) = 2
    BY <2>1, <2>2
  <2>5. Update[1] = h /\ Update[2] = d
    BY <2>1
  <2>6. \A i \in 1..Len(Update) : i = 1 \/ i = 2
    BY <2>4
  <2> QED BY <2>3, <2>4, <2>5, <2>6
<1> QED BY <1>1, <1>2

\* What is collected is new to its sources and, unless late, newer than every bin's period.
LEMMA Collected ==
  ASSUME BinsInv, NEW t \in MinTime..MaxTime, NEW ss \in Reports, Collect(t, ss)
  PROVE  /\ t \in Nat /\ now' \in Nat /\ now <= now' /\ t <= now' /\ now' <= MaxTime
         /\ now' = now \/ now' = t
         /\ \A s \in ss : s \in SourcesOf(table) /\ s \in Sources /\ t \notin ticks[s]
         /\ ss # {} /\ table \in BinTables
         /\ t > now \/ table \in {"propagation", "vote"}
         /\ \A s \in Sources : ticks'[s] = IF s \in ss THEN ticks[s] \cup {t} ELSE ticks[s]
         /\ Dates' \subseteq Dates \cup {t} /\ Dates' # {} /\ Dates \subseteq Dates'
<1>0. MinTime \in Nat /\ MaxTime \in Nat
  BY BinsAssumption DEF BinsAssumption
<1>1. now \in Nat /\ now <= MaxTime /\ \A s \in Sources : ticks[s] \in SUBSET (0..now)
  BY <1>0, DatesAre DEF BinsInv, BinsTypes
<1>2. t \in Nat /\ t <= MaxTime
  BY <1>0
<1>3. now' \in {now, t} /\ now <= now' /\ t <= now'
  <2>1. {now, t} \in SUBSET Nat /\ {now, t} # {} /\ now + t \in Nat /\ \A x \in {now, t} : x <= now + t
    BY <1>1, <1>2
  <2>2. Max({now, t}) \in {now, t} /\ \A y \in {now, t} : y <= Max({now, t})
    BY <2>1, MaxIn
  <2> QED BY <2>2 DEF Collect
<1>4. ss # {} /\ \A s \in ss : s \in SourcesOf(table) /\ s \in Sources
  BY SourcesOfTable, BinsAssumption DEF BinsAssumption, Collect
<1>5. ASSUME NEW s \in ss PROVE t \notin ticks[s]
  <2>1. CASE t > now
    <3>1. ticks[s] \in SUBSET (0..now)
      BY <1>1, <1>4
    <3>2. t \notin 0..now
      BY <1>1, <1>2, <2>1
    <3> QED BY <3>1, <3>2
  <2>2. CASE ~(t > now)
    BY <2>2 DEF Collect
  <2> QED BY <2>1, <2>2
<1>6. t > now \/ table \in {"propagation", "vote"}
  BY BinsAssumption DEF BinsAssumption, Collect
<1>7. \A s \in Sources : ticks'[s] = IF s \in ss THEN ticks[s] \cup {t} ELSE ticks[s]
  BY DEF Collect
<1>8. Dates' \subseteq Dates \cup {t} /\ Dates' # {} /\ Dates \subseteq Dates'
  <2>1. Dates' = UNION {ticks'[s] : s \in Sources}
    BY DEF Dates
  <2>2. Dates' \subseteq Dates \cup {t}
    BY <1>7, <2>1 DEF Dates
  <2>3. t \in Dates'
    BY <1>4, <1>7, <2>1
  <2>4. Dates \subseteq Dates'
    BY <1>7, <2>1 DEF Dates
  <2> QED BY <2>2, <2>3, <2>4
<1>9. table \in BinTables
  BY DEF Collect
<1>10. now' \in Nat /\ now' <= MaxTime /\ (now' = now \/ now' = t)
  BY <1>1, <1>2, <1>3
<1> QED BY <1>2, <1>3, <1>4, <1>5, <1>6, <1>7, <1>8, <1>9, <1>10

LEMMA CollectTypes ==
  ASSUME BinsInv, NEW t \in MinTime..MaxTime, NEW ss \in Reports, Collect(t, ss)
  PROVE  BinsTypes'
<1>0. BinsTypes
  BY DEF BinsInv
<1>1. /\ t \in Nat /\ now' \in Nat /\ now <= now' /\ t <= now' /\ now' <= MaxTime
      /\ \A s \in Sources : ticks'[s] = IF s \in ss THEN ticks[s] \cup {t} ELSE ticks[s]
      /\ table \in BinTables /\ Dates' # {}
  BY Collected
<1>2. table' = table /\ bins' = bins /\ conflict' = conflict /\ errors' = errors /\ jobs' = Update
  BY DEF Collect
<1>3. now' \in 0..MaxTime
  BY <1>1
<1>4. ticks' \in [Sources -> SUBSET (MinTime..MaxTime)]
  <2>1. ticks \in [Sources -> SUBSET (MinTime..MaxTime)]
    BY <1>0 DEF BinsTypes
  <2>2. \A s \in Sources : (IF s \in ss THEN ticks[s] \cup {t} ELSE ticks[s]) \in SUBSET (MinTime..MaxTime)
    BY <2>1
  <2> QED BY <2>2 DEF Collect
<1>5. \A s \in Sources : \A u \in ticks'[s] : u <= now'
  <2> SUFFICES ASSUME NEW s \in Sources, NEW u \in ticks'[s] PROVE u <= now'
    OBVIOUS
  <2>1. now \in Nat /\ ticks[s] \in SUBSET (0..now)
    BY <1>0, DatesAre
  <2>2. u \in ticks[s] \/ u = t
    BY <1>1
  <2>3. u \in 0..now \/ u = t
    BY <2>1, <2>2
  <2> QED BY <1>1, <2>1, <2>3
<1>6. ASSUME NEW b \in bins' PROVE BinOK(b)'
  <2>1. BinOK(b)
    BY <1>0, <1>2 DEF BinsTypes
  <2>2. b.time \in Nat /\ b.time + Width(b.kind) <= now /\ Width(b.kind) \in Nat /\ now \in Nat
    BY <1>0, <2>1, Widths, DatesAre DEF BinOK
  <2>3. b.time + Width(b.kind) <= now'
    BY <1>1, <2>2
  <2> QED BY <1>2, <2>1, <2>3 DEF BinOK
<1>7. /\ jobs' \in Seq([kind : Kinds, srcs : SUBSET Sources]) /\ \A i \in 1..Len(jobs') : JobOK(jobs'[i])
  BY <1>2, UpdateTyped
<1>8. \A i \in 1..Len(jobs') : JobOK(jobs[i])'
  BY <1>2, <1>7 DEF JobOK
<1> QED BY <1>0, <1>1, <1>2, <1>3, <1>4, <1>5, <1>6, <1>7, <1>8 DEF BinsTypes

LEMMA CollectKeeps ==
  ASSUME BinsInv, NEW t \in MinTime..MaxTime, NEW ss \in Reports, Collect(t, ss)
  PROVE  BinsInv'
<1>0. BinsTypes /\ LateOK /\ VspHours /\ WholeBins
  BY DEF BinsInv
<1>1. /\ t \in Nat /\ now' \in Nat
      /\ \A s \in ss : s \in SourcesOf(table) /\ s \in Sources /\ t \notin ticks[s]
      /\ t > now \/ table \in {"propagation", "vote"}
      /\ \A s \in Sources : ticks'[s] = IF s \in ss THEN ticks[s] \cup {t} ELSE ticks[s]
      /\ Dates' \subseteq Dates \cup {t}
  BY Collected
<1>2. table' = table /\ bins' = bins /\ backlog' = backlog /\ now \in Nat
  BY <1>0, DatesAre DEF Collect
<1>3. late' = late \cup {x \in Kinds \X ss \X {t} : t < Horizon(x[1], x[2])}
  BY DEF Collect, Kinds
<1>4. ASSUME NEW b \in bins
      PROVE  b.time \in Nat /\ Width(b.kind) \in Nat \ {0} /\ b.time % Width(b.kind) = 0
             /\ b.time + Width(b.kind) <= now /\ b.kind \in Kinds /\ b.src \in Sources
  <2>1. BinOK(b)
    BY <1>0 DEF BinsTypes
  <2> QED BY <2>1, Widths, SourcesOfTable DEF BinOK
<1>5. BinsTypes'
  BY CollectTypes
<1>6. LateOK'
  <2>1. ASSUME NEW k \in Kinds, NEW s \in ss, t < Horizon(k, s)
        PROVE  /\ table \in {"propagation", "vote"}
               /\ \/ table = "vote" /\ t < FirstBlock
                  \/ \E b \in bins : b.kind = k /\ b.src = s /\ t < b.time + Width(k)
    <3>0. PICK last : last = LastBin(k, {s})
      OBVIOUS
    <3>1. LastOK(k, {s}, last)
      BY <1>0, <3>0, LastBinOK
    <3>2. CASE last = None_
      <4>1. table = "vote"
        <5>1. table # "vote" => Horizon(k, s) = 0
          BY <3>0, <3>2 DEF Horizon, After
        <5> QED BY <1>1, <2>1, <5>1
      <4>2. Horizon(k, s) = FirstBlock
        BY <3>0, <3>2, <4>1 DEF Horizon
      <4> QED BY <2>1, <4>1, <4>2
    <3>3. CASE last # None_
      <4>1. PICK b \in bins : b.kind = k /\ b.src = s /\ b.time = last
        BY <3>1, <3>3 DEF LastOK
      <4>2. Horizon(k, s) = last + Width(k)
        BY <3>0, <3>3 DEF Horizon, After
      <4>3. t < b.time + Width(k)
        BY <2>1, <4>1, <4>2
      <4>4. ~(t > now)
        BY <1>1, <1>2, <1>4, <4>1, <4>3
      <4> QED BY <1>1, <4>1, <4>3, <4>4
    <3> QED BY <3>2, <3>3
  <2>2. ASSUME NEW x \in late', x \notin late
        PROVE  /\ x \in Kinds \X Sources \X Nat /\ table \in {"propagation", "vote"}
               /\ \/ table = "vote" /\ x[3] < FirstBlock
                  \/ \E b \in bins : /\ b.kind = x[1] /\ b.src = x[2]
                                     /\ x[3] < b.time + Width(x[1])
    <3>1. PICK k \in Kinds, s \in ss : x = <<k, s, t>> /\ t < Horizon(k, s)
      <4>1. x \in Kinds \X ss \X {t} /\ t < Horizon(x[1], x[2])
        BY <1>3, <2>2
      <4>2. PICK k \in Kinds, s \in ss : x = <<k, s, t>>
        BY <4>1
      <4> QED BY <4>1, <4>2
    <3>2. x[1] = k /\ x[2] = s /\ x[3] = t /\ s \in Sources
      BY <1>1, <3>1
    <3>3. x \in Kinds \X Sources \X Nat
      BY <1>1, <3>1, <3>2
    <3> QED BY <2>1, <3>1, <3>2, <3>3
  <2>3. \A x \in late : x \in late'
    BY <1>3
  <2> QED BY <1>0, <1>2, <2>2 DEF LateOK
<1>7. VspHours'
  <2> SUFFICES ASSUME table = "vsp", NEW b \in bins, b.kind = "hour", NEW u \in Dates', NEW s \in Sources,
                      Stamp(u, AnHour) <= b.time
               PROVE  HourBin(s, Stamp(u, AnHour))
    BY <1>0, <1>2 DEF VspHours, HourBin
  <2>1. CASE u \in Dates
    BY <1>0, <2>1 DEF VspHours
  <2>2. CASE u \notin Dates
    <3>1. u = t /\ t > now
      BY <1>1, <2>2
    <3>2. Width(b.kind) = AnHour
      BY DEF Width
    <3>3. /\ b.time \in Nat /\ AnHour \in Nat \ {0} /\ b.time + AnHour <= now /\ b.time % AnHour = 0
      BY <1>4, <3>2
    <3>4. b.time + AnHour \in Nat /\ b.time + AnHour <= t /\ (b.time + AnHour) % AnHour = 0
      BY <1>1, <1>2, <3>1, <3>3, NextStart
    <3>5. b.time + AnHour <= Stamp(t, AnHour) /\ Stamp(t, AnHour) \in Nat
      BY <1>1, <3>3, <3>4, StampAfter, StampOf
    <3> QED BY <3>1, <3>3, <3>5
  <2> QED BY <2>1, <2>2
<1>8. WholeBins'
  <2> SUFFICES ASSUME NEW b \in bins, b.kind \notin backlog
               PROVE  b.of = {u \in ticks'[b.src] : /\ Stamp(u, Width(b.kind)) = b.time
                                                    /\ <<b.kind, b.src, u>> \notin late'}
    BY <1>2 DEF WholeBins
  <2>1. b.of = {u \in ticks[b.src] : /\ Stamp(u, Width(b.kind)) = b.time
                                     /\ <<b.kind, b.src, u>> \notin late}
    BY <1>0 DEF WholeBins
  <2>2. CASE b.src \notin ss
    <3>1. ticks'[b.src] = ticks[b.src]
      BY <1>1, <1>4, <2>2
    <3>2. \A u : <<b.kind, b.src, u>> \in late' <=> (<<b.kind, b.src, u>> \in late)
      BY <1>3, <2>2
    <3> QED BY <2>1, <3>1, <3>2
  <2>3. CASE b.src \in ss
    <3>1. ticks'[b.src] = ticks[b.src] \cup {t} /\ t \notin ticks[b.src]
      BY <1>1, <1>4, <2>3
    <3>2. \A u : u # t => (<<b.kind, b.src, u>> \in late' <=> (<<b.kind, b.src, u>> \in late))
      BY <1>3
    <3>3. Stamp(t, Width(b.kind)) = b.time => <<b.kind, b.src, t>> \in late'
      <4> SUFFICES ASSUME Stamp(t, Width(b.kind)) = b.time PROVE <<b.kind, b.src, t>> \in late'
        OBVIOUS
      <4>0. PICK last : last = LastBin(b.kind, {b.src})
        OBVIOUS
      <4>1. LastOK(b.kind, {b.src}, last)
        BY <1>0, <1>4, <4>0, LastBinOK
      <4>2. last # None_ /\ last \in Nat /\ b.time <= last
        BY <4>1 DEF LastOK, None_
      <4>3. Horizon(b.kind, b.src) = last + Width(b.kind)
        BY <4>0, <4>2 DEF Horizon, After
      <4>4. t < b.time + Width(b.kind)
        BY <1>1, <1>4, StampOf
      <4>5. t < Horizon(b.kind, b.src)
        BY <1>1, <1>4, <4>2, <4>3, <4>4
      <4>6. <<b.kind, b.src, t>> \in Kinds \X ss \X {t}
        BY <1>4, <2>3
      <4> QED BY <1>3, <4>5, <4>6
    <3> QED BY <2>1, <3>1, <3>2, <3>3
  <2> QED BY <2>2, <2>3
<1> QED BY <1>5, <1>6, <1>7, <1>8 DEF BinsInv

-----------------------------------------------------------------------------
(* The time bins: what a transaction adds. *)

\* A bin, the read r it comes from and its group g.
NewFrom(k, s, r, g, b) ==
  /\ r \in Reads(k, s) /\ g \in TimeGroups(r.times, Width(k)) /\ g.time >= r.from
  /\ b = [kind |-> k, src |-> s, time |-> g.time, of |-> Members(k, s, g)]

LEMMA NewBinFrom ==
  ASSUME NEW k, NEW s, NEW b \in NewBins(k, s)
  PROVE  \E r, g : NewFrom(k, s, r, g, b)
BY DEF NewBins, NewFrom, TimeGroups

LEMMA NewBinIn ==
  ASSUME NEW k, NEW s, NEW r, NEW g, NEW b, NewFrom(k, s, r, g, b)
  PROVE  b \in NewBins(k, s)
<1> DEFINE AllOf(x) == {[kind |-> k, src |-> s, time |-> h.time, of |-> Members(k, s, h)] :
                       h \in {h \in TimeGroups(x.times, Width(k)) : h.time >= x.from}}
<1>1. NewBins(k, s) = UNION {AllOf(x) : x \in Reads(k, s)}
  BY DEF NewBins, TimeGroups
<1>2. g \in {h \in TimeGroups(r.times, Width(k)) : h.time >= r.from}
  BY DEF NewFrom
<1>3. b \in AllOf(r)
  BY <1>2 DEF NewFrom
<1>4. r \in Reads(k, s)
  BY DEF NewFrom
<1> HIDE DEF AllOf
<1> QED BY <1>1, <1>3, <1>4

LEMMA GroupOfNew ==
  ASSUME NEW k, NEW s, DueBins(k, s), table \in BinTables, NEW r, NEW g, NEW b, NewFrom(k, s, r, g, b)
  PROVE  ReadOK(k, s, r) /\ GroupOfTimes(g, r.times, Width(k)) /\ ReadsAre(k, s, Reads(k, s))
<1>1. ReadsAre(k, s, Reads(k, s))
  BY AllReadsAre DEF NewFrom
<1>2. ReadOK(k, s, r)
  BY <1>1 DEF ReadsAre, ReadsInTurn, NewFrom
<1>3. r.times \in SUBSET (0..now) /\ now \in Nat /\ Width(k) \in Nat \ {0}
  BY <1>2, DatesAre, Widths DEF ReadOK, DueBins
<1>4. PICK T : T = r.times
  OBVIOUS
<1>5. PICK w : w = Width(k)
  OBVIOUS
<1>6. g \in TimeGroups(T, w)
  BY <1>4, <1>5 DEF NewFrom
<1>7. now \in Nat /\ T \in SUBSET (0..now) /\ w \in Nat \ {0}
  BY <1>3, <1>4, <1>5
<1>8. GroupOfTimes(g, T, w)
  BY ONLY <1>6, <1>7, TimesGrouped
<1> QED BY <1>1, <1>2, <1>4, <1>5, <1>8

\* A new bin is well formed and lies after the bins of its source.
LEMMA NewBinOK ==
  ASSUME NEW k, NEW s, DueBins(k, s), table \in BinTables, NEW b \in NewBins(k, s)
  PROVE  BinOK(b) /\ b.kind = k /\ b.src = s
         /\ \A c \in bins : c.kind = k /\ c.src = s => c.time < b.time
<1>1. PICK r, g : NewFrom(k, s, r, g, b)
  BY NewBinFrom
<1>2. ReadOK(k, s, r) /\ GroupOfTimes(g, r.times, Width(k))
  BY <1>1, GroupOfNew
<1>3. b.kind = k /\ b.src = s /\ b.time = g.time /\ b.of = Members(k, s, g) /\ r.from <= g.time
  <2>1. r.from \in Nat /\ g.time \in Nat
    BY <1>2 DEF ReadOK, GroupOfTimes
  <2> QED BY <1>1, <2>1 DEF NewFrom
<1>4. /\ now \in Nat /\ Width(k) \in Nat \ {0} /\ r.times \in SUBSET (0..now) /\ FirstBlock \in Nat
      /\ \A i \in 0..now : i \in Nat /\ i <= now
  BY <1>2, DatesAre, Widths, BinsAssumption DEF ReadOK, DueBins, BinsAssumption
<1>5. b.time \in Nat /\ b.time % Width(k) = 0
  BY <1>2, <1>3 DEF GroupOfTimes
<1>6. b.time + Width(k) <= now
  <2>1. g.next \in Nat /\ g.next <= now /\ g.time + Width(k) <= g.next /\ g.time \in Nat
    BY <1>2, <1>4 DEF GroupOfTimes
  <2> QED BY <1>3, <1>4, <2>1
<1>7. b.of \subseteq MinTime..MaxTime
  <2>1. \A c \in bins : c.of \subseteq MinTime..MaxTime
    BY DEF DueBins, BinsTypes, BinOK
  <2>2. ticks[s] \subseteq MinTime..MaxTime
    BY SourcesOfTable DEF DueBins, BinsTypes
  <2> QED BY <1>3, <2>1, <2>2 DEF Members
<1>8. table = "vote" => FirstBlock <= b.time
  <2>1. r.from \in Nat /\ (table = "vote" => FirstBlock <= r.from)
    BY <1>2 DEF ReadOK
  <2> QED BY <1>3, <1>4, <1>5, <2>1
<1>9. BinOK(b)
  BY <1>3, <1>5, <1>6, <1>7, <1>8 DEF BinOK, DueBins
<1>10. ASSUME NEW c \in bins, c.kind = k, c.src = s PROVE c.time < b.time
  <2>1. PICK m \in r.times : Stamp(m, Width(k)) = g.time
    BY <1>2 DEF GroupOfTimes
  <2> QED BY <1>2, <1>3, <1>10, <2>1 DEF ReadOK
<1> QED BY <1>3, <1>9, <1>10

\* Of two bins of one source that start together there is only one.
LEMMA NewBinsApart ==
  ASSUME NEW k, NEW s, DueBins(k, s), table \in BinTables,
         NEW b \in NewBins(k, s), NEW c \in NewBins(k, s), b.time = c.time
  PROVE  b = c
<1>1. PICK r, g : NewFrom(k, s, r, g, b)
  BY NewBinFrom
<1>2. PICK q, h : NewFrom(k, s, q, h, c)
  BY NewBinFrom
<1>3. ReadOK(k, s, r) /\ GroupOfTimes(g, r.times, Width(k)) /\ ReadsAre(k, s, Reads(k, s))
  BY <1>1, GroupOfNew
<1>4. ReadOK(k, s, q) /\ GroupOfTimes(h, q.times, Width(k))
  BY <1>2, GroupOfNew
<1>5. g.time = h.time /\ g.time \in Nat
  BY <1>1, <1>2, <1>3 DEF NewFrom, GroupOfTimes
<1>6. CASE r = q
  <2>1. g.of = h.of
    BY <1>3, <1>4, <1>5, <1>6 DEF GroupOfTimes
  <2>2. Members(k, s, g) = Members(k, s, h)
    BY <2>1 DEF Members
  <2> QED BY <1>1, <1>2, <1>5, <2>2 DEF NewFrom
<1>7. CASE r # q
  <2>0. now \in Nat /\ Width(k) \in Nat \ {0} /\ \A i \in 0..now : i \in Nat
    BY DatesAre, Widths DEF DueBins
  <2>1. Apart(r, q)
    BY <1>1, <1>2, <1>3, <1>7 DEF ReadsAre, ReadsInTurn, NewFrom
  <2>2. PICK m \in r.times : Stamp(m, Width(k)) = g.time
    BY <1>3 DEF GroupOfTimes
  <2>3. PICK n \in q.times : Stamp(n, Width(k)) = h.time
    BY <1>4 DEF GroupOfTimes
  <2>4. m \in Nat /\ n \in Nat /\ g.next \in Nat /\ h.next \in Nat
    BY <1>3, <1>4, <2>0 DEF ReadOK, GroupOfTimes
  <2>5. m < g.time + Width(k) /\ n < g.time + Width(k)
    BY <1>5, <2>0, <2>2, <2>3, <2>4, StampOf
  <2>6. g.time + Width(k) <= g.next /\ g.time + Width(k) <= h.next /\ g.next \in r.times /\ h.next \in q.times
    BY <1>3, <1>4, <1>5 DEF GroupOfTimes
  <2>7. n < g.next /\ m < h.next
    BY <1>5, <2>0, <2>4, <2>5, <2>6
  <2>8. ~(g.next < n) /\ ~(h.next < m)
    BY <2>4, <2>7
  <2> QED BY <2>1, <2>2, <2>3, <2>6, <2>8 DEF Apart
<1> QED BY <1>6, <1>7

LEMMA OnlyOne ==
  ASSUME NEW R, IsFiniteSet(R), ~(Cardinality(R) > 1), NEW r \in R, NEW q \in R
  PROVE  q = r
<1> SUFFICES ASSUME q # r PROVE FALSE
  OBVIOUS
<1>1. Cardinality(R) \in Nat
  BY FS_CardinalityType
<1>2. Cardinality(R \ {r}) = Cardinality(R) - 1 /\ IsFiniteSet(R \ {r})
  BY FS_RemoveElement
<1>3. Cardinality(R \ {r}) \in Nat
  BY <1>2, FS_CardinalityType
<1>4. Cardinality(R \ {r}) = 0
  BY <1>1, <1>2, <1>3
<1>5. R \ {r} = {}
  BY <1>2, <1>4, FS_EmptySet
<1> QED BY <1>5

\* A record late for its source is older than a bin there.
LEMMA NotLate ==
  ASSUME NEW k, NEW s, DueBins(k, s), LateOK, table \in BinTables, NEW b \in NewBins(k, s),
         NEW t \in ticks[s], Stamp(t, Width(k)) = b.time
  PROVE  <<k, s, t>> \notin late
<1> SUFFICES ASSUME <<k, s, t>> \in late PROVE FALSE
  OBVIOUS
<1>1. BinOK(b) /\ b.kind = k /\ \A c \in bins : c.kind = k /\ c.src = s => c.time < b.time
  BY NewBinOK
<1>2. PICK x : x = <<k, s, t>>
  OBVIOUS
<1>3. x \in late /\ x[1] = k /\ x[2] = s /\ x[3] = t
  BY <1>2
<1>4. \/ table = "vote" /\ t < FirstBlock
      \/ \E c \in bins : c.kind = k /\ c.src = s /\ t < c.time + Width(k)
  BY <1>3 DEF LateOK
<1>5. t \in Nat /\ Width(k) \in Nat \ {0} /\ FirstBlock \in Nat /\ b.time \in Nat
  <2>1. now \in Nat /\ ticks[s] \in SUBSET (0..now)
    BY SourcesOfTable, DatesAre DEF DueBins
  <2> QED BY <1>1, <2>1, Widths, BinsAssumption DEF BinsAssumption, DueBins, BinOK
<1>6. b.time <= t
  BY <1>5, StampOf
<1>7. CASE table = "vote" /\ t < FirstBlock
  BY <1>1, <1>5, <1>6, <1>7 DEF BinOK
<1>8. ASSUME NEW c \in bins, c.kind = k, c.src = s, t < c.time + Width(k) PROVE FALSE
  <2>1. BinOK(c)
    BY DEF DueBins, BinsTypes
  <2>2. c.time \in Nat /\ c.time % Width(k) = 0 /\ b.time % Width(k) = 0 /\ c.time < b.time
    BY <1>1, <1>8, <2>1 DEF BinOK
  <2>3. c.time + Width(k) <= b.time
    BY <1>5, <2>2, StampsApart
  <2> QED BY <1>5, <1>6, <1>8, <2>2, <2>3
<1> QED BY <1>4, <1>7, <1>8

\* A day begins with an hour.
LEMMA DayOfHour ==
  ASSUME NEW t \in Nat
  PROVE  Stamp(Stamp(t, AnHour), ADay) = Stamp(t, ADay) /\ Stamp(t, ADay) <= Stamp(t, AnHour)
<1>0. AnHour \in Nat \ {0} /\ ADay \in Nat \ {0} /\ ADay % AnHour = 0
  BY GroupsAssumption DEF GroupsAssumption
<1> DEFINE h == Stamp(t, AnHour)
           d == Stamp(t, ADay)
<1>1. h \in Nat /\ h <= t
  BY <1>0, StampOf
<1>2. d \in Nat /\ d <= t /\ t < d + ADay /\ d % ADay = 0
  BY <1>0, StampOf
<1> HIDE DEF h, d
<1>3. d % AnHour = 0
  <2>1. d = ADay * (d \div ADay) /\ d \div ADay \in Nat
    BY <1>0, <1>2
  <2>2. ADay = AnHour * (ADay \div AnHour) /\ ADay \div AnHour \in Nat
    BY <1>0
  <2>3. PICK i \in Nat : d = ADay * i
    BY <2>1
  <2>4. PICK j \in Nat : ADay = AnHour * j
    BY <2>2
  <2>5. d = AnHour * (j * i) /\ j * i \in Nat
    BY <1>0, <2>3, <2>4
  <2>6. \A n \in Nat : (AnHour * n) % AnHour = 0
    BY <1>0
  <2> QED BY <2>5, <2>6
<1>4. d <= h
  BY <1>0, <1>2, <1>3, StampAfter DEF h
<1>5. Stamp(h, ADay) = d
  <2>1. h < d + ADay
    BY <1>0, <1>1, <1>2
  <2> QED BY <1>0, <1>1, <1>2, <1>4, <2>1, StampIs
<1> QED BY <1>4, <1>5 DEF h, d

\* A new bin is the average of the records of its period.
LEMMA NewBinWhole ==
  ASSUME NEW k, NEW s, DueBins(k, s), BinsInv, table \in BinTables, NEW b \in NewBins(k, s),
         ~(Cardinality(Reads(k, s)) > 1)
  PROVE  b.of = {t \in ticks[s] : Stamp(t, Width(k)) = b.time /\ <<k, s, t>> \notin late}
<1>0. /\ BinsTypes /\ LateOK /\ VspHours /\ WholeBins /\ k \in Kinds /\ s \in Sources
      /\ now \in Nat /\ Width(k) \in Nat \ {0} /\ ticks[s] \in SUBSET (0..now)
  BY SourcesOfTable, DatesAre, Widths DEF BinsInv, DueBins
<1>1. PICK r, g : NewFrom(k, s, r, g, b)
  BY NewBinFrom
<1>2. ReadOK(k, s, r) /\ GroupOfTimes(g, r.times, Width(k)) /\ ReadsAre(k, s, Reads(k, s))
  BY <1>1, GroupOfNew
<1>3. \A q \in Reads(k, s) : q = r
  <2>1. IsFiniteSet(Reads(k, s)) /\ r \in Reads(k, s)
    BY <1>1, <1>2 DEF ReadsAre, NewFrom
  <2>2. PICK R : R = Reads(k, s)
    OBVIOUS
  <2>3. IsFiniteSet(R) /\ ~(Cardinality(R) > 1) /\ r \in R
    BY <2>1, <2>2
  <2>4. \A q \in R : q = r
    BY ONLY <2>3, OnlyOne
  <2> QED BY <2>2, <2>4
<1>4. b.time = g.time /\ b.of = Members(k, s, g) /\ r.from <= g.time /\ g.time \in Nat /\ r.from \in Nat
  <2>1. r.from \in Nat /\ g.time \in Nat
    BY <1>2 DEF ReadOK, GroupOfTimes
  <2> QED BY <1>1, <2>1 DEF NewFrom
<1>5. \A i \in 0..now : i \in Nat
  BY <1>0
<1>6. \A t \in ticks[s] : Stamp(t, Width(k)) = b.time => <<k, s, t>> \notin late
  BY <1>0, NotLate
<1>7. CASE ~(table = "vsp" /\ k = "day")
  <2>1. ReadWhole(k, s, r)
    BY <1>1, <1>2, <1>3, <1>7 DEF ReadsAre, NewFrom
  <2>2. PICK m \in r.times : Stamp(m, Width(k)) = g.time
    BY <1>2 DEF GroupOfTimes
  <2>3. /\ g.next \in r.times /\ g.time + Width(k) <= g.next /\ g.time % Width(k) = 0
        /\ g.of = {t \in r.times : Stamp(t, Width(k)) = g.time}
    BY <1>2 DEF GroupOfTimes
  <2>4. \A t \in ticks[s] : Stamp(t, Width(k)) = g.time => t \in r.times
    BY <1>4, <2>1, <2>2, <2>3 DEF ReadWhole
  <2>5. b.of = g.of \cap ticks[s]
    BY <1>4, <1>7 DEF Members
  <2> QED BY <1>4, <1>6, <2>3, <2>4, <2>5
<1>8. CASE table = "vsp" /\ k = "day"
  <2> DEFINE Hours == {h \in bins : h.kind = "hour" /\ h.src = s /\ h.time \in g.of}
  <2>1. b.of = UNION {h.of : h \in Hours}
    BY <1>4, <1>8 DEF Members
  <2>2. Width(k) = ADay /\ AnHour \in Nat \ {0} /\ ADay \in Nat \ {0} /\ late = {}
    BY <1>0, <1>8, Widths DEF Width, LateOK
  <2>3. \A h \in bins : h.kind = "hour" => h.of = {t \in ticks[h.src] : Stamp(t, AnHour) = h.time}
    <3>1. ASSUME NEW h \in bins, h.kind = "hour" PROVE h.kind \notin backlog /\ Width(h.kind) = AnHour
      BY <1>0, <1>8, <3>1 DEF VspHours, Width
    <3> QED BY <1>0, <2>2, <3>1 DEF WholeBins
  <2>4. g.of = {u \in r.times : Stamp(u, ADay) = g.time} /\ g.next \in r.times /\ g.time + ADay <= g.next
    BY <1>2, <2>2 DEF GroupOfTimes
  <2>5. r.times = {h.time : h \in {h \in bins : h.kind = "hour" /\ h.src = s /\ h.time >= r.from}}
    BY <1>1, <1>8 DEF NewFrom, Reads, VspReads, UpdateVspDailyChart
  <2>6. ASSUME NEW t \in b.of PROVE t \in ticks[s] /\ Stamp(t, ADay) = g.time
    <3>1. PICK h \in Hours : t \in h.of
      BY <2>1
    <3>2. t \in ticks[s] /\ Stamp(t, AnHour) = h.time
      BY <2>3, <3>1
    <3>3. Stamp(h.time, ADay) = g.time
      BY <2>4, <3>1
    <3>4. t \in Nat
      BY <1>0, <1>5, <3>2
    <3> QED BY <3>2, <3>3, <3>4, DayOfHour
  <2>7. ASSUME NEW t \in ticks[s], Stamp(t, ADay) = g.time PROVE t \in b.of
    <3> DEFINE h == Stamp(t, AnHour)
    <3>1. t \in Nat /\ t \in Dates
      BY <1>0, <1>5, DatesAre
    <3>2. h \in Nat /\ h <= t /\ t < g.time + ADay /\ g.time <= h /\ Stamp(h, ADay) = g.time
      BY <2>2, <2>7, <3>1, StampOf, DayOfHour
    <3>3. PICK c \in bins : c.kind = "hour" /\ c.src = s /\ c.time = g.next
      BY <2>4, <2>5
    <3>4. c.time \in Nat
      BY <1>0 DEF BinsTypes, BinOK
    <3>5. h <= c.time
      <4> HIDE DEF h
      <4> QED BY <1>4, <2>2, <2>4, <3>1, <3>2, <3>3, <3>4
    <3>6. HourBin(s, h)
      BY <1>0, <1>8, <3>1, <3>3, <3>5 DEF VspHours
    <3>7. PICK d \in bins : d.kind = "hour" /\ d.src = s /\ d.time = h
      BY <3>6 DEF HourBin
    <3>8. h >= r.from
      <4> HIDE DEF h
      <4> QED BY <1>4, <3>2
    <3>9. h \in r.times
      BY <2>5, <3>7, <3>8
    <3>10. d \in Hours
      BY <2>4, <3>2, <3>7, <3>9
    <3>11. t \in d.of
      BY <2>3, <3>7
    <3> HIDE DEF Hours
    <3> QED BY <2>1, <3>10, <3>11
  <2> QED BY <1>4, <2>2, <2>6, <2>7
<1> QED BY <1>7, <1>8

LEMMA NotMore ==
  ASSUME NEW s PROVE table = "vsp" => ~(Cardinality(Reads("hour", s)) > 1)
<1> SUFFICES ASSUME table = "vsp" PROVE ~(Cardinality(Reads("hour", s)) > 1)
  OBVIOUS
<1> DEFINE r == [times |-> {t \in Dates : t > LastBin("hour", Sources)},
                 from |-> After(LastBin("hour", Sources), AnHour)]
<1>1. Reads("hour", s) = {r}
  BY DEF Reads, VspReads, UpdateVspHourlyChart, fetchVspChartForSource
<1> HIDE DEF r
<1>2. Cardinality({r}) = 1
  BY FS_Singleton
<1> QED BY <1>1, <1>2

\* An hour before a new one is stored with it, or was there.
LEMMA HoursStored ==
  ASSUME BinsInv, table = "vsp", Dates # {}, NEW s \in Sources, NEW q \in Sources,
         NEW b \in NewBins("hour", q), NEW t \in Dates, Stamp(t, AnHour) <= b.time
  PROVE  HourBin(s, Stamp(t, AnHour)) \/ \E c \in NewBins("hour", s) : c.time = Stamp(t, AnHour)
<1> DEFINE last == LastBin("hour", Sources)
           h == Stamp(t, AnHour)
<1>0. /\ BinsTypes /\ VspHours /\ "hour" \in Kinds /\ Width("hour") = AnHour /\ AnHour \in Nat \ {0}
      /\ now \in Nat /\ Dates \in SUBSET (0..now) /\ SourcesOf(table) = Sources /\ table \in BinTables
  BY DatesAre, Widths DEF BinsInv, Kinds, Width, SourcesOf, Single, BinTables
<1>1. PICK r, g : NewFrom("hour", q, r, g, b)
  BY NewBinFrom
<1>2. DueBins("hour", q) /\ DueBins("hour", s)
  BY <1>0 DEF DueBins
<1>3. GroupOfTimes(g, r.times, AnHour) /\ ReadOK("hour", q, r)
  BY <1>0, <1>1, <1>2, GroupOfNew
<1>4. b.time = g.time
  BY <1>1 DEF NewFrom
<1>5. \A z \in Sources : Reads("hour", z) =
        {[times |-> {u \in Dates : u > last}, from |-> After(last, AnHour)]}
  BY DEF Reads, VspReads, UpdateVspHourlyChart, fetchVspChartForSource
<1>6. r.times = {u \in Dates : u > last} /\ r.from = After(last, AnHour) /\ r \in Reads("hour", s)
  BY <1>1, <1>5 DEF NewFrom
<1>7. LastOK("hour", Sources, last)
  BY <1>0, LastBinOK
<1>8. t \in Nat
  <2>1. \A i \in 0..now : i \in Nat
    BY <1>0
  <2> QED BY <1>0, <2>1
<1>9. h \in Nat /\ h <= t /\ t < h + AnHour /\ h % AnHour = 0
  BY <1>0, <1>8, StampOf
<1>10. CASE last # None_ /\ h <= last
  <2>1. PICK c \in bins : c.kind = "hour" /\ c.time = last
    BY <1>7, <1>10 DEF LastOK
  <2> QED BY <1>0, <1>10, <2>1 DEF VspHours
<1>11. CASE ~(last # None_ /\ h <= last)
  <2>0. last = None_ \/ (last \in Nat /\ last % AnHour = 0)
    BY <1>0, <1>7 DEF LastOK
  <2>1. h >= r.from /\ t > last
    <3>1. CASE last = None_
      <4>1. r.from = 0
        BY <1>6, <3>1 DEF After
      <4> HIDE DEF h, last
      <4> QED BY <1>8, <1>9, <3>1, <4>1 DEF None_
    <3>2. CASE last # None_
      <4>1. r.from = last + AnHour
        BY <1>6, <3>2 DEF After
      <4> HIDE DEF h, last
      <4>2. last < h /\ last \in Nat /\ last % AnHour = 0
        BY <1>9, <1>11, <2>0, <3>2
      <4>3. last + AnHour <= h
        BY <1>0, <1>9, <4>2, StampsApart
      <4> QED BY <1>8, <1>9, <4>1, <4>2, <4>3
    <3> QED BY <3>1, <3>2
  <2>2. t \in r.times
    BY <1>6, <2>1
  <2>3. t < g.next
    <3>1. g.time \in Nat /\ g.next \in r.times /\ g.time + AnHour <= g.next
      BY <1>3 DEF GroupOfTimes
    <3>2. g.next \in Nat
      <4>1. \A i \in 0..now : i \in Nat
        BY <1>0
      <4> QED BY <1>3, <3>1, <4>1 DEF ReadOK
    <3>3. h <= g.time
      BY <1>4
    <3> HIDE DEF h
    <3> QED BY <1>0, <1>8, <1>9, <3>1, <3>2, <3>3
  <2>4. PICK j \in TimeGroups(r.times, AnHour) : j.time = h
    BY <1>3, <2>2, <2>3 DEF GroupOfTimes
  <2> DEFINE c == [kind |-> "hour", src |-> s, time |-> j.time, of |-> Members("hour", s, j)]
  <2>5. NewFrom("hour", s, r, j, c)
    BY <1>0, <1>6, <2>1, <2>4 DEF NewFrom
  <2>6. c \in NewBins("hour", s) /\ c.time = h
    BY <2>4, <2>5, NewBinIn
  <2> QED BY <2>6
<1> QED BY <1>10, <1>11

\* All that a transaction adds.
Added(k, ss) == UNION {NewBins(k, s) : s \in ss}

\* A bin of it is there already, or twice.
Doubled(new) ==
  \/ \E b \in new, c \in bins : Key(b) = Key(c)
  \/ \E b, c \in new : b # c /\ Key(b) = Key(c)

LEMMA NoneDoubled ==
  ASSUME BinsTypes, table \in BinTables, Dates # {}, NEW k \in Kinds, NEW ss \in SUBSET SourcesOf(table)
  PROVE  /\ ~Doubled(Added(k, ss))
         /\ \A b \in Added(k, ss) : BinOK(b) /\ b.kind = k /\ b.src \in ss /\ b \in NewBins(k, b.src)
<1>1. \A s \in ss : DueBins(k, s)
  BY DEF DueBins
<1>2. ASSUME NEW b \in Added(k, ss)
      PROVE  /\ BinOK(b) /\ b.kind = k /\ b.src \in ss /\ b \in NewBins(k, b.src)
             /\ \A c \in bins : c.kind = k /\ c.src = b.src => c.time < b.time
  <2>1. PICK s \in ss : b \in NewBins(k, s)
    BY DEF Added
  <2> QED BY <1>1, <2>1, NewBinOK
<1>3. ASSUME NEW b \in Added(k, ss), NEW c \in bins, Key(b) = Key(c) PROVE FALSE
  <2>1. b.kind = c.kind /\ b.src = c.src /\ b.time = c.time
    BY <1>3 DEF Key
  <2>2. c.time < b.time /\ b.time \in Nat
    BY <1>2, <2>1 DEF BinOK
  <2> QED BY <2>1, <2>2
<1>4. ASSUME NEW b \in Added(k, ss), NEW c \in Added(k, ss), Key(b) = Key(c) PROVE b = c
  <2>1. b.src = c.src /\ b.time = c.time
    BY <1>4 DEF Key
  <2>2. b \in NewBins(k, b.src) /\ c \in NewBins(k, b.src) /\ DueBins(k, b.src)
    BY <1>1, <1>2, <2>1
  <2> QED BY <2>1, <2>2, NewBinsApart
<1> QED BY <1>2, <1>3, <1>4 DEF Doubled

LEMMA Transaction ==
  ASSUME BinsInv, StoreBins
  PROVE  \E k \in Kinds, ss \in SUBSET SourcesOf(table) :
           /\ BinsTypes /\ table \in BinTables /\ Dates # {}
           /\ (table # "propagation" => ss = SourcesOf(table))
           /\ bins' = bins \cup Added(k, ss) /\ jobs' = Tail(jobs) /\ conflict' = FALSE
           /\ backlog' = IF \E s \in ss : Cardinality(Reads(k, s)) > 1
                         THEN backlog \cup {k} ELSE backlog
<1>1. /\ BinsTypes /\ jobs # <<>> /\ table \in BinTables /\ Dates # {} /\ conflict = FALSE
      /\ jobs \in Seq([kind : Kinds, srcs : SUBSET Sources])
      /\ \A i \in 1..Len(jobs) : JobOK(jobs[i])
  BY DEF BinsInv, BinsTypes, StoreBins
<1>2. 1 \in 1..Len(jobs) /\ Head(jobs) = jobs[1]
  BY <1>1
<1>3. JobOK(Head(jobs))
  BY <1>1, <1>2
<1>4. PICK k, ss : k = Head(jobs).kind /\ ss = Head(jobs).srcs
  OBVIOUS
<1>5. k \in Kinds /\ ss \in SUBSET SourcesOf(table) /\ (table # "propagation" => ss = SourcesOf(table))
  BY <1>3, <1>4 DEF JobOK
<1>6. ~Doubled(Added(k, ss))
  BY <1>1, <1>5, NoneDoubled
<1>7. /\ bins' = IF Doubled(Added(k, ss)) THEN bins ELSE bins \cup Added(k, ss)
      /\ jobs' = IF Doubled(Added(k, ss)) THEN <<>> ELSE Tail(jobs)
      /\ conflict' = (conflict \/ Doubled(Added(k, ss)))
      /\ backlog' = IF \E s \in ss : Cardinality(Reads(k, s)) > 1
                    THEN backlog \cup {k} ELSE backlog
  BY <1>4 DEF StoreBins, Added, Doubled
<1>8. bins' = bins \cup Added(k, ss) /\ jobs' = Tail(jobs) /\ conflict' = FALSE
  BY <1>1, <1>6, <1>7
<1> QED BY <1>1, <1>5, <1>7, <1>8

LEMMA StoreKeeps ==
  ASSUME BinsInv, StoreBins
  PROVE  BinsInv'
<1>1. PICK k \in Kinds, ss \in SUBSET SourcesOf(table) :
           /\ BinsTypes /\ table \in BinTables /\ Dates # {}
           /\ (table # "propagation" => ss = SourcesOf(table))
           /\ bins' = bins \cup Added(k, ss) /\ jobs' = Tail(jobs) /\ conflict' = FALSE
           /\ backlog' = IF \E s \in ss : Cardinality(Reads(k, s)) > 1
                         THEN backlog \cup {k} ELSE backlog
  BY Transaction
<1> DEFINE new == Added(k, ss)
<1>2. \A b \in new : BinOK(b) /\ b.kind = k /\ b.src \in ss /\ b \in NewBins(k, b.src)
  BY <1>1, NoneDoubled
<1>3. /\ table' = table /\ now' = now /\ ticks' = ticks /\ errors' = errors /\ late' = late
      /\ Dates' = Dates /\ jobs # <<>>
  BY DEF StoreBins, Dates
<1>4. LateOK /\ VspHours /\ WholeBins
  BY DEF BinsInv
<1>5. \A s \in ss : DueBins(k, s)
  BY <1>1 DEF DueBins
<1> HIDE DEF new
<1>6. BinsTypes'
  <2>1. ASSUME NEW b \in bins' PROVE BinOK(b)'
    <3>1. BinOK(b)
      BY <1>1, <1>2, <2>1 DEF BinsTypes, new
    <3> QED BY <1>3, <3>1 DEF BinOK
  <2>2. /\ jobs' \in Seq([kind : Kinds, srcs : SUBSET Sources])
        /\ \A i \in 1..Len(jobs') : JobOK(jobs'[i])
    <3>1. PICK S : S = [kind : Kinds, srcs : SUBSET Sources]
      OBVIOUS
    <3>2. jobs \in Seq(S) /\ \A i \in 1..Len(jobs) : JobOK(jobs[i])
      BY <1>1, <3>1 DEF BinsTypes
    <3>3. Tail(jobs) \in Seq(S) /\ Len(Tail(jobs)) = Len(jobs) - 1 /\ Len(jobs) \in Nat
          /\ \A i \in 1..Len(Tail(jobs)) : Tail(jobs)[i] = jobs[i + 1] /\ i + 1 \in 1..Len(jobs)
      BY <1>3, <3>2
    <3> QED BY <1>1, <3>1, <3>2, <3>3
  <2>3. \A i \in 1..Len(jobs') : JobOK(jobs[i])'
    BY <1>3, <2>2 DEF JobOK
  <2> QED BY <1>1, <1>3, <2>1, <2>2, <2>3 DEF BinsTypes
<1>7. LateOK'
  BY <1>1, <1>3, <1>4 DEF LateOK
<1>8. VspHours'
  <2> SUFFICES ASSUME table = "vsp"
               PROVE  /\ "hour" \notin backlog'
                      /\ \A b \in bins' : b.kind = "hour" =>
                           \A t \in Dates, s \in Sources :
                             Stamp(t, AnHour) <= b.time => HourBin(s, Stamp(t, AnHour))'
    BY <1>3 DEF VspHours
  <2>1. "hour" \notin backlog'
    <3>1. k = "hour" => backlog' = backlog
      BY <1>1, NotMore
    <3> QED BY <1>1, <1>4, <3>1 DEF VspHours
  <2>2. \A s, h : HourBin(s, h) => HourBin(s, h)'
    BY <1>1 DEF HourBin
  <2>3. ASSUME NEW b \in bins, b.kind = "hour", NEW t \in Dates, NEW s \in Sources,
               Stamp(t, AnHour) <= b.time
        PROVE  HourBin(s, Stamp(t, AnHour))'
    BY <1>4, <2>2, <2>3 DEF VspHours
  <2>4. ASSUME NEW b \in new, b.kind = "hour", NEW t \in Dates, NEW s \in Sources,
               Stamp(t, AnHour) <= b.time
        PROVE  HourBin(s, Stamp(t, AnHour))'
    <3>1. k = "hour" /\ b \in NewBins("hour", b.src) /\ b.src \in Sources /\ s \in ss
      <4>1. SourcesOf(table) = Sources /\ ss = SourcesOf(table)
        BY <1>1 DEF SourcesOf, Single
      <4> QED BY <1>2, <2>4, <4>1
    <3>2. HourBin(s, Stamp(t, AnHour)) \/ \E c \in NewBins("hour", s) : c.time = Stamp(t, AnHour)
      BY <1>1, <2>4, <3>1, HoursStored
    <3>3. ASSUME NEW c \in NewBins("hour", s), c.time = Stamp(t, AnHour)
          PROVE  HourBin(s, Stamp(t, AnHour))'
      <4>1. c \in new
        BY <3>1 DEF new, Added
      <4>2. c.kind = "hour" /\ c.src = s
        BY <1>1, <1>5, <3>1, NewBinOK
      <4> QED BY <1>1, <3>3, <4>1, <4>2 DEF HourBin, new
    <3> QED BY <2>2, <3>2, <3>3
  <2> QED BY <1>1, <2>1, <2>3, <2>4 DEF new
<1>9. WholeBins'
  <2> SUFFICES ASSUME NEW b \in bins', b.kind \notin backlog'
               PROVE  b.of = {t \in ticks[b.src] : /\ Stamp(t, Width(b.kind)) = b.time
                                                   /\ <<b.kind, b.src, t>> \notin late}
    BY <1>3 DEF WholeBins
  <2>1. CASE b \in bins
    <3>1. b.kind \notin backlog
      BY <1>1
    <3> QED BY <1>4, <2>1, <3>1 DEF WholeBins
  <2>2. CASE b \in new
    <3>1. b.kind = k /\ b.src \in ss /\ b \in NewBins(k, b.src) /\ DueBins(k, b.src)
      BY <1>2, <1>5, <2>2
    <3>2. ~(Cardinality(Reads(k, b.src)) > 1)
      BY <1>1, <3>1
    <3> QED BY <1>1, <3>1, <3>2, NewBinWhole
  <2> QED BY <1>1, <2>1, <2>2 DEF new
<1> QED BY <1>6, <1>7, <1>8, <1>9 DEF BinsInv

LEMMA FailKeeps ==
  ASSUME BinsInv, UpdateFails
  PROVE  BinsInv'
<1>1. /\ table' = table /\ now' = now /\ ticks' = ticks /\ bins' = bins /\ conflict' = conflict
      /\ backlog' = backlog /\ late' = late /\ jobs' = <<>> /\ errors' = errors + 1
      /\ errors < MaxErrors /\ Dates' = Dates
  BY DEF UpdateFails, Dates
<1>2. BinsTypes'
  <2>0. BinsTypes /\ MaxErrors \in Nat
    BY BinsAssumption DEF BinsAssumption, BinsInv
  <2>1. errors' \in 0..MaxErrors
    BY <1>1, <2>0 DEF BinsTypes
  <2>2. jobs' \in Seq([kind : Kinds, srcs : SUBSET Sources]) /\ Len(jobs') = 0
    BY <1>1
  <2>3. \A i \in 1..Len(jobs') : JobOK(jobs[i])'
    BY <2>2
  <2>4. \A b \in bins' : BinOK(b)'
    BY <1>1, <2>0 DEF BinsTypes, BinOK
  <2> QED BY <1>1, <2>0, <2>1, <2>2, <2>3, <2>4 DEF BinsTypes
<1> QED BY <1>1, <1>2 DEF BinsInv, LateOK, VspHours, HourBin, WholeBins

LEMMA BinsStay == BinsInv /\ UNCHANGED binsVars => BinsInv'
BY DEF binsVars, BinsInv, BinsTypes, BinOK, JobOK, LateOK, VspHours, HourBin, WholeBins, Dates

LEMMA BinsHold == BinsSpec => []BinsInv
<1>1. BinsInv /\ [BinsNext]_binsVars => BinsInv'
  BY CollectKeeps, StoreKeeps, FailKeeps, BinsStay DEF BinsNext
<1> QED BY <1>1, BinsStart, PTL DEF BinsSpec

\* The type invariant.
THEOREM BinsTypeCorrect == BinsSpec => []BinsTypeOK
<1>1. BinsInv => BinsTypeOK
  <2> SUFFICES ASSUME BinsInv PROVE BinsTypeOK
    OBVIOUS
  <2>1. BinsTypes /\ now \in Nat
    BY DatesAre DEF BinsInv
  <2>2. \A i \in DOMAIN jobs : jobs[i].kind \in {"hour", "day"} /\ jobs[i].srcs \subseteq Sources
    <3>1. DOMAIN jobs = 1..Len(jobs)
      BY <2>1 DEF BinsTypes
    <3>2. \A i \in 1..Len(jobs) : JobOK(jobs[i])
      BY <2>1 DEF BinsTypes
    <3> QED BY <3>1, <3>2, SourcesOfTable DEF JobOK, Kinds
  <2> QED BY <2>1, <2>2 DEF BinsTypes, BinsTypeOK, BinOK, Kinds
<1> QED BY <1>1, BinsHold, PTL

\* No update stores a bin that is there, in whatever order records come, updates fail and
\* pages are read: each goes on after the newest bin.
THEOREM NoBinTwice == BinsSpec => []NoConflict
<1>1. BinsInv => NoConflict
  BY DEF BinsInv, BinsTypes, NoConflict
<1> QED BY <1>1, BinsHold, PTL

\* A bin holds all records of its period but those that came after it.
THEOREM BinsAreWhole == BinsSpec => []WholeBins
<1>1. BinsInv => WholeBins
  BY DEF BinsInv
<1> QED BY <1>1, BinsHold, PTL

-----------------------------------------------------------------------------
(* The time bins: what a transaction leaves out. *)

\* Whose newest bin an update of s goes on after.
Scope(s) == IF table = "propagation" THEN {s} ELSE Sources
NewestBin(k, s) == LastBin(k, Scope(s))

HasBin(k, s, p) == \E b \in bins : b.kind = k /\ b.src = s /\ b.time = p

\* The period the first update starts in the middle of.
FirstPeriod(k, p) ==
  \/ table = "pow"  /\ p = Stamp(Min(Dates), Width(k))
  \/ table = "vote" /\ p = Stamp(FirstBlock, Width(k))

\* Up to the newest bin every period with records has one, or an excuse.
NoHole ==
  \A k \in Kinds : \A s \in SourcesOf(table) : \A t \in Basis(k, s) :
    Stamp(t, Width(k)) <= NewestBin(k, s) =>
      Excused(k, s, Stamp(t, Width(k))) \/ HasBin(k, s, Stamp(t, Width(k)))

\* An hour of a VSP has records, of one VSP at least.
HoursDated ==
  table = "vsp" => \A b \in bins : b.kind = "hour" => \E t \in Dates : Stamp(t, AnHour) = b.time

\* A day has an hour after its end.
DaysOver ==
  table = "vsp" => \A b \in bins : b.kind = "day" =>
                     \E h \in bins : h.kind = "hour" /\ b.time + ADay <= h.time

\* A vote on what precedes the first block is late for every bin.
VotesFromFirst ==
  table = "vote" => \A s \in SourcesOf(table) : \A t \in ticks[s] : t < FirstBlock =>
                      \A k \in Kinds : <<k, s, t>> \in late

HolesInv == BinsInv /\ NoHole /\ HoursDated /\ DaysOver /\ VotesFromFirst

LEMMA ScopeIs ==
  ASSUME NEW s \in SourcesOf(table)
  PROVE  s \in Scope(s) /\ Scope(s) \subseteq Sources
BY SourcesOfTable DEF Scope

\* A period after the newest bin starts where the update goes on, or later.
LEMMA AfterNewest ==
  ASSUME BinsTypes, NEW k \in Kinds, NEW ss, NEW p \in Nat, p % Width(k) = 0, LastBin(k, ss) < p
  PROVE  After(LastBin(k, ss), Width(k)) <= p /\ After(LastBin(k, ss), AnHour) <= p
<1> DEFINE last == LastBin(k, ss)
           w == Width(k)
<1>1. LastOK(k, ss, last)
  BY LastBinOK
<1>2. w \in Nat \ {0} /\ AnHour \in Nat \ {0}
  BY Widths
<1>3. AnHour <= w
  <2>1. ADay \in Nat \ {0} /\ ADay % AnHour = 0
    BY GroupsAssumption DEF GroupsAssumption
  <2>2. ~(ADay < AnHour)
    <3>1. ADay < AnHour => ADay % AnHour = ADay
      BY <1>2, <2>1
    <3> QED BY <2>1, <3>1
  <2> QED BY <1>2, <2>1, <2>2 DEF Width
<1>4. last = None_ \/ (last \in Nat /\ last % w = 0)
  BY <1>1 DEF LastOK
<1>5. last < p
  OBVIOUS
<1>6. CASE last = None_
  <2>1. After(last, w) = 0 /\ After(last, AnHour) = 0
    BY <1>6 DEF After
  <2> QED BY <2>1
<1>7. CASE last # None_
  <2>1. After(last, w) = last + w /\ After(last, AnHour) = last + AnHour /\ last \in Nat /\ last % w = 0
    BY <1>4, <1>7 DEF After
  <2> HIDE DEF last, w
  <2>2. p % w = 0
    BY DEF w
  <2>3. last + w <= p
    BY <1>2, <1>5, <2>1, <2>2, StampsApart
  <2>4. last + AnHour <= p
    BY <1>2, <1>3, <2>1, <2>3
  <2> QED BY <2>1, <2>3, <2>4 DEF last, w
<1> QED BY <1>6, <1>7

\* A page of fixed length holds any time from the first page up to the end.
LEMMA FixedCover ==
  ASSUME NEW from \in Nat, NEW step \in Nat \ {0}, NEW until \in Nat, NEW v \in Nat,
         from <= v, v < until, v <= MaxTime
  PROVE  /\ from \in FixedPages(from, step, until)
         /\ \E p \in FixedPages(from, step, until) : p <= v /\ v < p + step
<1>0. MaxTime \in Nat
  BY BinsAssumption DEF BinsAssumption
<1>1. from \in FixedPages(from, step, until)
  <2>1. 0 \in 0..MaxTime /\ from + 0 * step < until /\ from + 0 * step = from
    BY <1>0
  <2> QED BY <2>1 DEF FixedPages
<1>2. PICK d \in Nat : v = from + d
  <2>1. v - from \in Nat /\ v = from + (v - from)
    OBVIOUS
  <2> QED BY <2>1
<1>3. PICK j \in Nat, i \in Nat : d = step * j + i /\ i < step
  <2>1. d = step * (d \div step) + (d % step) /\ d \div step \in Nat /\ d % step \in Nat /\ d % step < step
    OBVIOUS
  <2> QED BY <2>1
<1>4. j * step \in Nat /\ j * step = step * j /\ j <= step * j
  <2>1. PICK e \in Nat : step = e + 1
    <3>1. step - 1 \in Nat /\ step = (step - 1) + 1
      OBVIOUS
    <3> QED BY <3>1
  <2>2. step * j = e * j + j /\ e * j \in Nat
    BY <2>1
  <2> QED BY <2>2
<1>5. from + j * step <= v /\ v < (from + j * step) + step /\ from + j * step < until
  BY <1>2, <1>3, <1>4
<1>6. j \in 0..MaxTime
  BY <1>0, <1>2, <1>3, <1>4
<1>7. from + j * step \in FixedPages(from, step, until)
  BY <1>5, <1>6 DEF FixedPages
<1> QED BY <1>1, <1>5, <1>7

\* Of times that reach a period after the next one a group is closed.
LEMMA GroupFor ==
  ASSUME NEW N \in Nat, NEW T \in SUBSET (0..N), NEW w \in Nat \ {0}, NEW t \in T, NEW u \in T,
         Stamp(t, w) + 2 * w <= u
  PROVE  \E g \in TimeGroups(T, w) : g.time = Stamp(t, w)
<1> DEFINE date == [i \in T |-> i]
           p == Stamp(t, w)
           end == LastStamp(T, date, w)
<1>1. \A i \in T : i \in Nat /\ i <= N /\ date[i] = i
  <2>1. \A i \in 0..N : i \in Nat /\ i <= N
    OBVIOUS
  <2> QED BY <2>1
<1>2. T \in SUBSET Nat /\ T # {}
  BY <1>1
<1>3. Min(T) \in T /\ Min(T) <= t /\ Max(T) \in T /\ u <= Max(T)
  BY <1>1, <1>2, MinIn, LargestIn
<1>4. p \in Nat /\ p <= t /\ t < p + w /\ p % w = 0
  BY <1>1, StampOf
<1>5. end = Stamp(Max(T), w)
  BY <1>1, <1>3 DEF LastStamp
<1>6. Stamp(date[Min(T)], w) = Stamp(Min(T), w)
  BY <1>1, <1>3
<1>7. p + 2 * w \in Nat /\ (p + 2 * w) % w = 0
  <2>1. (p + w) % w = 0 /\ p + w \in Nat
    BY <1>4, NextStart
  <2>2. ((p + w) + w) % w = 0 /\ (p + w) + w = p + 2 * w
    <3>1. PICK q \in Nat : q = p + w /\ q % w = 0
      BY <2>1
    <3>2. (q + w) % w = 0
      BY ONLY <3>1, NextStart, w \in Nat \ {0}
    <3>3. q + w = p + 2 * w
      BY <1>4, <3>1
    <3> QED BY <3>1, <3>2, <3>3
  <2> QED BY <1>4, <2>1, <2>2
<1> HIDE DEF p, end
<1>8. p + 2 * w <= end /\ end \in Nat
  <2>1. p + 2 * w <= Max(T) /\ Max(T) \in Nat
    <3>1. u \in Nat /\ Max(T) \in Nat /\ p + 2 * w <= u
      BY <1>1, <1>3 DEF p
    <3> QED BY <1>3, <1>7, <3>1
  <2>2. PICK m \in Nat : m = Max(T)
    BY <2>1
  <2>3. PICK q \in Nat : q = p + 2 * w
    BY <1>7
  <2>4. q <= m /\ q % w = 0
    BY <1>7, <2>1, <2>2, <2>3
  <2>5. q <= Stamp(m, w) /\ Stamp(m, w) \in Nat
    BY ONLY <2>4, StampAfter, StampOf, w \in Nat \ {0}, q \in Nat, m \in Nat
  <2> QED BY <1>5, <2>2, <2>3, <2>5
<1>9. Stamp(Min(T), w) \in Nat /\ Stamp(Min(T), w) < p + w
  <2>1. Min(T) \in Nat /\ Stamp(Min(T), w) <= Min(T) /\ Stamp(Min(T), w) \in Nat
    BY <1>1, <1>3, StampOf
  <2>2. t \in Nat
    BY <1>1
  <2> QED BY <1>3, <1>4, <2>1, <2>2
<1>10. end > Stamp(date[Min(T)], w) + w
  BY <1>4, <1>6, <1>8, <1>9
<1>11. Complete(GenerateBin(T, date, w), T, date, end)
  <2>1. \A i \in T : date[i] \in Nat
    BY <1>1
  <2> HIDE DEF date
  <2> QED BY <1>2, <1>10, <2>1, GenerateBinOK DEF end
<1>12. Ordered(T, date)
  BY <1>1 DEF Ordered
<1>13. t < end /\ date[t] = t
  BY <1>1, <1>4, <1>8
<1>14. PICK h \in TimeGroups(T, w) : t \in h.of
  BY <1>11, <1>12, <1>13 DEF Complete, Covered, TimeGroups
<1>15. GroupOfTimes(h, T, w)
  BY TimesGrouped
<1>16. Stamp(t, w) = h.time
  BY <1>14, <1>15 DEF GroupOfTimes
<1> QED BY <1>16

\* What bins are computed from, up to now.
LEMMA BasisIs ==
  ASSUME BinsTypes, NEW k \in Kinds, NEW s \in Sources
  PROVE  /\ Basis(k, s) \in SUBSET (0..now)
         /\ table \notin {"pow", "vsp"} => Basis(k, s) \subseteq ticks[s]
         /\ table = "pow" \/ (table = "vsp" /\ k = "hour") => Basis(k, s) = Dates
<1>1. now \in Nat /\ Dates \in SUBSET (0..now) /\ ticks[s] \subseteq Dates
  BY DatesAre
<1>2. CASE table = "vsp" /\ k = "day"
  <2>1. ASSUME NEW b \in bins PROVE b.time \in 0..now
    <3>1. BinOK(b)
      BY DEF BinsTypes
    <3>2. b.time \in Nat /\ b.time + Width(b.kind) <= now /\ Width(b.kind) \in Nat
      BY <3>1, Widths DEF BinOK
    <3> QED BY <1>1, <3>2
  <2> QED BY <1>2, <2>1 DEF Basis
<1>3. CASE ~(table = "vsp" /\ k = "day") /\ table \in {"pow", "vsp"}
  <2>1. Basis(k, s) = Dates
    BY <1>3 DEF Basis
  <2> QED BY <1>1, <1>3, <2>1
<1>4. CASE table \notin {"pow", "vsp"}
  <2>1. Basis(k, s) = {t \in ticks[s] : <<k, s, t>> \notin late}
    BY <1>4 DEF Basis
  <2> QED BY <1>1, <1>4, <2>1
<1> QED BY <1>2, <1>3, <1>4

\* One read from which all records of a period, and after it, are binned.
ReadFor(k, s, p) ==
  \E r \in Reads(k, s) : r.from <= p /\ \A v \in Basis(k, s) : p <= v => v \in r.times

\* A period with records after the newest bin of its source.
Waits(k, s, t) ==
  /\ DueBins(k, s) /\ table \in BinTables /\ VotesFromFirst /\ t \in Basis(k, s)
  /\ NewestBin(k, s) < Stamp(t, Width(k)) /\ ~FirstPeriod(k, Stamp(t, Width(k)))
  /\ ~(Cardinality(Reads(k, s)) > 1)

LEMMA WaitingIs ==
  ASSUME NEW k, NEW s, NEW t, Waits(k, s, t)
  PROVE  /\ k \in Kinds /\ s \in Sources /\ BinsTypes /\ t \in Nat /\ t <= now /\ now \in Nat
         /\ Width(k) \in Nat \ {0}
         /\ Stamp(t, Width(k)) \in Nat /\ Stamp(t, Width(k)) % Width(k) = 0
         /\ Stamp(t, Width(k)) <= t /\ t < Stamp(t, Width(k)) + Width(k)
         /\ After(NewestBin(k, s), Width(k)) <= Stamp(t, Width(k))
         /\ After(NewestBin(k, s), AnHour) <= Stamp(t, Width(k))
         /\ \A v \in Basis(k, s) : v \in Nat /\ v <= now /\ v <= MaxTime
         /\ IsFiniteSet(Reads(k, s))
<1>1. k \in Kinds /\ s \in Sources /\ BinsTypes
  BY SourcesOfTable DEF Waits, DueBins
<1>2. now \in Nat /\ now <= MaxTime /\ MaxTime \in Nat
  BY <1>1, DatesAre, BinsAssumption DEF BinsTypes, BinsAssumption
<1>3. \A i \in 0..now : i \in Nat /\ i <= now /\ i <= MaxTime
  BY <1>2
<1>4. \A v \in Basis(k, s) : v \in Nat /\ v <= now /\ v <= MaxTime
  BY <1>1, <1>3, BasisIs
<1>5. t \in Nat /\ t <= now /\ Width(k) \in Nat \ {0}
  BY <1>1, <1>4, Widths DEF Waits
<1>6. /\ Stamp(t, Width(k)) \in Nat /\ Stamp(t, Width(k)) % Width(k) = 0
      /\ Stamp(t, Width(k)) <= t /\ t < Stamp(t, Width(k)) + Width(k)
  BY <1>5, StampOf
<1>7. PICK p \in Nat : p = Stamp(t, Width(k))
  BY <1>6
<1>8. PICK ss : ss = Scope(s)
  OBVIOUS
<1>9. /\ After(LastBin(k, ss), Width(k)) <= p /\ After(LastBin(k, ss), AnHour) <= p
  <2>1. p % Width(k) = 0 /\ LastBin(k, ss) < p
    BY <1>6, <1>7, <1>8 DEF Waits, NewestBin
  <2> QED BY <1>1, <2>1, AfterNewest
<1>10. IsFiniteSet(Reads(k, s))
  <2>1. ReadsAre(k, s, Reads(k, s)) \/ Reads(k, s) = {}
    BY AllReadsAre DEF Waits
  <2> QED BY <2>1, FS_EmptySet DEF ReadsAre
<1> QED BY <1>1, <1>2, <1>4, <1>5, <1>6, <1>7, <1>8, <1>9, <1>10 DEF NewestBin

\* If each record is read, then all are read at once.
LEMMA ReadTogether ==
  ASSUME NEW k, NEW s, NEW t, Waits(k, s, t),
         \A v \in Basis(k, s) : Stamp(t, Width(k)) <= v =>
           \E q \in Reads(k, s) : v \in q.times /\ q.from <= Stamp(t, Width(k))
  PROVE  ReadFor(k, s, Stamp(t, Width(k)))
<1>1. PICK p : p = Stamp(t, Width(k))
  OBVIOUS
<1>2. PICK R : R = Reads(k, s)
  OBVIOUS
<1>3. p <= t /\ t \in Basis(k, s) /\ IsFiniteSet(R) /\ ~(Cardinality(R) > 1)
  BY <1>1, <1>2, WaitingIs DEF Waits
<1>4. \A v \in Basis(k, s) : p <= v => \E q \in R : v \in q.times /\ q.from <= p
  BY <1>1, <1>2
<1>5. PICK r \in R : r.from <= p
  BY <1>3, <1>4
<1>6. \A q \in R : q = r
  BY <1>3, OnlyOne
<1>7. \A v \in Basis(k, s) : p <= v => v \in r.times
  BY <1>4, <1>6
<1> QED BY <1>1, <1>2, <1>5, <1>7 DEF ReadFor

\* Reads in pages of fixed length.
FixedReads(T, from, step, until) ==
  {[times |-> Between(T, p, p + step), from |-> p] : p \in FixedPages(from, step, until)}

\* The only page of fixed length is the first and holds all.
LEMMA OnlyPage ==
  ASSUME NEW T, NEW from \in Nat, NEW step \in Nat \ {0}, NEW until \in Nat, NEW reads,
         reads = FixedReads(T, from, step, until),
         IsFiniteSet(reads), ~(Cardinality(reads) > 1),
         NEW v \in Nat, v \in T, from <= v, v < until, v <= MaxTime
  PROVE  \E q \in reads : v \in q.times /\ q.from = from
<1> DEFINE J == FixedPages(from, step, until)
           read(p) == [times |-> Between(T, p, p + step), from |-> p]
<1>1. from \in J /\ \E p \in J : p <= v /\ v < p + step
  BY FixedCover
<1>2. PICK p \in J : p <= v /\ v < p + step
  BY <1>1
<1>3. \A i \in J : read(i) \in reads
  BY DEF FixedReads
<1>4. read(p) \in reads /\ read(from) \in reads
  BY <1>1, <1>3
<1>5. v \in read(p).times
  BY <1>2 DEF Between
<1>6. read(from).from = from
  OBVIOUS
<1> HIDE DEF read, J
<1>7. read(p) = read(from)
  BY <1>4, OnlyOne
<1> QED BY <1>4, <1>5, <1>6, <1>7

LEMMA PowReadFor ==
  ASSUME NEW k, NEW s, NEW t, Waits(k, s, t), table = "pow"
  PROVE  ReadFor(k, s, Stamp(t, Width(k)))
<1> DEFINE last == LastBin(k, Sources)
           next == IF last = None_ THEN Min(Dates) ELSE last + AnHour
           p == Stamp(t, Width(k))
           w == Width(k)
<1>0. /\ k \in Kinds /\ s \in Sources /\ BinsTypes /\ t \in Nat /\ t <= now /\ now \in Nat
      /\ w \in Nat \ {0} /\ p \in Nat /\ p % w = 0 /\ p <= t
      /\ \A v \in Basis(k, s) : v \in Nat /\ v <= now /\ v <= MaxTime
      /\ IsFiniteSet(Reads(k, s)) /\ ~(Cardinality(Reads(k, s)) > 1)
  BY WaitingIs DEF Waits
<1>1. Reads(k, s) = FixedReads(Dates, next, Step(k), now + 1)
  BY DEF Reads, PowReads, FixedReads
<1>2. Basis(k, s) = Dates /\ t \in Dates
  BY <1>0, BasisIs DEF Waits
<1>3. After(last, AnHour) <= p
  <2>1. NewestBin(k, s) = last
    BY DEF NewestBin, Scope
  <2> QED BY <2>1, WaitingIs
<1>4. Min(Dates) \in Nat /\ Min(Dates) <= t
  <2>1. Dates \in SUBSET Nat
    BY <1>0, <1>2
  <2> QED BY <1>2, <2>1, MinIn
<1>5. p # Stamp(Min(Dates), w)
  BY DEF Waits, FirstPeriod
<1>6. Min(Dates) <= p
  <2>1. PICK m \in Nat : m = Min(Dates) /\ m <= t
    BY <1>4
  <2>2. PICK q \in Nat : q = Stamp(m, w) /\ q <= m /\ m < q + w /\ q % w = 0
    BY <1>0, StampOf
  <2>3. q # p
    BY <1>5, <2>1, <2>2
  <2>4. q <= p
    <3>1. q <= t
      BY <1>0, <2>1, <2>2
    <3> QED BY <1>0, <2>2, <3>1, StampAfter
  <2> HIDE DEF p, w
  <2>5. q < p
    BY <1>0, <2>2, <2>3, <2>4
  <2>6. q + w <= p
    BY <1>0, <2>2, <2>5, StampsApart
  <2> QED BY <1>0, <2>1, <2>2, <2>6
<1>7. next \in Nat /\ next <= p
  <2>1. last # None_ => last \in Nat
    BY <1>0, AfterBin
  <2>2. AnHour \in Nat
    BY Widths
  <2> HIDE DEF last, p, w
  <2>3. CASE last = None_
    BY <1>4, <1>6, <2>3
  <2>4. CASE last # None_
    BY <1>3, <2>1, <2>2, <2>4 DEF After
  <2> QED BY <2>3, <2>4
<1>8. Step(k) \in Nat \ {0}
  BY <1>0, Widths
<1>9. ASSUME NEW v \in Basis(k, s), p <= v PROVE \E q \in Reads(k, s) : v \in q.times /\ q.from <= p
  <2>1. v \in Nat /\ v <= now /\ v <= MaxTime /\ v \in Dates
    BY <1>0, <1>2
  <2> HIDE DEF p, next
  <2>2. next <= v /\ v < now + 1 /\ now + 1 \in Nat
    BY <1>0, <1>7, <1>9, <2>1
  <2>3. \E q \in Reads(k, s) : v \in q.times /\ q.from = next
    <3>1. PICK reads : reads = Reads(k, s)
      OBVIOUS
    <3>2. PICK until \in Nat : until = now + 1
      BY <2>2
    <3>3. PICK step \in Nat \ {0} : step = Step(k)
      BY <1>8
    <3>4. PICK T : T = Dates
      OBVIOUS
    <3>5. PICK from \in Nat : from = next
      BY <1>7
    <3>6. /\ reads = FixedReads(T, from, step, until)
          /\ IsFiniteSet(reads) /\ ~(Cardinality(reads) > 1)
          /\ v \in Nat /\ v \in T /\ from <= v /\ v < until /\ v <= MaxTime
      BY <1>0, <1>1, <2>1, <2>2, <3>1, <3>2, <3>3, <3>4, <3>5
    <3>7. \E q \in reads : v \in q.times /\ q.from = from
      BY ONLY <3>6, OnlyPage, step \in Nat \ {0}, from \in Nat, until \in Nat
    <3> QED BY <3>1, <3>5, <3>7
  <2> QED BY <1>7, <2>3
<1> QED BY <1>9, ReadTogether

LEMMA VoteReadFor ==
  ASSUME NEW k, NEW s, NEW t, Waits(k, s, t), table = "vote"
  PROVE  ReadFor(k, s, Stamp(t, Width(k)))
<1> DEFINE last == LastBin(k, Sources)
           next == IF last = None_ THEN FirstBlock ELSE last + Width(k)
           p == Stamp(t, Width(k))
           w == Width(k)
           end == Max(ticks[s]) + 1
<1>0. /\ k \in Kinds /\ s \in Sources /\ BinsTypes /\ t \in Nat /\ t <= now /\ now \in Nat
      /\ w \in Nat \ {0} /\ p \in Nat /\ p % w = 0 /\ p <= t
      /\ \A v \in Basis(k, s) : v \in Nat /\ v <= now /\ v <= MaxTime
      /\ IsFiniteSet(Reads(k, s)) /\ ~(Cardinality(Reads(k, s)) > 1)
  BY WaitingIs DEF Waits
<1>1. Basis(k, s) \subseteq ticks[s] /\ t \in ticks[s] /\ <<k, s, t>> \notin late
  BY DEF Waits, Basis
<1>2. Reads(k, s) = FixedReads(ticks[s], next, Step(k), end)
  <2>1. Reads(k, s) = VoteReads(k, s)
    BY <1>1 DEF Reads
  <2>2. VoteReads(k, s) = VotePages(last, s, Width(k), Step(k))
    BY <1>0 DEF VoteReads, updateVoteTimeDeviationHourlyAvgData,
                updateVoteTimeDeviationDailyAvgData, Width, Step, Kinds
  <2> QED BY <2>1, <2>2 DEF VotePages, FixedReads
<1>3. After(last, w) <= p
  <2>1. NewestBin(k, s) = last
    BY DEF NewestBin, Scope
  <2> QED BY <2>1, WaitingIs
<1>4. FirstBlock \in Nat /\ FirstBlock <= t
  <2>1. FirstBlock \in Nat
    BY BinsAssumption DEF BinsAssumption
  <2>2. ~(t < FirstBlock)
    BY <1>0, <1>1 DEF Waits, VotesFromFirst, DueBins
  <2> QED BY <1>0, <2>1, <2>2
<1>5. p # Stamp(FirstBlock, w)
  BY DEF Waits, FirstPeriod
<1>6. FirstBlock <= p
  <2>1. PICK q \in Nat : q = Stamp(FirstBlock, w) /\ q <= FirstBlock /\ FirstBlock < q + w /\ q % w = 0
    BY <1>0, <1>4, StampOf
  <2>2. q # p
    BY <1>5, <2>1
  <2>3. q <= p
    <3>1. q <= t
      BY <1>0, <1>4, <2>1
    <3> QED BY <1>0, <2>1, <3>1, StampAfter
  <2> HIDE DEF p, w
  <2>4. q < p
    BY <1>0, <2>1, <2>2, <2>3
  <2>5. q + w <= p
    BY <1>0, <2>1, <2>4, StampsApart
  <2> QED BY <1>0, <1>4, <2>1, <2>5
<1>7. next \in Nat /\ next <= p
  <2>1. last # None_ => last \in Nat
    BY <1>0, AfterBin
  <2>2. CASE last = None_
    <3> HIDE DEF last, p, w
    <3> QED BY <1>4, <1>6, <2>2
  <2>3. CASE last # None_
    <3>1. next = After(last, w) /\ next = last + w
      BY <2>3 DEF After
    <3> HIDE DEF last, p, w, next
    <3> QED BY <1>0, <1>3, <2>1, <2>3, <3>1
  <2> QED BY <2>2, <2>3
<1>8. Step(k) \in Nat \ {0}
  BY <1>0, Widths
<1>9. end \in Nat /\ \A v \in ticks[s] : v < end
  <2>1. now \in Nat /\ ticks[s] \in SUBSET (0..now)
    BY <1>0, DatesAre
  <2>2. \A i \in 0..now : i \in Nat /\ i <= now
    BY <2>1
  <2>3. ticks[s] \in SUBSET Nat /\ ticks[s] # {} /\ \A v \in ticks[s] : v <= now
    BY <1>1, <2>1, <2>2
  <2>4. Max(ticks[s]) \in ticks[s] /\ \A v \in ticks[s] : v <= Max(ticks[s])
    BY <2>1, <2>3, MaxIn
  <2>5. PICK m \in Nat : m = Max(ticks[s])
    BY <2>3, <2>4
  <2>6. \A v \in ticks[s] : v \in Nat /\ v <= m
    BY <2>3, <2>4, <2>5
  <2>7. \A v \in ticks[s] : v < m + 1
    BY <2>6
  <2> QED BY <2>5, <2>7
<1>10. ASSUME NEW v \in Basis(k, s), p <= v PROVE \E q \in Reads(k, s) : v \in q.times /\ q.from <= p
  <2>1. v \in Nat /\ v <= now /\ v <= MaxTime /\ v \in ticks[s] /\ v < end
    BY <1>0, <1>1, <1>9
  <2> HIDE DEF p, next, end
  <2>2. next <= v
    BY <1>0, <1>7, <1>10, <2>1
  <2>3. \E q \in Reads(k, s) : v \in q.times /\ q.from = next
    <3>1. PICK reads : reads = Reads(k, s)
      OBVIOUS
    <3>2. PICK until \in Nat : until = end
      BY <1>9
    <3>3. PICK step \in Nat \ {0} : step = Step(k)
      BY <1>8
    <3>4. PICK T : T = ticks[s]
      OBVIOUS
    <3>5. PICK from \in Nat : from = next
      BY <1>7
    <3>6. /\ reads = FixedReads(T, from, step, until)
          /\ IsFiniteSet(reads) /\ ~(Cardinality(reads) > 1)
          /\ v \in Nat /\ v \in T /\ from <= v /\ v < until /\ v <= MaxTime
      BY <1>0, <1>2, <2>1, <2>2, <3>1, <3>2, <3>3, <3>4, <3>5
    <3>7. \E q \in reads : v \in q.times /\ q.from = from
      BY ONLY <3>6, OnlyPage, step \in Nat \ {0}, from \in Nat, until \in Nat
    <3> QED BY <3>1, <3>5, <3>7
  <2> QED BY <1>7, <2>3
<1> QED BY <1>10, ReadTogether

\* Reads of some times in pages that jump to the next record.
JumpReads(own, T, from, step) ==
  {[times |-> Between(own, p, p + step), from |-> 0] : p \in JumpPages(T, from, step)}

\* They leave none out.
LEMMA JumpCover ==
  ASSUME NEW T, NEW own, NEW step, NEW from, NEW v, v \in T, v \in own, from <= v,
         PagesApart(JumpPages(T, from, step), T, from, step)
  PROVE  \E q \in JumpReads(own, T, from, step) : v \in q.times /\ q.from = 0
<1> DEFINE J == JumpPages(T, from, step)
           read(p) == [times |-> Between(own, p, p + step), from |-> 0]
           reads == JumpReads(own, T, from, step)
<1>2. \A i \in J : read(i) \in reads
  BY DEF JumpReads
<1> HIDE DEF J, reads
<1>3. PICK p \in J : p <= v /\ v < p + step
  BY DEF PagesApart, J
<1>4. v \in read(p).times /\ read(p).from = 0
  BY <1>3 DEF Between
<1>5. read(p) \in reads
  BY <1>2
<1> QED BY <1>4, <1>5 DEF reads

LEMMA JumpReadFor ==
  ASSUME NEW k, NEW s, NEW t, Waits(k, s, t), table \in {"mempool", "propagation"}
  PROVE  ReadFor(k, s, Stamp(t, Width(k)))
<1> DEFINE last == NewestBin(k, s)
           first == After(last, Width(k))
           start == IF last = None_ THEN Min(ticks[s]) ELSE last + Width(k)
           next == IF table = "mempool" THEN first ELSE start
           T == IF table = "mempool" THEN ticks[s] ELSE Dates
           p == Stamp(t, Width(k))
<1>0. /\ k \in Kinds /\ s \in Sources /\ BinsTypes /\ now \in Nat /\ p \in Nat /\ first <= p
      /\ \A v \in Basis(k, s) : v \in Nat
  BY WaitingIs
<1>1. Basis(k, s) \subseteq ticks[s] /\ t \in ticks[s]
  BY <1>0, BasisIs DEF Waits
<1>2. Reads(k, s) = JumpReads(ticks[s], T, next, Step(k))
  <2>1. CASE table = "mempool"
    <3>1. Reads(k, s) = MempoolReads(k, s)
      BY <1>1, <2>1 DEF Reads
    <3> QED BY <2>1, <3>1 DEF MempoolReads, NewestBin, Scope, JumpReads
  <2>2. CASE table = "propagation"
    <3>1. Reads(k, s) = PropagationReads(k, s)
      BY <1>1, <2>2 DEF Reads
    <3>2. PropagationReads(k, s) = PropagationPages(last, s, Width(k), Step(k))
      BY <1>0, <2>2 DEF PropagationReads, UpdatePropagationHourlyAvgForSource,
                  UpdatePropagationDailyAvgForSource, Width, Step, Kinds, NewestBin, Scope
    <3> QED BY <2>2, <3>1, <3>2 DEF PropagationPages, JumpReads
  <2> QED BY <2>1, <2>2
<1>3. /\ Step(k) \in Nat \ {0} /\ Width(k) \in Nat \ {0} /\ ticks[s] \in SUBSET (0..now)
      /\ T \in SUBSET (0..now) /\ ticks[s] \subseteq T
  BY <1>0, Widths, DatesAre
<1>4. \A i \in 0..now : i \in Nat
  BY <1>0
<1>5. Min(ticks[s]) \in ticks[s] /\ \A v \in ticks[s] : Min(ticks[s]) <= v
  <2>1. ticks[s] \in SUBSET Nat
    BY <1>3, <1>4
  <2> QED BY <1>1, <2>1, MinIn
<1>6. first \in Nat /\ (last # None_ => first = last + Width(k) /\ last \in Nat)
  BY <1>0, AfterBin DEF After, NewestBin
<1>7. next \in Nat /\ \A v \in ticks[s] : p <= v => next <= v
  <2>1. ASSUME NEW v \in ticks[s], p <= v PROVE first <= v
    <3>1. v \in Nat
      BY <1>3, <1>4
    <3> HIDE DEF first, p
    <3> QED BY <1>0, <1>6, <2>1, <3>1
  <2>2. next = first \/ next = Min(ticks[s])
    <3>1. last # None_ => start = first
      BY <1>6
    <3> QED BY <3>1
  <2>3. Min(ticks[s]) \in Nat
    BY <1>3, <1>4, <1>5
  <2> HIDE DEF next, first, p
  <2> QED BY <1>5, <1>6, <2>1, <2>2, <2>3
<1>8. ASSUME NEW v \in Basis(k, s), p <= v PROVE \E q \in Reads(k, s) : v \in q.times /\ q.from <= p
  <2>1. v \in ticks[s] /\ v \in T /\ next <= v
    BY <1>1, <1>3, <1>7, <1>8
  <2> HIDE DEF next, T
  <2>2. PICK U : U = T
    OBVIOUS
  <2>3. PICK own : own = ticks[s]
    OBVIOUS
  <2>4. PICK step \in Nat \ {0} : step = Step(k)
    BY <1>3
  <2>5. PICK from \in Nat : from = next
    BY <1>7
  <2>6. PICK reads : reads = Reads(k, s)
    OBVIOUS
  <2>7. PICK N \in Nat : N = now
    BY <1>0
  <2>8. /\ U \in SUBSET (0..N) /\ v \in U /\ v \in own /\ from <= v
        /\ reads = JumpReads(own, U, from, step)
    BY <1>2, <1>3, <2>1, <2>2, <2>3, <2>4, <2>5, <2>6, <2>7
  <2>9. PagesApart(JumpPages(U, from, step), U, from, step)
    BY <2>8, JumpPagesApart
  <2>10. \E q \in JumpReads(own, U, from, step) : v \in q.times /\ q.from = 0
    BY <2>8, <2>9, JumpCover
  <2>11. \E q \in reads : v \in q.times /\ q.from = 0
    BY ONLY <2>8, <2>10
  <2> HIDE DEF p
  <2>12. 0 <= p
    BY <1>0
  <2> QED BY <2>6, <2>11, <2>12
<1> QED BY <1>8, ReadTogether

LEMMA OneReadFor ==
  ASSUME NEW k, NEW s, NEW t, Waits(k, s, t), table \in {"vsp", "snapshot", "version", "location"}
  PROVE  ReadFor(k, s, Stamp(t, Width(k)))
<1> DEFINE last == LastBin(k, Sources)
           p == Stamp(t, Width(k))
<1>0. /\ k \in Kinds /\ s \in Sources /\ BinsTypes /\ p \in Nat
      /\ \A v \in Basis(k, s) : v \in Nat
  BY WaitingIs
<1>1. NewestBin(k, s) = last
  BY DEF NewestBin, Scope
<1>2. After(last, Width(k)) <= p /\ After(last, AnHour) <= p /\ last < p
  BY <1>1, WaitingIs DEF Waits
<1>3. last \in Nat \cup {None_}
  BY <1>0, AfterBin
<1>4. ASSUME NEW v \in Basis(k, s), p <= v PROVE v > last
  <2>1. v \in Nat
    BY <1>0
  <2> HIDE DEF last, p
  <2> QED BY <1>0, <1>2, <1>3, <1>4, <2>1 DEF None_
<1>5. CASE table \in {"snapshot", "version", "location"}
  <2> DEFINE from == IF table = "version" THEN After(last, AnHour) ELSE After(last, Width(k))
             r == [times |-> Newer(s, last), from |-> from]
  <2>1. Basis(k, s) \subseteq ticks[s] /\ t \in ticks[s]
    BY <1>0, <1>5, BasisIs DEF Waits
  <2>2. Reads(k, s) = {r}
    BY <1>5, <2>1 DEF Reads, SnapshotReads, VersionReads, LocationReads
  <2>3. r.from <= p
    BY <1>2
  <2>4. \A v \in Basis(k, s) : p <= v => v \in r.times
    BY <1>4, <2>1 DEF Newer
  <2> HIDE DEF r
  <2> QED BY <2>2, <2>3, <2>4 DEF ReadFor
<1>6. CASE table = "vsp" /\ k = "hour"
  <2> DEFINE r == [times |-> {u \in Dates : u > last}, from |-> After(last, AnHour)]
  <2>1. Reads(k, s) = {r}
    BY <1>6 DEF Reads, VspReads, UpdateVspHourlyChart, fetchVspChartForSource
  <2>2. r.from <= p
    BY <1>2
  <2>3. Basis(k, s) = Dates
    BY <1>0, <1>6, BasisIs
  <2>4. \A v \in Basis(k, s) : p <= v => v \in r.times
    BY <1>4, <2>3
  <2> HIDE DEF r
  <2> QED BY <2>1, <2>2, <2>4 DEF ReadFor
<1>7. CASE table = "vsp" /\ k = "day"
  <2> DEFINE from == After(last, Width(k))
             r == [times |-> {b.time : b \in {b \in bins : b.kind = "hour" /\ b.src = s /\ b.time >= from}},
                   from |-> from]
  <2>1. Reads(k, s) = {r}
    BY <1>7 DEF Reads, VspReads, UpdateVspDailyChart, Width
  <2>2. r.from <= p /\ from \in Nat
    BY <1>0, <1>2, AfterBin
  <2>3. Basis(k, s) = {b.time : b \in {b \in bins : b.kind = "hour" /\ b.src = s}}
    BY <1>7 DEF Basis
  <2>4. ASSUME NEW v \in Basis(k, s), p <= v PROVE v >= from
    <3>1. v \in Nat /\ from <= p
      BY <1>0, <2>2
    <3> HIDE DEF from, p
    <3> QED BY <1>0, <2>2, <2>4, <3>1
  <2>5. \A v \in Basis(k, s) : p <= v => v \in r.times
    BY <2>3, <2>4
  <2> HIDE DEF r
  <2> QED BY <2>1, <2>2, <2>5 DEF ReadFor
<1> QED BY <1>0, <1>5, <1>6, <1>7 DEF Kinds

\* Whatever the table, an update that does not page reads all records from a waiting period on.
LEMMA AllReadFor ==
  ASSUME NEW k, NEW s, NEW t, Waits(k, s, t)
  PROVE  ReadFor(k, s, Stamp(t, Width(k)))
<1>1. table \in BinTables
  BY DEF Waits
<1> QED BY <1>1, PowReadFor, VoteReadFor, JumpReadFor, OneReadFor DEF BinTables

\* What a waiting period is read with.
LEMMA WaitingRead ==
  ASSUME NEW k, NEW s, NEW t, Waits(k, s, t)
  PROVE  \E r \in Reads(k, s) :
           /\ r.from <= Stamp(t, Width(k)) /\ r.from \in Nat /\ r.times \in SUBSET (0..now)
           /\ t \in r.times /\ \A v \in Basis(k, s) : Stamp(t, Width(k)) <= v => v \in r.times
<1>1. PICK r \in Reads(k, s) : /\ r.from <= Stamp(t, Width(k))
                               /\ \A v \in Basis(k, s) : Stamp(t, Width(k)) <= v => v \in r.times
  BY AllReadFor DEF ReadFor
<1>2. t \in r.times
  BY <1>1, WaitingIs DEF Waits
<1>3. ReadsAre(k, s, Reads(k, s))
  BY AllReadsAre DEF Waits
<1>4. ReadOK(k, s, r)
  BY <1>3 DEF ReadsAre, ReadsInTurn
<1> QED BY <1>1, <1>2, <1>4 DEF ReadOK

\* It is stored if a record two periods later is.
LEMMA FilledUp ==
  ASSUME NEW k, NEW s, NEW t, Waits(k, s, t), NEW u \in Basis(k, s),
         Stamp(t, Width(k)) + 2 * Width(k) <= u
  PROVE  \E c \in NewBins(k, s) : c.time = Stamp(t, Width(k))
<1>1. PICK r \in Reads(k, s) :
        /\ r.from <= Stamp(t, Width(k)) /\ r.from \in Nat /\ r.times \in SUBSET (0..now)
        /\ t \in r.times /\ \A v \in Basis(k, s) : Stamp(t, Width(k)) <= v => v \in r.times
  BY WaitingRead
<1>2. /\ now \in Nat /\ Width(k) \in Nat \ {0} /\ Stamp(t, Width(k)) \in Nat
      /\ \A v \in Basis(k, s) : v \in Nat
  BY WaitingIs
<1>3. u \in r.times
  <2>1. PICK p \in Nat : p = Stamp(t, Width(k))
    BY <1>2
  <2>2. p <= u
    BY <1>2, <2>1
  <2> QED BY <1>1, <2>1, <2>2
<1>4. PICK g \in TimeGroups(r.times, Width(k)) : g.time = Stamp(t, Width(k))
  <2>1. PICK T : T = r.times
    OBVIOUS
  <2>2. PICK w \in Nat \ {0} : w = Width(k)
    BY <1>2
  <2>3. PICK N \in Nat : N = now
    BY <1>2
  <2>4. T \in SUBSET (0..N) /\ t \in T /\ u \in T /\ Stamp(t, w) + 2 * w <= u
    BY <1>1, <1>3, <2>1, <2>2, <2>3
  <2>5. \E g \in TimeGroups(T, w) : g.time = Stamp(t, w)
    BY ONLY <2>4, GroupFor, w \in Nat \ {0}, N \in Nat
  <2> QED BY <2>1, <2>2, <2>5
<1> DEFINE c == [kind |-> k, src |-> s, time |-> g.time, of |-> Members(k, s, g)]
<1>5. NewFrom(k, s, r, g, c)
  BY <1>1, <1>2, <1>4 DEF NewFrom
<1> QED BY <1>4, <1>5, NewBinIn

\* Or if a later one is from the same read.
LEMMA UpToNew ==
  ASSUME NEW k, NEW s, NEW t, Waits(k, s, t), NEW q, DueBins(k, q), Reads(k, q) = Reads(k, s),
         NEW b \in NewBins(k, q), Stamp(t, Width(k)) <= b.time
  PROVE  \E c \in NewBins(k, s) : c.time = Stamp(t, Width(k))
<1>1. PICK r \in Reads(k, s) :
        /\ r.from <= Stamp(t, Width(k)) /\ r.from \in Nat /\ r.times \in SUBSET (0..now)
        /\ t \in r.times /\ \A v \in Basis(k, s) : Stamp(t, Width(k)) <= v => v \in r.times
  BY WaitingRead
<1>2. /\ now \in Nat /\ Width(k) \in Nat \ {0} /\ Stamp(t, Width(k)) \in Nat
      /\ t \in Nat /\ t < Stamp(t, Width(k)) + Width(k) /\ IsFiniteSet(Reads(k, s))
  BY WaitingIs
<1>3. PICK z, h : NewFrom(k, q, z, h, b)
  BY NewBinFrom
<1>4. z = r
  <2>1. z \in Reads(k, s) /\ ~(Cardinality(Reads(k, s)) > 1)
    BY <1>3 DEF NewFrom, Waits
  <2> QED BY <1>1, <1>2, <2>1, OnlyOne
<1>5. GroupOfTimes(h, r.times, Width(k)) /\ b.time = h.time
  <2>1. table \in BinTables
    BY DEF Waits
  <2>2. GroupOfTimes(h, z.times, Width(k))
    BY <1>3, <2>1, GroupOfNew
  <2> QED BY <1>3, <1>4, <2>2 DEF NewFrom
<1>6. t < h.next
  <2>1. h.time \in Nat /\ h.next \in r.times /\ h.time + Width(k) <= h.next
    BY <1>5 DEF GroupOfTimes
  <2>2. \A i \in 0..now : i \in Nat
    BY <1>2
  <2>3. h.next \in Nat
    BY <1>1, <2>1, <2>2
  <2>4. PICK p \in Nat : p = Stamp(t, Width(k))
    BY <1>2
  <2>5. p <= h.time /\ t < p + Width(k)
    BY <1>2, <1>5, <2>4
  <2> QED BY <1>2, <2>1, <2>3, <2>5
<1>7. PICK g \in TimeGroups(r.times, Width(k)) : g.time = Stamp(t, Width(k))
  BY <1>1, <1>5, <1>6 DEF GroupOfTimes
<1> DEFINE c == [kind |-> k, src |-> s, time |-> g.time, of |-> Members(k, s, g)]
<1>8. NewFrom(k, s, r, g, c)
  BY <1>1, <1>2, <1>7 DEF NewFrom
<1> QED BY <1>7, <1>8, NewBinIn

\* All VSPs have the same hours.
LEMMA HoursAlike ==
  ASSUME BinsInv, HoursDated, table = "vsp", NEW s \in Sources, NEW b \in bins, b.kind = "hour"
  PROVE  HourBin(s, b.time)
<1>1. PICK t \in Dates : Stamp(t, AnHour) = b.time
  BY DEF HoursDated
<1>2. b.time \in Nat
  BY DEF BinsInv, BinsTypes, BinOK
<1>3. Stamp(t, AnHour) <= b.time
  BY <1>1, <1>2
<1> QED BY <1>1, <1>3 DEF BinsInv, VspHours

LEMMA SameReads ==
  ASSUME BinsInv, HoursDated, table \in {"pow", "vsp"}, NEW k \in Kinds,
         NEW s \in Sources, NEW q \in Sources
  PROVE  Reads(k, q) = Reads(k, s)
<1>1. CASE table = "pow"
  BY <1>1 DEF Reads, PowReads
<1>2. CASE table = "vsp" /\ k = "hour"
  BY <1>2 DEF Reads, VspReads, UpdateVspHourlyChart, fetchVspChartForSource
<1>3. CASE table = "vsp" /\ k = "day"
  <2> DEFINE from == After(LastBin(k, Sources), ADay)
             hours(z) == {b.time : b \in {b \in bins : b.kind = "hour" /\ b.src = z /\ b.time >= from}}
  <2>1. \A z \in Sources : Reads(k, z) = {[times |-> hours(z), from |-> from]}
    BY <1>3 DEF Reads, VspReads, UpdateVspDailyChart
  <2>2. ASSUME NEW y \in Sources, NEW z \in Sources, NEW i \in hours(y) PROVE i \in hours(z)
    <3>1. PICK b \in bins : b.kind = "hour" /\ b.time >= from /\ b.time = i
      OBVIOUS
    <3>2. HourBin(z, b.time)
      BY <1>3, <3>1, HoursAlike
    <3>3. PICK c \in bins : c.kind = "hour" /\ c.src = z /\ c.time = b.time
      BY <3>2 DEF HourBin
    <3> HIDE DEF from
    <3> QED BY <3>1, <3>3
  <2>3. hours(q) = hours(s)
    BY <2>2
  <2> HIDE DEF hours, from
  <2> QED BY <2>1, <2>3
<1> QED BY <1>1, <1>2, <1>3 DEF Kinds

\* Periods a source's bins pass over.
PassedBy(k, ss) ==
  {x \in {k} \X SourcesOf(table) \X {Stamp(t, Width(k)) : t \in Dates} :
     /\ table \in PerSource /\ \E t \in ticks[x[2]] : x[3] = Stamp(t, Width(k))
     /\ \E b \in Added(k, ss) : b.time >= x[3]
     /\ Max(ticks[x[2]]) < x[3] + 2 * Width(k)}

\* What a transaction of some kind and sources changes.
Transacts(k, ss) ==
  /\ k \in Kinds /\ ss \in SUBSET SourcesOf(table) /\ table \in BinTables /\ Dates # {}
  /\ table # "propagation" => ss = SourcesOf(table)
  /\ bins' = bins \cup Added(k, ss)
  /\ \A s \in ss : k \notin backlog' => ~(Cardinality(Reads(k, s)) > 1)
  /\ backlog \subseteq backlog' /\ overtaken' = overtaken \cup PassedBy(k, ss)
  /\ table' = table /\ now' = now /\ ticks' = ticks /\ late' = late /\ Dates' = Dates

LEMMA TransactsIs ==
  ASSUME BinsInv, StoreBins
  PROVE  Transacts(jobs[1].kind, jobs[1].srcs)
<1>1. /\ BinsTypes /\ jobs # <<>> /\ table \in BinTables /\ Dates # {} /\ conflict = FALSE
      /\ jobs \in Seq([kind : Kinds, srcs : SUBSET Sources])
      /\ \A i \in 1..Len(jobs) : JobOK(jobs[i])
  BY DEF BinsInv, BinsTypes, StoreBins
<1>2. 1 \in 1..Len(jobs) /\ Head(jobs) = jobs[1]
  BY <1>1
<1>3. JobOK(Head(jobs))
  BY <1>1, <1>2
<1>4. PICK k, ss : k = Head(jobs).kind /\ ss = Head(jobs).srcs
  OBVIOUS
<1>5. k \in Kinds /\ ss \in SUBSET SourcesOf(table) /\ (table # "propagation" => ss = SourcesOf(table))
  BY <1>3, <1>4 DEF JobOK
<1>6. ~Doubled(Added(k, ss))
  BY <1>1, <1>5, NoneDoubled
<1>7. /\ bins' = IF Doubled(Added(k, ss)) THEN bins ELSE bins \cup Added(k, ss)
      /\ backlog' = IF \E s \in ss : Cardinality(Reads(k, s)) > 1
                    THEN backlog \cup {k} ELSE backlog
  BY <1>4 DEF StoreBins, Added, Doubled
<1>8. overtaken' = overtaken \cup PassedBy(k, ss)
  BY <1>4 DEF StoreBins, Added, PassedBy
<1>9. table' = table /\ now' = now /\ ticks' = ticks /\ late' = late /\ Dates' = Dates
  BY DEF StoreBins, Dates
<1>10. \A s \in ss : k \notin backlog' => ~(Cardinality(Reads(k, s)) > 1)
  BY <1>7
<1>11. backlog \subseteq backlog'
  BY <1>7
<1>12. Transacts(k, ss)
  BY <1>1, <1>5, <1>6, <1>7, <1>8, <1>9, <1>10, <1>11 DEF Transacts
<1> QED BY <1>2, <1>4, <1>12

\* The newest bin after a step.
LEMMA NewestStored ==
  ASSUME BinsTypes', NEW k \in Kinds, NEW ss, NEW p \in Nat, p <= LastBin(k, ss)'
  PROVE  \E b \in bins' : b.kind = k /\ b.src \in ss /\ p <= b.time
<1> DEFINE T == {b.time : b \in {b \in bins' : b.kind = k /\ b.src \in ss}}
<1>1. LastBin(k, ss)' = IF T = {} THEN None_ ELSE Max(T)
  BY DEF LastBin
<1>2. now' \in Nat
  <2>1. MaxTime \in Nat
    BY BinsAssumption DEF BinsAssumption
  <2> QED BY <2>1 DEF BinsTypes
<1>3. ASSUME NEW b \in bins' PROVE b.time \in Nat /\ b.time <= now'
  <2>1. b.kind \in Kinds /\ b.time \in Nat /\ b.time + Width(b.kind) <= now'
    BY DEF BinsTypes, BinOK
  <2>2. Width(b.kind) \in Nat
    BY <2>1, Widths
  <2> QED BY <1>2, <2>1, <2>2
<1>4. T \in SUBSET Nat /\ \A i \in T : i <= now'
  BY <1>3
<1>5. T # {}
  <2> SUFFICES ASSUME T = {} PROVE FALSE
    OBVIOUS
  <2>1. p <= -1
    BY <1>1 DEF None_
  <2> QED BY <2>1
<1>6. Max(T) \in T
  <2> HIDE DEF T
  <2> QED BY <1>2, <1>4, <1>5, MaxIn
<1>7. p <= Max(T)
  BY <1>1, <1>5
<1> QED BY <1>6, <1>7

LEMMA AddedIs ==
  ASSUME BinsTypes, NEW k, NEW ss, Transacts(k, ss), NEW b \in Added(k, ss)
  PROVE  b.kind = k /\ b.src \in ss /\ b \in NewBins(k, b.src) /\ BinOK(b)
BY NoneDoubled DEF Transacts

LEMMA StoredIs ==
  ASSUME BinsTypes, NEW k, NEW ss, Transacts(k, ss), NEW s \in ss, NEW b \in NewBins(k, s)
  PROVE  HasBin(k, s, b.time)'
<1>1. DueBins(k, s) /\ table \in BinTables
  BY DEF Transacts, DueBins
<1>2. b.kind = k /\ b.src = s
  BY <1>1, NewBinOK
<1>3. b \in bins'
  BY DEF Transacts, Added
<1> QED BY <1>2, <1>3 DEF HasBin

LEMMA OneSource ==
  ASSUME NEW s \in SourcesOf(table), NEW q \in SourcesOf(table), table \in Single
  PROVE  s = q
BY DEF SourcesOf

\* Records come late for votes and blocks only.
LEMMA PerSourceBasis ==
  ASSUME BinsInv, table \in PerSource, NEW k, NEW s
  PROVE  Basis(k, s) = ticks[s]
<1>1. late = {}
  BY DEF BinsInv, LateOK, PerSource
<1> QED BY <1>1 DEF Basis, PerSource

\* A transaction of version or location leaves out what another source's bin overtook.
LEMMA PassedOne ==
  ASSUME BinsInv, NEW k, NEW ss, Transacts(k, ss), table \in PerSource, NEW s \in ss, NEW t, Waits(k, s, t),
         NEW b \in Added(k, ss), Stamp(t, Width(k)) <= b.time,
         \A c \in NewBins(k, s) : c.time # Stamp(t, Width(k))
  PROVE  <<k, s, Stamp(t, Width(k))>> \in overtaken'
<1> DEFINE p == Stamp(t, Width(k))
           w == Width(k)
           x == <<k, s, p>>
<1>0. /\ k \in Kinds /\ s \in Sources /\ BinsTypes /\ t \in Nat /\ now \in Nat
      /\ w \in Nat \ {0} /\ p \in Nat
      /\ \A v \in Basis(k, s) : v \in Nat /\ v <= now
  BY WaitingIs
<1>1. Basis(k, s) = ticks[s] /\ t \in ticks[s]
  BY PerSourceBasis DEF Waits
<1>2. Max(ticks[s]) \in ticks[s]
  <2>1. ticks[s] \in SUBSET Nat /\ ticks[s] # {} /\ \A v \in ticks[s] : v <= now
    BY <1>0, <1>1
  <2> QED BY <1>0, <2>1, MaxIn
<1>3. ~(p + 2 * w <= Max(ticks[s]))
  BY <1>1, <1>2, FilledUp
<1>4. Max(ticks[s]) < p + 2 * w
  <2>1. Max(ticks[s]) \in Nat
    BY <1>0, <1>1, <1>2
  <2> HIDE DEF p, w
  <2> QED BY <1>0, <1>3, <2>1
<1>5. b.time >= p
  <2>1. b.time \in Nat
    BY <1>0, AddedIs DEF BinOK
  <2> HIDE DEF p
  <2> QED BY <1>0, <2>1 DEF p
<1>6. x \in {k} \X SourcesOf(table) \X {Stamp(u, Width(k)) : u \in Dates}
  <2>1. t \in Dates
    BY <1>0, <1>1, DatesAre
  <2>2. s \in SourcesOf(table)
    BY DEF Transacts
  <2> QED BY <2>1, <2>2
<1>7. x[1] = k /\ x[2] = s /\ x[3] = p
  OBVIOUS
<1>8. x \in PassedBy(k, ss)
  <2> HIDE DEF x, p, w
  <2>1. \E u \in ticks[x[2]] : x[3] = Stamp(u, Width(k))
    BY <1>1, <1>7 DEF p
  <2> QED BY <1>4, <1>5, <1>6, <1>7, <2>1 DEF PassedBy, w
<1> QED BY <1>8 DEF Transacts

\* A period stays excused, a bin stays.
LEMMA ExcusesStay ==
  ASSUME NEW k, NEW ss, Transacts(k, ss), NEW j, NEW s, NEW p
  PROVE  (Excused(j, s, p) => Excused(j, s, p)') /\ (HasBin(j, s, p) => HasBin(j, s, p)')
<1>1. /\ table' = table /\ Dates' = Dates /\ backlog \subseteq backlog' /\ overtaken \subseteq overtaken'
      /\ bins \subseteq bins'
  BY DEF Transacts
<1>2. Excused(j, s, p) => Excused(j, s, p)'
  BY <1>1 DEF Excused
<1> QED BY <1>1, <1>2 DEF HasBin

\* A period that is over, or has a later bin, is binned or excused.
LEMMA StoredOrExcused ==
  ASSUME BinsInv, BinsTypes', NoHole, HoursDated, VotesFromFirst,
         NEW k, NEW ss, Transacts(k, ss), NEW s \in ss, NEW t \in Basis(k, s),
         \/ \E u \in Basis(k, s) : Stamp(t, Width(k)) + 2 * Width(k) <= u
         \/ Stamp(t, Width(k)) <= NewestBin(k, s)'
  PROVE  Excused(k, s, Stamp(t, Width(k)))' \/ HasBin(k, s, Stamp(t, Width(k)))'
<1> DEFINE p == Stamp(t, Width(k))
           w == Width(k)
<1>0. /\ BinsTypes /\ k \in Kinds /\ s \in SourcesOf(table) /\ s \in Sources
      /\ ss \in SUBSET SourcesOf(table) /\ table \in BinTables /\ Dates # {}
      /\ DueBins(k, s) /\ \A q \in ss : DueBins(k, q)
  BY SourcesOfTable DEF Transacts, BinsInv, DueBins
<1>1. CASE p <= NewestBin(k, s)
  <2>1. Excused(k, s, p) \/ HasBin(k, s, p)
    BY <1>0, <1>1 DEF NoHole
  <2> QED BY <2>1, ExcusesStay
<1>2. CASE Excused(k, s, p)'
  BY <1>2
<1>3. CASE ~(p <= NewestBin(k, s)) /\ ~Excused(k, s, p)'
  <2>1. t \in Nat /\ w \in Nat \ {0} /\ p \in Nat /\ p % w = 0
    <3>1. now \in Nat /\ Basis(k, s) \in SUBSET (0..now)
      BY <1>0, DatesAre, BasisIs
    <3>2. \A i \in 0..now : i \in Nat
      BY <3>1
    <3>3. t \in Nat
      BY <3>1, <3>2
    <3> QED BY <1>0, <3>3, Widths, StampOf
  <2>2. NewestBin(k, s) < p
    <3>1. LastOK(k, Scope(s), NewestBin(k, s))
      BY <1>0, LastBinOK DEF NewestBin
    <3>2. PICK last : last = NewestBin(k, s)
      OBVIOUS
    <3>3. last = -1 \/ last \in Nat
      BY <3>1, <3>2 DEF LastOK, None_
    <3>4. ~(p <= last)
      BY <1>3, <3>2
    <3> HIDE DEF p
    <3>5. last < p
      BY <2>1, <3>3, <3>4
    <3> QED BY <3>2, <3>5
  <2>3. ~FirstPeriod(k, p) /\ k \notin backlog' /\ <<k, s, p>> \notin overtaken'
    <3>1. table' = table /\ Dates' = Dates
      BY DEF Transacts
    <3> QED BY <1>3, <3>1 DEF Excused, FirstPeriod
  <2>4. Waits(k, s, t)
    BY <1>0, <2>2, <2>3 DEF Waits, Transacts
  <2>5. SUFFICES \E c \in NewBins(k, s) : c.time = p
    <3>1. \A c \in NewBins(k, s) : HasBin(k, s, c.time)'
      BY <1>0, StoredIs
    <3> QED BY <2>5, <3>1
  <2>6. CASE \E u \in Basis(k, s) : p + 2 * w <= u
    BY <2>4, <2>6, FilledUp
  <2>7. CASE p <= NewestBin(k, s)'
    <3>1. PICK b \in bins' : b.kind = k /\ b.src \in Scope(s) /\ p <= b.time
      <4>1. NewestBin(k, s)' = LastBin(k, Scope(s))'
        BY DEF NewestBin
      <4>2. PICK S : S = Scope(s)
        OBVIOUS
      <4>3. Scope(s)' = Scope(s)
        BY DEF Scope, Transacts
      <4>4. LastBin(k, S)' = LastBin(k, Scope(s))'
        BY <4>2, <4>3 DEF LastBin
      <4>5. PICK i \in Nat : i = p
        BY <2>1
      <4>6. i <= LastBin(k, S)'
        BY <2>7, <4>1, <4>4, <4>5
      <4>7. \E b \in bins' : b.kind = k /\ b.src \in S /\ i <= b.time
        BY <1>0, <4>6, NewestStored
      <4> QED BY <4>2, <4>5, <4>7
    <3>2. b \in Added(k, ss)
      <4> SUFFICES ASSUME b \in bins PROVE FALSE
        BY DEF Transacts
      <4>1. LastOK(k, Scope(s), NewestBin(k, s))
        BY <1>0, LastBinOK DEF NewestBin
      <4>2. b.time <= NewestBin(k, s) /\ NewestBin(k, s) \in Nat
        BY <3>1, <4>1 DEF LastOK
      <4>3. b.time \in Nat
        BY <1>0 DEF BinsTypes, BinOK
      <4> HIDE DEF p
      <4> QED BY <2>1, <2>2, <3>1, <4>2, <4>3
    <3>3. b.src \in ss /\ b \in NewBins(k, b.src)
      BY <1>0, <3>2, AddedIs
    <3>4. CASE b.src = s
      BY <1>0, <2>4, <3>1, <3>3, <3>4, UpToNew
    <3>5. CASE table \in {"pow", "vsp"}
      <4>1. b.src \in Sources
        BY <1>0, <3>3, SourcesOfTable
      <4>2. Reads(k, b.src) = Reads(k, s)
        BY <1>0, <3>5, <4>1, SameReads
      <4> QED BY <1>0, <2>4, <3>1, <3>3, <4>2, UpToNew
    <3>6. CASE table \in Single
      <4>1. b.src = s
        BY <1>0, <3>3, <3>6, OneSource
      <4> QED BY <3>4, <4>1
    <3>7. CASE table = "propagation"
      <4>1. b.src = s
        BY <3>1, <3>7 DEF Scope
      <4> QED BY <3>4, <4>1
    <3>8. CASE table \in PerSource
      BY <2>3, <2>4, <3>1, <3>2, <3>8, PassedOne
    <3> QED BY <1>0, <3>5, <3>6, <3>7, <3>8 DEF BinTables, Single, PerSource
  <2> QED BY <2>6, <2>7
<1> QED BY <1>1, <1>2, <1>3

\* What follows the newest hours follows the newest day.
LEMMA HoursPastDays ==
  ASSUME BinsInv, HoursDated, DaysOver, table = "vsp", Dates # {}, NEW s \in Sources,
         NEW c \in NewBins("hour", s)
  PROVE  LastBin("day", Sources) < Stamp(c.time, ADay)
<1> DEFINE last == LastBin("day", Sources)
<1>0. /\ BinsTypes /\ "day" \in Kinds /\ "hour" \in Kinds /\ Width("day") = ADay /\ ADay \in Nat \ {0}
      /\ SourcesOf(table) = Sources /\ table \in BinTables
  BY Widths DEF BinsInv, Kinds, Width, SourcesOf, Single, BinTables
<1>1. LastOK("day", Sources, last)
  BY <1>0, LastBinOK
<1>2. DueBins("hour", s)
  BY <1>0 DEF DueBins
<1>3. c.time \in Nat /\ \A h \in bins : h.kind = "hour" /\ h.src = s => h.time < c.time
  BY <1>0, <1>2, NewBinOK DEF BinOK
<1>4. Stamp(c.time, ADay) \in Nat
  BY <1>0, <1>3, StampOf
<1>5. CASE last = None_
  <2> HIDE DEF last
  <2>1. last < Stamp(c.time, ADay)
    BY <1>4, <1>5 DEF None_
  <2> QED BY <2>1 DEF last
<1>6. CASE last # None_
  <2>1. last \in Nat /\ last % ADay = 0 /\ \E b \in bins : b.kind = "day" /\ b.time = last
    BY <1>0, <1>1, <1>6 DEF LastOK
  <2>2. PICK h \in bins : h.kind = "hour" /\ last + ADay <= h.time
    BY <2>1 DEF DaysOver
  <2>3. HourBin(s, h.time)
    BY <2>2, HoursAlike
  <2>4. h.time < c.time /\ h.time \in Nat
    BY <1>0, <1>3, <2>3 DEF HourBin, BinsTypes, BinOK
  <2> HIDE DEF last
  <2>5. last + ADay \in Nat /\ last + ADay <= c.time /\ (last + ADay) % ADay = 0
    <3>1. (last + ADay) % ADay = 0
      BY <1>0, <2>1, NextStart
    <3> QED BY <1>0, <1>3, <2>1, <2>2, <2>4, <3>1
  <2>6. last + ADay <= Stamp(c.time, ADay)
    BY <1>0, <1>3, <2>5, StampAfter
  <2>7. last < Stamp(c.time, ADay)
    BY <1>0, <1>4, <2>1, <2>6
  <2> QED BY <2>7 DEF last
<1> QED BY <1>5, <1>6

\* The bins of other kinds and sources, and what they are computed from, stay; of a VSP's
\* hours there may be new ones.
LEMMA OtherNewest ==
  ASSUME BinsInv, NEW k, NEW ss, Transacts(k, ss), NEW j \in Kinds, NEW s \in SourcesOf(table),
         j # k \/ s \notin ss
  PROVE  NewestBin(j, s)' = NewestBin(j, s)
<1>0. BinsTypes /\ bins' = bins \cup Added(k, ss) /\ table' = table
  BY DEF Transacts, BinsInv
<1>1. ASSUME NEW b \in Added(k, ss) PROVE ~(b.kind = j /\ b.src \in Scope(s))
  <2>1. b.kind = k /\ b.src \in ss
    BY <1>0, AddedIs
  <2>2. CASE j # k
    BY <2>1, <2>2
  <2>3. CASE s \notin ss
    <3>1. table = "propagation"
      BY <2>3 DEF Transacts
    <3>2. Scope(s) = {s}
      BY <3>1 DEF Scope
    <3> QED BY <2>1, <2>3, <3>2
  <2> QED BY <2>2, <2>3
<1>2. {b \in bins' : b.kind = j /\ b.src \in Scope(s)} = {b \in bins : b.kind = j /\ b.src \in Scope(s)}
  BY <1>0, <1>1
<1>3. Scope(s)' = Scope(s)
  BY <1>0 DEF Scope
<1>4. LastBin(j, Scope(s))' = LastBin(j, Scope(s))
  BY <1>2, <1>3 DEF LastBin
<1> QED BY <1>4 DEF NewestBin

LEMMA BasisStays ==
  ASSUME BinsInv, NEW k, NEW ss, Transacts(k, ss), NEW j \in Kinds, NEW s \in SourcesOf(table),
         NEW t \in Basis(j, s)'
  PROVE  \/ t \in Basis(j, s)
         \/ table = "vsp" /\ j = "day" /\ k = "hour" /\ \E c \in NewBins("hour", s) : t = c.time
<1>0. /\ BinsTypes /\ bins' = bins \cup Added(k, ss) /\ table' = table /\ Dates' = Dates
      /\ ticks' = ticks /\ late' = late
  BY DEF Transacts, BinsInv
<1>1. CASE table = "vsp" /\ j = "day"
  <2>1. PICK c \in bins' : c.kind = "hour" /\ c.src = s /\ t = c.time
    BY <1>0, <1>1 DEF Basis
  <2>2. CASE c \in bins
    BY <1>1, <2>1, <2>2 DEF Basis
  <2>3. CASE c \in Added(k, ss)
    <3>1. c.kind = k /\ c \in NewBins(k, c.src)
      BY <1>0, <2>3, AddedIs
    <3> QED BY <1>1, <2>1, <3>1
  <2> QED BY <1>0, <2>1, <2>2, <2>3
<1>2. CASE ~(table = "vsp" /\ j = "day")
  BY <1>0, <1>2 DEF Basis
<1> QED BY <1>1, <1>2

LEMMA StoreNoHole ==
  ASSUME HolesInv, BinsTypes', NEW k, NEW ss, Transacts(k, ss)
  PROVE  NoHole'
<1> SUFFICES ASSUME NEW j \in Kinds, NEW s \in SourcesOf(table), NEW t \in Basis(j, s)',
                    Stamp(t, Width(j)) <= NewestBin(j, s)'
             PROVE  Excused(j, s, Stamp(t, Width(j)))' \/ HasBin(j, s, Stamp(t, Width(j)))'
  <2>1. table' = table
    BY DEF Transacts
  <2> QED BY <2>1 DEF NoHole, SourcesOf
<1>0. BinsInv /\ NoHole /\ HoursDated /\ DaysOver /\ VotesFromFirst /\ BinsTypes
  BY DEF HolesInv, BinsInv
<1>1. CASE t \in Basis(j, s) /\ j = k /\ s \in ss
  BY <1>0, <1>1, StoredOrExcused
<1>2. CASE t \in Basis(j, s) /\ ~(j = k /\ s \in ss)
  <2>1. NewestBin(j, s)' = NewestBin(j, s)
    BY <1>0, <1>2, OtherNewest
  <2>2. Excused(j, s, Stamp(t, Width(j))) \/ HasBin(j, s, Stamp(t, Width(j)))
    BY <1>0, <1>2, <2>1 DEF NoHole
  <2> QED BY <2>2, ExcusesStay
<1>3. CASE t \notin Basis(j, s)
  <2>1. table = "vsp" /\ j = "day" /\ k = "hour" /\ \E c \in NewBins("hour", s) : t = c.time
    BY <1>0, <1>3, BasisStays
  <2>2. s \in Sources /\ Dates # {}
    BY SourcesOfTable DEF Transacts
  <2>3. LastBin("day", Sources) < Stamp(t, ADay)
    BY <1>0, <2>1, <2>2, HoursPastDays
  <2>4. NewestBin(j, s)' = NewestBin(j, s)
    BY <1>0, <2>1, OtherNewest
  <2>5. NewestBin(j, s) = LastBin("day", Sources) /\ Width(j) = ADay
    BY <2>1 DEF NewestBin, Scope, Width
  <2>6. LastBin("day", Sources) \in Int
    <3>1. "day" \in Kinds
      BY DEF Kinds
    <3>2. LastOK("day", Sources, LastBin("day", Sources))
      BY <1>0, <3>1, LastBinOK
    <3> QED BY <3>2 DEF LastOK, None_
  <2>7. Stamp(t, ADay) \in Int
    <3>1. PICK c \in NewBins("hour", s) : t = c.time
      BY <2>1
    <3>2. DueBins("hour", s) /\ table \in BinTables
      BY <1>0, <2>1, <2>2 DEF DueBins, Kinds, BinTables
    <3>3. t \in Nat /\ ADay \in Nat \ {0}
      BY <3>1, <3>2, NewBinOK, Widths DEF BinOK
    <3> QED BY <3>3, StampOf
  <2>8. PICK a, b : a = LastBin("day", Sources) /\ b = Stamp(t, ADay)
    OBVIOUS
  <2>9. a \in Int /\ b \in Int /\ a < b /\ b <= a
    BY <2>3, <2>4, <2>5, <2>6, <2>7, <2>8
  <2> QED BY <2>9
<1> QED BY <1>1, <1>2, <1>3

LEMMA StoreHours ==
  ASSUME HolesInv, NEW k, NEW ss, Transacts(k, ss)
  PROVE  HoursDated' /\ DaysOver' /\ VotesFromFirst'
<1>0. /\ BinsTypes /\ HoursDated /\ DaysOver /\ VotesFromFirst /\ BinsInv
      /\ bins' = bins \cup Added(k, ss) /\ table' = table /\ Dates' = Dates
      /\ ticks' = ticks /\ late' = late
  BY DEF HolesInv, BinsInv, Transacts
<1>1. VotesFromFirst'
  BY <1>0 DEF VotesFromFirst, SourcesOf
<1>2. ASSUME table = "vsp", NEW b \in Added(k, ss)
      PROVE  /\ k = "hour" => \E t \in Dates : Stamp(t, AnHour) = b.time
             /\ k = "day" => \E h \in bins : h.kind = "hour" /\ b.time + ADay <= h.time
  <2>1. b.src \in ss /\ b \in NewBins(k, b.src)
    BY <1>0, <1>2, AddedIs
  <2>2. PICK s : s = b.src
    OBVIOUS
  <2>3. DueBins(k, s) /\ table \in BinTables /\ s \in ss
    BY <1>0, <2>1, <2>2 DEF DueBins, Transacts
  <2>4. PICK r, g : NewFrom(k, s, r, g, b)
    BY <2>1, <2>2, NewBinFrom
  <2>5. GroupOfTimes(g, r.times, Width(k)) /\ b.time = g.time
    BY <2>3, <2>4, GroupOfNew DEF NewFrom
  <2>6. CASE k = "hour"
    <3>1. \A v \in r.times : v \in Dates
      BY <1>2, <2>4, <2>6 DEF NewFrom, Reads, VspReads, UpdateVspHourlyChart, fetchVspChartForSource
    <3>2. PICK v \in r.times : Stamp(v, Width(k)) = g.time
      BY <2>5 DEF GroupOfTimes
    <3> QED BY <2>5, <2>6, <3>1, <3>2 DEF Width
  <2>7. CASE k = "day"
    <3>1. \A v \in r.times : \E h \in bins : h.kind = "hour" /\ h.time = v
      BY <1>2, <2>4, <2>7 DEF NewFrom, Reads, VspReads, UpdateVspDailyChart
    <3>2. g.next \in r.times /\ g.time + Width(k) <= g.next /\ Width(k) = ADay
      BY <2>5, <2>7 DEF GroupOfTimes, Width
    <3> QED BY <2>5, <2>7, <3>1, <3>2
  <2> QED BY <2>6, <2>7
<1>3. \A b \in Added(k, ss) : b.kind = k
  BY <1>0, AddedIs
<1>4. HoursDated'
  <2> SUFFICES ASSUME table = "vsp", NEW b \in bins', b.kind = "hour"
               PROVE  \E t \in Dates : Stamp(t, AnHour) = b.time
    BY <1>0 DEF HoursDated
  <2>1. CASE b \in bins
    BY <1>0, <2>1 DEF HoursDated
  <2>2. CASE b \in Added(k, ss)
    BY <1>2, <1>3, <2>2
  <2> QED BY <1>0, <2>1, <2>2
<1>5. DaysOver'
  <2> SUFFICES ASSUME table = "vsp", NEW b \in bins', b.kind = "day"
               PROVE  \E h \in bins : h.kind = "hour" /\ b.time + ADay <= h.time
    BY <1>0 DEF DaysOver
  <2>1. CASE b \in bins
    BY <1>0, <2>1 DEF DaysOver
  <2>2. CASE b \in Added(k, ss)
    BY <1>2, <1>3, <2>2
  <2> QED BY <1>0, <2>1, <2>2
<1> QED BY <1>1, <1>4, <1>5

\* The period of a new record is not the newest bin's, nor one before, unless it is late.
LEMMA FreshRecord ==
  ASSUME BinsInv, NEW t \in MinTime..MaxTime, NEW rs \in Reports, Collect(t, rs),
         NEW k \in Kinds, NEW s \in SourcesOf(table),
         t > now \/ (s \in rs /\ table \notin {"pow", "vsp"} /\ <<k, s, t>> \notin late')
  PROVE  ~(Stamp(t, Width(k)) <= NewestBin(k, s))
<1> DEFINE w == Width(k)
<1>0. BinsTypes /\ t \in Nat /\ (t > now \/ table \in {"propagation", "vote"}) /\ now \in Nat
  BY Collected, DatesAre DEF BinsInv
<1>1. w \in Nat \ {0} /\ Stamp(t, w) \in Nat
  BY <1>0, Widths, StampOf
<1>2. PICK last : last = NewestBin(k, s)
  OBVIOUS
<1>3. LastOK(k, Scope(s), last)
  BY <1>0, <1>2, LastBinOK DEF NewestBin
<1>4. CASE last = None_
  <2>1. ~(Stamp(t, w) <= last)
    <3> HIDE DEF w
    <3> QED BY <1>1, <1>4 DEF None_
  <2> QED BY <1>2, <2>1
<1>5. CASE last # None_
  <2>1. last \in Nat /\ last % w = 0 /\ last + w <= now
    BY <1>3, <1>5 DEF LastOK
  <2>2. last + w <= t
    <3>1. CASE t > now
      <4> HIDE DEF w
      <4> QED BY <1>0, <1>1, <2>1, <3>1
    <3>2. CASE ~(t > now)
      <4>1. s \in rs /\ <<k, s, t>> \notin late' /\ table \in {"propagation", "vote"}
        BY <1>0, <3>2
      <4>2. LastBin(k, {s}) = last
        <5>1. CASE table = "propagation"
          BY <1>2, <5>1 DEF NewestBin, Scope
        <5>2. CASE table = "vote"
          <6>1. \A b \in bins : b.src = s
            BY <1>0, <5>2, OneSource DEF BinsTypes, BinOK, Single
          <6>2. {b \in bins : b.kind = k /\ b.src \in {s}} = {b \in bins : b.kind = k /\ b.src \in Sources}
            BY <6>1, SourcesOfTable
          <6>3. LastBin(k, {s}) = LastBin(k, Sources)
            BY <6>2 DEF LastBin
          <6> QED BY <1>2, <5>2, <6>3 DEF NewestBin, Scope
        <5> QED BY <4>1, <5>1, <5>2
      <4>3. Horizon(k, s) = last + w
        BY <1>5, <4>2 DEF Horizon, After
      <4>4. late' = late \cup {x \in Kinds \X rs \X {t} : t < Horizon(x[1], x[2])}
        BY DEF Collect, Kinds
      <4>5. PICK x : x = <<k, s, t>>
        OBVIOUS
      <4>6. x \in Kinds \X rs \X {t} /\ x[1] = k /\ x[2] = s /\ x \notin late'
        BY <4>1, <4>5
      <4>7. ~(t < Horizon(k, s))
        BY <4>4, <4>6
      <4> HIDE DEF w
      <4> QED BY <1>0, <1>1, <2>1, <4>3, <4>7
    <3> QED BY <3>1, <3>2
  <2>3. (last + w) % w = 0
    <3> HIDE DEF w
    <3> QED BY <1>1, <2>1, NextStart
  <2>4. last + w <= Stamp(t, w)
    <3>1. last + w \in Nat
      BY <1>1, <2>1
    <3> QED BY <1>0, <1>1, <2>2, <2>3, <3>1, StampAfter
  <2>5. ~(Stamp(t, w) <= last)
    <3>1. PICK i \in Nat : i = Stamp(t, w)
      BY <1>1
    <3> QED BY <1>1, <2>1, <2>4, <3>1
  <2> QED BY <1>2, <2>5
<1> QED BY <1>4, <1>5

\* The first date stays the first.
LEMMA FirstDate ==
  ASSUME BinsInv, NEW t \in MinTime..MaxTime, NEW rs \in Reports, Collect(t, rs), t > now, Dates # {}
  PROVE  Min(Dates') = Min(Dates)
<1>0. /\ now \in Nat /\ Dates \in SUBSET (0..now) /\ t \in Nat
      /\ Dates' \subseteq Dates \cup {t} /\ Dates \subseteq Dates'
  BY Collected, DatesAre DEF BinsInv
<1>1. \A i \in Dates : i \in Nat /\ i < t
  <2>1. \A i \in 0..now : i \in Nat /\ i < t
    BY <1>0
  <2> QED BY <1>0, <2>1
<1>2. PICK D : D = Dates'
  OBVIOUS
<1>3. D \in SUBSET Nat /\ D # {} /\ Dates \in SUBSET Nat
  BY <1>0, <1>1, <1>2
<1>4. /\ Min(D) \in D /\ \A i \in D : Min(D) <= i
      /\ Min(Dates) \in Dates /\ \A i \in Dates : Min(Dates) <= i
  BY <1>3, MinIn
<1>5. Min(D) \in Dates
  <2>1. Min(Dates) \in D
    BY <1>0, <1>2, <1>4
  <2>2. Min(D) <= Min(Dates) /\ Min(Dates) < t /\ Min(D) \in Nat /\ Min(Dates) \in Nat
    BY <1>1, <1>3, <1>4, <2>1
  <2>3. Min(D) # t
    BY <1>0, <2>2
  <2> QED BY <1>0, <1>2, <1>4, <2>3
<1>6. Min(D) <= Min(Dates) /\ Min(Dates) <= Min(D) /\ Min(D) \in Nat /\ Min(Dates) \in Nat
  BY <1>0, <1>1, <1>2, <1>4, <1>5
<1>7. Min(D) = Min(Dates)
  BY <1>6
<1> QED BY <1>2, <1>7

LEMMA CollectNoHole ==
  ASSUME HolesInv, NEW t \in MinTime..MaxTime, NEW rs \in Reports, Collect(t, rs)
  PROVE  NoHole'
<1> SUFFICES ASSUME NEW k \in Kinds, NEW s \in SourcesOf(table), NEW u \in Basis(k, s)',
                    Stamp(u, Width(k)) <= NewestBin(k, s)'
             PROVE  Excused(k, s, Stamp(u, Width(k)))' \/ HasBin(k, s, Stamp(u, Width(k)))'
  <2>1. table' = table
    BY DEF Collect
  <2> QED BY <2>1 DEF NoHole, SourcesOf
<1>0. BinsInv /\ BinsTypes /\ NoHole /\ s \in Sources
  BY SourcesOfTable DEF HolesInv, BinsInv
<1>1. /\ table' = table /\ bins' = bins /\ backlog' = backlog /\ overtaken' = overtaken
      /\ late \subseteq late'
  BY DEF Collect
<1>2. /\ t > now \/ table \in {"propagation", "vote"}
      /\ \A q \in Sources : ticks'[q] = IF q \in rs THEN ticks[q] \cup {t} ELSE ticks[q]
      /\ Dates' \subseteq Dates \cup {t}
  BY <1>0, Collected
<1>3. NewestBin(k, s)' = NewestBin(k, s)
  BY <1>1 DEF NewestBin, LastBin, Scope
<1>4. u \in Basis(k, s)
  <2> SUFFICES ASSUME u \notin Basis(k, s) PROVE FALSE
    OBVIOUS
  <2>1. u = t /\ (t > now \/ (s \in rs /\ table \notin {"pow", "vsp"} /\ <<k, s, t>> \notin late'))
    <3>1. CASE table = "vsp" /\ k = "day"
      BY <1>1, <3>1 DEF Basis
    <3>2. CASE ~(table = "vsp" /\ k = "day") /\ table \in {"pow", "vsp"}
      <4>1. Basis(k, s)' = Dates' /\ Basis(k, s) = Dates
        BY <1>1, <3>2 DEF Basis
      <4> QED BY <1>2, <3>2, <4>1
    <3>3. CASE table \notin {"pow", "vsp"}
      <4>1. u \in ticks'[s] /\ <<k, s, u>> \notin late'
        BY <1>1, <3>3 DEF Basis
      <4>2. u \notin ticks[s]
        BY <1>1, <3>3, <4>1 DEF Basis
      <4>3. u \in (IF s \in rs THEN ticks[s] \cup {t} ELSE ticks[s])
        BY <1>0, <1>2, <4>1
      <4>4. u = t /\ s \in rs
        BY <4>2, <4>3
      <4> QED BY <3>3, <4>1, <4>4
    <3> QED BY <3>1, <3>2, <3>3
  <2>2. ~(Stamp(t, Width(k)) <= NewestBin(k, s))
    BY <1>0, <2>1, FreshRecord
  <2> QED BY <1>3, <2>1, <2>2
<1>5. Excused(k, s, Stamp(u, Width(k))) \/ HasBin(k, s, Stamp(u, Width(k)))
  BY <1>0, <1>3, <1>4 DEF NoHole
<1>6. CASE HasBin(k, s, Stamp(u, Width(k)))
  BY <1>1, <1>6 DEF HasBin
<1>7. CASE Excused(k, s, Stamp(u, Width(k)))
  <2>1. CASE table = "pow"
    <3>1. t > now /\ Dates # {}
      <4>1. Basis(k, s) = Dates
        BY <2>1 DEF Basis
      <4> QED BY <1>2, <1>4, <2>1, <4>1
    <3>2. Min(Dates') = Min(Dates)
      BY <1>0, <3>1, FirstDate
    <3>3. Min(Dates)' = Min(Dates')
      OBVIOUS
    <3> QED BY <1>1, <1>7, <3>2 DEF Excused
  <2>2. CASE table # "pow"
    BY <1>1, <1>7, <2>2 DEF Excused
  <2> QED BY <2>1, <2>2
<1> QED BY <1>5, <1>6, <1>7

LEMMA CollectHours ==
  ASSUME HolesInv, NEW t \in MinTime..MaxTime, NEW rs \in Reports, Collect(t, rs)
  PROVE  HoursDated' /\ DaysOver' /\ VotesFromFirst'
<1>0. BinsInv /\ BinsTypes /\ HoursDated /\ DaysOver /\ VotesFromFirst
  BY DEF HolesInv, BinsInv
<1>1. table' = table /\ bins' = bins
  BY DEF Collect
<1>2. /\ \A q \in Sources : ticks'[q] = IF q \in rs THEN ticks[q] \cup {t} ELSE ticks[q]
      /\ Dates \subseteq Dates' /\ t \in Nat
  BY <1>0, Collected
<1>3. late' = late \cup {x \in Kinds \X rs \X {t} : t < Horizon(x[1], x[2])}
  BY DEF Collect, Kinds
<1>4. HoursDated'
  BY <1>0, <1>1, <1>2 DEF HoursDated
<1>5. DaysOver'
  BY <1>0, <1>1 DEF DaysOver
<1>6. VotesFromFirst'
  <2> SUFFICES ASSUME table = "vote", NEW s \in SourcesOf(table), NEW u \in ticks'[s], u < FirstBlock,
                      NEW k \in Kinds
               PROVE  <<k, s, u>> \in late'
    BY <1>1 DEF VotesFromFirst, SourcesOf
  <2>1. CASE u \in ticks[s]
    BY <1>0, <1>3, <2>1 DEF VotesFromFirst
  <2>2. CASE u \notin ticks[s]
    <3>1. u = t /\ s \in rs
      BY <1>2, <2>2, SourcesOfTable
    <3>2. PICK last : last = LastBin(k, {s})
      OBVIOUS
    <3>3. LastOK(k, {s}, last)
      BY <1>0, <3>2, LastBinOK
    <3>4. t < Horizon(k, s)
      <4>1. CASE last = None_
        BY <3>1, <3>2, <4>1 DEF Horizon
      <4>2. CASE last # None_
        <5>1. last \in Nat /\ FirstBlock <= last /\ FirstBlock \in Nat
          BY <1>0, <3>3, <4>2, BinsAssumption DEF LastOK, BinsTypes, BinOK, BinsAssumption
        <5>2. Horizon(k, s) = last + Width(k) /\ Width(k) \in Nat
          BY <3>2, <4>2, Widths DEF Horizon, After
        <5> QED BY <1>2, <3>1, <5>1, <5>2
      <4> QED BY <4>1, <4>2
    <3>5. PICK x : x = <<k, s, t>>
      OBVIOUS
    <3>6. x \in Kinds \X rs \X {t} /\ x[1] = k /\ x[2] = s
      BY <3>1, <3>5
    <3>7. x \in late'
      BY <1>3, <3>4, <3>6
    <3> QED BY <3>1, <3>5, <3>7
  <2> QED BY <2>1, <2>2
<1> QED BY <1>4, <1>5, <1>6

LEMMA HolesStart == BinsInit => HolesInv
<1> SUFFICES ASSUME BinsInit PROVE HolesInv
  OBVIOUS
<1>1. bins = {} /\ \A s \in Sources : ticks[s] = {}
  BY DEF BinsInit
<1>2. Dates = {}
  BY <1>1 DEF Dates
<1>3. \A k \in Kinds : \A s \in SourcesOf(table) : Basis(k, s) = {}
  BY <1>1, <1>2, SourcesOfTable DEF Basis
<1>4. NoHole
  BY <1>3 DEF NoHole
<1>5. VotesFromFirst
  BY <1>1, SourcesOfTable DEF VotesFromFirst
<1> QED BY <1>1, <1>4, <1>5, BinsStart DEF HolesInv, HoursDated, DaysOver

LEMMA HolesStep == HolesInv /\ [BinsNext]_binsVars => HolesInv'
<1> SUFFICES ASSUME HolesInv, [BinsNext]_binsVars PROVE HolesInv'
  OBVIOUS
<1>0. BinsInv /\ BinsInv'
  BY CollectKeeps, StoreKeeps, FailKeeps, BinsStay DEF BinsNext, HolesInv
<1>1. CASE StoreBins
  <2>1. Transacts(jobs[1].kind, jobs[1].srcs)
    BY <1>0, <1>1, TransactsIs
  <2>2. BinsTypes'
    BY <1>0 DEF BinsInv
  <2> QED BY <1>0, <2>1, <2>2, StoreNoHole, StoreHours DEF HolesInv
<1>2. ASSUME NEW t \in MinTime..MaxTime, NEW rs \in Reports, Collect(t, rs) PROVE HolesInv'
  BY <1>0, <1>2, CollectNoHole, CollectHours DEF HolesInv
<1>3. CASE UpdateFails \/ UNCHANGED binsVars
  <2>1. /\ table' = table /\ now' = now /\ ticks' = ticks /\ bins' = bins
        /\ backlog' = backlog /\ late' = late /\ overtaken' = overtaken /\ Dates' = Dates
    BY <1>3 DEF UpdateFails, binsVars, Dates
  <2>2. NoHole'
    <3>1. SourcesOf(table)' = SourcesOf(table)
      BY <2>1 DEF SourcesOf
    <3>2. ASSUME NEW k, NEW s
          PROVE  NewestBin(k, s)' = NewestBin(k, s) /\ Basis(k, s)' = Basis(k, s)
      BY <2>1 DEF NewestBin, LastBin, Scope, Basis
    <3>3. ASSUME NEW k, NEW s, NEW p
          PROVE  Excused(k, s, p)' = Excused(k, s, p) /\ HasBin(k, s, p)' = HasBin(k, s, p)
      BY <2>1 DEF Excused, HasBin
    <3>4. NoHole
      BY DEF HolesInv
    <3> QED BY <3>1, <3>2, <3>3, <3>4 DEF NoHole
  <2>3. HoursDated' /\ DaysOver' /\ VotesFromFirst'
    BY <2>1 DEF HolesInv, HoursDated, DaysOver, VotesFromFirst, SourcesOf
  <2> QED BY <1>0, <2>2, <2>3 DEF HolesInv
<1> QED BY <1>1, <1>2, <1>3 DEF BinsNext

LEMMA HolesHold == BinsSpec => []HolesInv
BY HolesStart, HolesStep, PTL DEF BinsSpec

\* Of two numbers one is less.
LEMMA TwoAfter ==
  ASSUME NEW Q, Cardinality(Q) >= 2, IsFiniteSet(Q)
  PROVE  \E x, y \in Q : x # y
<1> SUFFICES ASSUME \A x, y \in Q : x = y PROVE FALSE
  OBVIOUS
<1>1. Q # {}
  BY FS_EmptySet
<1>2. PICK x \in Q : TRUE
  BY <1>1
<1>3. Q = {x}
  OBVIOUS
<1>4. Cardinality({x}) = 1
  BY FS_Singleton
<1> QED BY <1>3, <1>4

\* A period that two others follow is over two periods before some record.
LEMMA TwoPeriods ==
  ASSUME BinsTypes, NEW k \in Kinds, NEW s \in Sources, NEW t \in Basis(k, s),
         Cardinality({q \in {Stamp(u, Width(k)) : u \in Basis(k, s)} : q > Stamp(t, Width(k))}) >= 2
  PROVE  \E u \in Basis(k, s) : Stamp(t, Width(k)) + 2 * Width(k) <= u
<1> DEFINE w == Width(k)
           p == Stamp(t, w)
           Q == {q \in {Stamp(u, w) : u \in Basis(k, s)} : q > p}
<1>0. now \in Nat /\ w \in Nat \ {0} /\ Basis(k, s) \in SUBSET (0..now)
  BY Widths, DatesAre, BasisIs
<1>1. ASSUME NEW u \in Basis(k, s)
      PROVE  /\ u \in Nat /\ Stamp(u, w) \in Nat /\ Stamp(u, w) % w = 0 /\ Stamp(u, w) <= u
             /\ Stamp(u, w) <= now
  <2>1. \A i \in 0..now : i \in Nat /\ i <= now
    BY <1>0
  <2>2. u \in Nat /\ u <= now
    BY <1>0, <2>1
  <2>3. Stamp(u, w) \in Nat /\ Stamp(u, w) % w = 0 /\ Stamp(u, w) <= u
    BY <1>0, <2>2, StampOf
  <2>4. PICK i \in Nat : i = Stamp(u, w)
    BY <2>3
  <2>5. i <= now
    BY <1>0, <2>2, <2>3, <2>4
  <2> QED BY <2>2, <2>3, <2>4, <2>5
<1>2. p \in Nat /\ p % w = 0
  BY <1>1
<1>3. ASSUME NEW q \in Q
      PROVE  \E u \in Basis(k, s) : q = Stamp(u, w) /\ q \in Nat /\ q % w = 0 /\ q <= u /\ p < q /\ q <= now
  <2>1. PICK u \in Basis(k, s) : q = Stamp(u, w)
    OBVIOUS
  <2>2. q > p
    OBVIOUS
  <2>3. q \in Nat /\ q % w = 0 /\ q <= u /\ q <= now
    BY <1>1, <2>1
  <2> HIDE DEF p, w, Q
  <2>4. p < q
    BY <1>2, <2>2, <2>3
  <2> QED BY <2>1, <2>3, <2>4
<1>4. IsFiniteSet(Q)
  <2>1. Q \in SUBSET (0..now)
    <3> HIDE DEF Q, p, w
    <3> QED BY <1>0, <1>3
  <2> HIDE DEF Q
  <2> QED BY <2>1, UpToNowFinite
<1>5. Cardinality(Q) >= 2
  OBVIOUS
<1> HIDE DEF p, Q
<1>6. PICK x \in Q, y \in Q : x # y
  BY <1>4, <1>5, TwoAfter
<1>7. ASSUME NEW a \in Q, NEW b \in Q, a < b PROVE \E u \in Basis(k, s) : p + 2 * w <= u
  <2>1. /\ a \in Nat /\ a % w = 0 /\ p < a
        /\ b \in Nat /\ b % w = 0
    BY <1>3
  <2>2. PICK u \in Basis(k, s) : b <= u /\ u \in Nat
    BY <1>1, <1>3
  <2> HIDE DEF w
  <2>3. p + w <= a /\ a + w <= b
    BY <1>0, <1>2, <1>7, <2>1, StampsApart
  <2>4. p + 2 * w <= u
    BY <1>0, <1>2, <2>1, <2>2, <2>3
  <2> QED BY <2>4
<1>8. x \in Nat /\ y \in Nat
  BY <1>3
<1>9. \E u \in Basis(k, s) : p + 2 * w <= u
  BY <1>6, <1>7, <1>8
<1> QED BY <1>9 DEF p

\* Every transaction leaves a bin for each period with records that two later ones follow.
LEMMA StoreCatchesUp ==
  ASSUME HolesInv, HolesInv', StoreBins, NEW k \in Kinds, jobs[1].kind = k, NEW s \in jobs[1].srcs,
         NEW t \in Basis(k, s)',
         Cardinality({q \in {Stamp(u, Width(k)) : u \in Basis(k, s)'} : q > Stamp(t, Width(k))}) >= 2
  PROVE  Excused(k, s, Stamp(t, Width(k)))' \/ HasBin(k, s, Stamp(t, Width(k)))'
<1>0. /\ BinsInv /\ BinsTypes /\ BinsTypes' /\ NoHole /\ HoursDated /\ VotesFromFirst
  BY DEF HolesInv, BinsInv
<1>1. PICK ss : ss = jobs[1].srcs
  OBVIOUS
<1>2. Transacts(k, ss) /\ s \in ss
  BY <1>0, <1>1, TransactsIs
<1>3. s \in SourcesOf(table) /\ s \in Sources
  BY <1>2, SourcesOfTable DEF Transacts
<1>4. Basis(k, s)' = Basis(k, s)
  <2>1. \A u \in Basis(k, s)' : u \in Basis(k, s)
    <3>1. k # "day" \/ k # "hour"
      OBVIOUS
    <3> QED BY <1>0, <1>2, <1>3, <3>1, BasisStays
  <2>2. \A u \in Basis(k, s) : u \in Basis(k, s)'
    <3>1. bins \subseteq bins' /\ table' = table /\ Dates' = Dates /\ ticks' = ticks /\ late' = late
      BY <1>2 DEF Transacts
    <3> QED BY <3>1 DEF Basis
  <2> QED BY <2>1, <2>2
<1>5. t \in Basis(k, s)
  BY <1>4
<1>6. Cardinality({q \in {Stamp(u, Width(k)) : u \in Basis(k, s)} : q > Stamp(t, Width(k))}) >= 2
  BY <1>4
<1>7. \E u \in Basis(k, s) : Stamp(t, Width(k)) + 2 * Width(k) <= u
  BY <1>0, <1>3, <1>5, <1>6, TwoPeriods
<1> QED BY <1>0, <1>2, <1>5, <1>7, StoredOrExcused

LEMMA UpdatesCatchUp ==
  ASSUME HolesInv, HolesInv', [BinsNext]_binsVars,
         NEW k \in Kinds, jobs # <<>>, jobs[1].kind = k, errors' = errors, ~(UNCHANGED binsVars),
         NEW s \in jobs[1].srcs, NEW t \in Basis(k, s)',
         Cardinality({q \in {Stamp(u, Width(k)) : u \in Basis(k, s)'} : q > Stamp(t, Width(k))}) >= 2
  PROVE  Excused(k, s, Stamp(t, Width(k)))' \/ HasBin(k, s, Stamp(t, Width(k)))'
<1>1. errors \in Nat
  BY BinsAssumption DEF HolesInv, BinsInv, BinsTypes, BinsAssumption
<1>2. ~UpdateFails
  BY <1>1 DEF UpdateFails
<1>3. \A u, rs : ~Collect(u, rs)
  BY DEF Collect
<1>4. StoreBins
  BY <1>2, <1>3 DEF BinsNext
<1> QED BY <1>4, StoreCatchesUp

\* No transaction of an update leaves out a period that two later ones with
\* records follow: every chart's bins stay at most the two newest periods behind
\* the records, but for the excuses that are named.
THEOREM BinsCatchUp == BinsSpec => CaughtUp
<1>1. ASSUME HolesInv, HolesInv', [BinsNext]_binsVars, ~(UNCHANGED binsVars)
      PROVE  UpdateCatchesUp
  <2> SUFFICES ASSUME NEW k \in Kinds, jobs # <<>>, jobs[1].kind = k, errors' = errors,
                      NEW s \in jobs[1].srcs, NEW t \in Basis(k, s)',
                      Cardinality({q \in {Stamp(u, Width(k)) : u \in Basis(k, s)'} :
                                     q > Stamp(t, Width(k))}) >= 2
               PROVE  \/ Excused(k, s, Stamp(t, Width(k)))'
                      \/ \E b \in bins' : Key(b) = <<k, s, Stamp(t, Width(k))>>
    BY DEF UpdateCatchesUp, Kinds
  <2>1. Excused(k, s, Stamp(t, Width(k)))' \/ HasBin(k, s, Stamp(t, Width(k)))'
    BY <1>1, UpdatesCatchUp
  <2> QED BY <2>1 DEF HasBin, Key
<1>2. HolesInv /\ HolesInv' /\ [BinsNext]_binsVars => [UpdateCatchesUp]_binsVars
  BY <1>1
<1> QED BY <1>2, HolesHold, PTL DEF BinsSpec, CaughtUp

-----------------------------------------------------------------------------
(* All of them. *)

\* A step of the stores is a step of one, and for the others none.
LEMMA StepOfAStore ==
  ASSUME [StoresNext]_storesVars
  PROVE  /\ [BinsNext]_binsVars /\ [PropNext]_propVars /\ [TakerNext]_takerVars
         /\ [TicksNext]_ticksVars /\ [RecordsNext]_recordsVars
         /\ [PagesNext]_pagesVars /\ [ChartsNext]_chartsVars
<1>1. CASE UNCHANGED storesVars
  BY <1>1 DEF storesVars
<1>2. CASE StoresNext
  BY <1>2 DEF StoresNext
<1> QED BY <1>1, <1>2

\* Each store behaves as its own specification says, whichever is followed.
THEOREM StoresCompose ==
  StoresSpec => /\ BinsSpec /\ PropSpec /\ TakerSpec /\ TicksSpec /\ RecordsSpec
                /\ PagesSpec /\ ChartsSpec
<1>1. StoresInit => /\ BinsInit /\ PropInit /\ TakerInit /\ TicksInit /\ RecordsInit
                    /\ PagesInit /\ ChartsInit
  BY DEF StoresInit
<1> QED
  BY <1>1, StepOfAStore, PTL
     DEF StoresSpec, BinsSpec, PropSpec, TakerSpec, TicksSpec, RecordsSpec, PagesSpec, ChartsSpec

\* What is proved of one store holds of all of them together.
THEOREM StoresAreSafe ==
  StoresSpec => [](/\ VotesKnowTheirBlock /\ RowsHaveNoGap
                   /\ HeartbeatsCounted /\ NodesCounted /\ ClosedStaysClosed
                   /\ NoConflict /\ WholeBins /\ BlocksBinnedOnce
                   /\ TicksHaveNoGap /\ RecordsKept /\ WalkShowsAll /\ ChartShowsRows)
  BY StoresCompose, VotesLearnTheirBlock, NoBlockLeftOut, HeartbeatsAreCounted, NodesAreCounted,
     ClosedAreClosed, NoBinTwice, BinsAreWhole, BlocksAreBinnedOnce, NoTickLeftOut,
     NoRecordLost, WalksShowAll, ChartsShowRows, PTL

\* The tables and the running loops of all of them together have their types: among others a
\* bin starts on its period, a ticket index never exceeds the votes, a heartbeat names a node.
THEOREM StoresTypeCorrect == StoresSpec => []StoresTypeOK
<1>1. BinsTypeOK /\ PropTypeOK /\ TakerTypeOK /\ TicksTypeOK /\ RecordsTypeOK /\ PagesTypeOK
        /\ ChartsTypeOK => StoresTypeOK
  BY DEF StoresTypeOK
<1> QED
  BY <1>1, StoresCompose, BinsTypeCorrect, PropTypeCorrect, TakerTypeCorrect, TicksTypeCorrect,
     RecordsTypeCorrect, PagesTypeCorrect, ChartsTypeCorrect, PTL

\* Updates of the bins catch up whatever the other stores do between them.
THEOREM StoresCatchUp == StoresSpec => CaughtUp
  BY StoresCompose, BinsCatchUp, PTL
=============================================================================
