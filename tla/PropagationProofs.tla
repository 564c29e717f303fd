--------------------------- MODULE PropagationProofs ---------------------------
(***************************************************************************)
(* Blocks, votes, the bins of the blocks and the rows compared with the    *)
(* peers, for every number of them and any number of errors, overlapping   *)
(* handlers and reboots.  The lemmas on how records are grouped serve the  *)
(* time bins too (module StoresProofs).                                    *)
(***************************************************************************)
EXTENDS Propagation, FiniteSetTheorems, SequenceTheorems, WellFoundedInduction, TLAPS

-----------------------------------------------------------------------------
(* How records are grouped. *)

\* What Close computes of R, where f is Close itself.
PastEnd(R, date, w) == {i \in R : date[i] >= Stamp(date[Min(R)], w) + w}
LeftOver(R, date, w) == {i \in R : i >= Min(PastEnd(R, date, w))}
FirstGroup(R, date, w) ==
  [time |-> Stamp(date[Min(R)], w), of |-> R \ LeftOver(R, date, w), next |-> Min(PastEnd(R, date, w))]
Closed(R, f, date, w, end) ==
  IF PastEnd(R, date, w) = {} THEN {}
  ELSE {FirstGroup(R, date, w)}
         \cup (IF date[Min(PastEnd(R, date, w))] > end THEN {} ELSE f[LeftOver(R, date, w)])

LastStamp(S, date, w) == Stamp(date[Max(S)], w)

LEMMA GroupsAre ==
  ASSUME NEW S, NEW date, NEW w
  PROVE  GenerateBin(S, date, w) =
           IF S # {} /\ LastStamp(S, date, w) > Stamp(date[Min(S)], w) + w
           THEN (CHOOSE f : f = [R \in SUBSET S |-> Closed(R, f, date, w, LastStamp(S, date, w))])[S]
           ELSE {}
BY DEF GenerateBin, Closed, LastStamp, FirstGroup, LeftOver, PastEnd
-----------------------------------------------------------------------------
(* Numbers. *)

LEMMA MinIn ==
  ASSUME NEW S \in SUBSET Nat, S # {}
  PROVE  Min(S) \in S /\ \A y \in S : Min(S) <= y
<1>1. PICK x \in S : \A y \in S : ~(<<y, x>> \in OpToRel(<, Nat))
  BY NatLessThanWellFounded, WFMin
<1>2. ASSUME NEW y \in S PROVE x <= y
  <2>1. x \in Nat /\ y \in Nat
    OBVIOUS
  <2>2. ASSUME y < x PROVE FALSE
    <3>1. <<y, x>> \in Nat \X Nat /\ <<y, x>>[1] < <<y, x>>[2]
      BY <2>1, <2>2
    <3> QED BY <1>1, <3>1, Zenon DEF OpToRel
  <2> QED BY <2>1, <2>2
<1> QED BY <1>2 DEF Min

\* Induction: a set of numbers that no number is the first in is empty.
LEMMA NoFirst ==
  ASSUME NEW Bad \in SUBSET Nat, 0 \notin Bad, \A k \in Nat : k + 1 \in Bad => k \in Bad
  PROVE  Bad = {}
<1> SUFFICES ASSUME Bad # {} PROVE FALSE
  OBVIOUS
<1>1. PICK m \in Bad : \A y \in Bad : m <= y
  BY MinIn
<1>2. m # 0 /\ m \in Nat
  OBVIOUS
<1>3. m - 1 \in Nat /\ (m - 1) + 1 = m
  BY <1>2
<1>4. m - 1 \in Bad
  BY <1>3
<1> QED BY <1>1, <1>2, <1>4

LEMMA LargestIn ==
  ASSUME NEW S \in SUBSET Nat, S # {}, NEW N \in Nat, \A i \in S : i <= N
  PROVE  Max(S) \in S /\ \A y \in S : y <= Max(S)
<1> DEFINE Above == {k \in Nat : \A i \in S : i <= k}
<1>1. Above # {} /\ Above \in SUBSET Nat
  OBVIOUS
<1>2. PICK m \in Above : \A k \in Above : m <= k
  BY <1>1, MinIn
<1>3. m \in S
  <2> SUFFICES ASSUME m \notin S PROVE FALSE
    OBVIOUS
  <2>1. PICK s \in S : s <= m
    BY <1>2
  <2>2. m - 1 \in Nat /\ \A i \in S : i <= m - 1
    BY <1>2, <2>1
  <2>3. m - 1 \in Above
    BY <2>2
  <2> QED BY <1>2, <2>3
<1>4. \E x \in S : \A y \in S : x >= y
  BY <1>2, <1>3
<1> QED BY <1>4 DEF Max

\* The stamp of a time is the start of its period.
LEMMA StampOf ==
  ASSUME NEW t \in Nat, NEW w \in Nat \ {0}
  PROVE  /\ Stamp(t, w) \in Nat /\ Stamp(t, w) <= t /\ t < Stamp(t, w) + w
         /\ Stamp(t, w) % w = 0
<1>1. t % w \in 0..(w - 1) /\ t = w * (t \div w) + (t % w) /\ t \div w \in Nat
  OBVIOUS
<1>2. Stamp(t, w) = w * (t \div w)
  BY <1>1 DEF Stamp
<1>3. \A q \in Nat : (w * q) % w = 0 /\ w * q \in Nat
  OBVIOUS
<1>4. Stamp(t, w) % w = 0 /\ Stamp(t, w) \in Nat
  BY <1>1, <1>2, <1>3
<1>5. Stamp(t, w) <= t /\ t < Stamp(t, w) + w
  BY <1>1 DEF Stamp
<1> QED BY <1>4, <1>5

\* Starts of periods are at least a period apart.
LEMMA StampsApart ==
  ASSUME NEW w \in Nat \ {0}, NEW p \in Nat, NEW q \in Nat, p % w = 0, q % w = 0, p < q
  PROVE  p + w <= q
<1>1. PICK j \in Nat, k \in Nat : p = w * j /\ q = w * k
  <2>1. p = w * (p \div w) /\ q = w * (q \div w) /\ p \div w \in Nat /\ q \div w \in Nat
    OBVIOUS
  <2> QED BY <2>1
<1>2. j < k
  <2> SUFFICES ASSUME k <= j PROVE FALSE
    OBVIOUS
  <2>1. PICK d \in Nat : j = k + d
    <3>1. j - k \in Nat /\ j = k + (j - k)
      OBVIOUS
    <3> QED BY <3>1
  <2>2. w * j = w * k + w * d /\ w * d \in Nat /\ w * k \in Nat
    BY <2>1
  <2> QED BY <1>1, <2>2
<1>3. PICK d \in Nat : k = (j + 1) + d
  <2>1. k - (j + 1) \in Nat /\ k = (j + 1) + (k - (j + 1))
    BY <1>2
  <2> QED BY <2>1
<1>4. w * k = (w * j + w) + w * d /\ w * d \in Nat /\ w * j \in Nat
  BY <1>3
<1> QED BY <1>1, <1>4

LEMMA NextStart ==
  ASSUME NEW w \in Nat \ {0}, NEW p \in Nat, p % w = 0
  PROVE  (p + w) % w = 0
<1>1. p = w * (p \div w) /\ p \div w \in Nat
  OBVIOUS
<1>2. PICK q \in Nat : p = w * q
  BY <1>1
<1>3. p + w = w * (q + 1) /\ q + 1 \in Nat
  BY <1>2
<1>4. \A n \in Nat : (w * n) % w = 0
  OBVIOUS
<1> QED BY <1>3, <1>4

LEMMA StampIs ==
  ASSUME NEW w \in Nat \ {0}, NEW p \in Nat, p % w = 0, NEW t \in Nat, p <= t, t < p + w
  PROVE  Stamp(t, w) = p
<1>1. /\ Stamp(t, w) \in Nat /\ Stamp(t, w) <= t /\ t < Stamp(t, w) + w
      /\ Stamp(t, w) % w = 0
  BY StampOf
<1>2. ~(p < Stamp(t, w)) /\ ~(Stamp(t, w) < p)
  BY <1>1, StampsApart
<1> QED BY <1>1, <1>2

LEMMA StampAfter ==
  ASSUME NEW w \in Nat \ {0}, NEW p \in Nat, p % w = 0, NEW t \in Nat, p <= t
  PROVE  p <= Stamp(t, w)
<1>1. /\ Stamp(t, w) \in Nat /\ Stamp(t, w) <= t /\ t < Stamp(t, w) + w
      /\ Stamp(t, w) % w = 0
  BY StampOf
<1>2. ~(Stamp(t, w) < p)
  BY <1>1, StampsApart
<1> QED BY <1>1, <1>2
-----------------------------------------------------------------------------
(* Groups. *)

LEMMA PastIn ==
  ASSUME NEW N \in Nat, NEW R \in SUBSET (0..N), R # {}, NEW date, NEW w
  PROVE  /\ Min(R) \in R /\ \A i \in R : Min(R) <= i
         /\ PastEnd(R, date, w) # {} => /\ Min(PastEnd(R, date, w)) \in PastEnd(R, date, w)
                                     /\ \A i \in PastEnd(R, date, w) : Min(PastEnd(R, date, w)) <= i
<1>1. \A i \in 0..N : i \in Nat
  OBVIOUS
<1>2. R \in SUBSET Nat
  BY <1>1
<1>3. PastEnd(R, date, w) \in SUBSET Nat
  BY <1>2 DEF PastEnd
<1> QED BY <1>2, <1>3, MinIn

\* What follows the first group begins later.
LEMMA RestLater ==
  ASSUME NEW N \in Nat, NEW R \in SUBSET (0..N), R # {}, NEW date, \A i \in R : date[i] \in Nat,
         NEW w \in Nat \ {0}, PastEnd(R, date, w) # {}
  PROVE  /\ LeftOver(R, date, w) \subseteq R /\ Min(PastEnd(R, date, w)) \in LeftOver(R, date, w)
         /\ Min(R) < Min(PastEnd(R, date, w)) /\ \A i \in LeftOver(R, date, w) : Min(R) < i
<1> DEFINE n == Min(PastEnd(R, date, w))
           first == Min(R)
<1>1. first \in R /\ (\A i \in R : first <= i) /\ n \in PastEnd(R, date, w)
  BY PastIn
<1>2. n \in R /\ date[n] >= Stamp(date[first], w) + w
  BY <1>1 DEF PastEnd
<1>3. date[first] \in Nat /\ date[first] < Stamp(date[first], w) + w /\ Stamp(date[first], w) \in Nat
  BY <1>1, StampOf
<1>4. first # n
  BY <1>2, <1>3
<1>0. \A i \in R : i \in Nat
  <2>1. \A i \in 0..N : i \in Nat
    OBVIOUS
  <2> QED BY <2>1
<1>5. first \in Nat /\ n \in Nat /\ first <= n
  BY <1>0, <1>1, <1>2
<1>6. first < n
  BY <1>4, <1>5
<1>7. \A i \in LeftOver(R, date, w) : i \in R /\ n <= i
  BY DEF LeftOver
<1>8. ASSUME NEW i \in LeftOver(R, date, w) PROVE first < i
  <2>1. i \in Nat /\ n <= i
    BY <1>0, <1>7
  <2> HIDE DEF first, n
  <2> QED BY <1>5, <1>6, <2>1
<1>9. n \in LeftOver(R, date, w)
  BY <1>2, <1>5 DEF LeftOver
<1> QED BY <1>6, <1>7, <1>8, <1>9

LEMMA ClosedLooksAtRest ==
  ASSUME NEW R, NEW f, NEW g, NEW date, NEW w, NEW end,
         PastEnd(R, date, w) # {} => f[LeftOver(R, date, w)] = g[LeftOver(R, date, w)]
  PROVE  Closed(R, f, date, w, end) = Closed(R, g, date, w, end)
BY DEF Closed

LEMMA CloseExists ==
  ASSUME NEW N \in Nat, NEW S \in SUBSET (0..N), NEW date, \A i \in S : date[i] \in Nat,
         NEW w \in Nat \ {0}, NEW end
  PROVE  \E f : f = [R \in SUBSET S |-> Closed(R, f, date, w, end)]
<1> DEFINE High(R, k) == \A i \in R : i + k > N
           Known(k, f) == \A R \in SUBSET S : High(R, k) => f[R] = Closed(R, f, date, w, end)
           Bad == {k \in Nat : ~\E f : Known(k, f)}
<1>1. 0 \notin Bad
  <2>1. \A R \in SUBSET S : High(R, 0) => R = {}
    OBVIOUS
  <2>2. \A f : Closed({}, f, date, w, end) = {}
    BY DEF Closed, PastEnd
  <2>3. Known(0, [R \in SUBSET S |-> {}])
    BY <2>1, <2>2
  <2> QED BY <2>3
<1>2. ASSUME NEW k \in Nat, k \notin Bad PROVE k + 1 \notin Bad
  <2>1. PICK f : Known(k, f)
    BY <1>2
  <2> DEFINE g == [R \in SUBSET S |-> IF High(R, k) THEN f[R] ELSE Closed(R, f, date, w, end)]
  <2>2. ASSUME NEW R \in SUBSET S, High(R, k + 1) PROVE g[R] = Closed(R, g, date, w, end)
    <3>1. PastEnd(R, date, w) # {} => f[LeftOver(R, date, w)] = g[LeftOver(R, date, w)]
      <4> SUFFICES ASSUME PastEnd(R, date, w) # {} PROVE f[LeftOver(R, date, w)] = g[LeftOver(R, date, w)]
        OBVIOUS
      <4>1. R # {} /\ R \in SUBSET (0..N) /\ \A i \in R : date[i] \in Nat
        BY DEF PastEnd
      <4>2. /\ LeftOver(R, date, w) \subseteq R /\ \A i \in LeftOver(R, date, w) : Min(R) < i
        BY <4>1, RestLater
      <4>3. Min(R) \in R
        BY <4>1, PastIn
      <4>6. \A i \in R : i \in Nat
        <5>1. \A i \in 0..N : i \in Nat
          OBVIOUS
        <5> QED BY <4>1, <5>1
      <4>4. Min(R) + (k + 1) > N /\ Min(R) \in Nat
        BY <2>2, <4>3, <4>6
      <4>7. ASSUME NEW i \in LeftOver(R, date, w) PROVE i + k > N
        <5>1. i \in Nat /\ Min(R) < i
          BY <4>2, <4>6
        <5> QED BY <4>4, <5>1
      <4>5. High(LeftOver(R, date, w), k)
        BY <4>7
      <4> QED BY <4>2, <4>5
    <3>2. Closed(R, f, date, w, end) = Closed(R, g, date, w, end)
      BY <3>1, ClosedLooksAtRest
    <3>3. g[R] = Closed(R, f, date, w, end)
      BY <2>1
    <3> QED BY <3>2, <3>3
  <2>3. Known(k + 1, g)
    BY <2>2
  <2> QED BY <2>3
<1>3. Bad = {}
  <2>1. Bad \in SUBSET Nat
    OBVIOUS
  <2>2. \A k \in Nat : k + 1 \in Bad => k \in Bad
    BY <1>2
  <2> HIDE DEF Bad
  <2> QED BY <1>1, <2>1, <2>2, NoFirst
<1>4. PICK f : Known(N + 1, f)
  <2>1. N + 1 \in Nat /\ N + 1 \notin Bad
    BY <1>3
  <2> QED BY <2>1
<1> DEFINE g == [R \in SUBSET S |-> f[R]]
<1>5. ASSUME NEW R \in SUBSET S PROVE f[R] = Closed(R, g, date, w, end)
  <2>1. High(R, N + 1)
    OBVIOUS
  <2>2. LeftOver(R, date, w) \in SUBSET S
    BY DEF LeftOver
  <2>3. Closed(R, f, date, w, end) = Closed(R, g, date, w, end)
    BY <2>2, ClosedLooksAtRest
  <2> QED BY <1>4, <2>1, <2>3
<1>6. g = [R \in SUBSET S |-> Closed(R, g, date, w, end)]
  BY <1>5
<1> QED BY <1>6

\* A group is a run of the records, closed by the first record past its end.
GroupOK(g, R, date, w) ==
  /\ g.of \subseteq R /\ g.next \in R /\ date[g.next] >= g.time + w
  /\ \A i \in g.of : date[i] < g.time + w
  /\ \E m \in g.of : g.time = Stamp(date[m], w) /\ \A i \in R : i \in g.of <=> (m <= i /\ i < g.next)

Covered(i, G) == \E h \in G : i \in h.of

\* Groups follow each other and leave out nothing but the last records.
GroupsOK(G, R, date, w) ==
  /\ \A g \in G : GroupOK(g, R, date, w)
  /\ \A g \in G, i \in R : i < g.next => Covered(i, G)
  /\ \A g, h \in G : g # h => (\A j \in h.of : g.next <= j) \/ (\A j \in g.of : h.next <= j)

Ordered(R, date) == \A i, j \in R : i < j => date[i] <= date[j]

\* Where times grow, everything before the last period is in a group.
Complete(G, R, date, end) == Ordered(R, date) => \A i \in R : date[i] < end => Covered(i, G)

LEMMA FirstOK ==
  ASSUME NEW N \in Nat, NEW R \in SUBSET (0..N), R # {}, NEW date, \A i \in R : date[i] \in Nat,
         NEW w \in Nat \ {0}, PastEnd(R, date, w) # {}
  PROVE  GroupOK(FirstGroup(R, date, w), R, date, w)
<1> DEFINE n == Min(PastEnd(R, date, w))
           m == Min(R)
           g == FirstGroup(R, date, w)
<1>1. /\ m \in R /\ \A i \in R : m <= i
      /\ n \in PastEnd(R, date, w) /\ \A i \in PastEnd(R, date, w) : n <= i
  BY PastIn
<1>2. n \in R /\ date[n] >= Stamp(date[m], w) + w
  BY <1>1 DEF PastEnd
<1>3. m < n
  BY RestLater
<1>4. g.time = Stamp(date[m], w) /\ g.of = R \ LeftOver(R, date, w) /\ g.next = n
  BY DEF FirstGroup
<1>5. R \in SUBSET Nat /\ m \in Nat /\ n \in Nat
  <2>1. \A i \in 0..N : i \in Nat
    OBVIOUS
  <2>2. R \in SUBSET Nat
    BY <2>1
  <2> QED BY <1>1, <1>2, <2>2
<1> HIDE DEF n, m, g
<1>6. \A i \in R : i \in g.of <=> i < n
  BY <1>4, <1>5 DEF LeftOver, n
<1>7. ASSUME NEW i \in g.of PROVE date[i] < g.time + w
  <2>1. i \in R /\ i < n
    BY <1>4, <1>6
  <2>2. i \notin PastEnd(R, date, w)
    BY <1>1, <1>5, <2>1
  <2>3. Stamp(date[m], w) \in Nat
    BY <1>1, StampOf
  <2>4. ~(date[i] >= Stamp(date[m], w) + w)
    BY <2>1, <2>2 DEF PastEnd, m
  <2>5. date[i] \in Nat
    BY <2>1
  <2> QED BY <1>4, <2>3, <2>4, <2>5
<1>8. m \in g.of /\ \A i \in R : i \in g.of <=> (m <= i /\ i < n)
  BY <1>1, <1>3, <1>6
<1>9. g.of \subseteq R /\ g.next \in R /\ date[g.next] >= g.time + w
  BY <1>2, <1>4
<1>10. GroupOK(g, R, date, w)
  BY <1>4, <1>7, <1>8, <1>9 DEF GroupOK
<1> QED BY <1>10 DEF g
LEMMA ClosedOK ==
  ASSUME NEW N \in Nat, NEW R \in SUBSET (0..N), R # {}, NEW date, \A i \in R : date[i] \in Nat,
         NEW w \in Nat \ {0}, NEW f, NEW end,
         PastEnd(R, date, w) # {} => GroupsOK(f[LeftOver(R, date, w)], LeftOver(R, date, w), date, w)
  PROVE  GroupsOK(Closed(R, f, date, w, end), R, date, w)
<1>1. CASE PastEnd(R, date, w) = {}
  BY <1>1 DEF Closed, GroupsOK
<1>2. CASE PastEnd(R, date, w) # {}
  <2> DEFINE first == FirstGroup(R, date, w)
             rest  == LeftOver(R, date, w)
             n     == Min(PastEnd(R, date, w))
             F     == IF date[n] > end THEN {} ELSE f[rest]
             G     == Closed(R, f, date, w, end)
  <2>1. G = {first} \cup F
    BY <1>2 DEF Closed
  <2>2. GroupsOK(F, rest, date, w)
    <3>1. GroupsOK({}, rest, date, w)
      BY DEF GroupsOK
    <3> QED BY <1>2, <3>1
  <2>3. rest = {i \in R : n <= i}
    <3>1. n \in Nat
      <4>1. \A i \in 0..N : i \in Nat
        OBVIOUS
      <4>2. n \in R
        BY <1>2, PastIn DEF PastEnd
      <4> QED BY <4>1, <4>2
    <3>2. \A i \in R : i \in Nat
      <4>1. \A i \in 0..N : i \in Nat
        OBVIOUS
      <4> QED BY <4>1
    <3>3. \A i \in R : n <= i <=> i >= n
      BY <3>1, <3>2
    <3> QED BY <3>3 DEF LeftOver
  <2>4. GroupOK(first, R, date, w)
    BY <1>2, FirstOK
  <2>5. first.next = n /\ first.of = R \ rest
    BY DEF FirstGroup
  <2>6. \A i \in R : i \in Nat
    <3>1. \A i \in 0..N : i \in Nat
      OBVIOUS
    <3> QED BY <3>1
  <2>7. n \in R /\ n \in Nat
    <3>1. n \in R
      BY <1>2, PastIn DEF PastEnd
    <3> QED BY <2>6, <3>1
  <2> HIDE DEF first, rest, n, F, G
  <2>8. \A i \in R \ rest : i < n
    BY <2>3, <2>6, <2>7
  <2>9. ASSUME NEW g \in F PROVE GroupOK(g, R, date, w)
    <3>1. GroupOK(g, rest, date, w)
      BY <2>2 DEF GroupsOK
    <3>2. PICK m \in g.of : /\ g.time = Stamp(date[m], w)
                            /\ \A i \in rest : i \in g.of <=> (m <= i /\ i < g.next)
      BY <3>1 DEF GroupOK
    <3>3. g.of \subseteq rest /\ m \in rest /\ m \in Nat /\ n <= m
      BY <2>3, <2>6, <3>1, <3>2 DEF GroupOK
    <3>4. ASSUME NEW i \in R \ rest PROVE i \notin g.of /\ ~(m <= i)
      <4>1. i \in Nat /\ i < n
        BY <2>6, <2>8
      <4>2. ~(m <= i)
        BY ONLY <2>7, <3>3, <4>1
      <4> QED BY <3>3, <4>2
    <3>5. \A i \in R : i \in g.of <=> (m <= i /\ i < g.next)
      BY <3>2, <3>4
    <3>6. g.of \subseteq R /\ g.next \in R
      BY <2>3, <3>1 DEF GroupOK
    <3> QED BY <3>1, <3>2, <3>5, <3>6 DEF GroupOK
  <2>10. ASSUME NEW g \in G, NEW i \in R, i < g.next PROVE Covered(i, G)
    <3>1. CASE i \notin rest
      BY <2>1, <2>5, <3>1 DEF Covered
    <3>2. CASE i \in rest /\ g \in F
      <4>1. Covered(i, F)
        BY <2>2, <2>10, <3>2 DEF GroupsOK
      <4> QED BY <2>1, <4>1 DEF Covered
    <3>3. CASE i \in rest /\ g = first
      <4>1. i < n /\ n <= i /\ i \in Nat
        BY <2>3, <2>5, <2>6, <2>10, <3>3
      <4> QED BY <2>7, <4>1
    <3> QED BY <2>1, <3>1, <3>2, <3>3
  <2>11. ASSUME NEW h \in F PROVE \A j \in h.of : first.next <= j
    <3>1. h.of \subseteq rest
      BY <2>2 DEF GroupsOK, GroupOK
    <3> QED BY <2>3, <2>5, <3>1
  <2>12. ASSUME NEW g \in G, NEW h \in G, g # h
         PROVE  (\A j \in h.of : g.next <= j) \/ (\A j \in g.of : h.next <= j)
    <3>1. CASE g \in F /\ h \in F
      BY <2>2, <2>12, <3>1 DEF GroupsOK
    <3>2. CASE g = first /\ h \in F
      BY <2>11, <3>2
    <3>3. CASE g \in F /\ h = first
      BY <2>11, <3>3
    <3> QED BY <2>1, <2>12, <3>1, <3>2, <3>3
  <2>13. GroupsOK(G, R, date, w)
    BY <2>1, <2>4, <2>9, <2>10, <2>12 DEF GroupsOK
  <2> QED BY <2>13 DEF G
<1> QED BY <1>1, <1>2

\* The newest of the records belongs to no period before the end.
Ends(R, date, end) == \E l \in R : end <= date[l] /\ \A i \in R : i <= l

LEMMA ClosedComplete ==
  ASSUME NEW N \in Nat, NEW R \in SUBSET (0..N), R # {}, NEW date, \A i \in R : date[i] \in Nat,
         NEW w \in Nat \ {0}, NEW f, NEW end \in Nat, end % w = 0, Ends(R, date, end),
         PastEnd(R, date, w) # {} /\ Ends(LeftOver(R, date, w), date, end)
           => Complete(f[LeftOver(R, date, w)], LeftOver(R, date, w), date, end)
  PROVE  Complete(Closed(R, f, date, w, end), R, date, end)
<1> DEFINE first == FirstGroup(R, date, w)
           rest  == LeftOver(R, date, w)
           n     == Min(PastEnd(R, date, w))
           m     == Min(R)
           G     == Closed(R, f, date, w, end)
<1> SUFFICES ASSUME Ordered(R, date), NEW i \in R, date[i] < end PROVE Covered(i, G)
  BY DEF Complete
<1>1. \A j \in R : j \in Nat
  <2>1. \A j \in 0..N : j \in Nat
    OBVIOUS
  <2> QED BY <2>1
<1>2. m \in R /\ \A j \in R : m <= j
  BY PastIn
<1>3. PICK l \in R : end <= date[l] /\ \A j \in R : j <= l
  BY DEF Ends
<1>4. CASE PastEnd(R, date, w) = {}
  <2> DEFINE start == Stamp(date[m], w)
  <2>1. start \in Nat /\ start <= date[m] /\ start % w = 0
    BY <1>2, StampOf
  <2>2. date[l] < start + w
    <3>1. l \notin PastEnd(R, date, w)
      BY <1>4
    <3>2. ~(date[l] >= start + w)
      BY <3>1 DEF PastEnd
    <3>3. date[l] \in Nat
      OBVIOUS
    <3> HIDE DEF start
    <3> QED BY <2>1, <3>2, <3>3
  <2>3. date[m] <= date[i]
    <3>1. m \in Nat /\ i \in Nat /\ m <= i
      BY <1>1, <1>2
    <3>2. date[m] \in Nat
      BY <1>2
    <3> HIDE DEF m
    <3>3. CASE m = i
      BY <3>2, <3>3
    <3>4. CASE m < i
      BY <1>2, <3>4 DEF Ordered
    <3> QED BY <3>1, <3>3, <3>4
  <2>4. ~(start < end)
    <3> HIDE DEF start
    <3>1. start < end => start + w <= end
      BY <2>1, StampsApart
    <3> QED BY <1>3, <2>1, <2>2, <3>1
  <2>5. date[i] \in Nat /\ date[m] \in Nat
    BY <1>2
  <2> HIDE DEF start, m
  <2> QED BY <2>1, <2>3, <2>4, <2>5
<1>5. CASE PastEnd(R, date, w) # {}
  <2>1. first \in G /\ first.of = R \ rest
    BY <1>5 DEF Closed, FirstGroup
  <2>2. n \in rest /\ rest \subseteq R
    BY <1>5, RestLater
  <2>3. CASE i \notin rest
    BY <2>1, <2>3 DEF Covered
  <2>4. CASE i \in rest
    <3>1. n = i \/ n < i
      <4>1. i >= n
        BY <2>4 DEF LeftOver
      <4>2. n \in Nat /\ i \in Nat
        BY <1>1, <2>2
      <4> HIDE DEF n
      <4> QED BY <4>1, <4>2
    <3>2. date[n] <= date[i] /\ date[n] \in Nat
      <4>1. date[n] \in Nat /\ n \in R
        BY <2>2
      <4> HIDE DEF n
      <4>2. CASE n = i
        BY <4>1, <4>2
      <4>3. CASE n < i
        BY <4>1, <4>3 DEF Ordered
      <4> QED BY <3>1, <4>1, <4>2, <4>3
    <3>3. ~(date[n] > end)
      BY <3>2
    <3>4. f[rest] \subseteq G
      BY <1>5, <3>3 DEF Closed
    <3>5. l \in rest
      <4>1. n <= l /\ n \in Nat /\ l \in Nat
        BY <1>1, <1>3, <2>2
      <4>2. l >= n
        BY <4>1
      <4> QED BY <4>2 DEF LeftOver
    <3>6. Ends(rest, date, end)
      BY <1>3, <2>2, <3>5 DEF Ends
    <3>7. Complete(f[rest], rest, date, end)
      BY <1>5, <3>6
    <3>8. Ordered(rest, date)
      BY <2>2 DEF Ordered
    <3>9. Covered(i, f[rest])
      BY <2>4, <3>7, <3>8 DEF Complete
    <3> QED BY <3>4, <3>9 DEF Covered
  <2> QED BY <2>3, <2>4
<1> QED BY <1>4, <1>5

LEMMA CloseOK ==
  ASSUME NEW N \in Nat, NEW S \in SUBSET (0..N), S # {}, NEW date, \A i \in S : date[i] \in Nat,
         NEW w \in Nat \ {0}, NEW end \in Nat, end % w = 0,
         NEW f, f = [R \in SUBSET S |-> Closed(R, f, date, w, end)]
  PROVE  GroupsOK(f[S], S, date, w) /\ (Ends(S, date, end) => Complete(f[S], S, date, end))
<1> DEFINE High(R, k) == \A i \in R : i + k > N
           OK(R) == /\ GroupsOK(f[R], R, date, w)
                    /\ Ends(R, date, end) => Complete(f[R], R, date, end)
           Bad == {k \in Nat : \E R \in SUBSET S : R # {} /\ High(R, k) /\ ~OK(R)}
<1>1. 0 \notin Bad
  <2>1. \A R \in SUBSET S : High(R, 0) => R = {}
    OBVIOUS
  <2> HIDE DEF High, OK
  <2> QED BY <2>1
<1>2. ASSUME NEW k \in Nat, k \notin Bad PROVE k + 1 \notin Bad
  <2> SUFFICES ASSUME NEW R \in SUBSET S, R # {}, High(R, k + 1) PROVE OK(R)
    OBVIOUS
  <2> DEFINE rest == LeftOver(R, date, w)
  <2>1. R \in SUBSET (0..N) /\ \A i \in R : date[i] \in Nat
    OBVIOUS
  <2>2. ASSUME PastEnd(R, date, w) # {} PROVE OK(rest)
    <3>1. /\ rest \subseteq R /\ Min(PastEnd(R, date, w)) \in rest
          /\ \A i \in rest : Min(R) < i
      BY <2>1, <2>2, RestLater
    <3>2. Min(R) \in R
      BY <2>1, PastIn
    <3>3. \A i \in R : i \in Nat
      <4>1. \A i \in 0..N : i \in Nat
        OBVIOUS
      <4> QED BY <2>1, <4>1
    <3>4. Min(R) + (k + 1) > N /\ Min(R) \in Nat
      BY <3>2, <3>3
    <3>5. ASSUME NEW i \in rest PROVE i + k > N
      <4>1. i \in Nat /\ Min(R) < i
        BY <3>1, <3>3
      <4> QED BY <3>4, <4>1
    <3>6. rest \in SUBSET S /\ rest # {} /\ High(rest, k)
      BY <3>1, <3>5
    <3> HIDE DEF rest, OK, High
    <3> QED BY <1>2, <3>6
  <2>3. f[R] = Closed(R, f, date, w, end)
    OBVIOUS
  <2>4. GroupsOK(f[R], R, date, w)
    BY <2>1, <2>2, <2>3, ClosedOK
  <2>5. Ends(R, date, end) => Complete(f[R], R, date, end)
    BY <2>1, <2>2, <2>3, ClosedComplete
  <2> QED BY <2>4, <2>5
<1>3. Bad = {}
  <2>1. Bad \in SUBSET Nat
    OBVIOUS
  <2>2. \A k \in Nat : k + 1 \in Bad => k \in Bad
    BY <1>2
  <2> HIDE DEF Bad
  <2> QED BY <1>1, <2>1, <2>2, NoFirst
<1>4. N + 1 \in Nat /\ N + 1 \notin Bad
  <2> HIDE DEF Bad
  <2> QED BY <1>3
<1>5. High(S, N + 1)
  OBVIOUS
<1>6. S \in SUBSET S
  OBVIOUS
<1>7. OK(S)
  <2> HIDE DEF OK, High
  <2> QED BY <1>4, <1>5, <1>6
<1> QED BY <1>7
\* What GenerateHourBin and GenerateDayBin make of any records.
LEMMA GenerateBinOK ==
  ASSUME NEW N \in Nat, NEW S \in SUBSET (0..N), NEW date, \A i \in S : date[i] \in Nat,
         NEW w \in Nat \ {0}
  PROVE  /\ GroupsOK(GenerateBin(S, date, w), S, date, w)
         /\ S # {} /\ LastStamp(S, date, w) > Stamp(date[Min(S)], w) + w =>
              Complete(GenerateBin(S, date, w), S, date, LastStamp(S, date, w))
<1> DEFINE end == LastStamp(S, date, w)
           long == S # {} /\ LastStamp(S, date, w) > Stamp(date[Min(S)], w) + w
           G == GenerateBin(S, date, w)
<1>1. GroupsOK({}, S, date, w)
  BY DEF GroupsOK
<1>2. CASE ~long
  <2>1. G = {}
    BY <1>2, GroupsAre
  <2> QED BY <1>1, <1>2, <2>1
<1>3. CASE long
  <2>1. S \in SUBSET Nat /\ \A i \in S : i <= N
    <3>1. \A i \in 0..N : i \in Nat /\ i <= N
      OBVIOUS
    <3> QED BY <3>1
  <2>2. Max(S) \in S /\ \A i \in S : i <= Max(S)
    BY <1>3, <2>1, LargestIn
  <2>3. end \in Nat /\ end % w = 0 /\ end <= date[Max(S)]
    BY <2>2, StampOf DEF LastStamp
  <2>4. Ends(S, date, end)
    BY <2>2, <2>3 DEF Ends
  <2> HIDE DEF end
  <2> DEFINE Close == CHOOSE f : f = [R \in SUBSET S |-> Closed(R, f, date, w, end)]
  <2>5. Close = [R \in SUBSET S |-> Closed(R, Close, date, w, end)]
    BY CloseExists
  <2>6. G = Close[S]
    BY <1>3, GroupsAre DEF end
  <2> HIDE DEF Close, G
  <2>7. S # {}
    BY <1>3
  <2>8. GroupsOK(Close[S], S, date, w) /\ Complete(Close[S], S, date, end)
    BY <2>3, <2>4, <2>5, <2>7, CloseOK
  <2>9. GroupsOK(G, S, date, w) /\ Complete(G, S, date, end)
    BY <2>6, <2>8
  <2> QED BY <2>9 DEF G, end
<1> QED BY <1>2, <1>3

\* The groups of times.
TimeGroups(T, w) == GenerateBin(T, [t \in T |-> t], w)

\* A group is what has its stamp, and of what is older than its end there are groups, too.
GroupOfTimes(g, T, w) ==
  /\ g.time \in Nat /\ g.time % w = 0 /\ g.of = {t \in T : Stamp(t, w) = g.time}
  /\ g.of # {} /\ g.next \in T /\ g.time + w <= g.next
  /\ \A t \in T : t < g.next => \E h \in TimeGroups(T, w) : h.time = Stamp(t, w)

LEMMA TimesGrouped ==
  ASSUME NEW N \in Nat, NEW T \in SUBSET (0..N), NEW w \in Nat \ {0}
  PROVE  \A g \in TimeGroups(T, w) : GroupOfTimes(g, T, w)
<1> DEFINE date == [t \in T |-> t]
           G == TimeGroups(T, w)
<1>0. \A t \in T : t \in Nat
  <2>1. \A i \in 0..N : i \in Nat
    OBVIOUS
  <2> QED BY <2>1
<1>1. \A t \in T : date[t] = t /\ date[t] \in Nat
  BY <1>0
<1>2. GroupsOK(G, T, date, w)
  <2> HIDE DEF date
  <2> QED BY <1>1, GenerateBinOK DEF TimeGroups, date
<1> HIDE DEF date, G
<1>3. ASSUME NEW g \in G
      PROVE  /\ g.time \in Nat /\ g.time % w = 0 /\ g.of # {} /\ g.of \subseteq T
             /\ g.next \in T /\ g.time + w <= g.next
             /\ \A t \in g.of : t < g.time + w /\ g.time <= t /\ Stamp(t, w) = g.time
  <2>1. GroupOK(g, T, date, w)
    BY <1>2 DEF GroupsOK
  <2>2. PICK m \in g.of : /\ g.time = Stamp(date[m], w)
                          /\ \A i \in T : i \in g.of <=> (m <= i /\ i < g.next)
    BY <2>1 DEF GroupOK
  <2>3. g.of \subseteq T /\ g.next \in T /\ date[g.next] >= g.time + w /\ \A i \in g.of : date[i] < g.time + w
    BY <2>1 DEF GroupOK
  <2>4. m \in Nat /\ date[m] = m /\ date[g.next] = g.next /\ g.next \in Nat
    BY <1>0, <1>1, <2>2, <2>3
  <2>5. g.time \in Nat /\ g.time <= m /\ g.time % w = 0
    BY <2>2, <2>4, StampOf
  <2>6. g.time + w <= g.next
    BY <2>3, <2>4, <2>5
  <2>7. ASSUME NEW t \in g.of PROVE t < g.time + w /\ g.time <= t /\ Stamp(t, w) = g.time
    <3>1. t \in T /\ t \in Nat /\ date[t] = t
      BY <1>0, <1>1, <2>3
    <3>2. t < g.time + w /\ m <= t
      BY <2>2, <2>3, <3>1
    <3>3. g.time <= t
      BY <2>4, <2>5, <3>1, <3>2
    <3> QED BY <2>5, <3>1, <3>2, <3>3, StampIs
  <2> QED BY <2>2, <2>3, <2>5, <2>6, <2>7
<1>4. ASSUME NEW g \in G, NEW t \in T, t < g.next PROVE \E h \in G : t \in h.of
  BY <1>2, <1>4 DEF GroupsOK, Covered
<1>5. ASSUME NEW g \in G, NEW t \in T, Stamp(t, w) = g.time PROVE t \in g.of
  <2>1. t \in Nat /\ t < g.time + w
    BY <1>0, <1>5, StampOf
  <2>2. t < g.next
    <3>1. g.next \in Nat /\ g.time \in Nat /\ g.time + w <= g.next
      BY <1>0, <1>3
    <3> QED BY <2>1, <3>1
  <2>3. PICK h \in G : t \in h.of
    BY <1>4, <2>2
  <2>4. CASE h = g
    BY <2>3, <2>4
  <2>5. CASE h # g
    <3>1. (\A j \in h.of : g.next <= j) \/ (\A j \in g.of : h.next <= j)
      BY <1>2, <2>5 DEF GroupsOK
    <3>2. ~(\A j \in h.of : g.next <= j)
      <4>1. g.next \in Nat
        BY <1>0, <1>3
      <4> QED BY <2>1, <2>2, <2>3, <4>1
    <3>3. h.time = g.time
      BY <1>3, <1>5, <2>3
    <3>4. PICK j \in g.of : TRUE
      BY <1>3
    <3>5. /\ h.next \in Nat /\ h.time + w <= h.next /\ j \in Nat /\ j < g.time + w
          /\ h.next <= j /\ g.time \in Nat
      BY <1>0, <1>3, <3>1, <3>2, <3>4
    <3> QED BY <3>3, <3>5
  <2> QED BY <2>4, <2>5
<1>6. ASSUME NEW g \in G PROVE g.of = {t \in T : Stamp(t, w) = g.time}
  BY <1>3, <1>5
<1>7. ASSUME NEW g \in G, NEW t \in T, t < g.next PROVE \E h \in G : h.time = Stamp(t, w)
  BY <1>3, <1>4, <1>7
<1>8. \A g \in G :
           /\ g.time \in Nat /\ g.time % w = 0 /\ g.of = {t \in T : Stamp(t, w) = g.time}
           /\ g.of # {} /\ g.next \in T /\ g.time + w <= g.next
           /\ \A t \in T : t < g.next => \E h \in G : h.time = Stamp(t, w)
  BY <1>3, <1>6, <1>7
<1> QED BY <1>8 DEF G, GroupOfTimes

-----------------------------------------------------------------------------
(* The bins of the blocks: what one page, and what all pages of an update add. *)

Kinds == {"hour", "day"}

LEMMA WidthIs == \A k \in Kinds : Width(k) \in Nat \ {0}
BY GroupsAssumption DEF GroupsAssumption, Width, Kinds

BlocksOK == chain \in Seq(BlockTimes) /\ blocks \subseteq 1..Height

LEMMA BlocksAre ==
  ASSUME BlocksOK
  PROVE  /\ Height \in Nat /\ \A h \in blocks : h \in 1..Height /\ h \in Nat /\ chain[h] \in Nat
         /\ blocks \in SUBSET (0..Height) /\ IsFiniteSet(blocks)
<1>1. Height \in Nat
  BY DEF BlocksOK, Height
<1>2. BlockTimes \subseteq Nat
  BY PropagationAssumption DEF PropagationAssumption
<1>3. \A h \in 1..Height : h \in Nat /\ chain[h] \in BlockTimes
  BY <1>1 DEF BlocksOK, Height
<1>4. \A i \in 1..Height : i \in 0..Height
  BY <1>1
<1>5. blocks \in SUBSET (0..Height)
  BY <1>4 DEF BlocksOK
<1>6. IsFiniteSet(0..Height)
  BY <1>1, FS_Interval
<1>7. IsFiniteSet(blocks)
  BY <1>5, <1>6, FS_Subset
<1> QED BY <1>1, <1>2, <1>3, <1>5, <1>7 DEF BlocksOK

(* Pages of blocks. *)

Above(from) == {h \in blocks : h > from}
BlockPage(from) == Page(Above(from), PageSize)

LEMMA BlockPageIs ==
  ASSUME BlocksOK, NEW from \in Nat
  PROVE  /\ BlockPage(from) \subseteq Above(from)
         /\ IsFiniteSet(BlockPage(from)) /\ IsFiniteSet(Above(from))
         /\ \A h \in Above(from), g \in BlockPage(from) : h <= g => h \in BlockPage(from)
         /\ Above(from) # {} => BlockPage(from) # {}
<1> DEFINE S == Above(from)
           Under(h) == {g \in S : g < h}
<1>1. IsFiniteSet(S) /\ S \in SUBSET Nat
  <2>1. S \subseteq blocks
    BY DEF Above
  <2>2. IsFiniteSet(S)
    BY <2>1, BlocksAre, FS_Subset
  <2> QED BY <2>1, <2>2, BlocksAre
<1>2. PageSize \in Nat \ {0}
  BY PropagationAssumption DEF PropagationAssumption
<1>3. BlockPage(from) = {h \in S : Cardinality(Under(h)) < PageSize}
  BY DEF BlockPage, Page
<1> HIDE DEF S
<1>4. \A h : IsFiniteSet(Under(h)) /\ Cardinality(Under(h)) \in Nat
  <2> SUFFICES ASSUME NEW h PROVE IsFiniteSet(Under(h)) /\ Cardinality(Under(h)) \in Nat
    OBVIOUS
  <2>1. Under(h) \subseteq S
    OBVIOUS
  <2>2. IsFiniteSet(Under(h))
    BY <1>1, <2>1, FS_Subset
  <2> QED BY <2>2, FS_CardinalityType
<1>5. ASSUME NEW h \in S, NEW g \in S, h <= g PROVE Cardinality(Under(h)) <= Cardinality(Under(g))
  <2>0. \A x \in S : x \in Nat
    BY <1>1
  <2>1. \A x \in S : x < h => x < g
    BY <1>5, <2>0
  <2>2. Under(h) \subseteq Under(g)
    BY <2>1
  <2> HIDE DEF Under
  <2> QED BY <1>4, <2>2, FS_Subset
<1>6. ASSUME NEW h \in S, NEW g \in BlockPage(from), h <= g PROVE h \in BlockPage(from)
  <2>1. g \in S /\ Cardinality(Under(g)) < PageSize
    BY <1>3
  <2>2. Cardinality(Under(h)) <= Cardinality(Under(g))
    BY <1>5, <1>6, <2>1
  <2>3. Cardinality(Under(h)) \in Nat /\ Cardinality(Under(g)) \in Nat
    BY <1>4
  <2> HIDE DEF Under
  <2>4. Cardinality(Under(h)) < PageSize
    BY <1>2, <2>1, <2>2, <2>3
  <2> QED BY <1>3, <2>4
<1>7. ASSUME S # {} PROVE BlockPage(from) # {}
  <2>1. Min(S) \in S /\ \A y \in S : Min(S) <= y
    BY <1>1, <1>7, MinIn
  <2>2. PICK m \in S : \A y \in S : m <= y
    BY <2>1
  <2>0. \A y \in S : y \in Nat
    BY <1>1
  <2>3. \A y \in S : ~(y < m)
    BY <2>0, <2>2
  <2>6. Under(m) = {}
    BY <2>3
  <2>4. Cardinality(Under(m)) = 0
    BY <2>6, FS_EmptySet
  <2> HIDE DEF Under
  <2>5. m \in BlockPage(from)
    BY <1>2, <1>3, <2>4
  <2> QED BY <2>5
<1>8. BlockPage(from) \subseteq S
  BY <1>3
<1>9. IsFiniteSet(BlockPage(from))
  BY <1>1, <1>8, FS_Subset
<1> QED BY <1>1, <1>6, <1>7, <1>8, <1>9 DEF S

(* The bins of pages. *)

BlockBinsFrom(k, next, from) ==
  {[kind |-> k, time |-> g.time, height |-> g.next, of |-> g.of] :
     g \in {g \in GenerateBin(BlockPage(from), chain, Width(k)) : g.time >= next}}

\* A bin holds blocks before the one that closes it.
BlockBinOK(b) ==
  /\ b.time \in Nat /\ b.time % Width(b.kind) = 0 /\ b.height \in blocks
  /\ b.of \subseteq {h \in blocks : h < b.height}
  /\ chain[b.height] >= b.time + Width(b.kind)

Alone(B) == \A b, c \in B : b # c => b.of \cap c.of = {} /\ b.height # c.height
Found(h, B) == \E c \in B : h \in c.of \/ h = c.height

\* The bins read of the blocks above a height leave none out that is not too old.
ReadBins(k, next, from, R) ==
  /\ \A b \in R : /\ b.kind = k /\ BlockBinOK(b) /\ b.height > from
                  /\ \A h \in b.of : h > from
  /\ Alone(R)
  /\ (\A h \in Above(from) : chain[h] >= next) =>
       \A b \in R, h \in Above(from) : h < b.height => Found(h, R)

NextOK(k, next) == k \in Kinds /\ next \in Nat /\ next % Width(k) = 0

LEMMA OnePage ==
  ASSUME BlocksOK, NEW k, NEW next, NextOK(k, next), NEW from \in Nat
  PROVE  /\ ReadBins(k, next, from, BlockBinsFrom(k, next, from))
         /\ \A b \in BlockBinsFrom(k, next, from) : b.height \in BlockPage(from)
<1> DEFINE S == BlockPage(from)
           w == Width(k)
           G == GenerateBin(S, chain, w)
           B == BlockBinsFrom(k, next, from)
<1>1. w \in Nat \ {0} /\ next \in Nat /\ next % w = 0
  BY WidthIs DEF NextOK
<1>2. Height \in Nat /\ S \in SUBSET (0..Height) /\ \A h \in S : h \in Nat /\ chain[h] \in Nat /\ h \in blocks /\ h > from
  BY BlockPageIs, BlocksAre DEF Above
<1>3. GroupsOK(G, S, chain, w)
  <2>0. PICK N \in Nat : N = Height
    BY <1>2
  <2>1. PICK T : T = S
    OBVIOUS
  <2>2. T \in SUBSET (0..N) /\ \A i \in T : chain[i] \in Nat
    BY <1>2, <2>0, <2>1
  <2>3. PICK W \in Nat \ {0} : W = w
    BY <1>1
  <2>4. PICK date : date = chain
    OBVIOUS
  <2>5. \A i \in T : date[i] \in Nat
    BY <2>2, <2>4
  <2>6. GroupsOK(GenerateBin(T, date, W), T, date, W)
    BY ONLY <2>2, <2>5, GenerateBinOK
  <2> QED BY <2>1, <2>3, <2>4, <2>6
<1> HIDE DEF G, S
<1>4. \A b \in B : \E g \in G : /\ b = [kind |-> k, time |-> g.time, height |-> g.next, of |-> g.of]
                                /\ g.time >= next
  BY DEF BlockBinsFrom, G, S
<1>5. \A g \in G : g.time >= next => [kind |-> k, time |-> g.time, height |-> g.next, of |-> g.of] \in B
  BY DEF BlockBinsFrom, G, S
<1> HIDE DEF B
<1>6. ASSUME NEW g \in G
      PROVE  /\ g.time \in Nat /\ g.time % w = 0 /\ g.next \in S /\ g.of \subseteq S
             /\ \A i \in g.of : i < g.next
             /\ chain[g.next] >= g.time + w
             /\ (\A h \in Above(from) : chain[h] >= next) => g.time >= next
  <2>1. GroupOK(g, S, chain, w)
    BY <1>3 DEF GroupsOK
  <2>2. PICK m \in g.of : g.time = Stamp(chain[m], w) /\ \A i \in S : i \in g.of <=> (m <= i /\ i < g.next)
    BY <2>1 DEF GroupOK
  <2>3. g.of \subseteq S /\ g.next \in S /\ chain[g.next] >= g.time + w
    BY <2>1 DEF GroupOK
  <2>4. chain[m] \in Nat /\ m \in S
    BY <1>2, <2>2, <2>3
  <2>5. g.time \in Nat /\ g.time % w = 0
    <3>1. PICK t \in Nat : t = chain[m]
      BY <2>4
    <3>2. PICK W \in Nat \ {0} : W = w
      BY <1>1
    <3>3. Stamp(t, W) \in Nat /\ Stamp(t, W) % W = 0
      BY StampOf
    <3> QED BY <2>2, <3>1, <3>2, <3>3
  <2>6. ASSUME \A h \in Above(from) : chain[h] >= next PROVE g.time >= next
    <3>1. m \in Above(from)
      BY <1>2, <2>4 DEF Above
    <3>2. next <= chain[m]
      BY <1>1, <2>4, <2>6, <3>1
    <3>3. next <= Stamp(chain[m], w)
      BY <1>1, <2>4, <3>2, StampAfter
    <3> QED BY <1>1, <2>2, <2>5, <3>3
  <2> QED BY <2>2, <2>3, <2>5, <2>6
<1>7. ASSUME NEW b \in B
      PROVE  b.kind = k /\ BlockBinOK(b) /\ b.height > from /\ b.height \in S /\ \A h \in b.of : h > from
  <2>1. PICK g \in G : b = [kind |-> k, time |-> g.time, height |-> g.next, of |-> g.of]
    BY <1>4
  <2>2. b.kind = k /\ b.time = g.time /\ b.height = g.next /\ b.of = g.of
    BY <2>1
  <2>3. b.of \subseteq {h \in blocks : h < b.height} /\ \A h \in b.of : h > from
    BY <1>2, <1>6, <2>2
  <2> QED BY <1>2, <1>6, <2>2, <2>3 DEF BlockBinOK, w
<1>8. Alone(B)
  <2> SUFFICES ASSUME NEW b \in B, NEW c \in B, b # c PROVE b.of \cap c.of = {} /\ b.height # c.height
    BY DEF Alone
  <2>1. PICK g \in G : b = [kind |-> k, time |-> g.time, height |-> g.next, of |-> g.of]
    BY <1>4
  <2>2. PICK h \in G : c = [kind |-> k, time |-> h.time, height |-> h.next, of |-> h.of]
    BY <1>4
  <2>3. g # h
    BY <2>1, <2>2
  <2>4. (\A j \in h.of : g.next <= j) \/ (\A j \in g.of : h.next <= j)
    BY <1>3, <2>3 DEF GroupsOK
  <2>5. \A x \in G : (\A i \in x.of : i \in Nat /\ i < x.next) /\ x.next \in Nat /\ \E i \in x.of : TRUE
    <3> SUFFICES ASSUME NEW x \in G
                 PROVE  (\A i \in x.of : i \in Nat /\ i < x.next) /\ x.next \in Nat /\ \E i \in x.of : TRUE
      OBVIOUS
    <3>1. GroupOK(x, S, chain, w)
      BY <1>3 DEF GroupsOK
    <3> QED BY <1>2, <1>6, <3>1 DEF GroupOK
  <2>6. g.of \cap h.of = {} /\ g.next # h.next
    BY <2>4, <2>5
  <2> QED BY <2>1, <2>2, <2>6
<1>9. ASSUME \A h \in Above(from) : chain[h] >= next, NEW b \in B, NEW h \in Above(from), h < b.height
      PROVE  Found(h, B)
  <2>1. PICK g \in G : b = [kind |-> k, time |-> g.time, height |-> g.next, of |-> g.of]
    BY <1>4
  <2>2. b.height = g.next /\ g.next \in S
    BY <1>6, <2>1
  <2>3. h \in Nat /\ g.next \in Nat
    BY <1>2, <2>2, BlocksAre DEF Above
  <2>4. h <= g.next
    BY <1>9, <2>2, <2>3
  <2>5. h \in S
    BY <2>2, <2>4, BlockPageIs DEF S
  <2>6. PICK x \in G : h \in x.of
    BY <1>3, <1>9, <2>2, <2>5 DEF GroupsOK, Covered
  <2>7. [kind |-> k, time |-> x.time, height |-> x.next, of |-> x.of] \in B
    BY <1>5, <1>6, <1>9
  <2> QED BY <2>6, <2>7 DEF Found
<1>10. ReadBins(k, next, from, B)
  BY <1>7, <1>8, <1>9 DEF ReadBins
<1> QED BY <1>7, <1>10 DEF B, S

(* From page to page. *)

BlockReads == [from : Nat, processed : Nat]

ReadNext(k, next, read) ==
  [from |-> Max({read.from} \cup {b.height : b \in BlockBinsFrom(k, next, read.from)}),
   processed |-> read.processed + Cardinality(BlockPage(read.from))]

\* What Pages computes of a read, where f is Pages itself.
ReadOn(k, next, total, f, read) ==
  IF read.processed >= total THEN {}
  ELSE BlockBinsFrom(k, next, read.from) \cup f[ReadNext(k, next, read)]

LEMMA ReadNextIs ==
  ASSUME BlocksOK, NEW k, NEW next, NextOK(k, next), NEW read \in BlockReads
  PROVE  /\ ReadNext(k, next, read) \in BlockReads
         /\ read.from <= ReadNext(k, next, read).from
         /\ read.processed <= ReadNext(k, next, read).processed
         /\ \A b \in BlockBinsFrom(k, next, read.from) : b.height <= ReadNext(k, next, read).from
         /\ \/ ReadNext(k, next, read).from = read.from
            \/ \E b \in BlockBinsFrom(k, next, read.from) : b.height = ReadNext(k, next, read).from
         /\ BlockPage(read.from) = {} => /\ BlockBinsFrom(k, next, read.from) = {}
                                         /\ ReadNext(k, next, read) = read
         /\ BlockPage(read.from) # {} => read.processed < ReadNext(k, next, read).processed
         /\ ReadNext(k, next, read).from = read.from \/ ReadNext(k, next, read).from \in BlockPage(read.from)
<1>0. PICK from \in Nat, done \in Nat : from = read.from /\ done = read.processed /\ read = [from |-> from, processed |-> done]
  BY DEF BlockReads
<1> DEFINE B == BlockBinsFrom(k, next, from)
           M == {from} \cup {b.height : b \in B}
           n == Cardinality(BlockPage(from))
<1>1. \A b \in B : b.height \in BlockPage(from)
  BY OnePage
<1>2. Height \in Nat /\ IsFiniteSet(BlockPage(from)) /\ \A h \in BlockPage(from) : h \in Nat /\ h <= Height
  <2>1. Height \in Nat /\ \A h \in blocks : h \in 1..Height
    BY BlocksAre
  <2>2. \A h \in blocks : h \in Nat /\ h <= Height
    BY <2>1
  <2>3. IsFiniteSet(BlockPage(from)) /\ BlockPage(from) \subseteq Above(from)
    BY BlockPageIs
  <2> QED BY <2>1, <2>2, <2>3 DEF Above
<1>3. n \in Nat /\ (BlockPage(from) # {} => n # 0) /\ (BlockPage(from) = {} => n = 0)
  BY <1>2, FS_CardinalityType, FS_EmptySet
<1>4. ReadNext(k, next, read) = [from |-> Max(M), processed |-> done + n]
  BY <1>0 DEF ReadNext
<1> HIDE DEF B, n
<1>5. M \in SUBSET Nat /\ M # {} /\ from + Height \in Nat /\ \A x \in M : x <= from + Height
  BY <1>1, <1>2
<1>6. Max(M) \in M /\ \A x \in M : x <= Max(M)
  <2> HIDE DEF M
  <2> QED BY <1>5, LargestIn
<1>7. Max(M) \in Nat /\ from <= Max(M) /\ (\A b \in B : b.height <= Max(M))
      /\ (Max(M) = from \/ \E b \in B : b.height = Max(M))
  BY <1>5, <1>6
<1>8. BlockPage(from) = {} => B = {} /\ Max(M) = from
  BY <1>1, <1>7
<1> HIDE DEF M
<1>9. PICK m \in Nat, q \in Nat : m = Max(M) /\ q = done + n /\ ReadNext(k, next, read) = [from |-> m, processed |-> q]
  BY <1>3, <1>4, <1>7
<1>10. ReadNext(k, next, read).from = m /\ ReadNext(k, next, read).processed = q
       /\ ReadNext(k, next, read) \in BlockReads
  BY <1>9 DEF BlockReads
<1>11. done <= q /\ (BlockPage(from) # {} => done < q) /\ (BlockPage(from) = {} => q = done)
  BY <1>3, <1>9
<1> QED BY <1>0, <1>1, <1>7, <1>8, <1>9, <1>10, <1>11 DEF B

\* What is left of the blocks: those of the page are done.
LEMMA LeftAfterPage ==
  ASSUME BlocksOK, NEW k, NEW next, NextOK(k, next), NEW read \in BlockReads
  PROVE  Cardinality(Above(read.from)) <=
           Cardinality(BlockPage(read.from)) + Cardinality(Above(ReadNext(k, next, read).from))
<1> DEFINE m == ReadNext(k, next, read).from
<1>1. read.from \in Nat /\ m \in Nat /\ (m = read.from \/ m \in BlockPage(read.from))
  BY ReadNextIs DEF BlockReads
<1> HIDE DEF m
<1>2. /\ IsFiniteSet(BlockPage(read.from)) /\ IsFiniteSet(Above(m)) /\ IsFiniteSet(Above(read.from))
      /\ \A h \in Above(read.from), g \in BlockPage(read.from) : h <= g => h \in BlockPage(read.from)
  BY <1>1, BlockPageIs
<1>3. Above(read.from) \subseteq BlockPage(read.from) \cup Above(m)
  <2> SUFFICES ASSUME NEW h \in Above(read.from), h \notin BlockPage(read.from) PROVE h \in Above(m)
    OBVIOUS
  <2>1. h \in blocks /\ h \in Nat /\ h > read.from
    BY BlocksAre DEF Above
  <2>2. ~(h <= m)
    <3>1. m \in BlockPage(read.from) => ~(h <= m)
      BY <1>2
    <3> QED BY <1>1, <2>1, <3>1
  <2> QED BY <1>1, <2>1, <2>2 DEF Above
<1>4. PICK P, A, L : P = BlockPage(read.from) /\ A = Above(m) /\ L = Above(read.from)
  OBVIOUS
<1>5. IsFiniteSet(P) /\ IsFiniteSet(A) /\ IsFiniteSet(L) /\ L \subseteq P \cup A
  BY <1>2, <1>3, <1>4
<1>6. /\ IsFiniteSet(P \cup A) /\ IsFiniteSet(P \cap A)
      /\ Cardinality(P \cup A) = Cardinality(P) + Cardinality(A) - Cardinality(P \cap A)
  BY ONLY <1>5, FS_Union, FS_Intersection
<1>7. Cardinality(L) <= Cardinality(P \cup A)
  BY ONLY <1>5, <1>6, FS_Subset
<1>8. /\ Cardinality(P) \in Nat /\ Cardinality(A) \in Nat /\ Cardinality(L) \in Nat
      /\ Cardinality(P \cup A) \in Nat /\ Cardinality(P \cap A) \in Nat
  BY ONLY <1>5, <1>6, FS_CardinalityType
<1>9. Cardinality(L) <= Cardinality(P) + Cardinality(A)
  BY ONLY <1>6, <1>7, <1>8
<1> QED BY <1>4, <1>9 DEF m

LEMMA PagesExist ==
  ASSUME BlocksOK, NEW k, NEW next, NextOK(k, next), NEW total \in Nat
  PROVE  \E f : f = [read \in BlockReads |-> ReadOn(k, next, total, f, read)]
<1> DEFINE Next_(read) == ReadNext(k, next, read)
           Known(n, f) == \A read \in BlockReads :
                            read.processed + n >= total => f[read] = ReadOn(k, next, total, f, read)
           Bad == {n \in Nat : ~\E f : Known(n, f)}
<1>0. \A read \in BlockReads : read.processed \in Nat
  BY DEF BlockReads
<1>1. 0 \notin Bad
  <2>1. \A read \in BlockReads : read.processed + 0 >= total => read.processed >= total
    BY <1>0
  <2>2. Known(0, [read \in BlockReads |-> {}])
    BY <2>1 DEF ReadOn
  <2> QED BY <2>2
<1>2. ASSUME NEW n \in Nat, n \notin Bad PROVE n + 1 \notin Bad
  <2>1. PICK f : Known(n, f)
    BY <1>2
  <2> DEFINE g == [read \in BlockReads |->
                     IF read.processed + n >= total THEN f[read]
                     ELSE IF BlockPage(read.from) = {} THEN {} ELSE ReadOn(k, next, total, f, read)]
  <2>2. ASSUME NEW read \in BlockReads, read.processed + (n + 1) >= total
        PROVE  g[read] = ReadOn(k, next, total, g, read)
    <3>1. /\ Next_(read) \in BlockReads /\ read.processed <= Next_(read).processed
          /\ BlockPage(read.from) = {} => /\ BlockBinsFrom(k, next, read.from) = {}
                                          /\ Next_(read) = read
          /\ BlockPage(read.from) # {} => read.processed < Next_(read).processed
      BY ReadNextIs
    <3>2. read.processed \in Nat /\ Next_(read).processed \in Nat
      BY <1>0, <3>1
    <3> HIDE DEF Next_
    <3>3. ASSUME Next_(read).processed + n >= total
          PROVE  ReadOn(k, next, total, f, read) = ReadOn(k, next, total, g, read)
      <4>1. f[Next_(read)] = g[Next_(read)]
        BY <3>1, <3>3
      <4> HIDE DEF g
      <4> QED BY <4>1 DEF ReadOn, Next_
    <3>4. CASE read.processed + n >= total
      <4>1. Next_(read).processed + n >= total
        BY <3>1, <3>2, <3>4
      <4>2. g[read] = f[read]
        BY <3>4
      <4> QED BY <2>1, <3>3, <3>4, <4>1, <4>2
    <3>5. CASE ~(read.processed + n >= total) /\ BlockPage(read.from) = {}
      <4>1. g[read] = {}
        BY <3>5
      <4>2. g[ReadNext(k, next, read)] = {}
        BY <3>1, <3>5, <4>1 DEF Next_
      <4> HIDE DEF g
      <4>3. BlockBinsFrom(k, next, read.from) = {}
        BY <3>1, <3>5
      <4> QED BY <4>1, <4>2, <4>3 DEF ReadOn
    <3>6. CASE ~(read.processed + n >= total) /\ BlockPage(read.from) # {}
      <4>1. Next_(read).processed + n >= total
        BY <2>2, <3>1, <3>2, <3>6
      <4>2. g[read] = ReadOn(k, next, total, f, read)
        BY <3>6
      <4> QED BY <3>3, <4>1, <4>2
    <3> QED BY <3>4, <3>5, <3>6
  <2>3. Known(n + 1, g)
    <3> HIDE DEF g
    <3> QED BY <2>2
  <2> QED BY <2>3
<1>3. Bad = {}
  <2>1. Bad \in SUBSET Nat
    OBVIOUS
  <2>2. \A n \in Nat : n + 1 \in Bad => n \in Bad
    BY <1>2
  <2> HIDE DEF Bad
  <2> QED BY <1>1, <2>1, <2>2, NoFirst
<1>4. PICK f : Known(total, f)
  BY <1>3
<1> DEFINE g == [read \in BlockReads |-> f[read]]
<1>5. ASSUME NEW read \in BlockReads PROVE f[read] = ReadOn(k, next, total, g, read)
  <2>1. read.processed + total >= total
    BY <1>0
  <2>2. f[read] = ReadOn(k, next, total, f, read)
    BY <1>4, <2>1
  <2>3. Next_(read) \in BlockReads
    BY ReadNextIs
  <2>4. f[Next_(read)] = g[Next_(read)]
    <3> HIDE DEF Next_
    <3> QED BY <2>3
  <2> HIDE DEF g
  <2> QED BY <2>2, <2>4 DEF ReadOn
<1>6. g = [read \in BlockReads |-> ReadOn(k, next, total, g, read)]
  <2>1. g = [read \in BlockReads |-> f[read]]
    OBVIOUS
  <2> HIDE DEF g
  <2> QED BY <1>5, <2>1
<1> QED BY <1>6

\* The bins of a page and those of the pages after it.
LEMMA BinsJoin ==
  ASSUME BlocksOK, NEW k, NEW next, NextOK(k, next), NEW from \in Nat, NEW to \in Nat, from <= to,
         NEW B, ReadBins(k, next, from, B), \A b \in B : b.height <= to,
         to = from \/ \E b \in B : b.height = to,
         NEW R, ReadBins(k, next, to, R)
  PROVE  ReadBins(k, next, from, B \cup R)
<1>1. \A h \in blocks : h \in Nat
  BY BlocksAre
<1>2. \A b \in B : /\ b.kind = k /\ BlockBinOK(b) /\ b.height > from /\ b.height <= to
                   /\ b.height \in Nat /\ \A h \in b.of : h > from /\ h \in Nat /\ h < b.height
  BY <1>1 DEF ReadBins, BlockBinOK
<1>3. \A b \in R : /\ b.kind = k /\ BlockBinOK(b) /\ b.height > to
                   /\ b.height \in Nat /\ \A h \in b.of : h > to /\ h \in Nat
  BY <1>1 DEF ReadBins, BlockBinOK
<1>4. \A b \in B \cup R : /\ b.kind = k /\ BlockBinOK(b) /\ b.height > from /\ \A h \in b.of : h > from
  <2>1. \A b \in R : b.height > from /\ \A h \in b.of : h > from
    BY <1>3
  <2> QED BY <1>2, <1>3, <2>1
<1>5. Alone(B \cup R)
  <2>1. ASSUME NEW b \in B, NEW c \in R PROVE b.of \cap c.of = {} /\ b.height # c.height
    <3>1. b.height # c.height
      BY <1>2, <1>3
    <3>2. \A h \in b.of : h <= to /\ h \in Nat
      BY <1>2
    <3>3. \A h \in c.of : h > to
      BY <1>3
    <3>4. \A h \in b.of : h \notin c.of
      BY <3>2, <3>3
    <3> QED BY <3>1, <3>4
  <2>2. Alone(B) /\ Alone(R)
    BY DEF ReadBins
  <2>3. \A b \in B, c \in B : b # c => b.of \cap c.of = {} /\ b.height # c.height
    BY <2>2 DEF Alone
  <2>4. \A b \in R, c \in R : b # c => b.of \cap c.of = {} /\ b.height # c.height
    BY <2>2 DEF Alone
  <2>5. ASSUME NEW b \in B \cup R, NEW c \in B \cup R, b # c
        PROVE  b.of \cap c.of = {} /\ b.height # c.height
    <3>1. CASE b \in B /\ c \in B
      BY <2>3, <2>5, <3>1
    <3>2. CASE b \in R /\ c \in R
      BY <2>4, <2>5, <3>2
    <3>3. CASE b \in B /\ c \in R
      BY <2>1, <3>3
    <3>4. CASE b \in R /\ c \in B
      <4>1. c.of \cap b.of = {} /\ c.height # b.height
        BY <2>1, <3>4
      <4> QED BY <4>1
    <3> QED BY <3>1, <3>2, <3>3, <3>4
  <2> QED BY <2>5 DEF Alone
<1>6. ASSUME \A h \in Above(from) : chain[h] >= next, NEW b \in B \cup R, NEW h \in Above(from), h < b.height
      PROVE  Found(h, B \cup R)
  <2>0. h \in Nat /\ h \in blocks /\ h > from
    BY <1>1 DEF Above
  <2>1. ASSUME NEW c \in B, h < c.height PROVE Found(h, B \cup R)
    <3>1. Found(h, B)
      BY <1>6, <2>1 DEF ReadBins
    <3> QED BY <3>1 DEF Found
  <2>2. CASE b \in B
    BY <1>6, <2>1, <2>2
  <2>3. CASE b \in R /\ h > to
    <3>1. h \in Above(to)
      BY <2>0, <2>3 DEF Above
    <3>2. \A i \in Above(to) : chain[i] >= next
      <4>1. \A i \in Above(to) : i \in Nat /\ i \in blocks /\ i > to
        BY <1>1 DEF Above
      <4>2. \A i \in Above(to) : i > from
        BY <4>1
      <4>3. \A i \in Above(to) : i \in Above(from)
        BY <4>1, <4>2 DEF Above
      <4> QED BY <1>6, <4>3
    <3>3. Found(h, R)
      BY <1>6, <2>3, <3>1, <3>2 DEF ReadBins
    <3> QED BY <3>3 DEF Found
  <2>4. CASE ~(h > to)
    <3>1. to # from
      BY <2>0, <2>4
    <3>2. PICK c \in B : c.height = to
      BY <3>1
    <3>3. CASE h = to
      BY <3>2, <3>3 DEF Found
    <3>4. CASE h # to
      <4>1. h < c.height
        BY <2>0, <2>4, <3>2, <3>4
      <4> QED BY <2>1, <4>1
    <3> QED BY <3>3, <3>4
  <2> QED BY <2>2, <2>3, <2>4
<1> QED BY <1>4, <1>5, <1>6 DEF ReadBins

LEMMA NoBins ==
  ASSUME NEW k, NEW next, NEW from PROVE ReadBins(k, next, from, {})
BY DEF ReadBins, Alone

\* All pages from a read on, where as many blocks are left as it counts.
LEMMA PagesRead ==
  ASSUME BlocksOK, NEW k, NEW next, NextOK(k, next), NEW total \in Nat, NEW f,
         f = [read \in BlockReads |-> ReadOn(k, next, total, f, read)],
         NEW start \in BlockReads, Cardinality(Above(start.from)) + start.processed >= total
  PROVE  ReadBins(k, next, start.from, f[start])
<1> DEFINE Whole(read) == Cardinality(Above(read.from)) + read.processed >= total
           OK(read) == ReadBins(k, next, read.from, f[read])
           Bad == {n \in Nat : \E read \in BlockReads : read.processed + n >= total /\ Whole(read) /\ ~OK(read)}
<1>0. \A read \in BlockReads : read.processed \in Nat /\ read.from \in Nat
  BY DEF BlockReads
<1>1. ASSUME NEW read \in BlockReads, read.processed >= total PROVE OK(read)
  <2>1. f[read] = {}
    BY <1>1 DEF ReadOn
  <2> QED BY <2>1, NoBins
<1>2. 0 \notin Bad
  <2>1. \A read \in BlockReads : read.processed + 0 >= total => read.processed >= total
    BY <1>0
  <2> HIDE DEF OK, Whole
  <2> QED BY <1>1, <2>1
<1>3. ASSUME NEW n \in Nat, n \notin Bad PROVE n + 1 \notin Bad
  <2> SUFFICES ASSUME NEW read \in BlockReads, read.processed + (n + 1) >= total, Whole(read),
                      ~(read.processed >= total)
               PROVE  OK(read)
    BY <1>1
  <2> DEFINE to == ReadNext(k, next, read)
             B == BlockBinsFrom(k, next, read.from)
  <2>1. /\ to \in BlockReads /\ read.from <= to.from
        /\ \A b \in B : b.height <= to.from
        /\ to.from = read.from \/ \E b \in B : b.height = to.from
        /\ BlockPage(read.from) # {} => read.processed < to.processed
        /\ to.processed = read.processed + Cardinality(BlockPage(read.from))
    <3>1. to.processed = read.processed + Cardinality(BlockPage(read.from))
      BY DEF ReadNext
    <3> QED BY <3>1, ReadNextIs
  <2>2. Cardinality(Above(read.from)) <= Cardinality(BlockPage(read.from)) + Cardinality(Above(to.from))
    BY LeftAfterPage
  <2>3. f[read] = B \cup f[to]
    <3>1. f[read] = ReadOn(k, next, total, f, read)
      OBVIOUS
    <3>2. ReadOn(k, next, total, f, read) = B \cup f[to]
      BY DEF ReadOn
    <3> QED BY <3>1, <3>2
  <2>4. ReadBins(k, next, read.from, B)
    BY <1>0, OnePage
  <2> HIDE DEF to, B
  <2>5. /\ IsFiniteSet(Above(read.from)) /\ IsFiniteSet(BlockPage(read.from)) /\ IsFiniteSet(Above(to.from))
        /\ Above(read.from) # {} => BlockPage(read.from) # {}
    BY <1>0, <2>1, BlockPageIs
  <2>6. /\ Cardinality(Above(read.from)) \in Nat /\ Cardinality(BlockPage(read.from)) \in Nat
        /\ Cardinality(Above(to.from)) \in Nat
    BY <2>5, FS_CardinalityType
  <2>7. read.processed \in Nat /\ to.processed \in Nat /\ read.from \in Nat /\ to.from \in Nat
    BY <1>0, <2>1
  <2>8. BlockPage(read.from) # {}
    <3>1. Cardinality(Above(read.from)) # 0
      BY <2>6, <2>7
    <3>2. Above(read.from) # {}
      BY <3>1, FS_EmptySet
    <3> QED BY <2>5, <3>2
  <2>9. Whole(to)
    BY <2>1, <2>2, <2>6, <2>7
  <2>10. to.processed + n >= total
    BY <2>1, <2>7, <2>8
  <2>11. OK(to)
    <3> HIDE DEF OK, Whole
    <3> QED BY <1>3, <2>1, <2>9, <2>10
  <2> QED BY <2>1, <2>3, <2>4, <2>7, <2>11, BinsJoin
<1>4. Bad = {}
  <2>1. Bad \in SUBSET Nat
    OBVIOUS
  <2>2. \A n \in Nat : n + 1 \in Bad => n \in Bad
    BY <1>3
  <2> HIDE DEF Bad
  <2> QED BY <1>2, <2>1, <2>2, NoFirst
<1>5. total \notin Bad /\ start.processed + total >= total
  <2>1. start.processed \in Nat
    BY <1>0
  <2>2. start.processed + total >= total
    BY <2>1
  <2> HIDE DEF Bad
  <2> QED BY <1>4, <2>2
<1>6. Whole(start)
  OBVIOUS
<1> HIDE DEF OK, Whole
<1>7. OK(start)
  BY <1>5, <1>6
<1> QED BY <1>7 DEF OK

(* The block bins. *)

OwnBins(k) == {b \in blockBins : b.kind = k}

Growing == \A g, h \in 1..Height : g < h => chain[g] <= chain[h]

\* The bins of one kind: apart, and where the block times grow without a gap.
BinsOf(k, B) ==
  /\ \A b \in B : b.kind = k /\ BlockBinOK(b)
  /\ Alone(B)
  /\ Growing => \A b \in B, h \in blocks : h < b.height => Found(h, B)

BlockBinsOK ==
  /\ \A b \in blockBins : b.kind \in Kinds
  /\ \A k \in Kinds : BinsOf(k, OwnBins(k))

\* Where the next update goes on.
LastHeight(k) == IF OwnBins(k) = {} THEN 0 ELSE Max({b.height : b \in OwnBins(k)})
NextTime(k) == IF OwnBins(k) = {} THEN 0
               ELSE (CHOOSE b \in OwnBins(k) : b.height = LastHeight(k)).time + Width(k)

LEMMA NewBlockBinsAre ==
  ASSUME NEW k
  PROVE  NewBlockBins(k) =
           (CHOOSE f : f = [read \in BlockReads |->
                              ReadOn(k, NextTime(k), Cardinality(Above(LastHeight(k))), f, read)])
             [[from |-> LastHeight(k), processed |-> 0]]
BY DEF NewBlockBins, BlockReads, ReadOn, ReadNext, BlockBinsFrom, BlockPage, Above, NextTime,
       LastHeight, OwnBins

LEMMA GoesOnFrom ==
  ASSUME BlocksOK, BlockBinsOK, NEW k \in Kinds
  PROVE  /\ LastHeight(k) \in Nat /\ NextOK(k, NextTime(k))
         /\ \A b \in OwnBins(k) : b.height <= LastHeight(k)
         /\ \/ OwnBins(k) = {} /\ LastHeight(k) = 0
            \/ \E b \in OwnBins(k) : b.height = LastHeight(k)
         /\ Growing => \A h \in Above(LastHeight(k)) : chain[h] >= NextTime(k)
<1> DEFINE own == OwnBins(k)
           last == LastHeight(k)
           next == NextTime(k)
           T == {b.height : b \in own}
<1>1. Width(k) \in Nat \ {0}
  BY WidthIs
<1>2. Height \in Nat /\ \A h \in blocks : h \in Nat /\ h \in 1..Height /\ h <= Height /\ chain[h] \in Nat
  <2>1. Height \in Nat /\ \A h \in blocks : h \in Nat /\ h \in 1..Height /\ chain[h] \in Nat
    BY BlocksAre
  <2> QED BY <2>1
<1>3. \A b \in own : b.kind = k /\ BlockBinOK(b)
  BY DEF BlockBinsOK, BinsOf
<1>4. CASE own = {}
  <2>1. last = 0 /\ next = 0
    BY <1>4 DEF LastHeight, NextTime
  <2>2. 0 % Width(k) = 0
    BY <1>1
  <2>3. \A h \in blocks : chain[h] >= 0
    BY <1>2
  <2> QED BY <1>4, <2>1, <2>2, <2>3 DEF NextOK, Above
<1>5. CASE own # {}
  <2>1. T \in SUBSET Nat /\ T # {} /\ \A x \in T : x <= Height
    BY <1>2, <1>3, <1>5 DEF BlockBinOK
  <2>2. Max(T) \in T /\ \A x \in T : x <= Max(T)
    <3> HIDE DEF T
    <3> QED BY <1>2, <2>1, LargestIn
  <2>3. last = Max(T)
    BY <1>5 DEF LastHeight
  <2> DEFINE b == CHOOSE b \in own : b.height = last
  <2>4. \E c \in own : c.height = last
    BY <2>2, <2>3
  <2>5. b \in own /\ b.height = last
    BY <2>4
  <2>6. next = b.time + Width(k)
    BY <1>5 DEF NextTime
  <2> HIDE DEF b, next, last
  <2>7. /\ b.time \in Nat /\ b.time % Width(k) = 0 /\ b.height \in blocks
        /\ chain[b.height] >= b.time + Width(k)
    BY <1>3, <2>5 DEF BlockBinOK
  <2>8. last \in Nat /\ next \in Nat
    BY <1>1, <1>2, <2>5, <2>6, <2>7
  <2>9. (b.time + Width(k)) % Width(k) = 0
    BY <1>1, <2>7, NextStart
  <2>10. \A c \in own : c.height <= last
    BY <2>2, <2>3
  <2>11. ASSUME Growing, NEW h \in Above(last) PROVE chain[h] >= next
    <3>1. h \in blocks /\ h > last
      BY DEF Above
    <3>2. chain[last] <= chain[h]
      BY <1>2, <2>5, <2>7, <2>11, <3>1 DEF Growing
    <3> QED BY <1>2, <2>5, <2>6, <2>7, <2>8, <3>1, <3>2
  <2> QED BY <2>4, <2>6, <2>8, <2>9, <2>10, <2>11 DEF NextOK, last, next
<1> QED BY <1>4, <1>5

\* What an update adds.
LEMMA NewBlockBinsOK ==
  ASSUME BlocksOK, BlockBinsOK, NEW k \in Kinds
  PROVE  BinsOf(k, OwnBins(k) \cup NewBlockBins(k))
<1> DEFINE last == LastHeight(k)
           next == NextTime(k)
           total == Cardinality(Above(last))
           f == CHOOSE f : f = [read \in BlockReads |-> ReadOn(k, next, total, f, read)]
           start == [from |-> last, processed |-> 0]
           R == NewBlockBins(k)
           own == OwnBins(k)
<1>1. /\ last \in Nat /\ NextOK(k, next)
      /\ \A b \in own : b.height <= last
      /\ \/ own = {} /\ last = 0
         \/ \E b \in own : b.height = last
      /\ Growing => \A h \in Above(last) : chain[h] >= next
  BY GoesOnFrom
<1>2. IsFiniteSet(Above(last))
  <2> HIDE DEF last
  <2> QED BY <1>1, BlockPageIs
<1>3. total \in Nat
  <2> HIDE DEF last
  <2> QED BY <1>2, FS_CardinalityType
<1>4. f = [read \in BlockReads |-> ReadOn(k, next, total, f, read)]
  <2> HIDE DEF next, total
  <2> QED BY <1>1, <1>3, PagesExist
<1>5. R = f[start]
  BY NewBlockBinsAre
<1>6. start \in BlockReads /\ start.from = last /\ start.processed = 0
  <2> HIDE DEF last
  <2> QED BY <1>1 DEF BlockReads
<1>7. ReadBins(k, next, last, R)
  <2>1. Cardinality(Above(start.from)) + start.processed >= total
    <3>1. total + 0 >= total
      <4> HIDE DEF total
      <4> QED BY <1>3
    <3> QED BY <3>1
  <2>2. Cardinality(Above(start.from)) + start.processed >= total /\ start \in BlockReads
    BY <1>6, <2>1
  <2> HIDE DEF f, start, next, total, R
  <2>3. ReadBins(k, next, start.from, f[start])
    BY <1>1, <1>3, <1>4, <2>2, PagesRead
  <2> QED BY <1>5, <1>6, <2>3
<1> HIDE DEF last, next, R, own
<1>9. (\A b \in own : b.kind = k /\ BlockBinOK(b)) /\ Alone(own)
      /\ (Growing => \A b \in own, h \in blocks : h < b.height => Found(h, own))
  BY DEF BlockBinsOK, BinsOf, own
<1>10. \A h \in blocks : h \in Nat /\ h > 0
  <2>1. Height \in Nat /\ \A h \in blocks : h \in 1..Height
    BY BlocksAre
  <2> QED BY <2>1
<1>11. \A b \in own : b.height \in Nat /\ b.height <= last /\ \A h \in b.of : h \in Nat /\ h < b.height
  BY <1>1, <1>9, <1>10 DEF BlockBinOK
<1>12. \A b \in R : b.kind = k /\ BlockBinOK(b) /\ b.height \in Nat /\ b.height > last
                   /\ \A h \in b.of : h \in Nat /\ h > last
  BY <1>7, <1>10 DEF ReadBins, BlockBinOK
<1>13. ASSUME NEW b \in own, NEW c \in R PROVE b.of \cap c.of = {} /\ b.height # c.height
  <2>1. b.height # c.height
    BY <1>1, <1>11, <1>12
  <2>2. \A h \in b.of : h \in Nat /\ h <= last
    BY <1>1, <1>11
  <2>3. \A h \in c.of : h \in Nat /\ h > last
    BY <1>12
  <2>4. \A h \in b.of : h \notin c.of
    BY <1>1, <2>2, <2>3
  <2> QED BY <2>1, <2>4
<1>14. Alone(own \cup R)
  <2>1. Alone(R)
    BY <1>7 DEF ReadBins
  <2>2. ASSUME NEW b \in own \cup R, NEW c \in own \cup R, b # c
        PROVE  b.of \cap c.of = {} /\ b.height # c.height
    <3>1. CASE b \in own /\ c \in own
      BY <1>9, <2>2, <3>1 DEF Alone
    <3>2. CASE b \in R /\ c \in R
      BY <2>1, <2>2, <3>2 DEF Alone
    <3>3. CASE b \in own /\ c \in R
      BY <1>13, <3>3
    <3>4. CASE b \in R /\ c \in own
      <4>1. c.of \cap b.of = {} /\ c.height # b.height
        BY <1>13, <3>4
      <4> QED BY <4>1
    <3> QED BY <3>1, <3>2, <3>3, <3>4
  <2> QED BY <2>2 DEF Alone
<1>15. ASSUME Growing, NEW b \in own \cup R, NEW h \in blocks, h < b.height PROVE Found(h, own \cup R)
  <2>1. ASSUME NEW c \in own, h < c.height PROVE Found(h, own \cup R)
    <3>1. Found(h, own)
      BY <1>9, <1>15, <2>1
    <3> QED BY <3>1 DEF Found
  <2>2. CASE b \in own
    BY <1>15, <2>1, <2>2
  <2>3. CASE b \in R /\ h > last
    <3>1. h \in Above(last)
      BY <2>3 DEF Above
    <3>2. Found(h, R)
      BY <1>1, <1>7, <1>15, <2>3, <3>1 DEF ReadBins
    <3> QED BY <3>2 DEF Found
  <2>4. CASE ~(h > last)
    <3>1. last # 0
      BY <1>10, <2>4
    <3>2. PICK c \in own : c.height = last
      BY <1>1, <3>1
    <3>3. CASE h = last
      BY <3>2, <3>3 DEF Found
    <3>4. CASE h # last
      <4>1. h < c.height
        BY <1>1, <1>10, <2>4, <3>2, <3>4
      <4> QED BY <2>1, <4>1
    <3> QED BY <3>3, <3>4
  <2> QED BY <2>2, <2>3, <2>4
<1>16. \A b \in own \cup R : b.kind = k /\ BlockBinOK(b)
  BY <1>9, <1>12
<1>17. BinsOf(k, own \cup R)
  BY <1>14, <1>15, <1>16 DEF BinsOf
<1> QED BY <1>17 DEF own, R

-----------------------------------------------------------------------------
(* Blocks, votes and peers. *)

(* The inductive invariant. *)

Steps == {<<"save">>, <<"votes">>, <<"hour">>, <<"day">>}
         \cup {<<"peer", p>> : p \in DOMAIN Peers}

\* The running ConnectBlock saves its block first, above all that are saved, then looks
\* for its votes.
BlockCallOK(c) ==
  /\ c \in [height : 1..Height, todo : Seq(Steps)] /\ c.todo # <<>>
  /\ \A i \in 2..Len(c.todo) : c.todo[i][1] # "save"
  /\ c.todo[1][1] = "save" =>
       /\ \A b \in blocks : b < c.height
       /\ Len(c.todo) >= 2 /\ c.todo[2] = <<"votes">>

BlockRunOK == blockCall = Idle \/ \E c : blockCall = <<c>> /\ BlockCallOK(c)

VoteCalls(i) == [vote : Votes, at : {"lookup", "insert"}, received : BOOLEAN, validator : {i}]

VoteRunOK ==
  \/ voteCall = Idle
  \/ \E c, i : voteCall = <<c>> /\ c \in VoteCalls(i)

\* The row of a vote.
RowOK(r) == \E i, n : r \in [received : BOOLEAN, validator : {i}, by : {n}]

TablesOK ==
  /\ chain \in Seq(BlockTimes) /\ blocks \subseteq 1..Height
  /\ DOMAIN votes \subseteq Votes /\ \A v \in DOMAIN votes : RowOK(votes[v])
  /\ DOMAIN rows = DOMAIN Peers /\ \A p \in DOMAIN Peers : rows[p] \subseteq blocks

\* ConnectBlock is about to update the votes on the block of v.
Expected(v) == blockCall # Idle /\ Todo = <<"votes">> /\ blockCall[1].height = VotingOn[v]

Pardoned(v) == v \in disturbed \cup raced \/ Expected(v)

\* A saved vote without the time of a saved block is excused or about to get it.
SavedVotesOK == \A v \in DOMAIN votes : VotingOn[v] \in blocks => votes[v].received \/ Pardoned(v)

\* So is one that is on its way into the table without it.
ComingVoteOK ==
  \A v \in InCall :
    voteCall[1].at = "insert" /\ VotingOn[v] \in blocks => voteCall[1].received \/ Pardoned(v)

PropInv == TablesOK /\ BlockRunOK /\ VoteRunOK /\ RowsHaveNoGap /\ SavedVotesOK /\ ComingVoteOK

-----------------------------------------------------------------------------
(* What ConnectBlock has left to do. *)

LEMMA NotIdle == \A c : <<c>> # Idle /\ <<c>>[1] = c
BY DEF Idle

LEMMA NotSave ==
  /\ <<"votes">>[1] # "save" /\ <<"hour">>[1] # "save" /\ <<"day">>[1] # "save"
  /\ \A p : <<"peer", p>>[1] # "save"
OBVIOUS

\* At the start: the block, its votes, the bins, the peers.
LEMMA TodoAtStart ==
  ASSUME NEW todo, todo = Local \o [p \in DOMAIN Peers |-> <<"peer", p>>]
  PROVE  /\ todo \in Seq(Steps) /\ Len(todo) >= 4
         /\ todo[1] = <<"save">> /\ todo[2] = <<"votes">>
         /\ \A i \in 2..Len(todo) : todo[i][1] # "save"
<1>1. PICK n \in Nat : DOMAIN Peers = 1..n
  BY PropagationAssumption DEF PropagationAssumption
<1>2. PICK ps : ps = [p \in DOMAIN Peers |-> <<"peer", p>>]
  OBVIOUS
<1>3. ps \in Seq(Steps) /\ Len(ps) = n
  BY <1>1, <1>2 DEF Steps
<1>4. PICK own : own = Local
  OBVIOUS
<1>5. own \in Seq(Steps) /\ Len(own) = 4
  BY <1>4 DEF Local, Steps
<1>6. todo = own \o ps /\ todo \in Seq(Steps) /\ Len(todo) = 4 + n
  <2>1. todo = own \o ps
    BY <1>2, <1>4
  <2>2. own \o ps \in Seq(Steps) /\ Len(own \o ps) = Len(own) + Len(ps)
    BY <1>3, <1>5, ConcatProperties
  <2> QED BY <2>1, <2>2, <1>3, <1>5
<1>7. todo[1] = <<"save">> /\ todo[2] = <<"votes">> /\ todo[3] = <<"hour">> /\ todo[4] = <<"day">>
  <2>1. \A i \in 1..4 : todo[i] = own[i]
    <3>1. \A i \in 1..Len(own) + Len(ps) :
            (own \o ps)[i] = IF i <= Len(own) THEN own[i] ELSE ps[i - Len(own)]
      BY <1>3, <1>5, ConcatProperties
    <3>2. \A i \in 1..4 : i \in 1..Len(own) + Len(ps) /\ i <= Len(own)
      BY <1>1, <1>3, <1>5
    <3>3. \A i \in 1..4 : (own \o ps)[i] = own[i]
      BY <3>1, <3>2
    <3> QED BY <3>3, <1>6
  <2> QED BY <2>1, <1>4 DEF Local
<1>8. ASSUME NEW i \in 2..Len(todo) PROVE todo[i][1] # "save"
  <2>1. CASE i <= 4
    <3>1. i = 2 \/ i = 3 \/ i = 4
      BY <2>1
    <3>2. todo[i] = <<"votes">> \/ todo[i] = <<"hour">> \/ todo[i] = <<"day">>
      BY <3>1, <1>7
    <3> QED BY <3>2, NotSave, Zenon
  <2>2. CASE i > 4
    <3>1. todo[i] = ps[i - 4] /\ i - 4 \in 1..n
      BY <2>2, <1>2, <1>3, <1>4, <1>5, <1>6, ConcatProperties
    <3>2. todo[i] = <<"peer", i - 4>>
      BY <3>1, <1>1, <1>2
    <3> QED BY <3>2, NotSave, Zenon
  <2> QED BY <2>1, <2>2, <1>6
<1>9. Len(todo) >= 4
  BY <1>6
<1> QED BY <1>6, <1>7, <1>8, <1>9

\* After a step: the rest, which does not save.
LEMMA TodoAfterStep ==
  ASSUME chain' = chain, NEW c, blockCall = <<c>>, BlockCallOK(c), StepDone
  PROVE  /\ BlockRunOK'
         /\ blockCall' # Idle => /\ blockCall'[1].height = c.height
                                 /\ Todo' = c.todo[2] /\ Len(c.todo) >= 2
<1>1. c \in [height : 1..Height, todo : Seq(Steps)] /\ c.todo # <<>>
  BY DEF BlockCallOK
<1>2. Len(c.todo) \in Nat \ {0}
  BY <1>1
<1>3. CASE Len(c.todo) = 1
  <2>1. blockCall' = Idle
    BY <1>3 DEF StepDone
  <2> QED BY <2>1 DEF BlockRunOK
<1>4. CASE Len(c.todo) # 1
  <2>1. PICK d : d = [c EXCEPT !.todo = Tail(@)]
    OBVIOUS
  <2>2. blockCall' = <<d>>
    BY <1>4, <2>1 DEF StepDone
  <2>3. d.height = c.height /\ d.todo = Tail(c.todo)
    BY <1>1, <2>1
  <2>4. /\ Tail(c.todo) \in Seq(Steps) /\ Len(Tail(c.todo)) = Len(c.todo) - 1
        /\ \A i \in 1..(Len(c.todo) - 1) : Tail(c.todo)[i] = c.todo[i + 1]
    BY <1>1, <1>2
  <2>5. Tail(c.todo) # <<>> /\ Tail(c.todo)[1] = c.todo[2] /\ Len(c.todo) >= 2
    <3>1. PICK n \in Nat : n = Len(c.todo) /\ n >= 2
      BY <1>1, <1>4
    <3>2. PICK t \in Seq(Steps) : t = Tail(c.todo) /\ Len(t) = n - 1
      BY <2>4, <3>1
    <3>3. t[1] = c.todo[2]
      BY <3>1, <3>2, <2>4
    <3>4. t # <<>>
      <4>1. Len(t) \in Nat /\ Len(t) # 0
        BY <3>1, <3>2
      <4>2. Len(<<>>) = 0
        OBVIOUS
      <4> QED BY <4>1, <4>2, Zenon
    <3> QED BY <3>1, <3>2, <3>3, <3>4
  <2>6. d \in [height : 1..Height, todo : Seq(Steps)]
    BY <1>1, <2>1, <2>4
  <2>7. \A i \in 1..Len(d.todo) : d.todo[i][1] # "save"
    BY <1>2, <2>3, <2>4 DEF BlockCallOK
  <2>8. BlockCallOK(d)'
    <3>1. d \in [height : 1..Height', todo : Seq(Steps)]
      BY <2>6 DEF Height
    <3>2. 1 \in 1..Len(d.todo) /\ \A i \in 2..Len(d.todo) : i \in 1..Len(d.todo)
      BY <2>3, <2>4, <2>5, <1>2
    <3> QED BY <3>1, <3>2, <2>3, <2>5, <2>7 DEF BlockCallOK
  <2>9. Todo' = c.todo[2]
    <3>1. d.todo \in Seq(Steps) /\ d.todo # <<>>
      BY <2>3, <2>4, <2>5
    <3>2. Todo' = Head(d.todo)
      BY <2>2, NotIdle DEF Todo
    <3> QED BY <3>1, <3>2, <2>3, <2>5
  <2> QED BY <2>2, <2>3, <2>5, <2>8, <2>9, NotIdle DEF BlockRunOK
<1> QED BY <1>3, <1>4

\* The running call, seen from its record.
LEMMA Running ==
  ASSUME BlockRunOK, blockCall # Idle
  PROVE  \E c : blockCall = <<c>> /\ BlockCallOK(c) /\ blockCall[1] = c /\ Todo = c.todo[1]
<1>1. PICK c : blockCall = <<c>> /\ BlockCallOK(c)
  BY DEF BlockRunOK
<1>2. blockCall[1] = c /\ Todo = c.todo[1]
  BY <1>1 DEF BlockCallOK, Todo
<1> QED BY <1>1, <1>2

-----------------------------------------------------------------------------
(* The first states, and each action. *)

LEMMA PropInitInv == PropInit => PropInv
<1> SUFFICES ASSUME PropInit PROVE PropInv
  OBVIOUS
<1>1. BlockRunOK /\ VoteRunOK
  BY DEF PropInit, BlockRunOK, VoteRunOK
<1>2. DOMAIN votes = {} /\ InCall = {} /\ blocks = {}
  BY DEF PropInit, InCall
<1>3. rows = [p \in DOMAIN Peers |-> {}] /\ chain \in Seq(BlockTimes)
  BY DEF PropInit
<1> QED BY <1>1, <1>2, <1>3 DEF PropInv, TablesOK, RowsHaveNoGap, SavedVotesOK, ComingVoteOK

\* What no step on the votes' side changes.
LEMMA BlockSideKept ==
  ASSUME PropInv, UNCHANGED <<chain, blocks, rows, blockCall>>, DOMAIN votes' \subseteq Votes,
         \A v \in DOMAIN votes' : RowOK(votes'[v])
  PROVE  TablesOK' /\ BlockRunOK' /\ RowsHaveNoGap' /\ \A v : Expected(v)' <=> Expected(v)
<1>1. TablesOK' /\ RowsHaveNoGap' /\ \A v : Expected(v)' <=> Expected(v)
  BY DEF PropInv, TablesOK, RowsHaveNoGap, Height, Expected, Todo
<1>2. \A c : BlockCallOK(c)' <=> BlockCallOK(c)
  BY DEF BlockCallOK, Height
<1> QED BY <1>1, <1>2 DEF PropInv, BlockRunOK

\* Votes stay excused where no step of a running ConnectBlock has looked for them.
LEMMA VotesKept ==
  ASSUME PropInv, UNCHANGED <<blocks, votes, voteCall>>, disturbed \subseteq disturbed',
         raced \subseteq raced', \A v : ~Expected(v)
  PROVE  VoteRunOK' /\ SavedVotesOK' /\ ComingVoteOK'
BY DEF PropInv, VoteRunOK, SavedVotesOK, ComingVoteOK, InCall, Pardoned

LEMMA BlockArrivesInv ==
  ASSUME PropInv, NEW time \in BlockTimes, NEW synced \in BOOLEAN, BlockArrives(time, synced)
  PROVE  PropInv'
<1>1. chain \in Seq(BlockTimes) /\ chain' = Append(chain, time) /\ blocks \subseteq 1..Height
  BY DEF PropInv, TablesOK, BlockArrives
<1>2. PICK n \in Nat : n = Height /\ n + 1 = Height' /\ chain' \in Seq(BlockTimes)
  BY <1>1 DEF Height
<1>3. TablesOK' /\ RowsHaveNoGap'
  BY <1>1, <1>2 DEF PropInv, TablesOK, RowsHaveNoGap, BlockArrives, tables
<1>4. VoteRunOK' /\ SavedVotesOK' /\ ComingVoteOK'
  <2>1. \A v : ~Expected(v)
    BY DEF BlockArrives, Expected
  <2> QED BY <2>1, VotesKept DEF BlockArrives, tables
<1>5. BlockRunOK'
  <2>1. CASE blockCall' = blockCall
    BY <2>1 DEF BlockArrives, BlockRunOK
  <2>2. CASE blockCall' # blockCall
    <3>1. PICK todo : todo = Local \o [p \in DOMAIN Peers |-> <<"peer", p>>]
      OBVIOUS
    <3>2. blockCall' = <<[height |-> n + 1, todo |-> todo]>>
      BY <2>2, <3>1, <1>2 DEF BlockArrives
    <3>3. PICK c : c = [height |-> n + 1, todo |-> todo]
      OBVIOUS
    <3>4. /\ todo \in Seq(Steps) /\ Len(todo) >= 4
          /\ todo[1] = <<"save">> /\ todo[2] = <<"votes">>
          /\ \A i \in 2..Len(todo) : todo[i][1] # "save"
      BY <3>1, TodoAtStart
    <3>5. \A b \in blocks' : b < n + 1
      BY <1>1, <1>2 DEF BlockArrives, tables
    <3>6. c.height = n + 1 /\ c.todo = todo
      BY <3>3
    <3>7. c \in [height : 1..Height', todo : Seq(Steps)]
      BY <3>3, <3>4, <1>2
    <3>8. todo # <<>> /\ Len(todo) >= 2
      BY <3>4
    <3>9. BlockCallOK(c)'
      BY <3>4, <3>5, <3>6, <3>7, <3>8 DEF BlockCallOK
    <3> QED BY <3>2, <3>3, <3>9 DEF BlockRunOK
  <2> QED BY <2>1, <2>2
<1> QED BY <1>3, <1>4, <1>5 DEF PropInv

LEMMA InsertBlockInv == ASSUME PropInv, InsertBlock PROVE PropInv'
<1>1. PICK c : blockCall = <<c>> /\ BlockCallOK(c) /\ blockCall[1] = c /\ Todo = c.todo[1]
  BY Running DEF PropInv, InsertBlock, AtStep
<1>2. /\ Todo[1] = "save" /\ \A b \in blocks : b < c.height
      /\ Len(c.todo) >= 2 /\ c.todo[2] = <<"votes">> /\ c.height \in 1..Height
  BY <1>1 DEF InsertBlock, AtStep, BlockCallOK
<1>3. BlockRunOK' /\ (blockCall' # Idle => blockCall'[1].height = c.height /\ Todo' = <<"votes">>)
  BY <1>1, <1>2, TodoAfterStep DEF InsertBlock
<1>4. blockCall' # Idle
  <2>1. Len(c.todo) # 1
    BY <1>1, <1>2 DEF BlockCallOK
  <2> QED BY <1>1, <2>1, NotIdle DEF InsertBlock, StepDone
<1>5. TablesOK'
  BY <1>1, <1>2 DEF PropInv, TablesOK, InsertBlock, Height
<1>6. RowsHaveNoGap'
  <2>1. SUFFICES ASSUME NEW p \in DOMAIN Peers, NEW h \in rows[p],
                        NEW g \in blocks \cup {c.height}, g < h
                 PROVE  g \in rows[p]
    BY <1>1 DEF RowsHaveNoGap, InsertBlock
  <2>2. h \in blocks /\ h < c.height /\ h \in Nat /\ c.height \in Nat
    <3>1. h \in blocks /\ h \in 1..Height
      BY <2>1 DEF PropInv, TablesOK
    <3>2. PICK n \in Nat : n = Height
      BY DEF PropInv, TablesOK, Height
    <3> QED BY <3>1, <3>2, <1>2
  <2>3. g # c.height
    BY <2>1, <2>2
  <2> QED BY <2>1, <2>3 DEF PropInv, RowsHaveNoGap
<1>7. \A v : ~Expected(v)
  BY <1>2 DEF Expected
<1>8. \A v : VotingOn[v] = c.height => Expected(v)'
  BY <1>3, <1>4 DEF Expected
<1>9. VoteRunOK' /\ SavedVotesOK' /\ ComingVoteOK'
  BY <1>1, <1>7, <1>8 DEF PropInv, InsertBlock, VoteRunOK, SavedVotesOK, ComingVoteOK, InCall, Pardoned
<1> QED BY <1>3, <1>5, <1>6, <1>9 DEF PropInv
\* No vote is expected at another step.
LEMMA NotVotes == \A x : x \in {"hour", "day", "peer"} => x # <<"votes">>[1]
OBVIOUS

LEMMA UpdateVotesInv ==
  ASSUME PropInv, NEW failed \in SUBSET Votes, UpdateVotes(failed)
  PROVE  PropInv'
<1>1. PICK c : blockCall = <<c>> /\ BlockCallOK(c) /\ blockCall[1] = c /\ Todo = c.todo[1]
  BY Running DEF PropInv, UpdateVotes, AtStep
<1>2. BlockRunOK'
  BY <1>1, TodoAfterStep DEF UpdateVotes
<1>3. ASSUME NEW v \in DOMAIN votes
      PROVE  /\ v \in DOMAIN votes' /\ RowOK(votes'[v])
             /\ votes[v].received => votes'[v].received
             /\ v \in VotesOf(c.height) \ failed => votes'[v].received
  <2>1. PICK i, n : votes[v] \in [received : BOOLEAN, validator : {i}, by : {n}]
    BY DEF PropInv, TablesOK, RowOK
  <2>2. PICK d : d = [votes[v] EXCEPT !.received = TRUE]
    OBVIOUS
  <2>3. d \in [received : BOOLEAN, validator : {i}, by : {n}] /\ d.received
    BY <2>1, <2>2
  <2>4. RowOK(d) /\ d.received
    BY <2>3 DEF RowOK
  <2>5. v \in DOMAIN votes' /\ votes'[v] = IF v \in VotesOf(c.height) \ failed THEN d ELSE votes[v]
    BY <1>1, <2>2 DEF UpdateVotes
  <2> QED BY <2>4, <2>5 DEF PropInv, TablesOK
<1>4. DOMAIN votes' = DOMAIN votes
  BY DEF UpdateVotes
<1>5. TablesOK' /\ RowsHaveNoGap'
  BY <1>3, <1>4 DEF PropInv, TablesOK, RowsHaveNoGap, UpdateVotes, Height
<1>6. \A v : Expected(v) => VotingOn[v] = c.height
  BY <1>1 DEF Expected
<1>7. SavedVotesOK'
  <2> SUFFICES ASSUME NEW v \in DOMAIN votes, VotingOn[v] \in blocks
               PROVE  votes'[v].received \/ v \in disturbed' \cup raced'
    BY <1>4 DEF SavedVotesOK, Pardoned, UpdateVotes
  <2>1. votes[v].received \/ v \in disturbed \cup raced \/ VotingOn[v] = c.height
    BY <1>6 DEF PropInv, SavedVotesOK, Pardoned
  <2>2. VotingOn[v] = c.height => v \in VotesOf(c.height)
    BY DEF VotesOf
  <2> QED BY <2>1, <2>2, <1>1, <1>3 DEF UpdateVotes
<1>8. ComingVoteOK'
  BY <1>1, <1>6 DEF PropInv, ComingVoteOK, InCall, Pardoned, UpdateVotes
<1>9. VoteRunOK'
  BY DEF PropInv, VoteRunOK, UpdateVotes
<1> QED BY <1>2, <1>5, <1>7, <1>8, <1>9 DEF PropInv

LEMMA UpdateBlockBinDataInv == ASSUME PropInv, UpdateBlockBinData PROVE PropInv'
<1>1. PICK c : blockCall = <<c>> /\ BlockCallOK(c) /\ blockCall[1] = c /\ Todo = c.todo[1]
  BY Running DEF PropInv, UpdateBlockBinData, AtStep
<1>2. BlockRunOK'
  BY <1>1, TodoAfterStep DEF UpdateBlockBinData
<1>3. \A v : ~Expected(v)
  BY NotVotes DEF UpdateBlockBinData, AtStep, Expected
<1>4. VoteRunOK' /\ SavedVotesOK' /\ ComingVoteOK'
  BY <1>3, VotesKept DEF UpdateBlockBinData
<1>5. TablesOK' /\ RowsHaveNoGap'
  BY DEF PropInv, TablesOK, RowsHaveNoGap, UpdateBlockBinData, Height
<1> QED BY <1>2, <1>4, <1>5 DEF PropInv

LEMMA UpdatePeerInv ==
  ASSUME PropInv, NEW last, UpdatePeer(last)
  PROVE  PropInv'
<1>1. PICK c : blockCall = <<c>> /\ BlockCallOK(c) /\ blockCall[1] = c /\ Todo = c.todo[1]
  BY Running DEF PropInv, UpdatePeer, AtStep
<1>2. BlockRunOK'
  <2>1. CASE blockCall' = Idle
    BY <2>1 DEF BlockRunOK
  <2>2. CASE blockCall' # Idle
    BY <1>1, <2>2, TodoAfterStep DEF UpdatePeer
  <2> QED BY <2>1, <2>2
<1>3. \A v : ~Expected(v)
  BY NotVotes DEF UpdatePeer, AtStep, Expected
<1>4. VoteRunOK' /\ SavedVotesOK' /\ ComingVoteOK'
  BY <1>3, VotesKept DEF UpdatePeer
<1>5. TablesOK'
  BY DEF PropInv, TablesOK, UpdatePeer, NewRows, Height
<1>6. RowsHaveNoGap'
  <2>1. CASE rows' = rows
    BY <2>1 DEF PropInv, RowsHaveNoGap, UpdatePeer
  <2>2. CASE rows' = [rows EXCEPT ![Peer] = @ \cup NewRows(last)]
    <3>1. SUFFICES ASSUME NEW p \in DOMAIN Peers, NEW h \in rows'[p], NEW g \in blocks, g < h
                   PROVE  g \in rows'[p]
      BY DEF RowsHaveNoGap, UpdatePeer
    <3>2. DOMAIN rows = DOMAIN Peers /\ (last = 0 \/ last \in rows[Peer])
      BY DEF PropInv, TablesOK, UpdatePeer, Newest
    <3>3. rows'[p] = rows[p] \cup (IF p = Peer THEN NewRows(last) ELSE {})
      BY <2>2, <3>2
    <3>4. /\ rows[p] \subseteq blocks /\ blocks \subseteq Nat \ {0}
          /\ \A x \in rows[p] : g < x => g \in rows[p]
      BY DEF PropInv, TablesOK, RowsHaveNoGap
    <3>5. CASE h \in rows[p]
      BY <3>1, <3>3, <3>4, <3>5
    <3>6. CASE h \notin rows[p]
      <4>1. p = Peer /\ h \in blocks /\ h > last
        BY <3>3, <3>6 DEF NewRows
      <4>2. last \in Nat /\ g \in Nat \ {0}
        <5>1. rows[Peer] \subseteq Nat
          BY <3>4, <4>1
        <5> QED BY <3>2, <3>4, <5>1
      <4>3. CASE g > last
        BY <3>3, <4>1, <4>3 DEF NewRows
      <4>4. CASE g <= last
        <5>1. last \in rows[p]
          BY <3>2, <4>1, <4>2, <4>4
        <5>2. g = last \/ g < last
          BY <4>2, <4>4
        <5> QED BY <3>3, <3>4, <5>1, <5>2
      <4> QED BY <4>2, <4>3, <4>4
    <3> QED BY <3>5, <3>6
  <2> QED BY <2>1, <2>2 DEF UpdatePeer
<1> QED BY <1>2, <1>4, <1>5, <1>6 DEF PropInv
LEMMA ConnectBlockFailsInv == ASSUME PropInv, ConnectBlockFails PROVE PropInv'
<1>1. BlockRunOK'
  BY DEF ConnectBlockFails, BlockRunOK
<1>2. \A v : ~Expected(v)
  <2>1. <<"votes">>[1] = "votes"
    OBVIOUS
  <2> QED BY <2>1 DEF ConnectBlockFails, Expected
<1>3. VoteRunOK' /\ SavedVotesOK' /\ ComingVoteOK'
  BY <1>2, VotesKept DEF ConnectBlockFails, tables
<1>4. TablesOK' /\ RowsHaveNoGap'
  BY DEF PropInv, TablesOK, RowsHaveNoGap, ConnectBlockFails, tables, Height
<1> QED BY <1>1, <1>3, <1>4 DEF PropInv

LEMMA VoteArrivesInv ==
  ASSUME PropInv, NEW v \in Votes, VoteArrives(v)
  PROVE  PropInv'
<1>1. TablesOK' /\ BlockRunOK' /\ RowsHaveNoGap' /\ \A w : Expected(w)' <=> Expected(w)
  BY BlockSideKept DEF PropInv, TablesOK, VoteArrives, tables
<1>2. PICK i : voteCall' = <<[vote |-> v, at |-> "lookup", received |-> FALSE, validator |-> i]>>
  BY DEF VoteArrives
<1>3. VoteRunOK'
  <2>1. PICK c : c = [vote |-> v, at |-> "lookup", received |-> FALSE, validator |-> i]
    OBVIOUS
  <2>2. c \in VoteCalls(i)
    BY <2>1 DEF VoteCalls
  <2> QED BY <2>1, <2>2, <1>2 DEF VoteRunOK
<1>4. SavedVotesOK'
  BY <1>1 DEF PropInv, SavedVotesOK, Pardoned, VoteArrives, tables
<1>5. ComingVoteOK'
  BY <1>2 DEF ComingVoteOK
<1> QED BY <1>1, <1>3, <1>4, <1>5 DEF PropInv

LEMMA LookUpBlockInv ==
  ASSUME PropInv, NEW ok \in BOOLEAN, LookUpBlock(ok)
  PROVE  PropInv'
<1>1. TablesOK' /\ BlockRunOK' /\ RowsHaveNoGap' /\ \A v : Expected(v)' <=> Expected(v)
  BY BlockSideKept DEF PropInv, TablesOK, LookUpBlock, tables
<1>2. PICK c, i : voteCall = <<c>> /\ c \in VoteCalls(i)
  BY DEF PropInv, VoteRunOK, LookUpBlock
<1>3. PICK d : d = [c EXCEPT !.at = "insert", !.received = ok /\ VotingOn[c.vote] \in blocks]
  OBVIOUS
<1>4. /\ d \in VoteCalls(i)
      /\ d.vote = c.vote /\ (d.received <=> ok /\ VotingOn[c.vote] \in blocks)
  BY <1>2, <1>3 DEF VoteCalls
<1>5. voteCall' = <<d>>
  BY <1>2, <1>3 DEF LookUpBlock
<1>6. VoteRunOK'
  BY <1>4, <1>5 DEF VoteRunOK
<1>7. SavedVotesOK'
  BY <1>1 DEF PropInv, SavedVotesOK, Pardoned, LookUpBlock, tables
<1>8. ComingVoteOK'
  <2>1. VotingOn[c.vote] \in blocks => d.received \/ c.vote \in disturbed'
    BY <1>2, <1>4 DEF LookUpBlock
  <2>2. InCall' = {c.vote} /\ voteCall'[1] = d /\ blocks' = blocks
    BY <1>4, <1>5, NotIdle DEF InCall, LookUpBlock, tables
  <2> QED BY <2>1, <2>2 DEF ComingVoteOK, Pardoned
<1> QED BY <1>1, <1>6, <1>7, <1>8 DEF PropInv

LEMMA InsertVoteInv ==
  ASSUME PropInv, NEW ok \in BOOLEAN, InsertVote(ok)
  PROVE  PropInv'
<1>1. PICK c, i : voteCall = <<c>> /\ c \in VoteCalls(i)
  BY DEF PropInv, VoteRunOK, InsertVote
<1>2. PICK row : row = [received |-> c.received, validator |-> c.validator, by |-> reboots]
  OBVIOUS
<1>3. RowOK(row) /\ row.received = c.received
  BY <1>1, <1>2 DEF RowOK, VoteCalls
<1>4. votes' = IF ok /\ c.vote \notin DOMAIN votes
               THEN [v \in DOMAIN votes \cup {c.vote} |-> IF v = c.vote THEN row ELSE votes[v]]
               ELSE votes
  BY <1>1, <1>2 DEF InsertVote
<1>5. \A v \in DOMAIN votes' : \/ v \in DOMAIN votes /\ votes'[v] = votes[v]
                               \/ v = c.vote /\ votes'[v] = row
  BY <1>4
<1>6. DOMAIN votes' \subseteq Votes /\ \A v \in DOMAIN votes' : RowOK(votes'[v])
  BY <1>1, <1>3, <1>5 DEF PropInv, TablesOK, VoteCalls
<1>7. TablesOK' /\ BlockRunOK' /\ RowsHaveNoGap' /\ \A v : Expected(v)' <=> Expected(v)
  BY <1>6, BlockSideKept DEF InsertVote
<1>8. SavedVotesOK'
  <2> SUFFICES ASSUME NEW v \in DOMAIN votes', VotingOn[v] \in blocks
               PROVE  votes'[v].received \/ Pardoned(v)
    BY <1>7 DEF SavedVotesOK, Pardoned, InsertVote
  <2>1. CASE v \in DOMAIN votes /\ votes'[v] = votes[v]
    BY <2>1 DEF PropInv, SavedVotesOK
  <2>2. CASE v = c.vote /\ votes'[v] = row
    <3>1. v \in InCall /\ voteCall[1] = c /\ c.at = "insert"
      BY <1>1, <2>2, NotIdle DEF InCall, InsertVote
    <3> QED BY <3>1, <2>2, <1>3 DEF PropInv, ComingVoteOK
  <2> QED BY <2>1, <2>2, <1>5
<1>9. VoteRunOK' /\ ComingVoteOK'
  BY DEF InsertVote, VoteRunOK, ComingVoteOK, InCall
<1> QED BY <1>7, <1>8, <1>9 DEF PropInv

LEMMA RebootInv == ASSUME PropInv, Reboot PROVE PropInv'
<1>1. TablesOK' /\ RowsHaveNoGap'
  BY DEF PropInv, TablesOK, RowsHaveNoGap, Reboot, tables, Height
<1>2. BlockRunOK' /\ VoteRunOK' /\ ComingVoteOK'
  BY DEF Reboot, BlockRunOK, VoteRunOK, ComingVoteOK, InCall
<1>3. SavedVotesOK'
  <2>1. \A v \in DOMAIN votes : Expected(v) => v \in disturbed'
    BY DEF Expected, Reboot, VotesOf
  <2> QED BY <2>1 DEF PropInv, SavedVotesOK, Pardoned, Reboot, tables
<1> QED BY <1>1, <1>2, <1>3 DEF PropInv

LEMMA StutterInv == ASSUME PropInv, UNCHANGED propVars PROVE PropInv'
<1>1. TablesOK' /\ BlockRunOK' /\ RowsHaveNoGap' /\ \A v : Expected(v)' <=> Expected(v)
  BY BlockSideKept DEF PropInv, TablesOK, propVars
<1> QED BY <1>1 DEF PropInv, VoteRunOK, SavedVotesOK, ComingVoteOK, InCall, Pardoned, propVars

-----------------------------------------------------------------------------
(* The rows and the votes. *)

\* Every step of the handlers, every error, overlap and reboot keeps the invariant.
THEOREM PropagationInvariant == PropSpec => []PropInv
<1>1. PropInv /\ [PropNext]_propVars => PropInv'
  <2> SUFFICES ASSUME PropInv, [PropNext]_propVars PROVE PropInv'
    OBVIOUS
  <2>1. ASSUME NEW time \in BlockTimes, NEW synced \in BOOLEAN, BlockArrives(time, synced)
        PROVE PropInv'
    BY <2>1, BlockArrivesInv
  <2>2. CASE InsertBlock
    BY <2>2, InsertBlockInv
  <2>3. CASE UpdateBlockBinData
    BY <2>3, UpdateBlockBinDataInv
  <2>4. CASE ConnectBlockFails
    BY <2>4, ConnectBlockFailsInv
  <2>5. CASE Reboot
    BY <2>5, RebootInv
  <2>6. ASSUME NEW failed \in SUBSET Votes, UpdateVotes(failed) PROVE PropInv'
    BY <2>6, UpdateVotesInv
  <2>7. ASSUME NEW last \in 0..MaxHeight, UpdatePeer(last) PROVE PropInv'
    BY <2>7, UpdatePeerInv
  <2>8. ASSUME NEW v \in Votes, VoteArrives(v) PROVE PropInv'
    BY <2>8, VoteArrivesInv
  <2>9. ASSUME NEW ok \in BOOLEAN, LookUpBlock(ok) PROVE PropInv'
    BY <2>9, LookUpBlockInv
  <2>10. ASSUME NEW ok \in BOOLEAN, InsertVote(ok) PROVE PropInv'
    BY <2>10, InsertVoteInv
  <2>11. CASE UNCHANGED propVars
    BY <2>11, StutterInv
  <2> QED BY <2>1, <2>2, <2>3, <2>4, <2>5, <2>6, <2>7, <2>8, <2>9, <2>10, <2>11 DEF PropNext
<1> QED BY <1>1, PropInitInv, PTL DEF PropSpec

\* However updates fail, end early or overlap, no block is left out between two that were
\* compared with a peer: UpdatePropagationDataForSource goes on from the newest row.
THEOREM NoBlockLeftOut == PropSpec => []RowsHaveNoGap
<1>1. PropInv => RowsHaveNoGap
  BY DEF PropInv
<1> QED BY <1>1, PropagationInvariant, PTL

\* SaveVote and SaveBlock, in either order and side by side, leave a vote without the receive
\* time of its saved block only after an error, a reboot or the race between them.
THEOREM VotesLearnTheirBlock == PropSpec => []VotesKnowTheirBlock
<1>1. PropInv => VotesKnowTheirBlock
  <2> SUFFICES ASSUME PropInv, blockCall = Idle, NEW v \in DOMAIN votes, VotingOn[v] \in blocks
               PROVE  votes[v].received \/ v \in disturbed \cup raced
    BY DEF VotesKnowTheirBlock
  <2> QED BY DEF PropInv, SavedVotesOK, Pardoned, Expected
<1> QED BY <1>1, PropagationInvariant, PTL

-----------------------------------------------------------------------------
(* The bins of the blocks, in every step. *)

\* Bins stay right where blocks only come in above them.
LEMMA BlockBinsKept ==
  ASSUME BlocksOK, BlockBinsOK, blockBins' = blockBins, blocks \subseteq blocks',
         \A h \in 1..Height : h \in 1..Height' /\ chain'[h] = chain[h],
         \A h \in blocks', b \in blockBins : h \notin blocks => ~(h < b.height)
  PROVE  BlockBinsOK'
<1>1. \A h \in blocks : h \in 1..Height /\ chain'[h] = chain[h]
  BY DEF BlocksOK
<1>2. ASSUME NEW b, BlockBinOK(b) PROVE BlockBinOK(b)'
  BY <1>1, <1>2 DEF BlockBinOK
<1>3. Growing' => Growing
  BY DEF Growing
<1>4. \A k : OwnBins(k)' = OwnBins(k)
  BY DEF OwnBins
<1>5. ASSUME NEW k \in Kinds PROVE BinsOf(k, OwnBins(k))'
  <2>1. PICK B : B = OwnBins(k)
    OBVIOUS
  <2>2. BinsOf(k, B) /\ B \subseteq blockBins
    BY <2>1 DEF BlockBinsOK, OwnBins
  <2>3. (\A b \in B : b.kind = k /\ BlockBinOK(b)') /\ Alone(B)
    BY <1>2, <2>2 DEF BinsOf
  <2>4. ASSUME Growing', NEW b \in B, NEW h \in blocks', h < b.height PROVE Found(h, B)
    BY <1>3, <2>2, <2>4 DEF BinsOf
  <2>5. BinsOf(k, B)'
    BY <2>3, <2>4 DEF BinsOf
  <2> QED BY <1>4, <2>1, <2>5 DEF BinsOf, Alone, Found
<1> QED BY <1>5 DEF BlockBinsOK

LEMMA BinsArriveOK ==
  ASSUME PropInv, BlockBinsOK, NEW time \in BlockTimes, NEW synced \in BOOLEAN,
         BlockArrives(time, synced)
  PROVE  BlockBinsOK'
<1>1. /\ chain \in Seq(BlockTimes) /\ chain' = Append(chain, time) /\ BlocksOK
      /\ blocks' = blocks /\ blockBins' = blockBins
  BY DEF PropInv, TablesOK, BlockArrives, BlocksOK, tables
<1>2. PICK n \in Nat : n = Height /\ n + 1 = Height' /\ \A h \in 1..n : chain'[h] = chain[h]
  BY <1>1 DEF Height
<1>3. \A h \in 1..Height : h \in 1..Height' /\ chain'[h] = chain[h]
  BY <1>2
<1> QED BY <1>1, <1>3, BlockBinsKept

LEMMA BinsInsertOK == ASSUME PropInv, BlockBinsOK, InsertBlock PROVE BlockBinsOK'
<1>1. PICK c : blockCall = <<c>> /\ BlockCallOK(c) /\ blockCall[1] = c /\ Todo = c.todo[1]
  BY Running DEF PropInv, InsertBlock, AtStep
<1>2. \A h \in blocks : h < c.height
  BY <1>1 DEF InsertBlock, AtStep, BlockCallOK
<1>3. BlocksOK /\ blocks' = blocks \cup {c.height} /\ UNCHANGED <<chain, blockBins>>
  BY <1>1 DEF PropInv, TablesOK, BlocksOK, InsertBlock
<1>4. \A h \in 1..Height : h \in 1..Height' /\ chain'[h] = chain[h]
  BY <1>3 DEF Height
<1>5. ASSUME NEW b \in blockBins PROVE ~(c.height < b.height)
  <2>1. b.height \in blocks
    <3>1. b.kind \in Kinds
      BY DEF BlockBinsOK
    <3>2. b \in OwnBins(b.kind) /\ BinsOf(b.kind, OwnBins(b.kind))
      BY <3>1 DEF BlockBinsOK, OwnBins
    <3> QED BY <3>2 DEF BinsOf, BlockBinOK
  <2>2. c.height \in 1..Height /\ b.height \in 1..Height /\ Height \in Nat
    BY <1>1, <1>3, <2>1, BlocksAre DEF BlockCallOK
  <2>3. b.height < c.height
    BY <1>2, <2>1
  <2> QED BY <2>2, <2>3
<1> QED BY <1>3, <1>4, <1>5, BlockBinsKept

\* A round of bins for one kind leaves the other's alone.
LEMMA BinsUpdateOK == ASSUME PropInv, BlockBinsOK, UpdateBlockBinData PROVE BlockBinsOK'
<1>1. PICK k : k = Todo[1]
  OBVIOUS
<1>2. k \in Kinds /\ blockBins' = blockBins \cup NewBlockBins(k) /\ UNCHANGED <<chain, blocks>>
  BY <1>1 DEF UpdateBlockBinData, AtStep, Kinds
<1>3. PICK R : R = NewBlockBins(k)
  OBVIOUS
<1>4. BlocksOK
  BY DEF PropInv, TablesOK, BlocksOK
<1>5. BinsOf(k, OwnBins(k) \cup R)
  BY <1>2, <1>3, <1>4, NewBlockBinsOK
<1>6. \A b \in R : b.kind = k
  BY <1>5 DEF BinsOf
<1>7. OwnBins(k)' = OwnBins(k) \cup R /\ \A j \in Kinds : j # k => OwnBins(j)' = OwnBins(j)
  BY <1>2, <1>3, <1>6 DEF OwnBins
<1>8. ASSUME NEW j, NEW B, BinsOf(j, B) PROVE BinsOf(j, B)'
  <2>1. Growing' <=> Growing
    BY <1>2 DEF Growing, Height
  <2>2. \A b : BlockBinOK(b)' <=> BlockBinOK(b)
    BY <1>2 DEF BlockBinOK
  <2>3. /\ \A b \in B : b.kind = j /\ BlockBinOK(b)'
        /\ Alone(B)
        /\ Growing' => \A b \in B, h \in blocks' : h < b.height => Found(h, B)
    BY <1>2, <1>8, <2>1, <2>2 DEF BinsOf
  <2> QED BY <2>3 DEF BinsOf
<1>9. ASSUME NEW j \in Kinds PROVE BinsOf(j, OwnBins(j))'
  <2>1. PICK B : B = OwnBins(j)'
    OBVIOUS
  <2>2. BinsOf(j, B)
    <3>1. CASE j = k
      BY <1>5, <1>7, <2>1, <3>1
    <3>2. CASE j # k
      BY <1>7, <2>1, <3>2 DEF BlockBinsOK
    <3> QED BY <3>1, <3>2
  <2>3. BinsOf(j, B)'
    BY <1>8, <2>2
  <2> QED BY <2>1, <2>3 DEF BinsOf, Alone, Found
<1>10. \A b \in blockBins' : b.kind \in Kinds
  BY <1>2, <1>3, <1>6 DEF BlockBinsOK
<1> QED BY <1>9, <1>10 DEF BlockBinsOK

LEMMA BinsUntouched ==
  ASSUME PropInv, BlockBinsOK, UNCHANGED <<chain, blocks, blockBins>>
  PROVE  BlockBinsOK'
<1>1. BlocksOK
  BY DEF PropInv, TablesOK, BlocksOK
<1>2. \A h \in 1..Height : h \in 1..Height' /\ chain'[h] = chain[h]
  BY DEF Height
<1> QED BY <1>1, <1>2, BlockBinsKept

\* The bins keep right in every step.
THEOREM BlockBinsInvariant == PropSpec => []BlockBinsOK
<1>1. PropInit => BlockBinsOK
  <2> SUFFICES ASSUME PropInit PROVE BlockBinsOK
    OBVIOUS
  <2>1. blockBins = {} /\ \A k : OwnBins(k) = {}
    BY DEF PropInit, OwnBins
  <2> QED BY <2>1 DEF BlockBinsOK, BinsOf, Alone
<1>2. PropInv /\ BlockBinsOK /\ [PropNext]_propVars => BlockBinsOK'
  <2> SUFFICES ASSUME PropInv, BlockBinsOK, [PropNext]_propVars PROVE BlockBinsOK'
    OBVIOUS
  <2>1. ASSUME NEW time \in BlockTimes, NEW synced \in BOOLEAN, BlockArrives(time, synced)
        PROVE BlockBinsOK'
    BY <2>1, BinsArriveOK
  <2>2. CASE InsertBlock
    BY <2>2, BinsInsertOK
  <2>3. CASE UpdateBlockBinData
    BY <2>3, BinsUpdateOK
  <2>4. CASE ConnectBlockFails \/ Reboot
    BY <2>4, BinsUntouched DEF ConnectBlockFails, Reboot, tables
  <2>5. ASSUME NEW failed \in SUBSET Votes, UpdateVotes(failed) PROVE BlockBinsOK'
    BY <2>5, BinsUntouched DEF UpdateVotes
  <2>6. ASSUME NEW last \in 0..MaxHeight, UpdatePeer(last) PROVE BlockBinsOK'
    BY <2>6, BinsUntouched DEF UpdatePeer
  <2>7. ASSUME NEW v \in Votes, VoteArrives(v) PROVE BlockBinsOK'
    BY <2>7, BinsUntouched DEF VoteArrives, tables
  <2>8. ASSUME NEW ok \in BOOLEAN, LookUpBlock(ok) \/ InsertVote(ok) PROVE BlockBinsOK'
    BY <2>8, BinsUntouched DEF LookUpBlock, InsertVote, tables
  <2>9. CASE UNCHANGED propVars
    BY <2>9, BinsUntouched DEF propVars
  <2> QED BY <2>1, <2>2, <2>3, <2>4, <2>5, <2>6, <2>7, <2>8, <2>9 DEF PropNext
<1> QED BY <1>1, <1>2, PropagationInvariant, PTL DEF PropSpec

\* block bins: whatever page a bin was read in and however the updates between two blocks
\* ended, no block is averaged twice in an hour or a day, and where the block times grow none
\* is left out below the newest bin (updateBlockHourlyAvgData, updateBlockDailyAvgData).
THEOREM BlocksAreBinnedOnce == PropSpec => []BlocksBinnedOnce
<1>1. BlockBinsOK => BlocksBinnedOnce
  <2> SUFFICES ASSUME BlockBinsOK, NEW k \in Kinds
               PROVE  /\ Alone(OwnBins(k))
                      /\ Growing => \A b \in OwnBins(k) : \A h \in blocks :
                           h < b.height => Found(h, OwnBins(k))
    BY DEF BlocksBinnedOnce, Kinds, OwnBins, Alone, Growing, Found
  <2> QED BY DEF BlockBinsOK, BinsOf
<1> QED BY <1>1, BlockBinsInvariant, PTL

-----------------------------------------------------------------------------
(* Types. *)

TicketIndexes == 1..Cardinality(Votes)

\* No ticket is numbered twice for a block, so no number exceeds the votes there are.
TicketsOK ==
  \A h \in DOMAIN ticketInds :
    /\ ticketInds[h] \in Seq(Votes)
    /\ \A i, j \in DOMAIN ticketInds[h] : ticketInds[h][i] = ticketInds[h][j] => i = j

PropTypes ==
  /\ Height <= MaxHeight /\ syncIsDone \in BOOLEAN /\ TicketsOK
  /\ rows \in [DOMAIN Peers -> SUBSET blocks]
  /\ voteCall # Idle => voteCall[1].validator \in TicketIndexes
  /\ \A v \in DOMAIN votes : votes[v].validator \in TicketIndexes

LEMMA PlacesAreIndexes ==
  ASSUME NEW s \in Seq(Votes), \A i, j \in DOMAIN s : s[i] = s[j] => i = j
  PROVE  DOMAIN s \subseteq TicketIndexes
<1>1. PICK n \in Nat : DOMAIN s = 1..n /\ n = Len(s)
  OBVIOUS
<1>2. IsFiniteSet(Votes)
  BY PropagationAssumption DEF PropagationAssumption
<1>3. IsFiniteSet(1..n) /\ Cardinality(1..n) = n
  <2>1. IsFiniteSet(1..n) /\ Cardinality(1..n) = IF 1 > n THEN 0 ELSE n - 1 + 1
    BY FS_Interval
  <2> QED BY <2>1
<1>4. s \in Injection(1..n, Votes)
  BY <1>1 DEF Injection, IsInjective
<1>5. n <= Cardinality(Votes)
  <2>1. Cardinality(1..n) <= Cardinality(Votes)
    BY ONLY <1>2, <1>4, FS_Injection
  <2> QED BY <1>3, <2>1
<1>6. Cardinality(Votes) \in Nat
  BY <1>2, FS_CardinalityType
<1> QED BY <1>1, <1>5, <1>6 DEF TicketIndexes

LEMMA SetTicketIndexOK ==
  ASSUME TicketsOK, NEW v \in Votes, NEW h, NEW seen, seen = SetTicketIndex(v, h)
  PROVE  /\ seen \in Seq(Votes)
         /\ \A i, j \in DOMAIN seen : seen[i] = seen[j] => i = j
         /\ \E i \in DOMAIN seen : seen[i] = v
<1>1. PICK s : s = IF h \in DOMAIN ticketInds THEN ticketInds[h] ELSE <<>>
  OBVIOUS
<1>2. seen = IF \E i \in DOMAIN s : s[i] = v THEN s ELSE Append(s, v)
  BY <1>1 DEF SetTicketIndex
<1>3. s \in Seq(Votes) /\ \A i, j \in DOMAIN s : s[i] = s[j] => i = j
  <2>1. CASE h \in DOMAIN ticketInds
    BY <1>1, <2>1 DEF TicketsOK
  <2>2. CASE h \notin DOMAIN ticketInds
    <3>1. s = <<>>
      BY <1>1, <2>2
    <3> QED BY <3>1
  <2> QED BY <2>1, <2>2
<1>4. CASE \E i \in DOMAIN s : s[i] = v
  BY <1>2, <1>3, <1>4
<1>5. CASE ~\E i \in DOMAIN s : s[i] = v
  <2>1. PICK n \in Nat : DOMAIN s = 1..n /\ n = Len(s)
    BY <1>3
  <2>2. /\ seen \in Seq(Votes) /\ DOMAIN seen = 1..(n + 1) /\ seen[n + 1] = v
        /\ \A i \in 1..n : seen[i] = s[i]
    BY <1>2, <1>3, <1>5, <2>1
  <2>3. ASSUME NEW i \in 1..(n + 1), NEW j \in 1..(n + 1), seen[i] = seen[j] PROVE i = j
    BY <1>3, <1>5, <2>1, <2>2, <2>3
  <2>4. n + 1 \in 1..(n + 1)
    BY <2>1
  <2> QED BY <2>2, <2>3, <2>4
<1> QED BY <1>4, <1>5

LEMMA TypesInit == PropInit => PropTypes
<1> SUFFICES ASSUME PropInit PROVE PropTypes
  OBVIOUS
<1>1. MaxHeight \in Nat
  BY PropagationAssumption DEF PropagationAssumption
<1>2. Height <= MaxHeight
  BY <1>1 DEF PropInit, Height
<1>3. voteCall = Idle /\ DOMAIN votes = {} /\ DOMAIN ticketInds = {}
  BY DEF PropInit
<1>4. rows \in [DOMAIN Peers -> SUBSET blocks] /\ syncIsDone \in BOOLEAN
  BY DEF PropInit
<1> QED BY <1>2, <1>3, <1>4 DEF PropTypes, TicketsOK

\* No step of a ConnectBlock touches the numbers.
LEMMA TypesOfBlocks ==
  ASSUME PropTypes, UNCHANGED <<chain, syncIsDone, ticketInds, voteCall>>,
         rows' \in [DOMAIN Peers -> SUBSET blocks'],
         DOMAIN votes' = DOMAIN votes,
         \A v \in DOMAIN votes : votes'[v].validator = votes[v].validator
  PROVE  PropTypes'
BY DEF PropTypes, TicketsOK, Height, TicketIndexes

LEMMA TypesBlockArrives ==
  ASSUME PropInv, PropTypes, NEW time \in BlockTimes, NEW synced \in BOOLEAN,
         BlockArrives(time, synced)
  PROVE  PropTypes'
<1>1. PICK n \in Nat : n = Height /\ n + 1 = Height'
  BY DEF PropInv, TablesOK, BlockArrives, Height
<1>2. Height' <= MaxHeight
  <2>1. n < MaxHeight /\ MaxHeight \in Nat
    BY <1>1, PropagationAssumption DEF PropagationAssumption, BlockArrives
  <2> QED BY <1>1, <2>1
<1>3. syncIsDone' \in BOOLEAN
  BY DEF BlockArrives, PropTypes
<1>4. UNCHANGED <<blocks, votes, rows, ticketInds, voteCall>>
  BY DEF BlockArrives, tables
<1> QED BY <1>2, <1>3, <1>4 DEF PropTypes, TicketsOK, TicketIndexes

LEMMA TypesUpdateVotes ==
  ASSUME PropInv, PropTypes, NEW failed \in SUBSET Votes, UpdateVotes(failed)
  PROVE  PropTypes'
<1>1. ASSUME NEW v \in DOMAIN votes PROVE votes'[v].validator = votes[v].validator
  <2>1. PICK i, n : votes[v] \in [received : BOOLEAN, validator : {i}, by : {n}]
    BY DEF PropInv, TablesOK, RowOK
  <2>2. PICK d : d = [votes[v] EXCEPT !.received = TRUE]
    OBVIOUS
  <2>3. d.validator = votes[v].validator
    BY <2>1, <2>2
  <2>4. votes'[v] = d \/ votes'[v] = votes[v]
    BY <2>2 DEF UpdateVotes
  <2> QED BY <2>3, <2>4
<1>2. DOMAIN votes' = DOMAIN votes /\ UNCHANGED <<chain, syncIsDone, ticketInds, voteCall, rows, blocks>>
  BY DEF UpdateVotes
<1>3. rows' \in [DOMAIN Peers -> SUBSET blocks']
  BY <1>2 DEF PropTypes
<1> QED BY <1>1, <1>2, <1>3, TypesOfBlocks

LEMMA TypesUpdatePeer ==
  ASSUME PropInv, PropTypes, NEW last, UpdatePeer(last)
  PROVE  PropTypes'
<1>1. UNCHANGED <<chain, syncIsDone, ticketInds, voteCall, votes, blocks>>
  BY DEF UpdatePeer
<1>2. rows' \in [DOMAIN Peers -> SUBSET blocks]
  <2>1. NewRows(last) \subseteq blocks /\ rows \in [DOMAIN Peers -> SUBSET blocks]
    BY DEF NewRows, PropTypes
  <2> QED BY <2>1 DEF UpdatePeer
<1> QED BY <1>1, <1>2, TypesOfBlocks

LEMMA TypesVoteArrives ==
  ASSUME PropTypes, NEW v \in Votes, VoteArrives(v)
  PROVE  PropTypes'
<1>1. PICK seen : seen = SetTicketIndex(v, VotingOn[v])
  OBVIOUS
<1>2. PICK i : i = CHOOSE j \in DOMAIN seen : seen[j] = v
  OBVIOUS
<1>3. /\ seen \in Seq(Votes)
      /\ \A j, k \in DOMAIN seen : seen[j] = seen[k] => j = k
      /\ \E j \in DOMAIN seen : seen[j] = v
  BY <1>1, SetTicketIndexOK DEF PropTypes
<1>4. i \in TicketIndexes
  <2>1. i \in DOMAIN seen
    BY <1>2, <1>3
  <2> QED BY <1>3, <2>1, PlacesAreIndexes
<1>5. /\ ticketInds' = [h \in DOMAIN ticketInds \cup {VotingOn[v]} |->
                          IF h = VotingOn[v] THEN seen ELSE ticketInds[h]]
      /\ voteCall' = <<[vote |-> v, at |-> "lookup", received |-> FALSE, validator |-> i]>>
  BY <1>1, <1>2 DEF VoteArrives
<1>6. TicketsOK'
  BY <1>3, <1>5 DEF TicketsOK, PropTypes
<1>7. voteCall'[1].validator = i
  BY <1>5
<1>8. UNCHANGED <<chain, syncIsDone, blocks, votes, rows>>
  BY DEF VoteArrives, tables
<1> QED BY <1>4, <1>6, <1>7, <1>8 DEF PropTypes, Height, TicketIndexes

LEMMA TypesLookUpBlock ==
  ASSUME PropInv, PropTypes, NEW ok \in BOOLEAN, LookUpBlock(ok)
  PROVE  PropTypes'
<1>1. PICK c, i : voteCall = <<c>> /\ c \in VoteCalls(i)
  BY DEF PropInv, VoteRunOK, LookUpBlock
<1>2. PICK d : d = [c EXCEPT !.at = "insert", !.received = ok /\ VotingOn[c.vote] \in blocks]
  OBVIOUS
<1>3. d.validator = c.validator
  BY <1>1, <1>2 DEF VoteCalls
<1>4. voteCall' = <<d>>
  BY <1>1, <1>2 DEF LookUpBlock
<1>5. c.validator \in TicketIndexes
  BY <1>1, NotIdle DEF PropTypes
<1>6. voteCall'[1].validator \in TicketIndexes
  BY <1>3, <1>4, <1>5
<1>7. UNCHANGED <<chain, syncIsDone, blocks, votes, rows, ticketInds>>
  BY DEF LookUpBlock, tables
<1> QED BY <1>6, <1>7 DEF PropTypes, TicketsOK, Height, TicketIndexes

LEMMA TypesInsertVote ==
  ASSUME PropInv, PropTypes, NEW ok \in BOOLEAN, InsertVote(ok)
  PROVE  PropTypes'
<1>1. PICK c, i : voteCall = <<c>> /\ c \in VoteCalls(i)
  BY DEF PropInv, VoteRunOK, InsertVote
<1>2. PICK row : row = [received |-> c.received, validator |-> c.validator, by |-> reboots]
  OBVIOUS
<1>3. row.validator \in TicketIndexes
  BY <1>1, <1>2, NotIdle DEF PropTypes
<1>4. votes' = IF ok /\ c.vote \notin DOMAIN votes
               THEN [v \in DOMAIN votes \cup {c.vote} |-> IF v = c.vote THEN row ELSE votes[v]]
               ELSE votes
  BY <1>1, <1>2 DEF InsertVote
<1>5. \A v \in DOMAIN votes' : \/ v \in DOMAIN votes /\ votes'[v] = votes[v]
                               \/ v = c.vote /\ votes'[v] = row
  BY <1>4
<1>6. \A v \in DOMAIN votes' : votes'[v].validator \in TicketIndexes
  BY <1>3, <1>5 DEF PropTypes
<1>7. UNCHANGED <<chain, syncIsDone, blocks, rows, ticketInds>> /\ voteCall' = Idle
  BY DEF InsertVote
<1> QED BY <1>6, <1>7 DEF PropTypes, TicketsOK, Height, TicketIndexes

LEMMA TypesReboot == ASSUME PropTypes, Reboot PROVE PropTypes'
<1>1. syncIsDone' = FALSE /\ voteCall' = Idle /\ DOMAIN ticketInds' = {}
  BY DEF Reboot
<1>2. UNCHANGED <<chain, blocks, votes, rows>>
  BY DEF Reboot, tables
<1> QED BY <1>1, <1>2 DEF PropTypes, TicketsOK, Height, TicketIndexes

LEMMA TypesInvariant == PropSpec => []PropTypes
<1>1. PropInv /\ PropTypes /\ [PropNext]_propVars => PropTypes'
  <2> SUFFICES ASSUME PropInv, PropTypes, [PropNext]_propVars PROVE PropTypes'
    OBVIOUS
  <2>1. ASSUME NEW time \in BlockTimes, NEW synced \in BOOLEAN, BlockArrives(time, synced)
        PROVE PropTypes'
    BY <2>1, TypesBlockArrives
  <2>2. CASE InsertBlock
    <3>1. rows' \in [DOMAIN Peers -> SUBSET blocks'] /\ UNCHANGED <<chain, syncIsDone, ticketInds, voteCall, votes>>
      BY <2>2 DEF InsertBlock, PropTypes
    <3> QED BY <3>1, TypesOfBlocks
  <2>3. CASE UpdateBlockBinData \/ ConnectBlockFails
    <3>1. rows' \in [DOMAIN Peers -> SUBSET blocks'] /\ UNCHANGED <<chain, syncIsDone, ticketInds, voteCall, votes>>
      BY <2>3 DEF UpdateBlockBinData, ConnectBlockFails, PropTypes, tables
    <3> QED BY <3>1, TypesOfBlocks
  <2>4. CASE Reboot
    BY <2>4, TypesReboot
  <2>5. ASSUME NEW failed \in SUBSET Votes, UpdateVotes(failed) PROVE PropTypes'
    BY <2>5, TypesUpdateVotes
  <2>6. ASSUME NEW last \in 0..MaxHeight, UpdatePeer(last) PROVE PropTypes'
    BY <2>6, TypesUpdatePeer
  <2>7. ASSUME NEW v \in Votes, VoteArrives(v) PROVE PropTypes'
    BY <2>7, TypesVoteArrives
  <2>8. ASSUME NEW ok \in BOOLEAN, LookUpBlock(ok) PROVE PropTypes'
    BY <2>8, TypesLookUpBlock
  <2>9. ASSUME NEW ok \in BOOLEAN, InsertVote(ok) PROVE PropTypes'
    BY <2>9, TypesInsertVote
  <2>10. CASE UNCHANGED propVars
    BY <2>10, TypesOfBlocks DEF propVars, PropTypes
  <2> QED BY <2>1, <2>2, <2>3, <2>4, <2>5, <2>6, <2>7, <2>8, <2>9, <2>10 DEF PropNext
<1> QED BY <1>1, TypesInit, PropagationInvariant, PTL DEF PropSpec

\* Rows, bins and numbers are what they should be: a bin starts on its hour or day and holds
\* saved blocks only, a peer is compared on saved blocks only, and the index SetTicketIndex
\* gives a ticket never exceeds the number of votes.
THEOREM PropTypeCorrect == PropSpec => []PropTypeOK
<1>1. PropInv /\ BlockBinsOK /\ PropTypes => PropTypeOK
  <2> SUFFICES ASSUME PropInv, BlockBinsOK, PropTypes PROVE PropTypeOK
    OBVIOUS
  <2>1. blocks \subseteq 1..MaxHeight
    <3>1. Height \in Nat /\ MaxHeight \in Nat /\ Height <= MaxHeight
      BY PropagationAssumption DEF PropagationAssumption, PropInv, TablesOK, Height, PropTypes
    <3>2. \A h \in 1..Height : h \in 1..MaxHeight
      BY <3>1
    <3> QED BY <3>2 DEF PropInv, TablesOK
  <2>2. ASSUME NEW b \in blockBins
        PROVE b.time % Width(b.kind) = 0 /\ b.of \subseteq blocks /\ b.height \in blocks
    <3>1. b.kind \in Kinds
      BY DEF BlockBinsOK
    <3>2. b \in OwnBins(b.kind) /\ BinsOf(b.kind, OwnBins(b.kind))
      BY <3>1 DEF BlockBinsOK, OwnBins
    <3>3. BlockBinOK(b)
      BY <3>2 DEF BinsOf
    <3> QED BY <3>3 DEF BlockBinOK
  <2> QED BY <2>1, <2>2 DEF PropTypeOK, PropInv, TablesOK, PropTypes, TicketIndexes
<1> QED BY <1>1, TypesInvariant, PropagationInvariant, BlockBinsInvariant, PTL
=============================================================================
