------------------------------ MODULE BinGroups ------------------------------
(***************************************************************************)
(* How src/chart/chart.go groups records into hours and days.  A record is *)
(* an index, ordered as the query returned them, and date gives its time.  *)
(***************************************************************************)
EXTENDS Integers, FiniteSets, FiniteSetsExt

CONSTANTS AnHour, ADay

ASSUME GroupsAssumption ==
  /\ {AnHour, ADay} \subseteq Nat \ {0}
  /\ ADay % AnHour = 0

Width(kind) == IF kind = "hour" THEN AnHour ELSE ADay

\* hourStamp and midnight.
Stamp(t, w) == t - (t % w)

\* Mutants: a group is stored without its last record; a bin starts at its first.
GenerateBinShort(S, date, w) ==
  LET In(p) == {i \in S : Stamp(date[i], w) = p}
      past(p) == {i \in S : date[i] >= p + w}
  IN {[time |-> p, of |-> In(p) \ {Max(In(p))}, next |-> Min(past(p))] :
        p \in {Stamp(date[i], w) : i \in {i \in S : past(Stamp(date[i], w)) # {}}}}

GenerateBinAtFirst(S, date, w) ==
  {[time |-> Min({date[i] : i \in {i \in S : Stamp(date[i], w) = p}}),
    of |-> {i \in S : Stamp(date[i], w) = p}, next |-> 0] :
     p \in {Stamp(date[i], w) : i \in {i \in S : \E j \in S : date[j] >= Stamp(date[i], w) + w}}}

\* GenerateHourBin and GenerateDayBin.  A group closes at the first record past
\* its end, so the newest stays open, and none closes before the newest record is
\* more than one period past the first.  The height a group carries is that of
\* the record that closes it, the first of the next group.
GenerateBin(S, date, w) ==
  LET end == Stamp(date[Max(S)], w)
      Close[R \in SUBSET S] ==
        LET start == Stamp(date[Min(R)], w)
            past  == {i \in R : date[i] >= start + w}
            rest  == {i \in R : i >= Min(past)}
        IN IF past = {} THEN {}
           ELSE {[time |-> start, of |-> R \ rest, next |-> Min(past)]}
                  \cup (IF date[Min(past)] > end THEN {} ELSE Close[rest])
  IN IF S # {} /\ end > Stamp(date[Min(S)], w) + w THEN Close[S] ELSE {}
=============================================================================
