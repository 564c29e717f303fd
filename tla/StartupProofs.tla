----------------------------- MODULE StartupProofs -----------------------------
(***************************************************************************)
(* What the process has registered finds its tables, for all settings,     *)
(* earlier schemas and numbers of copies, restarts, failures and kills.    *)
(***************************************************************************)
EXTENDS Startup, SequenceTheorems, WellFoundedInduction, TLAPS

Modules == {"stats", "stakingreward", "parameters", "charts", "attackcost", "mempool",
            "propagation", "proposals", "netsnapshot", "exchanges", "commstats", "pow", "vsp",
            "treasury"}

\* The steps of a module's set-up that need nothing of the steps before them, and all.
OwnSteps == {"Rpc", "AddTemplate", "AddRoute", "RegisterBlockHandlerGroup", "NeedsBot", "go",
             "NewProposalsDB", "Collectors"}

SetupSteps == OwnSteps \cup {"dbInstance", "PeerTables"}

\* Those of _main before the modules, and all.
MainSteps == {"loadConfig", "connectNodeRPC", "GetCurrentNet", "NewExchangeBot", "NewServer"}

AllSteps == SetupSteps \cup MainSteps \cup
            {"GetBestBlock", "BuildRoute", "listenAndServeProto", "Listen", "Wait"}

Places == [part : Modules \cup {"main", "homepage"}, step : AllSteps]

\* The steps that leave something of a part behind.
Leaves == {"RegisterBlockHandlerGroup", "AddRoute", "go"}

-----------------------------------------------------------------------------
(* The order of the set-up, a fact about each module's steps that holds for *)
(* one after the other.                                                     *)

\* What is registered for a part with tables comes after the tables, the block handler of
\* the propagation after the look at the peers' tables, and neither can be left out.
Ordered(c, P) ==
  /\ P \in Seq(Places)
  /\ \A k \in 1..Len(P) : /\ P[k].part \in (c.parts \cap Modules) \cup {"main"}
                          /\ P[k].step \in SetupSteps \cup MainSteps
                          /\ (P[k].part = "main") <=> (P[k].step \in MainSteps)
  /\ \A k \in 1..Len(P) : P[k].part \in OnDatabase /\ P[k].step \in Leaves =>
       \E j \in 1..(k - 1) : P[j].step = "dbInstance"
  /\ \A k \in 1..Len(P) :
       P[k].part = "propagation" /\ P[k].step = "RegisterBlockHandlerGroup" =>
         c.peers = {} \/ \E j \in 1..(k - 1) : P[j].step = "PeerTables"
  /\ \A k \in 1..Len(P) :
       P[k].step \in {"dbInstance", "PeerTables"} => P[k].part # "proposals"

LEMMA OrderedBoth ==
  ASSUME NEW c, NEW P, NEW Q, Ordered(c, P), Ordered(c, Q)
  PROVE  Ordered(c, P \o Q)
<1> DEFINE R == P \o Q
<1>1. /\ R \in Seq(Places) /\ Len(R) = Len(P) + Len(Q)
      /\ Len(P) \in Nat /\ Len(Q) \in Nat
      /\ \A i \in 1..(Len(P) + Len(Q)) : R[i] = IF i <= Len(P) THEN P[i] ELSE Q[i - Len(P)]
  BY ConcatProperties, LenProperties DEF Ordered
<1>2. \A k \in 1..Len(R) :
        \/ k \in 1..Len(P) /\ R[k] = P[k] /\ \A j \in 1..(k - 1) : R[j] = P[j]
        \/ /\ (k - Len(P)) \in 1..Len(Q) /\ R[k] = Q[k - Len(P)]
           /\ \A j \in 1..(k - Len(P) - 1) : R[j + Len(P)] = Q[j] /\ (j + Len(P)) \in 1..(k - 1)
  BY <1>1
<1> HIDE DEF R
<1>3. \A k \in 1..Len(R) : /\ R[k].part \in (c.parts \cap Modules) \cup {"main"}
                           /\ R[k].step \in SetupSteps \cup MainSteps
                           /\ (R[k].part = "main") <=> (R[k].step \in MainSteps)
  BY <1>2 DEF Ordered
<1>4. \A k \in 1..Len(R) : R[k].part \in OnDatabase /\ R[k].step \in Leaves =>
        \E j \in 1..(k - 1) : R[j].step = "dbInstance"
  <2> SUFFICES ASSUME NEW k \in 1..Len(R), R[k].part \in OnDatabase, R[k].step \in Leaves
               PROVE  \E j \in 1..(k - 1) : R[j].step = "dbInstance"
    OBVIOUS
  <2>1. CASE k \in 1..Len(P) /\ R[k] = P[k] /\ \A j \in 1..(k - 1) : R[j] = P[j]
    <3>1. \E j \in 1..(k - 1) : P[j].step = "dbInstance"
      BY <2>1 DEF Ordered
    <3> QED BY <3>1, <2>1
  <2>2. CASE /\ (k - Len(P)) \in 1..Len(Q) /\ R[k] = Q[k - Len(P)]
             /\ \A j \in 1..(k - Len(P) - 1) : R[j + Len(P)] = Q[j] /\ (j + Len(P)) \in 1..(k - 1)
    <3>1. PICK i \in 1..Len(Q) : i = k - Len(P)
      BY <2>2
    <3>2. PICK j \in 1..(i - 1) : Q[j].step = "dbInstance"
      BY <2>2, <3>1 DEF Ordered
    <3> QED BY <2>2, <3>1, <3>2
  <2> QED BY <1>2, <2>1, <2>2
<1>5. \A k \in 1..Len(R) :
        R[k].part = "propagation" /\ R[k].step = "RegisterBlockHandlerGroup" =>
          c.peers = {} \/ \E j \in 1..(k - 1) : R[j].step = "PeerTables"
  <2> SUFFICES ASSUME NEW k \in 1..Len(R), R[k].part = "propagation",
                      R[k].step = "RegisterBlockHandlerGroup", c.peers # {}
               PROVE  \E j \in 1..(k - 1) : R[j].step = "PeerTables"
    OBVIOUS
  <2>1. CASE k \in 1..Len(P) /\ R[k] = P[k] /\ \A j \in 1..(k - 1) : R[j] = P[j]
    <3>1. \E j \in 1..(k - 1) : P[j].step = "PeerTables"
      BY <2>1 DEF Ordered
    <3> QED BY <3>1, <2>1
  <2>2. CASE /\ (k - Len(P)) \in 1..Len(Q) /\ R[k] = Q[k - Len(P)]
             /\ \A j \in 1..(k - Len(P) - 1) : R[j + Len(P)] = Q[j] /\ (j + Len(P)) \in 1..(k - 1)
    <3>1. PICK i \in 1..Len(Q) : i = k - Len(P)
      BY <2>2
    <3>2. PICK j \in 1..(i - 1) : Q[j].step = "PeerTables"
      BY <2>2, <3>1 DEF Ordered
    <3> QED BY <2>2, <3>1, <3>2
  <2> QED BY <1>2, <2>1, <2>2
<1>6. \A k \in 1..Len(R) :
        R[k].step \in {"dbInstance", "PeerTables"} => R[k].part # "proposals"
  BY <1>2 DEF Ordered
<1> QED BY <1>1, <1>3, <1>4, <1>5, <1>6 DEF Ordered, R

LEMMA OrderedEmpty == ASSUME NEW c PROVE Ordered(c, <<>>)
<1>1. <<>> \in Seq(Places) /\ Len(<<>>) = 0
  BY EmptySeq
<1> QED BY <1>1 DEF Ordered

\* The set-up of one module.
LEMMA OrderedModule ==
  ASSUME NEW c, NEW part \in Modules, NEW s \in Seq(SetupSteps),
         part \in OnDatabase => \/ Len(s) > 0 /\ s[1] = "dbInstance"
                                \/ part = "propagation",
         part = "propagation" =>
           \A k \in 1..Len(s) : s[k] \in Leaves =>
             /\ \E j \in 1..(k - 1) : s[j] = "dbInstance"
             /\ c.peers = {} \/ \E j \in 1..(k - 1) : s[j] = "PeerTables",
         part = "proposals" => s \in Seq(OwnSteps)
  PROVE  Ordered(c, When(part \in c.parts, Steps(part, s)))
<1>1. CASE part \notin c.parts
  BY <1>1, OrderedEmpty DEF When
<1>2. CASE part \in c.parts
  <2> DEFINE P == Steps(part, s)
  <2>1. Len(s) \in Nat /\ DOMAIN s = 1..Len(s) /\ \A k \in 1..Len(s) : s[k] \in SetupSteps
    BY LenProperties, ElementOfSeq
  <2>2. P = [k \in 1..Len(s) |-> [part |-> part, step |-> s[k]]]
    BY <2>1 DEF Steps
  <2>3. P \in Seq(Places) /\ Len(P) = Len(s)
    BY <2>1, <2>2 DEF Places, AllSteps, Modules
  <2>4. \A k \in 1..Len(s) : P[k].part = part /\ P[k].step = s[k]
    BY <2>2
  <2> HIDE DEF P
  <2>5. \A k \in 1..Len(P) : P[k].part \in (c.parts \cap Modules) \cup {"main"}
                          /\ P[k].step \in SetupSteps \cup MainSteps
                          /\ P[k].part # "main" /\ P[k].step \notin MainSteps
    <3>1. "main" \notin Modules /\ SetupSteps \cap MainSteps = {}
      BY DEF Modules, SetupSteps, OwnSteps, MainSteps
    <3> QED BY <1>2, <2>1, <2>3, <2>4, <3>1
  <2>6. \A k \in 1..Len(P) : P[k].part \in OnDatabase /\ P[k].step \in Leaves =>
          \E j \in 1..(k - 1) : P[j].step = "dbInstance"
    <3> SUFFICES ASSUME NEW k \in 1..Len(P), part \in OnDatabase, s[k] \in Leaves
                 PROVE  \E j \in 1..(k - 1) : P[j].step = "dbInstance"
      BY <2>3, <2>4
    <3>1. CASE part = "propagation"
      <4>1. PICK j \in 1..(k - 1) : s[j] = "dbInstance"
        BY <3>1, <2>3
      <4> QED BY <4>1, <2>1, <2>3, <2>4
    <3>2. CASE part # "propagation"
      <4>1. s[1] = "dbInstance" /\ "dbInstance" \notin Leaves
        BY <3>2 DEF Leaves
      <4>2. k # 1 /\ 1 \in 1..(k - 1)
        BY <4>1, <2>1, <2>3
      <4> QED BY <4>1, <4>2, <2>1, <2>3, <2>4
    <3> QED BY <3>1, <3>2
  <2>7. \A k \in 1..Len(P) :
          P[k].part = "propagation" /\ P[k].step = "RegisterBlockHandlerGroup" =>
            c.peers = {} \/ \E j \in 1..(k - 1) : P[j].step = "PeerTables"
    <3> SUFFICES ASSUME NEW k \in 1..Len(P), part = "propagation",
                        s[k] = "RegisterBlockHandlerGroup", c.peers # {}
                 PROVE  \E j \in 1..(k - 1) : P[j].step = "PeerTables"
      BY <2>3, <2>4
    <3>1. PICK j \in 1..(k - 1) : s[j] = "PeerTables"
      BY <2>3 DEF Leaves
    <3> QED BY <3>1, <2>1, <2>3, <2>4
  <2>8. \A k \in 1..Len(P) :
          P[k].step \in {"dbInstance", "PeerTables"} => P[k].part # "proposals"
    <3> SUFFICES ASSUME NEW k \in 1..Len(P), part = "proposals"
                 PROVE  s[k] \notin {"dbInstance", "PeerTables"}
      BY <2>3, <2>4
    <3>1. s[k] \in OwnSteps
      BY <2>3, ElementOfSeq
    <3> QED BY <3>1 DEF OwnSteps
  <2>9. Ordered(c, P)
    BY <2>3, <2>5, <2>6, <2>7, <2>8 DEF Ordered
  <2> QED BY <1>2, <2>9 DEF When, P
<1> QED BY <1>1, <1>2

LEMMA WhenSeq == ASSUME NEW S, NEW f, NEW s \in Seq(S) PROVE When(f, s) \in Seq(S)
  BY EmptySeq DEF When

\* What a sequence begins with it still begins with when something follows.
LEMMA FirstStays ==
  ASSUME NEW S, NEW x, NEW s \in Seq(S), NEW t \in Seq(S), Len(s) > 0, s[1] = x
  PROVE  s \o t \in Seq(S) /\ Len(s \o t) > 0 /\ (s \o t)[1] = x
  BY ConcatProperties, LenProperties

LEMMA DatabaseFirst ==
  /\ <<"dbInstance">> \in Seq(SetupSteps) /\ Len(<<"dbInstance">>) > 0
  /\ <<"dbInstance">>[1] = "dbInstance"
  BY DEF SetupSteps

LEMMA OwnAreSetup == ASSUME NEW s \in Seq(OwnSteps) PROVE s \in Seq(SetupSteps)
  BY SeqMonotonic DEF SetupSteps

LEMMA PagesAndWorkers ==
  /\ <<"AddTemplate", "AddRoute">> \in Seq(SetupSteps)
  /\ <<"go">> \in Seq(SetupSteps)
  BY DEF SetupSteps, OwnSteps

\* The modules with tables and flags for what they collect and show.
LEMMA FlaggedSteps ==
  ASSUME NEW c
  PROVE  \A s \in {Netsnapshot(c), ExchangeHub(c), Commstats(c), PowPools(c), VspCollector(c)} :
           s \in Seq(SetupSteps) /\ Len(s) > 0 /\ s[1] = "dbInstance"
<1> USE DatabaseFirst
<1>1. \A f : When(f, <<"AddTemplate", "AddRoute">>) \in Seq(SetupSteps)
             /\ When(f, <<"go">>) \in Seq(SetupSteps)
  BY PagesAndWorkers, WhenSeq
<1>2. \A f, g : LET s == <<"dbInstance">> \o When(f, <<"go">>)
                          \o When(g, <<"AddTemplate", "AddRoute">>)
                IN s \in Seq(SetupSteps) /\ Len(s) > 0 /\ s[1] = "dbInstance"
  <2> TAKE f, g
  <2>1. /\ <<"dbInstance">> \o When(f, <<"go">>) \in Seq(SetupSteps)
        /\ Len(<<"dbInstance">> \o When(f, <<"go">>)) > 0
        /\ (<<"dbInstance">> \o When(f, <<"go">>))[1] = "dbInstance"
    BY <1>1, FirstStays
  <2> QED BY <1>1, <2>1, FirstStays
<1>3. /\ <<"dbInstance", "Collectors">> \in Seq(SetupSteps)
      /\ Len(<<"dbInstance", "Collectors">>) > 0 /\ <<"dbInstance", "Collectors">>[1] = "dbInstance"
  BY DEF SetupSteps, OwnSteps
<1>4. \A f, g : LET s == <<"dbInstance", "Collectors">> \o When(f, <<"go">>)
                          \o When(g, <<"AddTemplate", "AddRoute">>)
                IN s \in Seq(SetupSteps) /\ Len(s) > 0 /\ s[1] = "dbInstance"
  <2> TAKE f, g
  <2> DEFINE t == <<"dbInstance", "Collectors">> \o When(f, <<"go">>)
  <2>1. t \in Seq(SetupSteps) /\ Len(t) > 0 /\ t[1] = "dbInstance"
    BY <1>1, <1>3, FirstStays
  <2> QED BY <1>1, <2>1, FirstStays
<1>5. LET s == ExchangeHub(c) IN s \in Seq(SetupSteps) /\ Len(s) > 0 /\ s[1] = "dbInstance"
  <2> DEFINE t == <<"dbInstance", "Collectors">>
                    \o When("exchanges" \in c.http, <<"AddTemplate", "AddRoute">>)
  <2>1. t \in Seq(SetupSteps) /\ Len(t) > 0 /\ t[1] = "dbInstance"
    BY <1>1, <1>3, FirstStays
  <2> QED BY <1>1, <2>1, FirstStays DEF ExchangeHub, ExchangePages
<1>6. LET s == Netsnapshot(c) IN s \in Seq(SetupSteps) /\ Len(s) > 0 /\ s[1] = "dbInstance"
  BY <1>2 DEF Netsnapshot, NetsnapshotPages
<1>7. LET s == Commstats(c) IN s \in Seq(SetupSteps) /\ Len(s) > 0 /\ s[1] = "dbInstance"
  BY <1>2 DEF Commstats, CommstatsPages
<1>8. LET s == PowPools(c) IN s \in Seq(SetupSteps) /\ Len(s) > 0 /\ s[1] = "dbInstance"
  BY <1>4 DEF PowPools, PowPages
<1>9. LET s == VspCollector(c) IN s \in Seq(SetupSteps) /\ Len(s) > 0 /\ s[1] = "dbInstance"
  BY <1>2 DEF VspCollector, VspPages
<1> QED BY <1>5, <1>6, <1>7, <1>8, <1>9

LEMMA PoliteiaSteps == ASSUME NEW c PROVE Politeia(c) \in Seq(OwnSteps)
<1> DEFINE s == <<"Rpc", "AddTemplate", "RegisterBlockHandlerGroup">>
           t == When("proposals" \in c.http, <<"AddRoute", "AddTemplate">>)
<1>1. s \in Seq(OwnSteps) /\ <<"NewProposalsDB", "go">> \in Seq(OwnSteps)
  BY DEF OwnSteps
<1>2. <<"AddRoute", "AddTemplate">> \in Seq(OwnSteps)
  BY DEF OwnSteps
<1>3. t \in Seq(OwnSteps)
  BY <1>2, WhenSeq
<1>4. s \o t \in Seq(OwnSteps)
  BY <1>1, <1>3, ConcatProperties
<1> QED BY <1>1, <1>4, ConcatProperties DEF Politeia

\* With peers, the look at their tables comes first.
LEMMA PropagationSteps ==
  ASSUME NEW c
  PROVE  LET s == PropagationSources(c)
         IN /\ s \in Seq(SetupSteps)
            /\ \A k \in 1..Len(s) : s[k] \in Leaves =>
                 /\ \E j \in 1..(k - 1) : s[j] = "dbInstance"
                 /\ c.peers = {} \/ \E j \in 1..(k - 1) : s[j] = "PeerTables"
<1> DEFINE t == <<"dbInstance", "AddTemplate", "AddRoute", "RegisterBlockHandlerGroup">>
           s == PropagationSources(c)
<1>1. /\ t \in Seq(SetupSteps) /\ Len(t) = 4 /\ t[1] = "dbInstance" /\ t[1] \notin Leaves
  BY DEF SetupSteps, OwnSteps, Leaves
<1>2. CASE c.peers = {}
  <2>1. s = <<>> \o t
    BY <1>2 DEF PropagationSources, When
  <2>2. s = t
    BY <2>1, <1>1, ConcatEmptySeq
  <2>3. \A k \in 1..4 : t[k] \in Leaves => 1 \in 1..(k - 1)
    BY <1>1
  <2> HIDE DEF t, s
  <2>4. /\ s \in Seq(SetupSteps)
        /\ \A k \in 1..Len(s) : s[k] \in Leaves => \E j \in 1..(k - 1) : s[j] = "dbInstance"
    BY <1>1, <2>2, <2>3
  <2> QED BY <1>2, <2>4 DEF s
<1>3. CASE c.peers # {}
  <2> DEFINE a == <<"PeerTables">>
  <2>1. a \in Seq(SetupSteps) /\ Len(a) = 1 /\ a[1] = "PeerTables" /\ a[1] \notin Leaves
    BY DEF SetupSteps, Leaves
  <2>2. s = a \o t
    BY <1>3 DEF PropagationSources, When
  <2> HIDE DEF a, t, s
  <2>3. /\ s \in Seq(SetupSteps) /\ Len(s) = 5
        /\ \A k \in 1..5 : s[k] = IF k <= 1 THEN a[k] ELSE t[k - 1]
    <3>1. /\ a \o t \in Seq(SetupSteps) /\ Len(a \o t) = Len(a) + Len(t)
          /\ \A k \in 1..Len(a) + Len(t) : (a \o t)[k] = IF k <= Len(a) THEN a[k] ELSE t[k - Len(a)]
      BY <1>1, <2>1, ConcatProperties
    <3> QED BY <1>1, <2>1, <2>2, <3>1
  <2>4. s[1] = "PeerTables" /\ s[2] = "dbInstance" /\ s[1] \notin Leaves /\ s[2] \notin Leaves
    BY <1>1, <2>1, <2>3
  <2>5. \A k \in 1..5 : s[k] \in Leaves => 1 \in 1..(k - 1) /\ 2 \in 1..(k - 1)
    BY <2>4
  <2>6. /\ s \in Seq(SetupSteps)
        /\ \A k \in 1..Len(s) : s[k] \in Leaves =>
             /\ \E j \in 1..(k - 1) : s[j] = "dbInstance"
             /\ \E j \in 1..(k - 1) : s[j] = "PeerTables"
    BY <2>3, <2>4, <2>5
  <2> QED BY <2>6 DEF s
<1> QED BY <1>2, <1>3

\* What setupModules does before the home page.
SetUpBefore(c) ==
  LET Module(part, steps) == When(part \in c.parts, Steps(part, steps))
  IN Module("stats", Stats(c)) \o Module("stakingreward", Stakingreward(c)) \o
     Module("parameters", ChainParameters(c)) \o Module("charts", NodeCharts(c)) \o
     Module("attackcost", Attackcost(c)) \o Module("mempool", MempoolMonitor(c)) \o
     Module("propagation", PropagationSources(c)) \o Module("proposals", Politeia(c)) \o
     Module("netsnapshot", Netsnapshot(c)) \o Module("exchanges", ExchangeHub(c)) \o
     Module("commstats", Commstats(c)) \o Module("pow", PowPools(c)) \o
     Module("vsp", VspCollector(c)) \o Module("treasury", Treasury(c))

LEMMA SetupOrdered == ASSUME NEW c PROVE Ordered(c, SetUpBefore(c))
<1> DEFINE M(part, steps) == When(part \in c.parts, Steps(part, steps))
<1>1. /\ Stakingreward(c) \in Seq(OwnSteps) /\ ChainParameters(c) \in Seq(OwnSteps)
      /\ NodeCharts(c) \in Seq(OwnSteps) /\ Treasury(c) \in Seq(OwnSteps)
  BY DEF Stakingreward, ChainParameters, NodeCharts, Treasury, OwnSteps
<1>2. Attackcost(c) \in Seq(OwnSteps)
  BY DEF Attackcost, OwnSteps
<1>3. Stats(c) \in Seq(SetupSteps) /\ Len(Stats(c)) > 0 /\ Stats(c)[1] = "dbInstance"
  BY DEF Stats, SetupSteps, OwnSteps
<1>4. /\ MempoolMonitor(c) \in Seq(SetupSteps) /\ Len(MempoolMonitor(c)) > 0
      /\ MempoolMonitor(c)[1] = "dbInstance"
  BY DEF MempoolMonitor, SetupSteps, OwnSteps
<1>5. \A p \in {"stakingreward", "parameters", "charts", "attackcost", "proposals", "treasury"} :
        p \in Modules \ (OnDatabase \cup {"propagation"})
  BY DEF Modules, OnDatabase
<1>6. \A p \in {"stats", "mempool", "netsnapshot", "exchanges", "commstats", "pow", "vsp"} :
        p \in Modules \ {"propagation", "proposals"}
  BY DEF Modules
<1>7. \A p \in Modules \ (OnDatabase \cup {"propagation"}), s \in Seq(OwnSteps) : Ordered(c, M(p, s))
  BY OwnAreSetup, OrderedModule
<1>8. \A p \in Modules \ {"propagation", "proposals"}, s \in Seq(SetupSteps) :
        Len(s) > 0 /\ s[1] = "dbInstance" => Ordered(c, M(p, s))
  BY OrderedModule
<1>9. Ordered(c, M("propagation", PropagationSources(c)))
  <2>1. "propagation" \in Modules /\ "propagation" # "proposals"
    BY DEF Modules
  <2> QED BY <2>1, PropagationSteps, OrderedModule
<1>10. /\ Ordered(c, M("stakingreward", Stakingreward(c)))
       /\ Ordered(c, M("parameters", ChainParameters(c)))
       /\ Ordered(c, M("charts", NodeCharts(c))) /\ Ordered(c, M("attackcost", Attackcost(c)))
       /\ Ordered(c, M("proposals", Politeia(c))) /\ Ordered(c, M("treasury", Treasury(c)))
  BY <1>1, <1>2, <1>5, <1>7, PoliteiaSteps
<1>11. /\ Ordered(c, M("stats", Stats(c))) /\ Ordered(c, M("mempool", MempoolMonitor(c)))
       /\ Ordered(c, M("netsnapshot", Netsnapshot(c))) /\ Ordered(c, M("exchanges", ExchangeHub(c)))
       /\ Ordered(c, M("commstats", Commstats(c))) /\ Ordered(c, M("pow", PowPools(c)))
       /\ Ordered(c, M("vsp", VspCollector(c)))
  BY <1>3, <1>4, <1>6, <1>8, FlaggedSteps
<1> HIDE DEF M
<1>12. Ordered(c, M("stats", Stats(c)) \o M("stakingreward", Stakingreward(c)) \o
                  M("parameters", ChainParameters(c)) \o M("charts", NodeCharts(c)) \o
                  M("attackcost", Attackcost(c)))
  BY <1>10, <1>11, OrderedBoth
<1>13. Ordered(c, M("stats", Stats(c)) \o M("stakingreward", Stakingreward(c)) \o
                  M("parameters", ChainParameters(c)) \o M("charts", NodeCharts(c)) \o
                  M("attackcost", Attackcost(c)) \o M("mempool", MempoolMonitor(c)) \o
                  M("propagation", PropagationSources(c)) \o M("proposals", Politeia(c)) \o
                  M("netsnapshot", Netsnapshot(c)))
  BY <1>9, <1>10, <1>11, <1>12, OrderedBoth
<1> QED BY <1>9, <1>10, <1>11, <1>13, OrderedBoth DEF SetUpBefore, M

-----------------------------------------------------------------------------
(* The whole program: the modules, the home page after the first h steps,   *)
(* and what _main does then.                                                *)

Serving == {"listenAndServeProto", "Listen", "Wait"}

BeforeHome(conf, prog, n) ==
  /\ \A k \in 1..n : /\ prog[k].part \in (conf.parts \cap Modules) \cup {"main"}
                     /\ prog[k].step \in SetupSteps \cup MainSteps
                     /\ (prog[k].part = "main") <=> (prog[k].step \in MainSteps)
  /\ \A k \in 1..n : prog[k].part \in OnDatabase /\ prog[k].step \in Leaves =>
       \E j \in 1..(k - 1) : prog[j].step = "dbInstance"
  /\ \A k \in 1..n : prog[k].part = "propagation" /\ prog[k].step = "RegisterBlockHandlerGroup" =>
       conf.peers = {} \/ \E j \in 1..(k - 1) : prog[j].step = "PeerTables"
  /\ \A k \in 1..n : prog[k].step \in {"dbInstance", "PeerTables"} => prog[k].part # "proposals"

FromHome(prog, n) ==
  /\ prog[n + 1] = [part |-> "homepage", step |-> "AddTemplate"]
  /\ prog[n + 2] = [part |-> "homepage", step |-> "AddRoute"]
  /\ prog[n + 3] = [part |-> "main", step |-> "GetBestBlock"]
  /\ prog[n + 4] = [part |-> "main", step |-> "BuildRoute"]
  /\ \A k \in (n + 5)..Len(prog) : prog[k].part = "main" /\ prog[k].step \in Serving
  /\ \A k \in (n + 5)..Len(prog) : (prog[k].step = "Wait") <=> (k = Len(prog))

Shape(conf, prog, n) ==
  prog \in Seq(Places) /\ Len(prog) >= n + 6 /\ BeforeHome(conf, prog, n) /\ FromHome(prog, n)

\* The steps of one part in their places.
LEMMA StepsSeq ==
  ASSUME NEW part \in Modules \cup {"main", "homepage"}, NEW s \in Seq(AllSteps)
  PROVE  /\ Steps(part, s) \in Seq(Places) /\ Len(Steps(part, s)) = Len(s) /\ Len(s) \in Nat
         /\ \A k \in 1..Len(s) : Steps(part, s)[k] = [part |-> part, step |-> s[k]]
<1>1. Len(s) \in Nat /\ DOMAIN s = 1..Len(s) /\ \A k \in 1..Len(s) : s[k] \in AllSteps
  BY LenProperties, ElementOfSeq
<1>2. Steps(part, s) = [k \in 1..Len(s) |-> [part |-> part, step |-> s[k]]]
  BY <1>1 DEF Steps
<1> QED BY <1>1, <1>2 DEF Places

LEMMA MainOrdered ==
  ASSUME NEW c
  PROVE  Ordered(c, Steps("main", <<"loadConfig", "connectNodeRPC", "GetCurrentNet">> \o
                                  When(c.bot, <<"NewExchangeBot">>) \o <<"NewServer">>))
<1> DEFINE a == <<"loadConfig", "connectNodeRPC", "GetCurrentNet">>
           b == When(c.bot, <<"NewExchangeBot">>)
           s == a \o b \o <<"NewServer">>
<1>1. a \in Seq(MainSteps) /\ <<"NewExchangeBot">> \in Seq(MainSteps)
      /\ <<"NewServer">> \in Seq(MainSteps)
  BY DEF MainSteps
<1>2. b \in Seq(MainSteps)
  BY <1>1, WhenSeq
<1> HIDE DEF a, b
<1>3. s \in Seq(MainSteps)
  BY <1>1, <1>2, ConcatProperties
<1> HIDE DEF s
<1>4. s \in Seq(AllSteps) /\ \A k \in 1..Len(s) : s[k] \in MainSteps
  <2>1. MainSteps \subseteq AllSteps
    BY DEF AllSteps
  <2> QED BY <1>3, <2>1, SeqMonotonic, ElementOfSeq
<1> DEFINE P == Steps("main", s)
<1>5. /\ P \in Seq(Places) /\ Len(P) = Len(s)
      /\ \A k \in 1..Len(P) : P[k].part = "main" /\ P[k].step \in MainSteps
  <2>1. /\ P \in Seq(Places) /\ Len(P) = Len(s) /\ Len(s) \in Nat
        /\ \A k \in 1..Len(s) : P[k] = [part |-> "main", step |-> s[k]]
    BY <1>4, StepsSeq
  <2> HIDE DEF P
  <2>2. ASSUME NEW k \in 1..Len(s) PROVE P[k].part = "main" /\ P[k].step \in MainSteps
    <3>1. P[k] = [part |-> "main", step |-> s[k]]
      BY <2>1
    <3>2. s[k] \in MainSteps
      BY <1>4
    <3> QED BY <3>1, <3>2
  <2> QED BY <2>1, <2>2
<1>6. "main" \notin OnDatabase \cup {"propagation", "proposals"}
  BY DEF OnDatabase
<1> HIDE DEF P
<1>7. Ordered(c, P)
  BY <1>5, <1>6 DEF Ordered
<1> QED BY <1>7 DEF P, s, a, b

LEMMA EndSteps ==
  ASSUME NEW f
  PROVE  LET e == <<"GetBestBlock", "BuildRoute">> \o When(f, <<"listenAndServeProto">>)
                  \o <<"Listen", "Wait">>
         IN /\ e \in Seq(AllSteps) /\ Len(e) >= 4
            /\ e[1] = "GetBestBlock" /\ e[2] = "BuildRoute"
            /\ \A k \in 3..Len(e) : e[k] \in Serving /\ (e[k] = "Wait" <=> k = Len(e))
<1> DEFINE g == <<"GetBestBlock", "BuildRoute">>
           w == When(f, <<"listenAndServeProto">>)
           l == <<"Listen", "Wait">>
<1>1. /\ g \in Seq(AllSteps) /\ Len(g) = 2 /\ g[1] = "GetBestBlock" /\ g[2] = "BuildRoute"
      /\ l \in Seq(AllSteps) /\ Len(l) = 2 /\ l[1] = "Listen" /\ l[2] = "Wait"
  BY DEF AllSteps
<1>2. /\ w \in Seq(AllSteps) /\ Len(w) \in {0, 1}
      /\ \A k \in 1..Len(w) : w[k] = "listenAndServeProto"
  BY EmptySeq DEF When, AllSteps
<1> HIDE DEF g, w, l
<1>3. /\ g \o w \in Seq(AllSteps) /\ Len(g \o w) = 2 + Len(w)
      /\ \A k \in 1..(2 + Len(w)) : (g \o w)[k] = IF k <= 2 THEN g[k] ELSE w[k - 2]
  <2>1. /\ g \o w \in Seq(AllSteps) /\ Len(g \o w) = Len(g) + Len(w)
        /\ \A k \in 1..Len(g) + Len(w) : (g \o w)[k] = IF k <= Len(g) THEN g[k] ELSE w[k - Len(g)]
    BY <1>1, <1>2, ConcatProperties
  <2> QED BY <1>1, <2>1
<1> DEFINE a == g \o w
<1> HIDE DEF a
<1>4. /\ a \o l \in Seq(AllSteps) /\ Len(a \o l) = 4 + Len(w)
      /\ \A k \in 1..(4 + Len(w)) : (a \o l)[k] = IF k <= 2 + Len(w) THEN a[k] ELSE l[k - (2 + Len(w))]
  <2>1. /\ a \o l \in Seq(AllSteps) /\ Len(a \o l) = Len(a) + Len(l)
        /\ \A k \in 1..Len(a) + Len(l) : (a \o l)[k] = IF k <= Len(a) THEN a[k] ELSE l[k - Len(a)]
    BY <1>1, <1>3, ConcatProperties DEF a
  <2>2. Len(a) = 2 + Len(w) /\ Len(a) + Len(l) = 4 + Len(w)
    BY <1>1, <1>2, <1>3 DEF a
  <2> QED BY <2>1, <2>2
<1>5. (a \o l)[1] = "GetBestBlock" /\ (a \o l)[2] = "BuildRoute"
  BY <1>1, <1>2, <1>3, <1>4 DEF a
<1> DEFINE e == a \o l
<1> HIDE DEF e
<1>6. ASSUME NEW k \in 3..(4 + Len(w))
      PROVE  e[k] \in Serving /\ (e[k] = "Wait" <=> k = 4 + Len(w))
  <2>1. PICK n \in {0, 1} : n = Len(w)
    BY <1>2
  <2>2. CASE k = 3 /\ n = 1
    <3>1. e[3] = a[3] /\ a[3] = w[1] /\ w[1] = "listenAndServeProto"
      BY <2>1, <2>2, <1>2, <1>3, <1>4 DEF a, e
    <3> QED BY <3>1, <2>1, <2>2 DEF Serving
  <2>3. CASE k = 3 + n
    <3>1. e[k] = l[1]
      BY <2>1, <2>3, <1>4 DEF e
    <3> QED BY <3>1, <2>1, <2>3, <1>1 DEF Serving
  <2>4. CASE k = 4 + n
    <3>1. e[k] = l[2]
      BY <2>1, <2>4, <1>4 DEF e
    <3> QED BY <3>1, <2>1, <2>4, <1>1 DEF Serving
  <2> QED BY <2>1, <2>2, <2>3, <2>4
<1> QED BY <1>2, <1>4, <1>5, <1>6 DEF g, w, l, a, e

LEMMA ProgramShape ==
  ASSUME cfg \in Settings, NEW i \in DOMAIN cfg
  PROVE  \E h \in Nat : Shape(cfg[i], Program(i), h)
<1> DEFINE c == cfg[i]
           a == Steps("main", <<"loadConfig", "connectNodeRPC", "GetCurrentNet">> \o
                              When(c.bot, <<"NewExchangeBot">>) \o <<"NewServer">>)
           b == SetUpBefore(c)
           m == Steps("homepage", Homepage(c))
           e == <<"GetBestBlock", "BuildRoute">> \o When(~c.noHttp, <<"listenAndServeProto">>)
                \o <<"Listen", "Wait">>
           z == Steps("main", e)
           s == a \o b
           q == s \o m
<1>1. setupModules(c) = b \o m
  BY DEF setupModules, SetUpBefore
<1>2. Program(i) = a \o (b \o m) \o z
  <2>1. c \in UNION {Range(t) : t \in Settings}
    BY DEF Range
  <2> QED BY <1>1, <2>1 DEF Program, Programs
<1>3. Ordered(c, a) /\ Ordered(c, b)
  BY MainOrdered, SetupOrdered
<1>4. /\ Homepage(c) \in Seq(AllSteps) /\ Len(Homepage(c)) = 2
      /\ Homepage(c)[1] = "AddTemplate" /\ Homepage(c)[2] = "AddRoute"
  BY DEF Homepage, AllSteps, SetupSteps, OwnSteps
<1>5. /\ m \in Seq(Places) /\ Len(m) = 2
      /\ m[1] = [part |-> "homepage", step |-> "AddTemplate"]
      /\ m[2] = [part |-> "homepage", step |-> "AddRoute"]
  <2>1. /\ m \in Seq(Places) /\ Len(m) = Len(Homepage(c))
        /\ \A k \in 1..Len(Homepage(c)) : m[k] = [part |-> "homepage", step |-> Homepage(c)[k]]
    BY <1>4, StepsSeq
  <2> QED BY <1>4, <2>1
<1>6. /\ e \in Seq(AllSteps) /\ Len(e) >= 4
      /\ e[1] = "GetBestBlock" /\ e[2] = "BuildRoute"
      /\ \A k \in 3..Len(e) : e[k] \in Serving /\ (e[k] = "Wait" <=> k = Len(e))
  BY EndSteps
<1> HIDE DEF a, b, m, e
<1>7. /\ z \in Seq(Places) /\ Len(z) = Len(e) /\ Len(e) \in Nat
      /\ \A k \in 1..Len(e) : z[k] = [part |-> "main", step |-> e[k]]
  BY <1>6, StepsSeq
<1> HIDE DEF z
<1>8. Ordered(c, s)
  BY <1>3, OrderedBoth
<1>9. Program(i) = q \o z
  BY <1>2, <1>3, <1>5, ConcatAssociative DEF Ordered
<1> HIDE DEF s
<1>10. PICK h \in Nat : h = Len(s)
  BY <1>8, LenProperties DEF Ordered
<1>11. /\ q \in Seq(Places) /\ Len(q) = h + 2
       /\ \A k \in 1..(h + 2) : q[k] = IF k <= h THEN s[k] ELSE m[k - h]
  <2>1. /\ s \o m \in Seq(Places) /\ Len(s \o m) = Len(s) + Len(m)
        /\ \A k \in 1..Len(s) + Len(m) : (s \o m)[k] = IF k <= Len(s) THEN s[k] ELSE m[k - Len(s)]
    BY <1>5, <1>8, ConcatProperties DEF Ordered
  <2> QED BY <2>1, <1>5, <1>10
<1> HIDE DEF q
<1> DEFINE P == Program(i)
<1>12. PICK n \in Nat : n = Len(e)
  BY <1>7
<1>13. /\ P \in Seq(Places) /\ Len(P) = h + 2 + n
       /\ \A k \in 1..(h + 2 + n) : P[k] = IF k <= h + 2 THEN q[k] ELSE z[k - (h + 2)]
  <2>1. /\ q \o z \in Seq(Places) /\ Len(q \o z) = Len(q) + Len(z)
        /\ \A k \in 1..Len(q) + Len(z) : (q \o z)[k] = IF k <= Len(q) THEN q[k] ELSE z[k - Len(q)]
    <3>1. q \in Seq(Places) /\ z \in Seq(Places)
      BY <1>7, <1>11
    <3> QED BY <3>1, ConcatProperties
  <2> QED BY <2>1, <1>7, <1>9, <1>11, <1>12
<1> HIDE DEF P
<1>14. n >= 4
  BY <1>6, <1>12
<1>15. \A k \in 1..h : P[k] = s[k]
  BY <1>11, <1>13, <1>14
<1>16. P[h + 1] = m[1] /\ P[h + 2] = m[2]
  BY <1>11, <1>13, <1>14
<1>17. \A k \in 1..n : P[h + 2 + k] = z[k]
  BY <1>13, <1>14
<1>18. P[h + 3] = z[1] /\ P[h + 4] = z[2]
  BY <1>14, <1>17
<1>19. ASSUME NEW k \in (h + 5)..Len(P)
       PROVE  /\ P[k].part = "main" /\ P[k].step \in Serving
              /\ P[k].step = "Wait" <=> k = Len(P)
  <2>1. PICK j \in 3..n : k = h + 2 + j
    <3>1. k - (h + 2) \in 3..n
      BY <1>13
    <3> QED BY <3>1
  <2>2. P[k] = [part |-> "main", step |-> e[j]]
    BY <2>1, <1>7, <1>12, <1>17
  <2>3. e[j] \in Serving /\ (e[j] = "Wait" <=> j = n)
    BY <1>6, <1>12
  <2>4. k = Len(P) <=> j = n
    BY <2>1, <1>13
  <2> QED BY <2>2, <2>3, <2>4
<1>20. \A k \in 1..h : \A j \in 1..(k - 1) : P[j] = s[j]
  BY <1>15
<1>21. /\ P[h + 1] = [part |-> "homepage", step |-> "AddTemplate"]
       /\ P[h + 2] = [part |-> "homepage", step |-> "AddRoute"]
  BY <1>5, <1>16
<1>22. /\ P[h + 3] = [part |-> "main", step |-> "GetBestBlock"]
       /\ P[h + 4] = [part |-> "main", step |-> "BuildRoute"]
  BY <1>6, <1>7, <1>18
<1>23. P \in Seq(Places) /\ Len(P) >= h + 6
  BY <1>13, <1>14
<1>24. \A k \in 1..h : /\ P[k].part \in (c.parts \cap Modules) \cup {"main"}
                       /\ P[k].step \in SetupSteps \cup MainSteps
                       /\ (P[k].part = "main") <=> (P[k].step \in MainSteps)
  BY <1>8, <1>10, <1>15 DEF Ordered
<1>25. \A k \in 1..h : P[k].step \in {"dbInstance", "PeerTables"} => P[k].part # "proposals"
  BY <1>8, <1>10, <1>15 DEF Ordered
<1>26. \A k \in 1..h : P[k].part \in OnDatabase /\ P[k].step \in Leaves =>
         \E j \in 1..(k - 1) : P[j].step = "dbInstance"
  BY <1>8, <1>10, <1>15, <1>20 DEF Ordered
<1>27. \A k \in 1..h : P[k].part = "propagation" /\ P[k].step = "RegisterBlockHandlerGroup" =>
         c.peers = {} \/ \E j \in 1..(k - 1) : P[j].step = "PeerTables"
  BY <1>8, <1>10, <1>15, <1>20 DEF Ordered
<1> HIDE DEF c
<1>28. /\ \A k \in (h + 5)..Len(P) : P[k].part = "main" /\ P[k].step \in Serving
       /\ \A k \in (h + 5)..Len(P) : (P[k].step = "Wait") <=> (k = Len(P))
  BY <1>19
<1>29. Shape(c, P, h)
  <2>1. BeforeHome(c, P, h)
    BY <1>24, <1>26, <1>27, <1>25 DEF BeforeHome
  <2>2. FromHome(P, h)
    BY <1>21, <1>22, <1>28 DEF FromHome
  <2> QED BY <2>1, <2>2, <1>23 DEF Shape
<1> QED BY <1>29 DEF P, c

-----------------------------------------------------------------------------
(* The inductive invariant. *)

AllTables == DOMAIN createTableScripts

Names == Modules \cup {"main", "homepage"}

ProcessStates ==
  [ at : Nat, opened : BOOLEAN, groups : SUBSET Names, workers : SUBSET Names,
    routes : SUBSET Names, mux : SUBSET Names, failed : SUBSET Names,
    bot : {"none", "running", "stopped"}, web : {"none", "made", "up", "unbound", "closed"},
    asked : BOOLEAN ]

Schemas == {AllTables} \cup {AllTables \cap Before(n) : n \in 1..(Len(tableOrder) + 1)}

LifeTypes ==
  /\ cfg \in Settings /\ mishaps \in 0..MaxMishaps
  /\ process \in [Instances -> ProcessStates]
  /\ exist \in [Instances -> Schemas]

\* The steps of this kind that main has behind it when it is at the step n.
Passed(i, n, step) == {k \in 1..(n - 1) : Program(i)[k].step = step}

PartsOf(i, S) == {Program(i)[k].part : k \in S}

\* What a copy has registered was registered by the steps behind main, which has left out
\* nothing but the rest of the home page or of the proposals.
Registered(i, p) ==
  /\ p.groups \subseteq PartsOf(i, Passed(i, p.at, "RegisterBlockHandlerGroup"))
  /\ p.workers \subseteq PartsOf(i, Passed(i, p.at, "go"))
  /\ p.routes \subseteq PartsOf(i, Passed(i, p.at, "AddRoute"))
  /\ p.failed \subseteq PartsOf(i, 1..(p.at - 1)) \cap {"homepage", "proposals"}

\* The tables are complete when a dbInstance is behind main, and so are the peers' when it
\* has looked at them.
Opened(i, p, e) ==
  /\ p.opened => e[i] = AllTables
  /\ Passed(i, p.at, "dbInstance") # {} => p.opened
  /\ Passed(i, p.at, "PeerTables") # {} => \A j \in cfg[i].peers : {"block", "vote"} \subseteq e[j]

\* A home page that failed has no route, and the process of proposals that did ends.
FailedOut(i, p) ==
  /\ "proposals" \in p.failed => p.asked
  /\ "homepage" \in p.failed =>
       "homepage" \notin p.routes /\ \A k \in p.at..Len(Program(i)) : Program(i)[k].part # "homepage"

\* The routes are complete before they are served.
Routed(i, p) ==
  /\ Passed(i, p.at, "BuildRoute") # {} => p.mux = p.routes
  /\ p.web = "up" => Passed(i, p.at, "BuildRoute") # {}

CopyOK(i, p, e) ==
  /\ p.at = 0 => /\ p.groups = {} /\ p.workers = {} /\ p.routes = {} /\ p.failed = {}
                 /\ p.web = "none"
  /\ p.at > 0 => /\ i \in DOMAIN cfg /\ p.at <= Len(Program(i))
                 /\ Registered(i, p) /\ Opened(i, p, e) /\ FailedOut(i, p) /\ Routed(i, p)

LifeInv == LifeTypes /\ \A i \in Instances : CopyOK(i, process[i], exist)

-----------------------------------------------------------------------------

LEMMA MinIn ==
  ASSUME NEW S \in SUBSET Nat, S # {}
  PROVE  Min(S) \in S /\ \A y \in S : Min(S) <= y
<1>1. PICK x \in S : \A y \in S : ~(<<y, x>> \in OpToRel(<, Nat))
  BY NatLessThanWellFounded, WFMin
<1>2. ASSUME NEW y \in S, y < x PROVE FALSE
  <2>1. <<y, x>> \in Nat \X Nat /\ <<y, x>>[1] < <<y, x>>[2]
    BY <1>2
  <2>2. <<y, x>> \in OpToRel(<, Nat)
    BY <2>1, Zenon DEF OpToRel
  <2> QED BY <1>1, <2>2
<1>3. \A y \in S : x <= y
  BY <1>2
<1> QED BY <1>3 DEF Min

\* The tables of an earlier version and all of them are schemas, and complete when
\* CreateTables has run; there is a block and a vote table.
LEMMA SchemasComplete ==
  /\ AllTables \in Schemas /\ {"block", "vote"} \subseteq AllTables
  /\ \A e \in Schemas : e \subseteq AllTables /\ CreateTables(e) = AllTables
<1>1. \A n \in 1..(Len(tableOrder) + 1) : CreateTables(AllTables \cap Before(n)) = AllTables
  BY TablesComplete DEF AllTables
<1>2. CreateTables(AllTables) = AllTables
  <2>1. Created(AllTables) = {}
    BY DEF Created, AllTables
  <2> QED BY <2>1 DEF CreateTables
<1>3. {"block", "vote"} \subseteq AllTables
  BY DEF AllTables, createTableScripts
<1> QED BY <1>1, <1>2, <1>3 DEF Schemas

LEMMA LifeInitInv == LifeInit => LifeInv
<1> SUFFICES ASSUME LifeInit PROVE LifeInv
  OBVIOUS
<1>1. Down \in ProcessStates
  BY DEF Down, Fresh, ProcessStates
<1>2. LifeTypes
  <2>1. PICK n \in Earlier : exist = [i \in Instances |-> AllTables \cap Before(n)]
    BY DEF LifeInit, AllTables
  <2>2. n \in 1..(Len(tableOrder) + 1)
    BY StartupAssumption DEF StartupAssumption
  <2>3. exist \in [Instances -> Schemas]
    BY <2>1, <2>2 DEF Schemas
  <2>4. mishaps \in 0..MaxMishaps
    BY StartupAssumption DEF LifeInit, StartupAssumption
  <2> QED BY <1>1, <2>3, <2>4 DEF LifeInit, LifeTypes
<1>3. /\ Down.at = 0 /\ Down.groups = {} /\ Down.workers = {} /\ Down.routes = {}
      /\ Down.failed = {} /\ Down.web = "none"
  BY DEF Down, Fresh
<1>4. \A i \in Instances : CopyOK(i, process[i], exist)
  BY <1>3 DEF LifeInit, CopyOK
<1> QED BY <1>2, <1>4 DEF LifeInv

\* A step of one copy leaves the others as they are: schemas only grow.
LEMMA OneCopy ==
  ASSUME LifeInv, NEW i \in Instances, cfg' = cfg, mishaps' \in 0..MaxMishaps,
         NEW q \in ProcessStates, process' = [process EXCEPT ![i] = q],
         exist' = exist \/ exist' = [exist EXCEPT ![i] = AllTables],
         CopyOK(i, q, exist')
  PROVE  LifeInv'
<1>1. /\ exist' \in [Instances -> Schemas] /\ \A j \in Instances : exist[j] \subseteq exist'[j]
      /\ \A j \in Instances : exist[j] = AllTables => exist'[j] = AllTables
  BY SchemasComplete DEF LifeInv, LifeTypes
<1>2. LifeTypes'
  BY <1>1 DEF LifeInv, LifeTypes
<1>3. process'[i] = q /\ \A j \in Instances \ {i} : process'[j] = process[j]
  BY DEF LifeInv, LifeTypes
<1>4. \A j \in Instances : \A p : CopyOK(j, p, exist) => CopyOK(j, p, exist')
  <2> SUFFICES ASSUME NEW j \in Instances, NEW p, CopyOK(j, p, exist), p.at > 0
               PROVE  Opened(j, p, exist')
    BY DEF CopyOK
  <2>1. j \in DOMAIN cfg /\ Opened(j, p, exist)
    BY DEF CopyOK
  <2>2. cfg[j].peers \subseteq Instances
    BY <2>1, StartupAssumption DEF StartupAssumption, Instances, LifeInv, LifeTypes
  <2> QED BY <1>1, <2>1, <2>2 DEF Opened
<1>5. \A j \in Instances : CopyOK(j, process'[j], exist')
  BY <1>3, <1>4 DEF LifeInv
<1>6. \A j \in Instances : CopyOK(j, process[j], exist)'
  <2>1. \A j : Program(j)' = Program(j)
    BY DEF Program
  <2> QED BY <1>5, <2>1 DEF CopyOK, Registered, Opened, FailedOut, Routed, Passed, PartsOf
<1> QED BY <1>2, <1>6 DEF LifeInv

\* One step more behind main.
LEMMA OnePassed ==
  ASSUME NEW i, NEW n \in Nat \ {0}, NEW step
  PROVE  /\ Passed(i, n, step) \subseteq Passed(i, n + 1, step)
         /\ \A k \in Passed(i, n + 1, step) : k \in Passed(i, n, step) \/ (k = n /\ Program(i)[n].step = step)
         /\ Program(i)[n].step = step => n \in Passed(i, n + 1, step)
  BY DEF Passed

LEMMA AtLeast ==
  ASSUME NEW S, NEW T, NEW i, S \subseteq T
  PROVE  PartsOf(i, S) \subseteq PartsOf(i, T)
  BY DEF PartsOf

\* Where main is, the step there and the shape of what it walks through.
LEMMA WhereMainIs ==
  ASSUME LifeInv, NEW i \in Instances, Up(i)
  PROVE  /\ cfg \in Settings /\ i \in DOMAIN cfg /\ process[i] \in ProcessStates
         /\ process[i].at \in 1..Len(Program(i)) /\ Len(Program(i)) \in Nat
         /\ Here(i) = Program(i)[process[i].at] /\ Here(i) \in Places
         /\ \E h \in Nat : Shape(cfg[i], Program(i), h)
         /\ Registered(i, process[i]) /\ Opened(i, process[i], exist)
         /\ FailedOut(i, process[i]) /\ Routed(i, process[i])
<1>1. process[i] \in ProcessStates /\ cfg \in Settings
  BY DEF LifeInv, LifeTypes
<1>2. process[i].at \in Nat /\ process[i].at > 0
  BY <1>1 DEF Up, ProcessStates
<1>3. /\ i \in DOMAIN cfg /\ process[i].at <= Len(Program(i))
      /\ Registered(i, process[i]) /\ Opened(i, process[i], exist)
      /\ FailedOut(i, process[i]) /\ Routed(i, process[i])
  BY <1>2 DEF LifeInv, CopyOK
<1>4. \E h \in Nat : Shape(cfg[i], Program(i), h)
  BY <1>1, <1>3, ProgramShape
<1>5. Program(i) \in Seq(Places)
  BY <1>4 DEF Shape
<1>6. Len(Program(i)) \in Nat
  BY <1>5, LenProperties
<1>7. Program(i)[process[i].at] \in Places
  BY <1>2, <1>3, <1>5, <1>6, ElementOfSeq
<1> QED BY <1>1, <1>2, <1>3, <1>4, <1>6, <1>7 DEF Here

\* The last step is Wait, and the routes are complete when they go to the server.
LEMMA ShapeEnds ==
  ASSUME NEW c, NEW P, NEW h \in Nat, Shape(c, P, h), NEW n \in 1..Len(P), Len(P) \in Nat
  PROVE  /\ P[n].step = "Wait" <=> n = Len(P)
         /\ P[n].step = "BuildRoute" <=> n = h + 4
         /\ P[n].part = "homepage" <=> n \in {h + 1, h + 2}
         /\ P[n].step = "listenAndServeProto" => n > h + 4
         /\ n > h + 4 => P[n].step # "AddRoute"
         /\ P[n].part = "homepage" => P[n].step # "AddRoute" \/ n = h + 2
<1>1. CASE n \in 1..h
  <2>1. /\ P[n].part \in Modules \cup {"main"} /\ P[n].step \in SetupSteps \cup MainSteps
        /\ Len(P) >= h + 6
    BY <1>1 DEF Shape, BeforeHome
  <2>2. "homepage" \notin Modules \cup {"main"}
    BY DEF Modules
  <2>3. \A s \in SetupSteps \cup MainSteps : s \notin {"Wait", "BuildRoute", "listenAndServeProto"}
    BY DEF SetupSteps, OwnSteps, MainSteps
  <2> QED BY <1>1, <2>1, <2>2, <2>3
<1>2. CASE n \in {h + 1, h + 2, h + 3, h + 4}
  BY <1>2 DEF Shape, FromHome
<1>3. CASE n \in (h + 5)..Len(P)
  <2>1. P[n].part = "main" /\ P[n].step \in Serving /\ (P[n].step = "Wait" <=> n = Len(P))
    BY <1>3 DEF Shape, FromHome
  <2> QED BY <1>3, <2>1 DEF Serving
<1> QED BY <1>1, <1>2, <1>3

\* main goes on.
LEMMA Advances ==
  ASSUME LifeInv, NEW i \in Instances, Up(i), cfg' = cfg, mishaps' \in 0..MaxMishaps,
         NEW q \in ProcessStates, process' = [process EXCEPT ![i] = q],
         q.at = process[i].at + 1, Here(i).step # "Wait",
         exist' = exist \/ exist' = [exist EXCEPT ![i] = AllTables],
         q.failed = process[i].failed, process[i].asked => q.asked,
         q.groups \subseteq process[i].groups \cup
                            {x \in {Here(i).part} : Here(i).step = "RegisterBlockHandlerGroup"},
         q.workers \subseteq process[i].workers \cup {x \in {Here(i).part} : Here(i).step = "go"},
         q.routes \subseteq process[i].routes \cup {x \in {Here(i).part} : Here(i).step = "AddRoute"},
         Here(i).step # "AddRoute" => q.routes = process[i].routes,
         q.mux = IF Here(i).step = "BuildRoute" THEN q.routes ELSE process[i].mux,
         q.web = "up" => process[i].web = "up" \/ Here(i).step = "listenAndServeProto",
         process[i].opened => q.opened,
         q.opened => process[i].opened \/ exist'[i] = AllTables,
         Here(i).step = "dbInstance" => q.opened,
         Here(i).step = "PeerTables" => \A j \in cfg[i].peers : {"block", "vote"} \subseteq exist'[j]
  PROVE  LifeInv'
<1> DEFINE n == process[i].at
           P == Program(i)
<1>1. /\ cfg \in Settings /\ i \in DOMAIN cfg /\ n \in 1..Len(P) /\ Len(P) \in Nat
      /\ Here(i) = P[n]
      /\ Registered(i, process[i]) /\ Opened(i, process[i], exist)
      /\ FailedOut(i, process[i]) /\ Routed(i, process[i])
  BY WhereMainIs
<1>2. PICK h \in Nat : Shape(cfg[i], P, h)
  BY WhereMainIs
<1> HIDE DEF P, n
<1>3. n < Len(P) /\ n \in Nat \ {0} /\ n = process[i].at /\ q.at = n + 1 /\ P = Program(i)
  BY <1>1, <1>2, ShapeEnds DEF n, P
<1>4. Registered(i, q)
  <2>1. /\ process[i].groups \subseteq PartsOf(i, Passed(i, n, "RegisterBlockHandlerGroup"))
        /\ process[i].workers \subseteq PartsOf(i, Passed(i, n, "go"))
        /\ process[i].routes \subseteq PartsOf(i, Passed(i, n, "AddRoute"))
        /\ process[i].failed \subseteq PartsOf(i, 1..(n - 1)) \cap {"homepage", "proposals"}
    BY <1>1, <1>3 DEF Registered
  <2>2. ASSUME NEW step
        PROVE  /\ PartsOf(i, Passed(i, n, step)) \subseteq PartsOf(i, Passed(i, n + 1, step))
               /\ {x \in {Here(i).part} : Here(i).step = step} \subseteq PartsOf(i, Passed(i, n + 1, step))
    <3>1. /\ Passed(i, n, step) \subseteq Passed(i, n + 1, step)
          /\ P[n].step = step => n \in Passed(i, n + 1, step)
      BY <1>3, OnePassed
    <3> QED BY <3>1, <1>1, <1>3 DEF PartsOf
  <2>3. PartsOf(i, 1..(n - 1)) \subseteq PartsOf(i, 1..n)
    BY <1>3, AtLeast
  <2>4. (n + 1) - 1 = n
    BY <1>3
  <2> QED BY <1>3, <2>1, <2>2, <2>3, <2>4 DEF Registered
<1>5. Opened(i, q, exist')
  <2>1. /\ process[i].opened => exist[i] = AllTables
        /\ Passed(i, n, "dbInstance") # {} => process[i].opened
        /\ Passed(i, n, "PeerTables") # {} => \A j \in cfg[i].peers : {"block", "vote"} \subseteq exist[j]
    BY <1>1, <1>3 DEF Opened
  <2>2. \A j \in Instances : exist[j] \subseteq exist'[j] /\ (exist[j] = AllTables => exist'[j] = AllTables)
    BY SchemasComplete DEF LifeInv, LifeTypes
  <2>3. cfg[i].peers \subseteq Instances
    BY <1>1, StartupAssumption DEF StartupAssumption, Instances
  <2>4. q.opened => exist'[i] = AllTables
    BY <2>1, <2>2
  <2>5. Passed(i, n + 1, "dbInstance") # {} => q.opened
    <3>1. \A k \in Passed(i, n + 1, "dbInstance") :
            k \in Passed(i, n, "dbInstance") \/ Here(i).step = "dbInstance"
      BY <1>1, <1>3, OnePassed
    <3> QED BY <2>1, <3>1
  <2>6. Passed(i, n + 1, "PeerTables") # {} => \A j \in cfg[i].peers : {"block", "vote"} \subseteq exist'[j]
    <3> SUFFICES ASSUME NEW k \in Passed(i, n + 1, "PeerTables"), NEW j \in cfg[i].peers
                 PROVE  {"block", "vote"} \subseteq exist'[j]
      OBVIOUS
    <3>1. CASE k \in Passed(i, n, "PeerTables")
      BY <3>1, <2>1, <2>2, <2>3
    <3>2. CASE Here(i).step = "PeerTables"
      BY <3>2
    <3> QED BY <3>1, <3>2, <1>1, <1>3, OnePassed
  <2> QED BY <1>3, <2>4, <2>5, <2>6 DEF Opened
<1>6. FailedOut(i, q)
  <2>1. /\ "proposals" \in process[i].failed => process[i].asked
        /\ "homepage" \in process[i].failed =>
             "homepage" \notin process[i].routes /\ \A k \in n..Len(P) : P[k].part # "homepage"
    BY <1>1, <1>3 DEF FailedOut
  <2>2. "homepage" \in q.failed => "homepage" \notin q.routes
    BY <1>1, <1>3, <2>1
  <2> QED BY <1>3, <2>1, <2>2 DEF FailedOut
<1>7. Routed(i, q)
  <2>1. /\ Passed(i, n, "BuildRoute") # {} => process[i].mux = process[i].routes
        /\ process[i].web = "up" => Passed(i, n, "BuildRoute") # {}
    BY <1>1, <1>3 DEF Routed
  <2>2. (Passed(i, n, "BuildRoute") # {}) <=> (n > h + 4)
    <3>1. ASSUME NEW k \in 1..(n - 1) PROVE (P[k].step = "BuildRoute") <=> (k = h + 4)
      <4>1. k \in 1..Len(P)
        BY <1>1, <1>3
      <4> QED BY <4>1, <1>1, <1>2, ShapeEnds
    <3>2. Passed(i, n, "BuildRoute") = {k \in 1..(n - 1) : k = h + 4}
      BY <1>3, <3>1 DEF Passed
    <3>3. (h + 4 \in 1..(n - 1)) <=> (n > h + 4)
      BY <1>3
    <3> QED BY <3>2, <3>3
  <2>3. Passed(i, n + 1, "BuildRoute") # {} => n > h + 4 \/ Here(i).step = "BuildRoute"
    <3>1. \A k \in Passed(i, n + 1, "BuildRoute") :
            k \in Passed(i, n, "BuildRoute") \/ Here(i).step = "BuildRoute"
      BY <1>1, <1>3, OnePassed
    <3> QED BY <2>2, <3>1
  <2>4. n > h + 4 => Here(i).step \notin {"AddRoute", "BuildRoute"}
    BY <1>1, <1>2, ShapeEnds
  <2>5. Here(i).step = "listenAndServeProto" => n > h + 4
    BY <1>1, <1>2, ShapeEnds
  <2>6. Passed(i, n, "BuildRoute") \subseteq Passed(i, n + 1, "BuildRoute")
    BY <1>3, OnePassed
  <2> QED BY <1>3, <2>1, <2>2, <2>3, <2>4, <2>5, <2>6 DEF Routed
<1>8. CopyOK(i, q, exist')
  BY <1>1, <1>3, <1>4, <1>5, <1>6, <1>7 DEF CopyOK
<1> QED BY <1>8, OneCopy

\* A process that goes on.
LEMMA MovesOn ==
  ASSUME NEW p \in ProcessStates, NEW q, q = [p EXCEPT !.at = @ + 1]
  PROVE  /\ q \in ProcessStates /\ q.at = p.at + 1
         /\ q.opened = p.opened /\ q.groups = p.groups /\ q.workers = p.workers
         /\ q.routes = p.routes /\ q.mux = p.mux /\ q.failed = p.failed
         /\ q.web = p.web /\ q.asked = p.asked
  BY DEF ProcessStates

LEMMA ExitsInv ==
  ASSUME LifeInv, NEW i \in Instances, Exits(i), cfg' = cfg, exist' = exist,
         mishaps' \in 0..MaxMishaps
  PROVE  LifeInv'
<1>1. Down \in ProcessStates
  BY DEF Down, Fresh, ProcessStates
<1>2. CopyOK(i, Down, exist')
  BY DEF CopyOK, Down, Fresh
<1> QED BY <1>1, <1>2, OneCopy DEF Exits

LEMMA NoMishap == LifeInv => mishaps \in 0..MaxMishaps
  BY DEF LifeInv, LifeTypes

\* The steps that need no more than that main is there.
LEMMA PlainInv ==
  ASSUME LifeInv, NEW i \in Instances, Up(i), GoesOn(i, process[i]), cfg' = cfg,
         exist' = exist, mishaps' \in 0..MaxMishaps,
         Here(i).step \in Plain \cup {"NewExchangeBot", "NeedsBot"}
  PROVE  LifeInv'
<1>1. process[i] \in ProcessStates
  BY WhereMainIs
<1>2. PICK q : q = [process[i] EXCEPT !.at = @ + 1]
  OBVIOUS
<1>3. /\ q \in ProcessStates /\ q.at = process[i].at + 1
      /\ q.opened = process[i].opened /\ q.groups = process[i].groups
      /\ q.workers = process[i].workers /\ q.routes = process[i].routes /\ q.mux = process[i].mux
      /\ q.failed = process[i].failed /\ q.web = process[i].web /\ q.asked = process[i].asked
  BY <1>1, <1>2, MovesOn
<1>4. Here(i).step \notin {"Wait", "BuildRoute", "dbInstance", "PeerTables"}
  BY DEF Plain
<1>5. process' = [process EXCEPT ![i] = q]
  BY <1>2 DEF GoesOn
<1> QED BY <1>3, <1>4, <1>5, Advances

LEMMA MainStepInv ==
  ASSUME LifeInv, NEW i \in Instances, MainStep(i)
  PROVE  LifeInv'
<1>1. CASE PlainStep(i)
  BY <1>1, PlainInv, NoMishap DEF PlainStep
<1>2. CASE NeedsBot(i)
  BY <1>2, PlainInv, ExitsInv, NoMishap DEF NeedsBot, AtStep
<1>3. CASE WaitEnds(i)
  BY <1>3, ExitsInv, NoMishap DEF WaitEnds
<1>4. CASE NewExchangeBot(i)
  <2>1. Up(i) /\ Here(i).step = "NewExchangeBot" /\ UNCHANGED <<cfg, exist, mishaps>>
    BY <1>4 DEF NewExchangeBot, AtStep
  <2>2. process[i] \in ProcessStates /\ Here(i).part \in Names
    BY <2>1, WhereMainIs DEF Places, Names
  <2>3. PICK p : p = [process[i] EXCEPT !.bot = "running"]
    OBVIOUS
  <2>4. /\ p \in ProcessStates /\ p.at = process[i].at
        /\ p.opened = process[i].opened /\ p.groups = process[i].groups
        /\ p.workers = process[i].workers /\ p.routes = process[i].routes
        /\ p.mux = process[i].mux /\ p.failed = process[i].failed
        /\ p.web = process[i].web /\ p.asked = process[i].asked
    BY <2>2, <2>3 DEF ProcessStates
  <2>5. PICK q : q = [p EXCEPT !.at = @ + 1]
    OBVIOUS
  <2>6. /\ q \in ProcessStates /\ q.at = p.at + 1
        /\ q.opened = p.opened /\ q.groups = p.groups /\ q.workers = p.workers /\ q.routes = p.routes
        /\ q.mux = p.mux /\ q.failed = p.failed /\ q.web = p.web /\ q.asked = p.asked
    BY <2>4, <2>5, MovesOn
  <2>7. process' = [process EXCEPT ![i] = q]
    BY <1>4, <2>3, <2>5 DEF NewExchangeBot, GoesOn
  <2> QED BY <2>1, <2>4, <2>6, <2>7, NoMishap, Advances
<1>5. CASE NewServer(i)
  <2>1. Up(i) /\ Here(i).step = "NewServer" /\ UNCHANGED <<cfg, exist, mishaps>>
    BY <1>5 DEF NewServer, AtStep
  <2>2. process[i] \in ProcessStates /\ Here(i).part \in Names
    BY <2>1, WhereMainIs DEF Places, Names
  <2>3. PICK p : p = [process[i] EXCEPT !.web = "made"]
    OBVIOUS
  <2>4. /\ p \in ProcessStates /\ p.at = process[i].at
        /\ p.opened = process[i].opened /\ p.groups = process[i].groups
        /\ p.workers = process[i].workers /\ p.routes = process[i].routes
        /\ p.mux = process[i].mux /\ p.failed = process[i].failed
        /\ p.web = "made" /\ p.asked = process[i].asked
    BY <2>2, <2>3 DEF ProcessStates
  <2>5. PICK q : q = [p EXCEPT !.at = @ + 1]
    OBVIOUS
  <2>6. /\ q \in ProcessStates /\ q.at = p.at + 1
        /\ q.opened = p.opened /\ q.groups = p.groups /\ q.workers = p.workers /\ q.routes = p.routes
        /\ q.mux = p.mux /\ q.failed = p.failed /\ q.web = p.web /\ q.asked = p.asked
    BY <2>4, <2>5, MovesOn
  <2>7. process' = [process EXCEPT ![i] = q]
    BY <1>5, <2>3, <2>5 DEF NewServer, GoesOn
  <2> QED BY <2>1, <2>4, <2>6, <2>7, NoMishap, Advances
<1>6. CASE listenAndServeProto(i)
  <2>1. Up(i) /\ Here(i).step = "listenAndServeProto" /\ UNCHANGED <<cfg, exist, mishaps>>
    BY <1>6 DEF listenAndServeProto, AtStep
  <2>2. process[i] \in ProcessStates /\ Here(i).part \in Names
    BY <2>1, WhereMainIs DEF Places, Names
  <2>3. PICK p : p = [process[i] EXCEPT !.web = "up"]
    OBVIOUS
  <2>4. /\ p \in ProcessStates /\ p.at = process[i].at
        /\ p.opened = process[i].opened /\ p.groups = process[i].groups
        /\ p.workers = process[i].workers /\ p.routes = process[i].routes
        /\ p.mux = process[i].mux /\ p.failed = process[i].failed
        /\ p.web = "up" /\ p.asked = process[i].asked
    BY <2>2, <2>3 DEF ProcessStates
  <2>5. PICK q : q = [p EXCEPT !.at = @ + 1]
    OBVIOUS
  <2>6. /\ q \in ProcessStates /\ q.at = p.at + 1
        /\ q.opened = p.opened /\ q.groups = p.groups /\ q.workers = p.workers /\ q.routes = p.routes
        /\ q.mux = p.mux /\ q.failed = p.failed /\ q.web = p.web /\ q.asked = p.asked
    BY <2>4, <2>5, MovesOn
  <2>7. process' = [process EXCEPT ![i] = q]
    BY <1>6, <2>3, <2>5 DEF listenAndServeProto, GoesOn
  <2> QED BY <2>1, <2>4, <2>6, <2>7, NoMishap, Advances
<1>7. CASE RegisterBlockHandlerGroup(i)
  <2>1. Up(i) /\ Here(i).step = "RegisterBlockHandlerGroup" /\ UNCHANGED <<cfg, exist, mishaps>>
    BY <1>7 DEF RegisterBlockHandlerGroup, AtStep
  <2>2. process[i] \in ProcessStates /\ Here(i).part \in Names
    BY <2>1, WhereMainIs DEF Places, Names
  <2>3. PICK p : p = [process[i] EXCEPT !.groups = @ \cup {Here(i).part}]
    OBVIOUS
  <2>4. /\ p \in ProcessStates /\ p.at = process[i].at
        /\ p.opened = process[i].opened /\ p.groups = process[i].groups \cup {Here(i).part}
        /\ p.workers = process[i].workers /\ p.routes = process[i].routes
        /\ p.mux = process[i].mux /\ p.failed = process[i].failed
        /\ p.web = process[i].web /\ p.asked = process[i].asked
    BY <2>2, <2>3 DEF ProcessStates
  <2>5. PICK q : q = [p EXCEPT !.at = @ + 1]
    OBVIOUS
  <2>6. /\ q \in ProcessStates /\ q.at = p.at + 1
        /\ q.opened = p.opened /\ q.groups = p.groups /\ q.workers = p.workers /\ q.routes = p.routes
        /\ q.mux = p.mux /\ q.failed = p.failed /\ q.web = p.web /\ q.asked = p.asked
    BY <2>4, <2>5, MovesOn
  <2>7. process' = [process EXCEPT ![i] = q]
    BY <1>7, <2>3, <2>5 DEF RegisterBlockHandlerGroup, GoesOn
  <2> QED BY <2>1, <2>4, <2>6, <2>7, NoMishap, Advances
<1>8. CASE AddRoute(i)
  <2>1. Up(i) /\ Here(i).step = "AddRoute" /\ UNCHANGED <<cfg, exist, mishaps>>
    BY <1>8 DEF AddRoute, AtStep
  <2>2. process[i] \in ProcessStates /\ Here(i).part \in Names
    BY <2>1, WhereMainIs DEF Places, Names
  <2>3. PICK p : p = [process[i] EXCEPT !.routes = @ \cup {Here(i).part}]
    OBVIOUS
  <2>4. /\ p \in ProcessStates /\ p.at = process[i].at
        /\ p.opened = process[i].opened /\ p.groups = process[i].groups
        /\ p.workers = process[i].workers /\ p.routes = process[i].routes \cup {Here(i).part}
        /\ p.mux = process[i].mux /\ p.failed = process[i].failed
        /\ p.web = process[i].web /\ p.asked = process[i].asked
    BY <2>2, <2>3 DEF ProcessStates
  <2>5. PICK q : q = [p EXCEPT !.at = @ + 1]
    OBVIOUS
  <2>6. /\ q \in ProcessStates /\ q.at = p.at + 1
        /\ q.opened = p.opened /\ q.groups = p.groups /\ q.workers = p.workers /\ q.routes = p.routes
        /\ q.mux = p.mux /\ q.failed = p.failed /\ q.web = p.web /\ q.asked = p.asked
    BY <2>4, <2>5, MovesOn
  <2>7. process' = [process EXCEPT ![i] = q]
    BY <1>8, <2>3, <2>5 DEF AddRoute, GoesOn
  <2> QED BY <2>1, <2>4, <2>6, <2>7, NoMishap, Advances
<1>9. CASE StartWorkers(i)
  <2>1. Up(i) /\ Here(i).step = "go" /\ UNCHANGED <<cfg, exist, mishaps>>
    BY <1>9 DEF StartWorkers, AtStep
  <2>2. process[i] \in ProcessStates /\ Here(i).part \in Names
    BY <2>1, WhereMainIs DEF Places, Names
  <2>3. PICK p : p = [process[i] EXCEPT !.workers = @ \cup {Here(i).part}]
    OBVIOUS
  <2>4. /\ p \in ProcessStates /\ p.at = process[i].at
        /\ p.opened = process[i].opened /\ p.groups = process[i].groups
        /\ p.workers = process[i].workers \cup {Here(i).part} /\ p.routes = process[i].routes
        /\ p.mux = process[i].mux /\ p.failed = process[i].failed
        /\ p.web = process[i].web /\ p.asked = process[i].asked
    BY <2>2, <2>3 DEF ProcessStates
  <2>5. PICK q : q = [p EXCEPT !.at = @ + 1]
    OBVIOUS
  <2>6. /\ q \in ProcessStates /\ q.at = p.at + 1
        /\ q.opened = p.opened /\ q.groups = p.groups /\ q.workers = p.workers /\ q.routes = p.routes
        /\ q.mux = p.mux /\ q.failed = p.failed /\ q.web = p.web /\ q.asked = p.asked
    BY <2>4, <2>5, MovesOn
  <2>7. process' = [process EXCEPT ![i] = q]
    BY <1>9, <2>3, <2>5 DEF StartWorkers, GoesOn
  <2> QED BY <2>1, <2>4, <2>6, <2>7, NoMishap, Advances
<1>10. CASE BuildRoute(i)
  <2>1. Up(i) /\ Here(i).step = "BuildRoute" /\ UNCHANGED <<cfg, exist, mishaps>>
    BY <1>10 DEF BuildRoute, AtStep
  <2>2. process[i] \in ProcessStates /\ Here(i).part \in Names
    BY <2>1, WhereMainIs DEF Places, Names
  <2>3. PICK p : p = [process[i] EXCEPT !.mux = process[i].routes]
    OBVIOUS
  <2>4. /\ p \in ProcessStates /\ p.at = process[i].at
        /\ p.opened = process[i].opened /\ p.groups = process[i].groups
        /\ p.workers = process[i].workers /\ p.routes = process[i].routes
        /\ p.mux = process[i].routes /\ p.failed = process[i].failed
        /\ p.web = process[i].web /\ p.asked = process[i].asked
    BY <2>2, <2>3 DEF ProcessStates
  <2>5. PICK q : q = [p EXCEPT !.at = @ + 1]
    OBVIOUS
  <2>6. /\ q \in ProcessStates /\ q.at = p.at + 1
        /\ q.opened = p.opened /\ q.groups = p.groups /\ q.workers = p.workers /\ q.routes = p.routes
        /\ q.mux = p.mux /\ q.failed = p.failed /\ q.web = p.web /\ q.asked = p.asked
    BY <2>4, <2>5, MovesOn
  <2>7. process' = [process EXCEPT ![i] = q]
    BY <1>10, <2>3, <2>5 DEF BuildRoute, GoesOn
  <2> QED BY <2>1, <2>4, <2>6, <2>7, NoMishap, Advances
<1>11. CASE dbInstance(i)
  <2>1. Up(i) /\ Here(i).step = "dbInstance" /\ UNCHANGED <<cfg, mishaps>>
    BY <1>11 DEF dbInstance, AtStep
  <2>2. process[i] \in ProcessStates /\ Here(i).part \in Names
    BY <2>1, WhereMainIs DEF Places, Names
  <2>3. PICK p : p = [process[i] EXCEPT !.opened = TRUE]
    OBVIOUS
  <2>4. /\ p \in ProcessStates /\ p.at = process[i].at
        /\ p.opened /\ p.groups = process[i].groups
        /\ p.workers = process[i].workers /\ p.routes = process[i].routes
        /\ p.mux = process[i].mux /\ p.failed = process[i].failed
        /\ p.web = process[i].web /\ p.asked = process[i].asked
    BY <2>2, <2>3 DEF ProcessStates
  <2>5. PICK q : q = [p EXCEPT !.at = @ + 1]
    OBVIOUS
  <2>6. /\ q \in ProcessStates /\ q.at = p.at + 1
        /\ q.opened = p.opened /\ q.groups = p.groups /\ q.workers = p.workers /\ q.routes = p.routes
        /\ q.mux = p.mux /\ q.failed = p.failed /\ q.web = p.web /\ q.asked = p.asked
    BY <2>4, <2>5, MovesOn
  <2>7. process' = [process EXCEPT ![i] = q]
    BY <1>11, <2>3, <2>5 DEF dbInstance, GoesOn
  <2>8. /\ exist' = exist \/ exist' = [exist EXCEPT ![i] = AllTables]
        /\ exist'[i] = AllTables
    <3>1. exist \in [Instances -> Schemas] /\ CreateTables(exist[i]) = AllTables
      BY SchemasComplete DEF LifeInv, LifeTypes
    <3>2. process[i].opened => exist[i] = AllTables
      BY <2>1, WhereMainIs DEF Opened
    <3>3. exist' = [exist EXCEPT ![i] = IF process[i].opened THEN @ ELSE CreateTables(@)]
      BY <1>11 DEF dbInstance
    <3> QED BY <3>1, <3>2, <3>3
  <2> QED BY <2>1, <2>4, <2>6, <2>7, <2>8, NoMishap, Advances
<1>12. CASE PeerTables(i)
  <2>1. Up(i) /\ Here(i).step = "PeerTables" /\ UNCHANGED <<cfg, exist, mishaps>>
    BY <1>12 DEF PeerTables, AtStep
  <2>2. CASE Exits(i)
    BY <2>1, <2>2, ExitsInv, NoMishap
  <2>3. CASE GoesOn(i, process[i]) /\ \A j \in cfg[i].peers : {"block", "vote"} \subseteq exist[j]
    <3>1. PICK q : q = [process[i] EXCEPT !.at = @ + 1]
      OBVIOUS
    <3>2. /\ q \in ProcessStates /\ q.at = process[i].at + 1
          /\ q.opened = process[i].opened /\ q.groups = process[i].groups
          /\ q.workers = process[i].workers /\ q.routes = process[i].routes
          /\ q.mux = process[i].mux /\ q.failed = process[i].failed
          /\ q.web = process[i].web /\ q.asked = process[i].asked
      BY <2>1, <3>1, WhereMainIs, MovesOn
    <3>3. process' = [process EXCEPT ![i] = q]
      BY <2>3, <3>1 DEF GoesOn
    <3> QED BY <2>1, <2>3, <3>2, <3>3, NoMishap, Advances
  <2> QED BY <1>12, <2>2, <2>3 DEF PeerTables
<1> QED BY <1>1, <1>2, <1>3, <1>4, <1>5, <1>6, <1>7, <1>8, <1>9, <1>10, <1>11, <1>12 DEF MainStep

\* What is left out holds none of the steps that others rely on.
LEMMA LeftOut ==
  ASSUME NEW c, NEW P, NEW h \in Nat, Shape(c, P, h), NEW n \in 1..Len(P), Len(P) \in Nat,
         P[n].part \in {"homepage", "proposals"}
  PROVE  P[n].step \notin {"dbInstance", "PeerTables", "BuildRoute", "NewExchangeBot",
                          "listenAndServeProto"}
<1>1. CASE n \in 1..h
  <2>1. /\ P[n].part \in Modules \cup {"main"} /\ P[n].step \in SetupSteps \cup MainSteps
        /\ P[n].step \in {"dbInstance", "PeerTables"} => P[n].part # "proposals"
    BY <1>1 DEF Shape, BeforeHome
  <2>2. "homepage" \notin Modules \cup {"main"}
    BY DEF Modules
  <2>3. P[n].step \in SetupSteps
    BY <1>1, <2>1, <2>2 DEF Shape, BeforeHome
  <2>4. \A s \in SetupSteps : s \notin {"BuildRoute", "NewExchangeBot", "listenAndServeProto"}
    BY DEF SetupSteps, OwnSteps
  <2> QED BY <2>1, <2>2, <2>3, <2>4
<1>2. CASE n \in {h + 1, h + 2, h + 3, h + 4}
  BY <1>2 DEF Shape, FromHome
<1>3. CASE n \in (h + 5)..Len(P)
  BY <1>3 DEF Shape, FromHome
<1> QED BY <1>1, <1>2, <1>3

LEMMA LeavesOutInv ==
  ASSUME LifeInv, NEW i \in Instances, Up(i), NEW ask \in BOOLEAN, LeavesOut(i, ask),
         Here(i).part \in {"homepage", "proposals"},
         Here(i).part = "homepage" => Here(i).step # "AddRoute",
         Here(i).part = "proposals" => ask,
         cfg' = cfg, exist' = exist, mishaps' \in 0..MaxMishaps
  PROVE  LifeInv'
<1> DEFINE n == process[i].at
           P == Program(i)
<1>1. /\ cfg \in Settings /\ i \in DOMAIN cfg /\ n \in 1..Len(P) /\ Len(P) \in Nat
      /\ Here(i) = P[n] /\ Here(i) \in Places /\ process[i] \in ProcessStates
      /\ Registered(i, process[i]) /\ Opened(i, process[i], exist)
      /\ FailedOut(i, process[i]) /\ Routed(i, process[i])
  BY WhereMainIs
<1>2. PICK h \in Nat : Shape(cfg[i], P, h)
  BY WhereMainIs
<1>3. PICK S : S = {k \in n..Len(P) : P[k].part # Here(i).part}
  OBVIOUS
<1>4. PICK m : m = NextPart(i) /\ m = Min(S)
  BY <1>3 DEF NextPart
<1>5. PICK q : /\ q = [process[i] EXCEPT !.at = NextPart(i), !.asked = @ \/ ask,
                                          !.failed = @ \cup {Here(i).part}]
               /\ process' = [process EXCEPT ![i] = q]
  BY Zenon DEF LeavesOut
<1>6. process' = [process EXCEPT ![i] = q]
  BY <1>5
<1> HIDE DEF P, n
<1>7. n \in Nat \ {0} /\ n = process[i].at /\ P = Program(i)
  BY <1>1 DEF n, P
<1>8. m \in Nat /\ m > n /\ m <= Len(P) /\ P[m].part # Here(i).part
      /\ \A k \in n..(m - 1) : P[k].part = Here(i).part
  <2>1. S \in SUBSET Nat
    BY <1>1, <1>3, <1>7
  <2>2. Len(P) \in S
    <3>1. Len(P) \in (h + 5)..Len(P)
      BY <1>1, <1>2 DEF Shape
    <3>2. P[Len(P)].part = "main"
      BY <3>1, <1>2 DEF Shape, FromHome
    <3> QED BY <3>2, <1>1, <1>3
  <2>3. m \in S /\ \A k \in S : m <= k
    BY <2>1, <2>2, <1>4, MinIn
  <2>4. ASSUME NEW k \in n..(m - 1) PROVE P[k].part = Here(i).part
    <3>1. k \in n..Len(P) /\ ~(m <= k)
      BY <1>1, <1>3, <2>3
    <3> QED BY <3>1, <1>3, <2>3
  <2> QED BY <1>1, <1>3, <1>7, <2>3, <2>4
<1>9. Here(i).part \in Names
  BY <1>1 DEF Places, Names
<1>10. /\ q \in ProcessStates /\ q.at = m /\ q.failed = process[i].failed \cup {Here(i).part}
       /\ q.opened = process[i].opened /\ q.groups = process[i].groups
       /\ q.workers = process[i].workers /\ q.routes = process[i].routes
       /\ q.mux = process[i].mux /\ q.web = process[i].web
  BY <1>1, <1>4, <1>5, <1>8, <1>9 DEF ProcessStates
<1>11. q.asked <=> process[i].asked \/ ask
  BY <1>1, <1>5 DEF ProcessStates
<1>12. \A step : Passed(i, n, step) \subseteq Passed(i, m, step)
  BY <1>7, <1>8 DEF Passed
<1>13. \A step \in {"dbInstance", "PeerTables", "BuildRoute"} : Passed(i, m, step) = Passed(i, n, step)
  <2> SUFFICES ASSUME NEW step \in {"dbInstance", "PeerTables", "BuildRoute"},
                      NEW k \in n..(m - 1)
               PROVE  P[k].step # step
    BY <1>7, <1>8 DEF Passed
  <2>1. k \in 1..Len(P) /\ P[k].part \in {"homepage", "proposals"}
    BY <1>1, <1>7, <1>8
  <2> QED BY <2>1, <1>1, <1>2, LeftOut
<1>14. Registered(i, q)
  <2>1. \A step : PartsOf(i, Passed(i, n, step)) \subseteq PartsOf(i, Passed(i, m, step))
    BY <1>12, AtLeast
  <2>2. PartsOf(i, 1..(n - 1)) \subseteq PartsOf(i, 1..(m - 1))
    BY <1>7, <1>8, AtLeast
  <2>3. Here(i).part \in PartsOf(i, 1..(m - 1))
    <3>1. n \in 1..(m - 1)
      BY <1>7, <1>8
    <3> QED BY <3>1, <1>1, <1>7 DEF PartsOf
  <2>4. /\ process[i].groups \subseteq PartsOf(i, Passed(i, n, "RegisterBlockHandlerGroup"))
        /\ process[i].workers \subseteq PartsOf(i, Passed(i, n, "go"))
        /\ process[i].routes \subseteq PartsOf(i, Passed(i, n, "AddRoute"))
        /\ process[i].failed \subseteq PartsOf(i, 1..(n - 1)) \cap {"homepage", "proposals"}
    BY <1>1, <1>7 DEF Registered
  <2> QED BY <1>10, <2>1, <2>2, <2>3, <2>4 DEF Registered
<1>15. Opened(i, q, exist')
  BY <1>1, <1>7, <1>10, <1>13 DEF Opened
<1>16. Routed(i, q)
  BY <1>1, <1>7, <1>10, <1>13 DEF Routed
<1>17. FailedOut(i, q)
  <2>1. /\ "proposals" \in process[i].failed => process[i].asked
        /\ "homepage" \in process[i].failed =>
             "homepage" \notin process[i].routes /\ \A k \in n..Len(P) : P[k].part # "homepage"
    BY <1>1, <1>7 DEF FailedOut
  <2>2. "proposals" \in q.failed => q.asked
    BY <2>1, <1>10, <1>11
  <2>3. CASE Here(i).part = "homepage"
    <3>1. n = h + 1
      BY <2>3, <1>1, <1>2, ShapeEnds DEF Shape, FromHome
    <3>2. \A k \in 1..(n - 1) : P[k].part # "homepage"
      <4> SUFFICES ASSUME NEW k \in 1..(n - 1) PROVE P[k].part # "homepage"
        OBVIOUS
      <4>1. k \in 1..Len(P) /\ k \notin {h + 1, h + 2}
        BY <3>1, <1>1
      <4> QED BY <4>1, <1>1, <1>2, ShapeEnds
    <3>3. "homepage" \notin process[i].routes
      BY <3>2, <1>1, <1>7 DEF Registered, PartsOf, Passed
    <3>4. m # h + 2
      BY <2>3, <1>2, <1>8 DEF Shape, FromHome
    <3>5. ASSUME NEW k \in m..Len(P) PROVE P[k].part # "homepage"
      <4>1. k \in 1..Len(P) /\ k \notin {h + 1, h + 2}
        BY <3>1, <3>4, <1>1, <1>8
      <4> QED BY <4>1, <1>1, <1>2, ShapeEnds
    <3> QED BY <2>2, <3>3, <3>5, <1>7, <1>10 DEF FailedOut
  <2>4. CASE Here(i).part # "homepage"
    <3>1. \A k \in m..Len(P) : k \in n..Len(P)
      BY <1>7, <1>8, <1>1
    <3> QED BY <2>1, <2>2, <2>4, <3>1, <1>7, <1>10 DEF FailedOut
  <2> QED BY <2>3, <2>4
<1>18. CopyOK(i, q, exist')
  BY <1>1, <1>7, <1>8, <1>10, <1>14, <1>15, <1>16, <1>17 DEF CopyOK
<1> QED BY <1>6, <1>10, <1>18, OneCopy

LEMMA StepFailsInv ==
  ASSUME LifeInv, NEW i \in Instances, StepFails(i)
  PROVE  LifeInv'
<1>1. /\ Up(i) /\ Here(i).step \in CanFail /\ OnError(i) /\ cfg' = cfg /\ exist' = exist
      /\ mishaps' \in 0..MaxMishaps
  BY NoMishap, StartupAssumption DEF StepFails, StartupAssumption
<1>2. CASE Here(i).part \in {"homepage", "proposals"}
  <2>1. Here(i).step \notin {"NewExchangeBot", "listenAndServeProto"}
    <3>1. PICK h \in Nat : Shape(cfg[i], Program(i), h)
      BY <1>1, WhereMainIs
    <3>2. process[i].at \in 1..Len(Program(i)) /\ Len(Program(i)) \in Nat
          /\ Here(i) = Program(i)[process[i].at]
      BY <1>1, WhereMainIs
    <3> QED BY <1>2, <3>1, <3>2, LeftOut
  <2>2. CASE Here(i).part = "homepage"
    <3>1. LeavesOut(i, FALSE) /\ Here(i).step # "AddRoute"
      BY <1>1, <2>1, <2>2 DEF OnError, CanFail, Plain
    <3> QED BY <1>1, <2>2, <3>1, LeavesOutInv
  <2>3. CASE Here(i).part = "proposals"
    <3>1. LeavesOut(i, TRUE)
      BY <1>1, <2>1, <2>3 DEF OnError
    <3> QED BY <1>1, <2>3, <3>1, LeavesOutInv
  <2> QED BY <1>2, <2>2, <2>3
<1>4. CASE Here(i).part \notin {"homepage", "proposals"} /\ Here(i).step = "NewExchangeBot"
  <2>1. GoesOn(i, process[i])
    BY <1>1, <1>4 DEF OnError
  <2> QED BY <1>1, <1>4, <2>1, PlainInv
<1>5. CASE Here(i).part \notin {"homepage", "proposals"} /\ Here(i).step = "listenAndServeProto"
  <2>1. GoesOn(i, [process[i] EXCEPT !.web = "unbound", !.asked = TRUE])
    BY <1>1, <1>5 DEF OnError
  <2>2. process[i] \in ProcessStates
    BY <1>1, WhereMainIs
  <2>3. PICK p : p = [process[i] EXCEPT !.web = "unbound", !.asked = TRUE]
    OBVIOUS
  <2>4. /\ p \in ProcessStates /\ p.at = process[i].at
        /\ p.opened = process[i].opened /\ p.groups = process[i].groups
        /\ p.workers = process[i].workers /\ p.routes = process[i].routes
        /\ p.mux = process[i].mux /\ p.failed = process[i].failed
        /\ p.web = "unbound" /\ p.asked = TRUE
    BY <2>2, <2>3 DEF ProcessStates
  <2>5. PICK q : q = [p EXCEPT !.at = @ + 1]
    OBVIOUS
  <2>6. /\ q \in ProcessStates /\ q.at = p.at + 1
        /\ q.opened = p.opened /\ q.groups = p.groups /\ q.workers = p.workers
        /\ q.routes = p.routes /\ q.mux = p.mux /\ q.failed = p.failed
        /\ q.web = p.web /\ q.asked = p.asked
    BY <2>4, <2>5, MovesOn
  <2>7. process' = [process EXCEPT ![i] = q]
    BY <2>1, <2>3, <2>5 DEF GoesOn
  <2> QED BY <1>1, <1>5, <2>4, <2>6, <2>7, Advances
<1>6. CASE /\ Here(i).part \notin {"homepage", "proposals"}
           /\ Here(i).step \notin {"NewExchangeBot", "listenAndServeProto"}
  <2>1. Exits(i)
    BY <1>1, <1>6 DEF OnError
  <2> QED BY <1>1, <2>1, ExitsInv
<1> QED BY <1>2, <1>4, <1>5, <1>6

\* What happens beside main touches the request to stop, the server or the bot alone.
LEMMA BesideInv ==
  ASSUME LifeInv, NEW i \in Instances, Asked(i) \/ ShutdownServer(i) \/ BotEnds(i)
  PROVE  LifeInv'
<1>1. process[i] \in ProcessStates /\ cfg' = cfg /\ exist' = exist /\ mishaps' = mishaps
      /\ process \in [Instances -> ProcessStates]
  BY DEF LifeInv, LifeTypes, Asked, ShutdownServer, BotEnds
<1>2. PICK q : /\ q \in {[process[i] EXCEPT !.asked = TRUE], [process[i] EXCEPT !.web = "closed"],
                         [process[i] EXCEPT !.bot = "stopped"]}
               /\ process' = [process EXCEPT ![i] = q]
  BY <1>1 DEF Asked, ShutdownServer, BotEnds
<1>3. /\ q \in ProcessStates /\ q.at = process[i].at
      /\ q.opened = process[i].opened /\ q.groups = process[i].groups
      /\ q.workers = process[i].workers /\ q.routes = process[i].routes /\ q.mux = process[i].mux
      /\ q.failed = process[i].failed /\ q.web \in {process[i].web, "closed"}
  BY <1>1, <1>2 DEF ProcessStates
<1>4. process[i].asked => q.asked
  BY <1>1, <1>2 DEF ProcessStates
<1>5. process[i].at = 0 => q.web = "none"
  <2> SUFFICES ASSUME process[i].at = 0 PROVE q.web = "none"
    OBVIOUS
  <2>1. process[i].web = "none"
    BY DEF LifeInv, CopyOK
  <2>2. ~ShutdownServer(i)
    BY <2>1 DEF ShutdownServer
  <2>3. CASE Asked(i) \/ BotEnds(i)
    <3>1. PICK r \in {[process[i] EXCEPT !.asked = TRUE], [process[i] EXCEPT !.bot = "stopped"]} :
            process' = [process EXCEPT ![i] = r]
      BY <2>3 DEF Asked, BotEnds
    <3>2. r.web = "none"
      BY <1>1, <2>1, <3>1 DEF ProcessStates
    <3>3. q = process'[i] /\ r = process'[i]
      BY <1>1, <1>2, <3>1
    <3> QED BY <3>2, <3>3
  <2> QED BY <2>2, <2>3
<1>6. CopyOK(i, q, exist')
  <2>1. CopyOK(i, process[i], exist)
    BY DEF LifeInv
  <2> QED BY <1>1, <1>3, <1>4, <1>5, <2>1
         DEF CopyOK, Registered, Opened, FailedOut, Routed
<1>7. mishaps' \in 0..MaxMishaps
  BY <1>1, NoMishap
<1> QED BY <1>1, <1>2, <1>3, <1>6, <1>7, OneCopy

LEMMA StartsUpInv ==
  ASSUME LifeInv, NEW i \in Instances, StartsUp(i)
  PROVE  LifeInv'
<1>1. /\ i \in DOMAIN cfg /\ cfg \in Settings /\ cfg' = cfg /\ exist' = exist
      /\ mishaps' \in 0..MaxMishaps /\ process' = [process EXCEPT ![i] = Fresh]
  BY NoMishap DEF StartsUp, LifeInv, LifeTypes
<1>2. Fresh \in ProcessStates /\ Fresh.at = 1
  BY DEF Fresh, ProcessStates
<1>3. /\ Fresh.groups = {} /\ Fresh.workers = {} /\ Fresh.routes = {} /\ Fresh.mux = {}
      /\ Fresh.failed = {} /\ Fresh.web = "none" /\ Fresh.opened = FALSE
  BY DEF Fresh
<1>4. 1 <= Len(Program(i))
  <2>1. PICK h \in Nat : Shape(cfg[i], Program(i), h)
    BY <1>1, ProgramShape
  <2>2. Program(i) \in Seq(Places) /\ Len(Program(i)) >= h + 6
    BY <2>1 DEF Shape
  <2>3. Len(Program(i)) \in Nat
    BY <2>2, LenProperties
  <2> QED BY <2>2, <2>3
<1>5. \A step : Passed(i, 1, step) = {}
  BY DEF Passed
<1>6. Registered(i, Fresh) /\ Opened(i, Fresh, exist') /\ FailedOut(i, Fresh) /\ Routed(i, Fresh)
  BY <1>2, <1>3, <1>5 DEF Registered, Opened, FailedOut, Routed
<1>7. CopyOK(i, Fresh, exist')
  BY <1>1, <1>2, <1>4, <1>6 DEF CopyOK
<1> QED BY <1>1, <1>2, <1>7, OneCopy

LEMMA LifeNextInv == LifeInv /\ [LifeNext]_lifeVars => LifeInv'
<1> SUFFICES ASSUME LifeInv, [LifeNext]_lifeVars PROVE LifeInv'
  OBVIOUS
<1>1. CASE UNCHANGED lifeVars
  BY <1>1 DEF lifeVars, LifeInv, LifeTypes, CopyOK, Registered, Opened, FailedOut, Routed,
              Passed, PartsOf, Program
<1>2. CASE LifeNext
  <2>1. PICK i \in Instances : \/ StartsUp(i) \/ MainStep(i) \/ StepFails(i) \/ Asked(i)
                               \/ ShutdownServer(i) \/ BotEnds(i) \/ Killed(i)
    BY <1>2 DEF LifeNext
  <2>2. CASE Killed(i)
    <3>1. Exits(i) /\ cfg' = cfg /\ exist' = exist /\ mishaps' \in 0..MaxMishaps
      BY <2>2, NoMishap, StartupAssumption DEF Killed, StartupAssumption
    <3> QED BY <3>1, ExitsInv
  <2> QED BY <2>1, <2>2, StartsUpInv, MainStepInv, StepFailsInv, BesideInv
<1> QED BY <1>1, <1>2

-----------------------------------------------------------------------------
(* What the invariant implies. *)

LEMMA InvLifeTypeOK == LifeInv => LifeTypeOK
<1> SUFFICES ASSUME LifeInv PROVE LifeTypeOK
  OBVIOUS
<1>1. \A e \in Schemas : e \subseteq DOMAIN createTableScripts
  BY SchemasComplete DEF AllTables
<1>2. ASSUME NEW i \in DOMAIN cfg
      PROVE  /\ exist[i] \subseteq DOMAIN createTableScripts
             /\ process[i].at \in 0..Len(Program(i))
             /\ process[i].failed \cup process[i].groups \cup process[i].workers
                  \subseteq cfg[i].parts \cup {"homepage"}
  <2>1. cfg \in Settings /\ i \in Instances /\ process[i] \in ProcessStates /\ exist[i] \in Schemas
    BY DEF LifeInv, LifeTypes, Instances
  <2>2. PICK h \in Nat : Shape(cfg[i], Program(i), h)
    BY <2>1, ProgramShape
  <2>3. Len(Program(i)) \in Nat
    BY <2>2, LenProperties DEF Shape
  <2>4. CASE ~Up(i)
    <3>1. /\ process[i].at = 0 /\ process[i].failed = {} /\ process[i].groups = {}
          /\ process[i].workers = {}
      BY <2>1, <2>4 DEF Up, ProcessStates, LifeInv, CopyOK
    <3> QED BY <1>1, <2>1, <2>3, <3>1
  <2>5. CASE Up(i)
    <3>1. /\ process[i].at \in 1..Len(Program(i)) /\ Registered(i, process[i])
      BY <2>1, <2>5, WhereMainIs
    <3>2. ASSUME NEW k \in 1..(process[i].at - 1),
                 \/ Program(i)[k].step \in Leaves
                 \/ Program(i)[k].part \in {"homepage", "proposals"}
          PROVE  Program(i)[k].part \in cfg[i].parts \cup {"homepage"}
      <4>1. k \in 1..Len(Program(i))
        BY <2>3, <3>1
      <4>2. CASE k \in 1..h
        <5>1. /\ Program(i)[k].part \in (cfg[i].parts \cap Modules) \cup {"main"}
              /\ (Program(i)[k].part = "main") <=> (Program(i)[k].step \in MainSteps)
          BY <4>2, <2>2 DEF Shape, BeforeHome
        <5>2. Leaves \cap MainSteps = {}
          BY DEF Leaves, MainSteps
        <5> QED BY <3>2, <5>1, <5>2
      <4>3. CASE k \in {h + 1, h + 2}
        BY <4>3, <2>2 DEF Shape, FromHome
      <4>4. CASE k \in {h + 3, h + 4}
        BY <4>4, <3>2, <2>2 DEF Shape, FromHome, Leaves
      <4>5. CASE k \in (h + 5)..Len(Program(i))
        <5>1. Program(i)[k].part = "main" /\ Program(i)[k].step \in Serving
          BY <4>5, <2>2 DEF Shape, FromHome
        <5> QED BY <5>1, <3>2 DEF Serving, Leaves
      <4> QED BY <4>1, <4>2, <4>3, <4>4, <4>5, <2>3
    <3>3. /\ process[i].groups \subseteq cfg[i].parts \cup {"homepage"}
          /\ process[i].workers \subseteq cfg[i].parts \cup {"homepage"}
      BY <3>1, <3>2 DEF Registered, PartsOf, Passed, Leaves
    <3>4. process[i].failed \subseteq cfg[i].parts \cup {"homepage"}
      BY <3>1, <3>2 DEF Registered, PartsOf
    <3> QED BY <1>1, <2>1, <3>1, <3>3, <3>4
  <2> QED BY <2>4, <2>5
<1> QED BY <1>2 DEF LifeTypeOK, LifeInv, LifeTypes

\* Behind what a part with tables leaves behind there is a dbInstance, and behind the block
\* handler of the propagation a look at the peers' tables.
LEMMA InvPartsReady == LifeInv => PartsReady
<1> SUFFICES ASSUME LifeInv, NEW i \in DOMAIN cfg
             PROVE  LET p == process[i]
                    IN /\ (p.groups \cup p.workers \cup p.routes) \cap OnDatabase # {} =>
                            exist[i] = DOMAIN createTableScripts
                       /\ "propagation" \in p.groups =>
                            \A j \in cfg[i].peers : {"block", "vote"} \subseteq exist[j]
                       /\ p.web = "up" => p.mux = p.routes /\ (p.mux \cap p.failed # {} => p.asked)
  BY DEF PartsReady
<1> DEFINE n == process[i].at
           P == Program(i)
<1>1. cfg \in Settings /\ i \in Instances /\ process[i] \in ProcessStates
  BY DEF LifeInv, LifeTypes, Instances
<1>2. CASE ~Up(i)
  <2>1. /\ process[i].groups = {} /\ process[i].workers = {} /\ process[i].routes = {}
        /\ process[i].web = "none"
    BY <1>1, <1>2 DEF Up, ProcessStates, LifeInv, CopyOK
  <2> QED BY <2>1
<1>3. CASE Up(i)
  <2>1. /\ n \in 1..Len(P) /\ Len(P) \in Nat
        /\ Registered(i, process[i]) /\ Opened(i, process[i], exist)
        /\ FailedOut(i, process[i]) /\ Routed(i, process[i])
    BY <1>1, <1>3, WhereMainIs
  <2>2. PICK h \in Nat : Shape(cfg[i], P, h)
    BY <1>1, ProgramShape
  <2>3. "homepage" \notin OnDatabase \cup {"propagation"} /\ "main" \notin OnDatabase \cup {"propagation"}
    BY DEF OnDatabase
  <2>4. ASSUME NEW k \in 1..(n - 1), P[k].part \in OnDatabase \cup {"propagation"} PROVE k \in 1..h
    <3>1. k \in 1..Len(P)
      BY <2>1
    <3>2. k \notin {h + 1, h + 2, h + 3, h + 4}
      BY <2>2, <2>3, <2>4 DEF Shape, FromHome
    <3>3. k \notin (h + 5)..Len(P)
      BY <2>2, <2>3, <2>4 DEF Shape, FromHome
    <3> QED BY <3>1, <3>2, <3>3, <2>1
  <2>5. ASSUME NEW k \in 1..(n - 1), P[k].part \in OnDatabase, P[k].step \in Leaves
        PROVE  exist[i] = DOMAIN createTableScripts
    <3>1. PICK j \in 1..(k - 1) : P[j].step = "dbInstance"
      BY <2>2, <2>4, <2>5 DEF Shape, BeforeHome
    <3>2. j \in Passed(i, n, "dbInstance")
      BY <2>1, <3>1 DEF Passed
    <3> QED BY <2>1, <3>2 DEF Opened, AllTables
  <2>6. (process[i].groups \cup process[i].workers \cup process[i].routes) \cap OnDatabase # {} =>
          exist[i] = DOMAIN createTableScripts
    BY <2>1, <2>5 DEF Registered, PartsOf, Passed, Leaves
  <2>7. ASSUME "propagation" \in process[i].groups, NEW j \in cfg[i].peers
        PROVE  {"block", "vote"} \subseteq exist[j]
    <3>1. PICK k \in 1..(n - 1) : P[k].part = "propagation" /\ P[k].step = "RegisterBlockHandlerGroup"
      BY <2>1, <2>7 DEF Registered, PartsOf, Passed
    <3>2. PICK l \in 1..(k - 1) : P[l].step = "PeerTables"
      BY <2>2, <2>4, <2>7, <3>1 DEF Shape, BeforeHome
    <3>3. l \in Passed(i, n, "PeerTables")
      BY <2>1, <3>2 DEF Passed
    <3> QED BY <2>1, <2>7, <3>3 DEF Opened
  <2>8. ASSUME process[i].web = "up"
        PROVE  /\ process[i].mux = process[i].routes
               /\ process[i].mux \cap process[i].failed # {} => process[i].asked
    <3>1. process[i].mux = process[i].routes
      BY <2>1, <2>8 DEF Routed
    <3>2. process[i].failed \subseteq {"homepage", "proposals"}
      BY <2>1 DEF Registered
    <3> QED BY <2>1, <3>1, <3>2 DEF FailedOut
  <2> QED BY <2>6, <2>7, <2>8
<1> QED BY <1>2, <1>3

-----------------------------------------------------------------------------

\* The type invariant holds: main stays within its program, and a copy knows no parts but
\* those it is configured for.
THEOREM LifeTypeCorrect == LifeSpec => []LifeTypeOK
<1>1. LifeInit => LifeInv
  BY LifeInitInv
<1>2. LifeInv /\ [LifeNext]_lifeVars => LifeInv'
  BY LifeNextInv
<1>3. LifeInv => LifeTypeOK
  BY InvLifeTypeOK
<1> QED BY <1>1, <1>2, <1>3, PTL DEF LifeSpec

\* Whatever is registered, running or routed finds its tables and those of the peers, and
\* every route is served: for all settings, earlier schemas, numbers of copies, restarts,
\* failures and kills.
THEOREM PartsAreReady == LifeSpec => []PartsReady
<1>1. LifeInit => LifeInv
  BY LifeInitInv
<1>2. LifeInv /\ [LifeNext]_lifeVars => LifeInv'
  BY LifeNextInv
<1>3. LifeInv => PartsReady
  BY InvPartsReady
<1> QED BY <1>1, <1>2, <1>3, PTL DEF LifeSpec
=============================================================================
