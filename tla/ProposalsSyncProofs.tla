-------------------------- MODULE ProposalsSyncProofs --------------------------
(***************************************************************************)
(* The records of the proposals, for every set of proposals and any number *)
(* of votes, failed requests, panics and restarts.                         *)
(***************************************************************************)
EXTENDS ProposalsSync, FiniteSetTheorems, WellFoundedInduction, TLAPS

(* The inductive invariant. *)

ServerOK ==
  /\ status \in [Tokens -> VoteStatus \cup {"none"}]
  /\ votes \in [Tokens -> Nat]

\* A complete status is final, and so are the votes under it.
UpToDate(t, s, n) == n <= votes[t] /\ (s \in Complete => s = status[t] /\ n = votes[t])

RecordTypes == [id : Nat, token : Tokens, status : VoteStatus,
                votes : Nat, chart : Nat \cup {NoChart}, synced : BOOLEAN]

RecordOK(r) ==
  /\ r \in RecordTypes
  /\ status[r.token] # "none" /\ UpToDate(r.token, r.status, r.votes)
  /\ r.synced => r.status \in Complete /\ r.chart = votes[r.token]

DataOK(t, d) ==
  /\ t \in Tokens /\ d \in [status : VoteStatus, votes : Nat]
  /\ UpToDate(t, d.status, d.votes)

Unique(S) == \A r, q \in S : r.id = q.id \/ r.token = q.token => r = q

StoreOK ==
  /\ IsFiniteSet(store) /\ Unique(store)
  /\ \A r \in store : RecordOK(r) /\ r.id \in 1..Cardinality(store)

Places == {"idle", "done", "new", "fetch", "save", "select", "refresh", "compare", "results"}

Working(g) == pc[g] \notin {"idle", "done"}

LocalsOK ==
  /\ updating \in BOOLEAN /\ proc \in {"up", "crashed"}
  /\ pc \in [Syncers -> Places]
  /\ new \in [Syncers -> SUBSET Tokens] /\ ids \in [Syncers -> SUBSET Nat]
  /\ DOMAIN fresh = Syncers

Alone == \A g \in Syncers : Working(g) => updating /\ \A h \in Syncers \ {g} : ~Working(h)

\* What g has to save is on politeia and not in the bucket.
NewOK(g) ==
  /\ new[g] # {} => pc[g] \in {"fetch", "save"}
  /\ new[g] \cap Known = {} /\ \A t \in new[g] : status[t] # "none"
  /\ pc[g] = "save" => new[g] \subseteq DOMAIN fresh[g]

FreshOK(g) == \A t \in DOMAIN fresh[g] : DataOK(t, fresh[g][t])

\* The records g has still to refresh or to finish.
IdsOK(g) ==
  /\ ids[g] # {} => pc[g] \in {"refresh", "compare", "results"}
  /\ \A i \in ids[g] : \E r \in store :
       /\ r.id = i
       /\ pc[g] \in {"refresh", "compare"} => ~r.synced
       /\ pc[g] = "results" => r.status \in Complete
  /\ pc[g] = "compare" => ids[g] # {} /\ Next_(g).token \in DOMAIN fresh[g]

WorkOK(g) == NewOK(g) /\ FreshOK(g) /\ IdsOK(g)

Inv == ServerOK /\ StoreOK /\ LocalsOK /\ Alone /\ \A g \in Syncers : WorkOK(g)

-----------------------------------------------------------------------------

\* The next id is one of those left.
LEMMA MinIn ==
  ASSUME NEW S \in SUBSET Nat, S # {}
  PROVE  Min(S) \in S
<1>1. PICK x \in S : \A y \in S : ~(<<y, x>> \in OpToRel(<, Nat))
  BY NatLessThanWellFounded, WFMin
<1>2. ASSUME NEW y \in S, y < x PROVE FALSE
  <2>1. <<y, x>> \in Nat \X Nat /\ <<y, x>>[1] < <<y, x>>[2]
    BY <1>2
  <2>2. <<y, x>> \in OpToRel(<, Nat)
    BY <2>1, Zenon DEF OpToRel
  <2> QED BY <1>1, <2>2
<1>3. \A y \in S : x <= y
  BY <1>2
<1> QED BY <1>3 DEF Min

\* The record a loop is at.
LEMMA NextRecord ==
  ASSUME Inv, NEW g \in Syncers, ids[g] # {}
  PROVE  /\ Next_(g) \in store /\ Next_(g).id = Min(ids[g]) /\ Min(ids[g]) \in ids[g]
         /\ pc[g] \in {"refresh", "compare"} => ~Next_(g).synced
         /\ pc[g] = "results" => Next_(g).status \in Complete
<1>1. Min(ids[g]) \in ids[g]
  BY MinIn DEF Inv, LocalsOK
<1>2. PICK r \in store :
        /\ r.id = Min(ids[g])
        /\ pc[g] \in {"refresh", "compare"} => ~r.synced
        /\ pc[g] = "results" => r.status \in Complete
  BY <1>1 DEF Inv, WorkOK, IdsOK
<1>3. Next_(g) \in store /\ Next_(g).id = Min(ids[g])
  BY <1>2 DEF Next_, Record
<1>4. Next_(g) = r
  BY <1>2, <1>3 DEF Inv, StoreOK, Unique
<1> QED BY <1>1, <1>2, <1>3, <1>4

LEMMA InitInv == Init => Inv
<1> SUFFICES ASSUME Init PROVE Inv
  OBVIOUS
<1>1. ServerOK /\ LocalsOK
  BY DEF Init, ServerOK, LocalsOK, Places
<1>2. StoreOK
  BY FS_EmptySet DEF Init, StoreOK, Unique
<1>3. Alone
  BY DEF Init, Alone, Working
<1>4. \A g \in Syncers : WorkOK(g)
  BY DEF Init, WorkOK, NewOK, FreshOK, IdsOK, NoData
<1> QED BY <1>1, <1>2, <1>3, <1>4 DEF Inv
-----------------------------------------------------------------------------
(* Politeia moves on. *)

\* What only politeia changes.
Onward(t) ==
  /\ status[t] # "none" => status'[t] # "none"
  /\ votes[t] <= votes'[t]
  /\ status[t] \in Complete => status'[t] = status[t] /\ votes'[t] = votes[t]

LEMMA ServerInv ==
  ASSUME Inv, NEW t \in Tokens, ServerMoves(t) \/ ServerVote(t)
  PROVE  Inv'
<1>1. ServerOK' /\ \A u \in Tokens : Onward(u)
  <2>1. CASE ServerMoves(t)
    <3>1. PICK s \in Follows(status[t]) : status' = [status EXCEPT ![t] = s] /\ votes' = votes
      BY <2>1 DEF ServerMoves
    <3>2. status[t] \notin Complete /\ s \in VoteStatus
      BY <3>1 DEF Follows, Complete, VoteStatus, InProgress
    <3>3. s # "none"
      BY <3>2 DEF VoteStatus, InProgress, Complete
    <3> QED BY <3>1, <3>2, <3>3 DEF Inv, ServerOK, Onward
  <2>2. CASE ServerVote(t)
    BY <2>2 DEF Inv, ServerOK, ServerVote, Complete, Onward
  <2> QED BY <2>1, <2>2
<1>2. UNCHANGED <<store, updating, pc, new, ids, fresh, proc>>
  BY DEF ServerMoves, ServerVote, locals
<1>3. ASSUME NEW u \in Tokens, NEW s, NEW n \in Nat, UpToDate(u, s, n) PROVE UpToDate(u, s, n)'
  <2>1. votes[u] \in Nat /\ votes'[u] \in Nat
    BY <1>1 DEF Inv, ServerOK
  <2>2. votes[u] <= votes'[u] /\ (status[u] \in Complete => status'[u] = status[u] /\ votes'[u] = votes[u])
    BY <1>1 DEF Onward
  <2>3. n <= votes[u] /\ (s \in Complete => s = status[u] /\ n = votes[u])
    BY <1>3 DEF UpToDate
  <2>4. n <= votes'[u] /\ (s \in Complete => s = status'[u] /\ n = votes'[u])
    BY <2>1, <2>2, <2>3
  <2> QED BY <2>4 DEF UpToDate
<1>4. StoreOK'
  <2>1. ASSUME NEW r \in store, RecordOK(r) PROVE RecordOK(r)'
    <3>1. r.token \in Tokens /\ r.votes \in Nat
      BY <2>1 DEF RecordOK, RecordTypes
    <3>2. r.synced => r.status = status[r.token]
      BY <2>1 DEF RecordOK, UpToDate
    <3>3. UpToDate(r.token, r.status, r.votes)'
      BY <1>3, <2>1, <3>1 DEF RecordOK
    <3> QED BY <1>1, <2>1, <3>1, <3>2, <3>3 DEF RecordOK, Onward
  <2> QED BY <1>2, <2>1 DEF Inv, StoreOK, Unique
<1>5. \A g \in Syncers : WorkOK(g)'
  <2>1. ASSUME NEW u, NEW d, DataOK(u, d) PROVE DataOK(u, d)'
    <3>1. u \in Tokens /\ d \in [status : VoteStatus, votes : Nat] /\ UpToDate(u, d.status, d.votes)
      BY <2>1 DEF DataOK
    <3>2. d.votes \in Nat
      BY <3>1
    <3>3. UpToDate(u, d.status, d.votes)'
      BY <1>3, <3>1, <3>2
    <3> QED BY <3>1, <3>3 DEF DataOK
  <2>2. ASSUME NEW g \in Syncers PROVE NewOK(g)'
    <3>1. NewOK(g) /\ new[g] \subseteq Tokens /\ Known' = Known
      BY <1>2 DEF Inv, WorkOK, LocalsOK, Known
    <3> QED BY <1>1, <1>2, <3>1 DEF NewOK, Onward
  <2>3. ASSUME NEW g \in Syncers PROVE FreshOK(g)'
    BY <1>2, <2>1 DEF Inv, WorkOK, FreshOK
  <2>4. ASSUME NEW g \in Syncers PROVE IdsOK(g)'
    BY <1>2 DEF Inv, WorkOK, IdsOK, Next_, Record
  <2> QED BY <2>2, <2>3, <2>4 DEF WorkOK
<1> QED BY <1>1, <1>2, <1>4, <1>5 DEF Inv, LocalsOK, Alone, Working

-----------------------------------------------------------------------------
(* A call moves on. *)

Stays(h) == UNCHANGED <<pc[h], new[h], ids[h], fresh[h]>>

\* The other call is not at work, so a step of one is a step alone.
LEMMA Alone1 ==
  ASSUME Inv, NEW g \in Syncers, Working(g), UNCHANGED politeia, StoreOK', LocalsOK', WorkOK(g)',
         \A h \in Syncers \ {g} : Stays(h),
         updating' = TRUE \/ pc'[g] \in {"idle", "done"}
  PROVE  Inv'
<1>1. \A h \in Syncers \ {g} : pc[h] \in {"idle", "done"}
  BY DEF Inv, Alone, Working
<1>2. ASSUME NEW h \in Syncers \ {g} PROVE WorkOK(h)'
  <2>1. pc'[h] \in {"idle", "done"} /\ new'[h] = {} /\ ids'[h] = {}
    BY <1>1 DEF Inv, WorkOK, NewOK, IdsOK, Stays
  <2>2. FreshOK(h)'
    BY DEF Inv, WorkOK, FreshOK, DataOK, UpToDate, politeia, Stays
  <2> QED BY <2>1, <2>2 DEF WorkOK, NewOK, IdsOK
<1>3. Alone'
  BY <1>1 DEF Alone, Working, Stays
<1>4. ServerOK'
  BY DEF Inv, ServerOK, politeia
<1> QED BY <1>2, <1>3, <1>4 DEF Inv

\* A step that leaves the bucket alone.
LEMMA StoreUnchanged == Inv /\ UNCHANGED <<politeia, store>> => StoreOK' /\ Known' = Known
  BY DEF Inv, StoreOK, Unique, RecordOK, UpToDate, Known, politeia

LEMMA ReturnInv ==
  ASSUME Inv, NEW g \in Syncers, Working(g), Return(g), UNCHANGED <<politeia, store, proc>>
  PROVE  Inv'
<1>1. LocalsOK' /\ pc'[g] \in {"idle", "done"} /\ new'[g] = {} /\ ids'[g] = {} /\ fresh'[g] = NoData
  BY DEF Inv, LocalsOK, Return, Goto, NoData, Places
<1>2. WorkOK(g)'
  BY <1>1 DEF WorkOK, NewOK, FreshOK, IdsOK, NoData
<1>3. \A h \in Syncers \ {g} : Stays(h)
  BY DEF Inv, LocalsOK, Return, Goto, Stays
<1> QED BY <1>1, <1>2, <1>3, StoreUnchanged, Alone1

LEMMA BeginInv == ASSUME Inv, NEW g \in Syncers, Begin(g) PROVE Inv'
<1>1. UNCHANGED <<politeia, store, new, ids, fresh, proc>> /\ pc[g] = "idle"
  BY DEF Begin, locals
<1>2. LocalsOK' /\ pc'[g] \in {"done", "new"} /\ \A h \in Syncers \ {g} : pc'[h] = pc[h]
  BY <1>1 DEF Inv, LocalsOK, Begin, Goto, Places
<1>3. ServerOK' /\ StoreOK' /\ Known' = Known
  BY <1>1, StoreUnchanged DEF Inv, ServerOK, politeia
<1>4. Alone'
  BY <1>1, <1>2 DEF Inv, LocalsOK, Alone, Working, Begin, Goto
<1>5. ASSUME NEW h \in Syncers PROVE WorkOK(h)'
  <2>1. NewOK(h)'
    BY <1>1, <1>2, <1>3 DEF Inv, WorkOK, NewOK, politeia
  <2>2. FreshOK(h)'
    BY <1>1 DEF Inv, WorkOK, FreshOK, DataOK, UpToDate, politeia
  <2>3. IdsOK(h)'
    BY <1>1, <1>2 DEF Inv, WorkOK, IdsOK, Next_, Record
  <2> QED BY <2>1, <2>2, <2>3 DEF WorkOK
<1> QED BY <1>2, <1>3, <1>4, <1>5 DEF Inv

-----------------------------------------------------------------------------
(* The records. *)

\* A record is replaced by its update.
LEMMA UpdateOK ==
  ASSUME Inv, UNCHANGED politeia, NEW r \in store, NEW d, NEW chart \in Nat \cup {NoChart},
         NEW synced \in BOOLEAN, Update(r, d, chart, synced),
         d.status \in VoteStatus, d.votes \in Nat, UpToDate(r.token, d.status, d.votes),
         ~synced => ~r.synced,
         synced => d.status \in Complete /\ chart = votes[r.token]
  PROVE  StoreOK' /\ \A q \in store : q.id # r.id => q \in store'
<1> DEFINE n == IF d.votes = 0 THEN r.votes ELSE d.votes
           c == IF chart = NoChart THEN r.chart ELSE chart
           e == [r EXCEPT !.status = d.status, !.votes = n, !.chart = c, !.synced = r.synced \/ synced]
<1>1. store' = (store \ {r}) \cup {e}
  BY DEF Update
<1>2. RecordOK(r) /\ r.id \in 1..Cardinality(store) /\ Unique(store) /\ IsFiniteSet(store)
  BY DEF Inv, StoreOK
<1>3. r \in RecordTypes /\ r.token \in Tokens /\ votes[r.token] \in Nat
  BY <1>2 DEF RecordOK, RecordTypes, Inv, ServerOK
<1>4. /\ n \in Nat /\ c \in Nat \cup {NoChart} /\ UpToDate(r.token, d.status, n)
  BY <1>2, <1>3 DEF RecordOK, RecordTypes, UpToDate
<1>5. /\ e.id = r.id /\ e.token = r.token /\ e.status = d.status /\ e.votes = n /\ e.chart = c
      /\ e.synced = (r.synced \/ synced)
  BY <1>3 DEF RecordTypes
<1>6. e \in RecordTypes
  BY <1>3, <1>4 DEF RecordTypes
<1>7. synced => c = votes[r.token]
  BY <1>3 DEF NoChart
<1>8. RecordOK(e)
  BY <1>2, <1>4, <1>5, <1>6, <1>7 DEF RecordOK
<1> HIDE DEF e, n, c
<1>9. Unique(store')
  BY <1>1, <1>2, <1>5 DEF Unique
<1>10. IsFiniteSet(store') /\ Cardinality(store') = Cardinality(store)
  <2>1. e \notin store \ {r}
    BY <1>2, <1>5 DEF Unique
  <2>2. IsFiniteSet(store \ {r}) /\ Cardinality(store \ {r}) = Cardinality(store) - 1
    BY <1>2, FS_RemoveElement
  <2>3. Cardinality(store) \in Nat
    BY <1>2, FS_CardinalityType
  <2>4. /\ IsFiniteSet((store \ {r}) \cup {e})
        /\ Cardinality((store \ {r}) \cup {e}) = Cardinality(store \ {r}) + 1
    BY <2>1, <2>2, FS_AddElement
  <2> QED BY <1>1, <2>2, <2>3, <2>4
<1>11. ASSUME NEW q \in store' PROVE RecordOK(q) /\ q.id \in 1..Cardinality(store)
  BY <1>1, <1>2, <1>5, <1>8 DEF Inv, StoreOK
<1>12. \A q \in store' : RecordOK(q)'
  BY <1>11 DEF RecordOK, UpToDate, politeia
<1> QED BY <1>1, <1>9, <1>10, <1>11, <1>12 DEF StoreOK

\* A new record.
LEMMA SaveOK ==
  ASSUME Inv, UNCHANGED politeia, NEW t, NEW d, Save(t, d), t \notin Known,
         DataOK(t, d), status[t] # "none"
  PROVE  StoreOK' /\ Known' = Known \cup {t}
<1> DEFINE e == [id |-> Cardinality(store) + 1, token |-> t, status |-> d.status,
                 votes |-> d.votes, chart |-> NoChart, synced |-> FALSE]
<1>1. store' = store \cup {e} /\ e.id = Cardinality(store) + 1 /\ e.token = t
  BY DEF Save
<1>2. Cardinality(store) \in Nat /\ IsFiniteSet(store)
  BY FS_CardinalityType DEF Inv, StoreOK
<1>3. RecordOK(e)
  BY <1>2 DEF RecordOK, RecordTypes, DataOK
<1> HIDE DEF e
<1>4. \A q \in store : q.token # t /\ q.id # e.id
  BY <1>1, <1>2 DEF Inv, StoreOK, Known
<1>5. IsFiniteSet(store') /\ Cardinality(store') = Cardinality(store) + 1
  BY <1>1, <1>2, <1>4, FS_AddElement
<1>6. Unique(store')
  BY <1>1, <1>4 DEF Inv, StoreOK, Unique
<1>7. \A q \in store' : RecordOK(q) /\ q.id \in 1..(Cardinality(store) + 1)
  BY <1>1, <1>2, <1>3 DEF Inv, StoreOK
<1>8. \A q \in store' : RecordOK(q)'
  BY <1>7 DEF RecordOK, UpToDate, politeia
<1>9. Known' = Known \cup {t}
  BY <1>1 DEF Known
<1> QED BY <1>5, <1>6, <1>7, <1>8, <1>9 DEF StoreOK

\* What politeia answers.
LEMMA DataFits ==
  ASSUME Inv, NEW S \in SUBSET Tokens, \A t \in S : status[t] # "none"
  PROVE  DOMAIN Data(S) = S /\ \A t \in S : DataOK(t, Data(S)[t])
  BY DEF Inv, ServerOK, Data, DataOK, UpToDate

-----------------------------------------------------------------------------
(* The steps of a call. *)

LEMMA NewTokensInv == ASSUME Inv, NEW g \in Syncers, NewTokens(g) PROVE Inv'
<1>1. PICK found \in SUBSET (Vetted \ Known) :
        /\ new' = [new EXCEPT ![g] = found]
        /\ pc' = [pc EXCEPT ![g] = IF found = {} THEN "select" ELSE "fetch"]
  BY DEF NewTokens, Goto
<1>2. pc[g] = "new" /\ UNCHANGED <<politeia, store, updating, ids, fresh, proc>>
  BY DEF NewTokens
<1>3. LocalsOK' /\ pc'[g] \in {"select", "fetch"} /\ new'[g] = found
      /\ (found # {} => pc'[g] = "fetch")
  BY <1>1, <1>2 DEF Inv, LocalsOK, Places, Vetted
<1>4. StoreOK' /\ Known' = Known
  BY <1>2, StoreUnchanged
<1>5. NewOK(g)'
  BY <1>1, <1>2, <1>3, <1>4 DEF NewOK, Vetted, politeia
<1>6. FreshOK(g)' /\ IdsOK(g)'
  BY <1>2, <1>3 DEF Inv, WorkOK, FreshOK, DataOK, UpToDate, IdsOK, politeia
<1>7. \A h \in Syncers \ {g} : Stays(h)
  BY <1>1, <1>2 DEF Inv, LocalsOK, Stays
<1> QED BY <1>2, <1>3, <1>4, <1>5, <1>6, <1>7, Alone1 DEF WorkOK, Working, Inv, Alone

LEMMA FetchNewInv == ASSUME Inv, NEW g \in Syncers, FetchNew(g) PROVE Inv'
<1>1. PICK left \in SUBSET new[g] :
        /\ fresh' = [fresh EXCEPT ![g] = Data(left)] /\ new' = [new EXCEPT ![g] = left]
  <2>1. PICK omitted \in SUBSET new[g] :
          /\ fresh' = [fresh EXCEPT ![g] = Data(new[g] \ omitted)]
          /\ new' = [new EXCEPT ![g] = @ \ omitted]
    BY DEF FetchNew
  <2>2. new[g] \ omitted \in SUBSET new[g]
    OBVIOUS
  <2> QED BY <2>1, <2>2
<1>2. /\ pc[g] = "fetch" /\ UNCHANGED <<politeia, store, updating, ids, proc>>
      /\ pc' = [pc EXCEPT ![g] = "save"]
  BY DEF FetchNew, Goto
<1>3. LocalsOK' /\ pc'[g] = "save" /\ new'[g] = left /\ fresh'[g] = Data(left) /\ ids'[g] = ids[g]
  BY <1>1, <1>2 DEF Inv, LocalsOK, Places
<1>4. StoreOK' /\ Known' = Known
  BY <1>2, StoreUnchanged
<1>5. DOMAIN Data(left) = left /\ \A t \in left : DataOK(t, Data(left)[t]) /\ DataOK(t, Data(left)[t])'
  <2>1. left \in SUBSET Tokens /\ \A t \in left : status[t] # "none"
    BY DEF Inv, LocalsOK, WorkOK, NewOK
  <2>2. DOMAIN Data(left) = left /\ \A t \in left : DataOK(t, Data(left)[t])
    BY <2>1, DataFits
  <2>3. Data(left)' = Data(left)
    BY <1>2 DEF Data, politeia
  <2> QED BY <1>2, <2>2, <2>3 DEF DataOK, UpToDate, politeia
<1>6. NewOK(g)'
  BY <1>2, <1>3, <1>4, <1>5 DEF Inv, WorkOK, NewOK, politeia
<1>7. FreshOK(g)'
  <2>1. \A t \in left : DataOK(t, fresh'[g][t])
    BY <1>3, <1>5
  <2> QED BY <1>2, <1>3, <1>5, <2>1 DEF FreshOK, DataOK, UpToDate, politeia
<1>8. IdsOK(g)'
  BY <1>2, <1>3 DEF Inv, WorkOK, IdsOK
<1>9. \A h \in Syncers \ {g} : Stays(h)
  BY <1>1, <1>2 DEF Inv, LocalsOK, Stays
<1> QED BY <1>2, <1>3, <1>4, <1>6, <1>7, <1>8, <1>9, Alone1 DEF WorkOK, Working, Inv, Alone

LEMMA SaveNewInv == ASSUME Inv, NEW g \in Syncers, SaveNew(g) PROVE Inv'
<1>1. PICK t \in new[g] : Save(t, fresh[g][t]) /\ new' = [new EXCEPT ![g] = @ \ {t}]
  BY DEF SaveNew
<1>2. pc[g] = "save" /\ UNCHANGED <<politeia, updating, pc, ids, fresh, proc>>
  BY DEF SaveNew
<1>3. LocalsOK' /\ new'[g] = new[g] \ {t}
  BY <1>1, <1>2 DEF Inv, LocalsOK
<1>4. DataOK(t, fresh[g][t]) /\ t \notin Known /\ status[t] # "none"
  BY <1>2 DEF Inv, WorkOK, NewOK, FreshOK
<1>5. StoreOK' /\ Known' = Known \cup {t}
  BY <1>1, <1>2, <1>4, SaveOK
<1>6. NewOK(g)'
  BY <1>2, <1>3, <1>5 DEF Inv, WorkOK, NewOK, politeia
<1>7. FreshOK(g)' /\ IdsOK(g)'
  BY <1>2 DEF Inv, WorkOK, FreshOK, DataOK, UpToDate, IdsOK, politeia
<1>8. \A h \in Syncers \ {g} : Stays(h)
  BY <1>1, <1>2 DEF Inv, LocalsOK, Stays
<1> QED BY <1>2, <1>3, <1>5, <1>6, <1>7, <1>8, Alone1 DEF WorkOK, Working, Inv, Alone

LEMMA SelectInProgressInv == ASSUME Inv, NEW g \in Syncers, SelectInProgress(g) PROVE Inv'
<1> DEFINE chosen == {r.id : r \in {q \in store : q.status \in InProgress}}
<1>1. /\ pc[g] \in {"select", "save"} /\ new[g] = {}
      /\ UNCHANGED <<politeia, store, updating, new, fresh, proc>>
      /\ ids' = [ids EXCEPT ![g] = chosen] /\ pc' = [pc EXCEPT ![g] = "refresh"]
  BY DEF SelectInProgress, Goto, Inv, WorkOK, NewOK
<1>2. \A i \in chosen : i \in Nat /\ \E r \in store : r.id = i /\ ~r.synced
  BY DEF Inv, StoreOK, RecordOK, InProgress, Complete
<1> HIDE DEF chosen
<1>3. LocalsOK' /\ pc'[g] = "refresh" /\ ids'[g] = chosen
  BY <1>1, <1>2 DEF Inv, LocalsOK, Places
<1>4. WorkOK(g)'
  BY <1>1, <1>2, <1>3 DEF Inv, WorkOK, NewOK, FreshOK, DataOK, UpToDate, IdsOK, politeia
<1>5. StoreOK'
  BY <1>1, StoreUnchanged
<1>6. \A h \in Syncers \ {g} : Stays(h)
  BY <1>1 DEF Inv, LocalsOK, Stays
<1> QED BY <1>1, <1>3, <1>4, <1>5, <1>6, Alone1 DEF Working, Inv, Alone

LEMMA RefreshInv == ASSUME Inv, NEW g \in Syncers, Refresh(g) PROVE Inv'
<1> DEFINE t == Next_(g).token
<1>1. /\ pc[g] = "refresh" /\ ids[g] # {}
      /\ UNCHANGED <<politeia, store, updating, new, ids, proc>>
      /\ fresh' = [fresh EXCEPT ![g] = Data({t})] /\ pc' = [pc EXCEPT ![g] = "compare"]
  BY DEF Refresh, Goto
<1>2. t \in Tokens /\ status[t] # "none"
  BY <1>1, NextRecord DEF Inv, StoreOK, RecordOK, RecordTypes
<1>3. DOMAIN Data({t}) = {t} /\ \A u \in {t} : DataOK(u, Data({t})[u])
  BY <1>2, DataFits
<1>4. Next_(g)' = Next_(g)
  BY <1>1 DEF Next_, Record
<1> HIDE DEF t
<1>5. LocalsOK' /\ pc'[g] = "compare" /\ fresh'[g] = Data({t})
  BY <1>1 DEF Inv, LocalsOK, Places
<1>6. NewOK(g)'
  BY <1>1, <1>5 DEF Inv, WorkOK, NewOK, Known
<1>7. FreshOK(g)'
  BY <1>1, <1>3, <1>5 DEF FreshOK, DataOK, UpToDate, politeia
<1>8. IdsOK(g)'
  BY <1>1, <1>3, <1>4, <1>5 DEF Inv, WorkOK, IdsOK, t
<1>9. StoreOK' /\ \A h \in Syncers \ {g} : Stays(h)
  BY <1>1, StoreUnchanged DEF Inv, LocalsOK, Stays
<1> QED BY <1>1, <1>5, <1>6, <1>7, <1>8, <1>9, Alone1 DEF WorkOK, Working, Inv, Alone

\* A loop goes on after a record that may have been updated.
LEMMA LoopOn ==
  ASSUME Inv, NEW g \in Syncers, ids[g] # {}, pc[g] \in {"compare", "results"},
         NEW place \in {"refresh", "results"}, place = "results" <=> pc[g] = "results",
         Goto(g, place), ids' = [ids EXCEPT ![g] = @ \ {Min(@)}],
         UNCHANGED <<politeia, updating, new, fresh, proc>>,
         StoreOK', \A q \in store : q.id # Next_(g).id => q \in store'
  PROVE  Inv'
<1>1. LocalsOK' /\ pc'[g] = place /\ ids'[g] = ids[g] \ {Min(ids[g])}
  BY DEF Inv, LocalsOK, Goto, Places
<1>2. NewOK(g)' /\ FreshOK(g)'
  <2>1. new[g] = {}
    BY DEF Inv, WorkOK, NewOK
  <2> QED BY <1>1, <2>1 DEF Inv, WorkOK, NewOK, FreshOK, DataOK, UpToDate, politeia
<1>3. IdsOK(g)'
  <2>1. ASSUME NEW i \in ids'[g]
        PROVE  \E r \in store' : /\ r.id = i
                                 /\ place = "refresh" => ~r.synced
                                 /\ place = "results" => r.status \in Complete
    <3>1. PICK r \in store : /\ r.id = i
                             /\ pc[g] = "compare" => ~r.synced
                             /\ pc[g] = "results" => r.status \in Complete
      BY <1>1 DEF Inv, WorkOK, IdsOK
    <3>2. r.id # Next_(g).id
      BY <1>1, <3>1, NextRecord
    <3> QED BY <3>1, <3>2
  <2> QED BY <1>1, <2>1 DEF IdsOK
<1>4. \A h \in Syncers \ {g} : Stays(h)
  BY DEF Inv, LocalsOK, Goto, Stays
<1> QED BY <1>1, <1>2, <1>3, <1>4, Alone1 DEF WorkOK, Working, Inv, Alone

LEMMA CompareInv == ASSUME Inv, NEW g \in Syncers, Compare(g) PROVE Inv'
<1> DEFINE r == Next_(g)
           d == fresh[g][r.token]
           chart == IF NeedsChart(r, d) THEN votes[r.token] ELSE NoChart
<1>1. /\ pc[g] = "compare" /\ UNCHANGED <<politeia, updating, new, fresh, proc>>
      /\ ids' = [ids EXCEPT ![g] = @ \ {Min(@)}] /\ Goto(g, "refresh")
      /\ UNCHANGED store \/ Update(r, d, chart, FALSE)
  BY DEF Compare
<1>2. ids[g] # {} /\ DataOK(r.token, d)
  BY <1>1 DEF Inv, WorkOK, IdsOK, FreshOK
<1>3. r \in store /\ ~r.synced
  BY <1>1, <1>2, NextRecord
<1>4. chart \in Nat \cup {NoChart}
  BY <1>2 DEF DataOK, Inv, ServerOK
<1> HIDE DEF r, d, chart
<1>5. StoreOK' /\ \A q \in store : q.id # r.id => q \in store'
  <2>1. CASE UNCHANGED store
    BY <1>1, <2>1, StoreUnchanged
  <2>2. CASE Update(r, d, chart, FALSE)
    <3>1. d.status \in VoteStatus /\ d.votes \in Nat /\ UpToDate(r.token, d.status, d.votes)
      BY <1>2 DEF DataOK
    <3> QED BY <1>1, <1>3, <1>4, <2>2, <3>1, UpdateOK
  <2> QED BY <1>1, <2>1, <2>2
<1> QED BY <1>1, <1>2, <1>5, LoopOn DEF r

LEMMA FinalResultsInv == ASSUME Inv, NEW g \in Syncers, FinalResults(g) PROVE Inv'
<1> DEFINE r == Next_(g)
<1>1. /\ pc[g] = "results" /\ ids[g] # {} /\ Update(r, r, votes[r.token], TRUE)
      /\ UNCHANGED <<politeia, updating, pc, new, fresh, proc>>
      /\ ids' = [ids EXCEPT ![g] = @ \ {Min(@)}]
  BY DEF FinalResults
<1>2. r \in store /\ r.status \in Complete
  BY <1>1, NextRecord
<1>3. /\ r.status \in VoteStatus /\ r.votes \in Nat /\ UpToDate(r.token, r.status, r.votes)
      /\ votes[r.token] \in Nat \cup {NoChart}
  BY <1>2 DEF Inv, StoreOK, RecordOK, RecordTypes, ServerOK
<1>4. Goto(g, "results")
  BY <1>1 DEF Goto, Inv, LocalsOK
<1> HIDE DEF r
<1>5. StoreOK' /\ \A q \in store : q.id # r.id => q \in store'
  BY <1>1, <1>2, <1>3, UpdateOK
<1> QED BY <1>1, <1>4, <1>5, LoopOn DEF r

LEMMA SelectCompleteInv == ASSUME Inv, NEW g \in Syncers, SelectComplete(g) PROVE Inv'
<1> DEFINE chosen == {r.id : r \in Unsynced}
<1>1. /\ pc[g] = "refresh" /\ UNCHANGED <<politeia, store, updating, new, fresh, proc>>
      /\ ids' = [ids EXCEPT ![g] = chosen] /\ pc' = [pc EXCEPT ![g] = "results"]
  BY DEF SelectComplete, Goto
<1>2. \A i \in chosen : i \in Nat /\ \E r \in store : r.id = i /\ r.status \in Complete
  BY DEF Inv, StoreOK, Unsynced
<1> HIDE DEF chosen
<1>3. LocalsOK' /\ pc'[g] = "results" /\ ids'[g] = chosen
  BY <1>1, <1>2 DEF Inv, LocalsOK, Places
<1>4. new[g] = {}
  BY <1>1 DEF Inv, WorkOK, NewOK
<1>5. WorkOK(g)'
  BY <1>1, <1>2, <1>3, <1>4 DEF Inv, WorkOK, NewOK, FreshOK, DataOK, UpToDate, IdsOK, politeia
<1>6. StoreOK' /\ \A h \in Syncers \ {g} : Stays(h)
  BY <1>1, StoreUnchanged DEF Inv, LocalsOK, Stays
<1> QED BY <1>1, <1>3, <1>5, <1>6, Alone1 DEF Working, Inv, Alone

\* The process starts again.
LEMMA RestartInv == ASSUME Inv, Restart PROVE Inv'
<1>1. /\ UNCHANGED <<politeia, store>> /\ updating' = FALSE /\ proc' = "up"
      /\ \A g \in Syncers : pc'[g] = "idle" /\ new'[g] = {} /\ ids'[g] = {} /\ fresh'[g] = NoData
  BY DEF Restart
<1>2. LocalsOK'
  BY DEF Restart, LocalsOK, Places
<1>3. \A g \in Syncers : WorkOK(g)'
  BY <1>1 DEF WorkOK, NewOK, FreshOK, IdsOK, NoData
<1>4. Alone' /\ ServerOK' /\ StoreOK'
  BY <1>1, StoreUnchanged DEF Alone, Working, Inv, ServerOK, politeia
<1> QED BY <1>2, <1>3, <1>4 DEF Inv

LEMMA NextInv == Inv /\ [Next]_vars => Inv'
<1> SUFFICES ASSUME Inv, [Next]_vars PROVE Inv'
  OBVIOUS
<1>1. CASE \E t \in Tokens : ServerMoves(t) \/ ServerVote(t)
  BY <1>1, ServerInv
<1>2. ASSUME NEW g \in Syncers, Sync(g) PROVE Inv'
  <2>1. CASE End(g)
    BY <2>1, ReturnInv DEF End, Working
  <2> QED BY <1>2, <2>1, BeginInv, NewTokensInv, FetchNewInv, SaveNewInv, SelectInProgressInv,
             RefreshInv, CompareInv, SelectCompleteInv, FinalResultsInv DEF Sync
<1>3. ASSUME NEW g \in Syncers, Fault(g) PROVE Inv'
  <2>1. CASE Fails(g)
    BY <2>1, ReturnInv DEF Fails, Working
  <2>2. CASE RefreshPanics(g)
    <3>1. UNCHANGED <<politeia, store, updating, pc, new, ids, fresh>> /\ proc' = "crashed"
      BY <2>2 DEF RefreshPanics, locals
    <3>2. \A h \in Syncers : WorkOK(h)'
      BY <3>1 DEF Inv, WorkOK, NewOK, FreshOK, DataOK, UpToDate, IdsOK, Known, Next_, Record,
                  politeia
    <3> QED BY <3>1, <3>2, StoreUnchanged DEF Inv, LocalsOK, Alone, Working, ServerOK, politeia
  <2>3. CASE CompareFails(g)
    BY <2>3, ReturnInv DEF CompareFails, Working
  <2> QED BY <1>3, <2>1, <2>2, <2>3 DEF Fault
<1>4. CASE UNCHANGED vars
  <2>1. UNCHANGED <<politeia, store, updating, pc, new, ids, fresh, proc>>
    BY <1>4 DEF vars, locals
  <2>2. \A h \in Syncers : WorkOK(h)'
    BY <2>1 DEF Inv, WorkOK, NewOK, FreshOK, DataOK, UpToDate, IdsOK, Known, Next_, Record, politeia
  <2> QED BY <2>1, <2>2, StoreUnchanged DEF Inv, LocalsOK, Alone, Working, ServerOK, politeia
<1> QED BY <1>1, <1>2, <1>3, <1>4, RestartInv DEF Next

-----------------------------------------------------------------------------

\* The inductive invariant holds in every state.
THEOREM SyncInvariant == Spec => []Inv
<1> QED BY InitInv, NextInv, PTL DEF Spec

\* Type correctness of the synchronisation.
THEOREM SyncTypeCorrect == Spec => []TypeOK
<1>1. Inv => TypeOK
  <2> SUFFICES ASSUME Inv PROVE TypeOK
    OBVIOUS
  <2>1. status \in [Tokens -> VoteStatus \cup {"none"}] /\ votes \in [Tokens -> Nat]
    BY DEF Inv, ServerOK
  <2>2. \A r \in store : r \in RecordTypes
    BY DEF Inv, StoreOK, RecordOK
  <2>3. \A g \in Syncers : DOMAIN fresh[g] \subseteq Tokens
    BY DEF Inv, WorkOK, FreshOK, DataOK
  <2> QED BY <2>1, <2>2, <2>3 DEF TypeOK, Inv, LocalsOK, Places, RecordTypes
<1> QED BY <1>1, SyncInvariant, PTL

\* No proposal is saved twice, by the start-up call, the ticker or after a restart in the
\* middle of a save.
THEOREM OneRecordHolds == Spec => []OneRecordPerToken
<1>1. Inv => OneRecordPerToken
  BY DEF Inv, StoreOK, Unique, OneRecordPerToken
<1> QED BY <1>1, SyncInvariant, PTL

\* A record marked as synced, which nothing selects again, has politeia's final status, all
\* the votes and the complete chart.
THEOREM SyncedIsFinalHolds == Spec => []SyncedIsFinal
<1>1. Inv => SyncedIsFinal
  BY DEF Inv, StoreOK, RecordOK, UpToDate, SyncedIsFinal
<1> QED BY <1>1, SyncInvariant, PTL
=============================================================================
