-------------------------------- MODULE Pages --------------------------------
(***************************************************************************)
(* The paged tables of the web pages.  A handler reads one page of rows,   *)
(* newest first, by LIMIT and OFFSET, and counts the rows, in two queries  *)
(* of their own; the browser offers the next page as long as the count     *)
(* says there is one.  The collectors insert rows between any two of these *)
(* queries, and nothing orders rows that share the time they are sorted    *)
(* by.                                                                     *)
(*                                                                         *)
(* A behaviour is one walk through one view from its first page: rows are  *)
(* numbered as they are inserted, and key is what they are sorted by.      *)
(***************************************************************************)
EXTENDS Integers, Sequences, FiniteSets, SequencesExt, FiniteSetsExt

CONSTANTS
  Views,            \* the views to follow
  DefaultPageSize, MaxPageSize,
  AskedSizes,       \* page sizes a request asks for; 0 if it has none
  MaxRows           \* bound: rows

VARIABLES
  view,      \* the view followed
  size,      \* rows to a page
  key,       \* the rows of the table and what they are sorted by
  unlisted,  \* rows the query for a page leaves out
  page,      \* the page being read; 0 before the walk
  todo,      \* the queries left of its handler
  shown,     \* its rows
  count,     \* the count of rows it has read
  seen,      \* rows shown so far
  before,    \* history: rows listed when the walk began
  at, older, \* of a view by time: the row it is about, and the one it links to; 0 for none
  slipped,   \* history: a row came after the count of this page and before its rows,
             \* or the link could not be read
  moved      \* history: rows that went to the top, or had shared their time with one
             \* that did, since the walk began

pagesVars ==
  <<view, size, key, unlisted, page, todo, shown, count, seen, at, older, before, slipped, moved>>

-----------------------------------------------------------------------------
(* The queries of src/postgres: what is sorted by, and what is counted.      *)

\* The time is the table's primary key: no two rows share it.
Query == [unique |-> TRUE, countsAll |-> FALSE, moves |-> FALSE]

Mempools     == Query
RedditStats  == Query
TwitterStats == Query
GithubStat   == Query
YoutubeStat  == Query
Snapshots    == Query

\* The rows of one pool: the key is its time and the pool.
FetchPowDataBySource == Query

\* Rows of several sources share a time, or may.
Shared == [Query EXCEPT !.unique = FALSE]

BlocksWithoutVotes == Shared
VotesByReceiveTime == Shared
FetchExchangeTicks == Shared
AllVSPTicks        == Shared
FilteredVSPTicks   == Shared
FetchPowData       == Shared
ProposalsAll       == Shared

\* One row for each user agent (country) of a snapshot, also for those without a
\* node then; these are not listed, but counted.
FetchNodeVersion   == [Shared EXCEPT !.countsAll = TRUE]
FetchNodeLocations == [Shared EXCEPT !.countsAll = TRUE]

\* The transactions and their number come from the server of a block explorer, in
\* two requests; a block's transactions share its time.
TreasuryTxns == Shared

\* Sorted by the time a node was last seen, which a crawl moves on.
NetworkPeers == [Shared EXCEPT !.moves = TRUE]

-----------------------------------------------------------------------------
(* The handlers: the order of the two queries and how the pages are counted. *)

RowsFirst  == <<"rows", "count">>
CountFirst == <<"count", "rows">>

Handler(query, reads) ==
  [query |-> query, reads |-> reads, maximum |-> TRUE, pages |-> "rounded up"]

fetchMempoolData     == Handler(Mempools, RowsFirst)
fetchPropagationData == Handler(BlocksWithoutVotes, RowsFirst)
fetchBlockData       == Handler(BlocksWithoutVotes, RowsFirst)
fetchVoteData        == Handler(VotesByReceiveTime, RowsFirst)
fetchExchangeData    == Handler(FetchExchangeTicks, CountFirst)
fetchVSPData         == Handler(AllVSPTicks, CountFirst)
fetchVSPDataOf       == Handler(FilteredVSPTicks, CountFirst)
fetchPoWData         == Handler(FetchPowData, RowsFirst)
fetchPoWDataOf       == Handler(FetchPowDataBySource, RowsFirst)

\* These take any page size.
AnySize(handler) == [handler EXCEPT !.maximum = FALSE]

getCommunityStat(query) == AnySize(Handler(query, RowsFirst))
snapshotsPage        == AnySize(Handler(Snapshots, RowsFirst))
nodesCountUserAgents == AnySize(Handler(FetchNodeVersion, RowsFirst))
nodesCountByCountries == AnySize(Handler(FetchNodeLocations, RowsFirst))
ProposalsPage        == AnySize(Handler(ProposalsAll, CountFirst))

nodesOfSnapshot == [AnySize(Handler(NetworkPeers, RowsFirst)) EXCEPT !.pages = "default size"]

\* The pages that calcPages links.
TreasuryPage  == [Handler(TreasuryTxns, RowsFirst) EXCEPT !.pages = "linked"]
TreasuryTable == TreasuryPage

\* Not by pages: the last snapshot, and from each one to the one before it.
nodesPage ==
  [AnySize(Handler(Snapshots, <<"last", "older", "rows">>)) EXCEPT !.pages = "by time"]

AllViews ==
  [mempool |-> fetchMempoolData, propagation |-> fetchPropagationData, blocks |-> fetchBlockData,
   votes |-> fetchVoteData, exchanges |-> fetchExchangeData, vsp |-> fetchVSPData,
   vsp1 |-> fetchVSPDataOf, pow |-> fetchPoWData, pow1 |-> fetchPoWDataOf,
   reddit |-> getCommunityStat(RedditStats), twitter |-> getCommunityStat(TwitterStats),
   github |-> getCommunityStat(GithubStat), youtube |-> getCommunityStat(YoutubeStat),
   snapshots |-> snapshotsPage,
   useragents |-> nodesCountUserAgents, countries |-> nodesCountByCountries,
   proposals |-> ProposalsPage, nodes |-> nodesOfSnapshot,
   treasury |-> TreasuryPage, treasurytable |-> TreasuryTable,
   nodespage |-> nodesPage]

ASSUME PagesAssumption ==
  /\ Views \subseteq DOMAIN AllViews
  /\ DefaultPageSize \in Nat \ {0} /\ MaxPageSize \in Nat /\ DefaultPageSize <= MaxPageSize
  /\ AskedSizes \subseteq Nat /\ MaxRows \in Nat

\* The page size: the default without one, and for most views a maximum.
PageSizeOf(v, asked) ==
  IF asked = 0 THEN DefaultPageSize
  ELSE IF AllViews[v].maximum THEN Min({asked, MaxPageSize}) ELSE asked

\* Mutant: the pages are counted rounding down.
Mutant_Pages(n, per) == n \div per

\* totalPages
PagesOf(n, per) == (n + per - 1) \div per

\* The places, from 0, of the pages that an answer links.  An exact multiple of the
\* page size has an empty page at the end.
calcPages(rows, per, current) ==
  LET endIdx == rows \div per
      start  == current - 3
      middle == IF start <= 1 THEN 1..7
                ELSE IF start + 6 >= endIdx - 1 THEN (endIdx - 7)..(endIdx - 1)
                ELSE start..(start + 6)
  IN IF endIdx = 0 THEN {}
     ELSE IF endIdx + 1 > 10 THEN {0, endIdx} \cup middle
     ELSE 0..endIdx

-----------------------------------------------------------------------------
RowIds == DOMAIN key

Listed == RowIds \ unlisted

PagesInit ==
  /\ view \in Views /\ \E asked \in AskedSizes : size = PageSizeOf(view, asked)
  /\ key = <<>> /\ unlisted = {}
  /\ page = 0 /\ todo = <<>> /\ shown = <<>> /\ count = 0 /\ seen = {} /\ at = 0 /\ older = 0
  /\ before = {} /\ slipped = FALSE /\ moved = {}

\* The nodes of a snapshot are counted in default pages, whatever the page size.
PageCount == PagesOf(count, IF AllViews[view].pages = "default size" THEN DefaultPageSize ELSE size)

\* The handler has answered, and its answer offers the next page.
Answered == page > 0 /\ todo = <<>>
Offered ==
  /\ Answered
  /\ CASE AllViews[view].pages = "linked"  -> page \in calcPages(count, size, page - 1)
       [] AllViews[view].pages = "by time" -> older # 0
       [] OTHER                            -> page < PageCount

\* Bound: a behaviour ends with its walk.
WalkOver == Answered /\ ~Offered

TopKey == IF key = <<>> THEN 0 ELSE Max(Range(key))

\* A collector inserts a row: the newest, or of the same time as the newest.
InsertRow(k, listed) ==
  /\ ~WalkOver /\ Len(key) < MaxRows
  /\ k = TopKey + 1 \/ (k = TopKey /\ key # <<>> /\ ~AllViews[view].query.unique)
  /\ listed \/ AllViews[view].query.countsAll
  /\ key' = Append(key, k)
  /\ unlisted' = IF listed THEN unlisted ELSE unlisted \cup {Len(key) + 1}
  /\ slipped' = (slipped \/ todo = <<"rows">>)
  /\ UNCHANGED <<view, size, page, todo, shown, count, seen, at, older, before, moved>>

\* A node is seen again.
SeenAgain(r) ==
  /\ AllViews[view].query.moves /\ r \in RowIds
  /\ ~WalkOver /\ TopKey < MaxRows
  /\ key' = [key EXCEPT ![r] = TopKey + 1]
  /\ moved' = moved \cup {o \in RowIds : key[o] = key[r]}
  /\ UNCHANGED <<view, size, unlisted, page, todo, shown, count, seen, at, older, before, slipped>>

ByTime == AllViews[view].pages = "by time"

\* What the request for a page reads; one by time brings the time it is about.
ReadsOf(p) == IF ByTime /\ p > 1 THEN Tail(AllViews[view].reads) ELSE AllViews[view].reads

\* A request: the first page, or the next one where the answer before offers it.
ReadPage(p) ==
  /\ \/ page = 0 /\ p = 1
     \/ Offered /\ p = page + 1
  /\ page' = p /\ todo' = ReadsOf(p) /\ slipped' = FALSE
  /\ shown' = <<>> /\ count' = 0 /\ at' = older /\ older' = 0
  /\ before' = IF page = 0 THEN Listed ELSE before
  /\ moved' = IF page = 0 THEN {} ELSE moved
  /\ UNCHANGED <<view, size, key, unlisted, seen>>

Turn(query) == todo # <<>> /\ Head(todo) = query

\* The query in turn has its result; after the last one the page is shown.
Result ==
  /\ todo' = Tail(todo)
  /\ seen' = IF todo' = <<>> THEN seen \cup Range(shown') ELSE seen
  /\ UNCHANGED <<view, size, key, unlisted, page, before, slipped, moved>>

Offset == (page - 1) * size

\* The orders in which the database may list rows.
NewestFirst == {s \in SetToSeqs(Listed) : \A i \in 1..Len(s) - 1 : key[s[i]] >= key[s[i + 1]]}

ReadRows ==
  /\ Turn("rows")
  /\ IF ByTime THEN shown' = <<at>>
     ELSE \E list \in NewestFirst :
            shown' = SubSeq(list, Offset + 1, Min({Offset + size, Len(list)}))
  /\ UNCHANGED <<count, at, older>> /\ Result

ReadCount ==
  /\ Turn("count")
  /\ count' = Cardinality(IF AllViews[view].query.countsAll THEN RowIds ELSE Listed)
  /\ UNCHANGED <<shown, at, older>> /\ Result

\* The newest of some rows; 0 if there is none.
NewestRow(R) == IF R = {} THEN 0 ELSE CHOOSE r \in R : \A o \in R : key[o] <= key[r]

\* Without a snapshot there is nothing more to read.
LastSnapshotTime ==
  /\ Turn("last")
  /\ at' = NewestRow(Listed) /\ todo' = IF Listed = {} THEN <<>> ELSE Tail(todo)
  /\ UNCHANGED <<view, size, key, unlisted, page, shown, count, seen, older, before, slipped, moved>>

PreviousSnapshot ==
  /\ Turn("older")
  /\ older' = NewestRow({r \in Listed : key[r] < key[at]})
  /\ UNCHANGED <<shown, count, at>> /\ Result

\* A query fails: the page is an error message, and the same one is asked for again.
QueryFails ==
  /\ todo # <<>> /\ ~Turn("older")
  /\ todo' = ReadsOf(page) /\ shown' = <<>> /\ count' = 0 /\ older' = 0 /\ slipped' = FALSE
  /\ UNCHANGED <<view, size, key, unlisted, page, seen, at, before, moved>>

\* One for the snapshot before fails: there is no link to it.
LinkFails ==
  /\ Turn("older") /\ todo' = Tail(todo) /\ slipped' = TRUE
  /\ UNCHANGED <<view, size, key, unlisted, page, shown, count, seen, at, older, before, moved>>

PagesNext ==
  \/ \E k \in {TopKey, TopKey + 1}, listed \in BOOLEAN : InsertRow(k, listed)
  \/ \E r \in RowIds : SeenAgain(r)
  \/ \E p \in {1, page + 1} : ReadPage(p)
  \/ ReadRows \/ ReadCount \/ LastSnapshotTime \/ PreviousSnapshot
  \/ QueryFails \/ LinkFails

PagesSpec == PagesInit /\ [][PagesNext]_pagesVars

-----------------------------------------------------------------------------
(* Properties *)

\* The type invariant.
PagesTypeOK ==
  /\ view \in Views /\ size \in Nat \ {0}
  /\ key \in Seq(Nat) /\ unlisted \cup seen \cup before \cup moved \subseteq RowIds
  /\ {at, older} \subseteq RowIds \cup {0}
  /\ page \in Nat /\ count \in 0..MaxRows /\ slipped \in BOOLEAN
  /\ Len(shown) <= size /\ Range(shown) \subseteq Listed

\* The pages are of the size the handler counts in.
SizeFits == AllViews[view].pages = "default size" => size = DefaultPageSize

(***************************************************************************)
(* Someone who goes on as long as a next page is offered is shown every    *)
(* row that was there at the beginning, although rows come in all the time *)
(* and push the older ones to later pages.  The exceptions are the code's: *)
(* rows that share their time with another, which two pages may order      *)
(* differently; a row that comes between the count and the rows of the     *)
(* last page; a node that was seen again; the nodes of a snapshot, where   *)
(* the number of pages is that of another page size; and a snapshot whose  *)
(* predecessor could not be read, which offers none.                       *)
(***************************************************************************)
WalkShowsAll ==
  (WalkOver /\ SizeFits) =>
    \A r \in before \ seen :
      \/ \E o \in RowIds \ {r} : key[o] = key[r]
      \/ slipped \/ r \in moved
=============================================================================
