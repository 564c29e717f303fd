---------------------------- MODULE ExchangeTicks ----------------------------
(***************************************************************************)
(* The candlesticks of src/exchanges/ticks and the table exchange_tick.    *)
(* A collector keeps, for one currency pair and one interval, the time of  *)
(* the last tick stored; Get asks the exchange for what is newer and       *)
(* stores the reply tick by tick.  When the process starts, the last time  *)
(* is read back from the table: per exchange, not per pair.                *)
(*                                                                         *)
(* The exchanges do not meet, nor do the intervals: a behaviour follows    *)
(* one exchange and one interval.  A tick is its time; prices are left     *)
(* out.  The exchange itself is external.                                  *)
(***************************************************************************)
EXTENDS Sorted, Sequences, SequencesExt, FiniteSetsExt

CONSTANTS
  Exchanges,   \* the exchanges to follow
  Interval,    \* length of a candlestick
  LookBack,    \* how far the first request goes back (14 or 30 days)
  Window,      \* what bittrex keeps of the past, and what binance sends at once
  MaxNow,      \* bound: time
  MaxFaults    \* bound: failed inserts and restarts

ASSUME TicksAssumption ==
  /\ Exchanges \subseteq {"bittrex", "poloniex", "binance"}
  /\ Interval \in Nat \ {0} /\ {LookBack, Window, MaxNow, MaxFaults} \subseteq Nat

VARIABLES
  exchange,     \* the exchange followed
  time,         \* now
  market,       \* pair -> the candlesticks the exchange has, by their start
  tickRows,     \* table exchange_tick: pair -> times
  lastTick,     \* pair -> the last time its collector keeps
  getting,      \* the pair whose Get runs
  reply,        \* the ticks of its reply that are not stored yet
  single,       \* the reply was one tick
  faults,
  passedOver    \* history: <<pair, time>> that was not asked for, or asked for too late

ticksVars == <<exchange, time, market, tickRows, lastTick, getting, reply, single, faults,
               passedOver>>

NoPair == "none"

\* Two collectors work for bittrex.
Pairs == IF exchange = "bittrex" THEN {"BTC/DCR", "USD/BTC"} ELSE {"BTC/DCR"}

\* Only binance and poloniex have to be asked again.
ApiLimited == exchange # "bittrex"

\* newCollector, for an exchange that has no ticks yet.
Start(t) == Max({0, t - LookBack})

TicksInit ==
  /\ exchange \in Exchanges /\ time = 0
  /\ market = [p \in Pairs |-> {}] /\ tickRows = [p \in Pairs |-> {}]
  /\ lastTick = [p \in Pairs |-> Start(time)]
  /\ getting = NoPair /\ reply = <<>> /\ single = FALSE
  /\ faults = 0 /\ passedOver = {}

\* A candlestick that has just begun is there to be asked for; one without a trade never is.
TimePasses(traded) ==
  /\ time < MaxNow /\ time' = time + 1
  /\ time' % Interval = 0 \/ traded = {}
  /\ market' = [p \in Pairs |-> IF p \in traded THEN market[p] \cup {time'} ELSE market[p]]
  /\ UNCHANGED <<exchange, tickRows, lastTick, getting, reply, single, faults, passedOver>>

-----------------------------------------------------------------------------
(* Get *)

\* The loop's condition, and that of the call.
Due(p, last) == time - Interval > last

\* What the exchange sends: bittrex the recent past, binance so much from the time
\* asked for, poloniex everything since.
Sent(p) ==
  LET from == IF exchange = "bittrex" THEN time - Window ELSE lastTick[p]
      to   == IF exchange = "binance" THEN lastTick[p] + Window ELSE time
  IN {t \in market[p] : t >= from /\ t <= to}

\* Mutant: the newest tick is the first.
Mutant_toTicks(sent, start) == Reverse(Ascending({t \in sent : t >= start}))

\* What is older than start is dropped; the exchanges send the oldest first.
toTicks(sent, start) == Ascending({t \in sent : t >= start})

\* A request that fails, or brings no tick, ends Get with an error.
Request(p) ==
  /\ getting \in {NoPair, p} /\ reply = <<>> /\ Due(p, lastTick[p])
  /\ getting' = p
  /\ reply' = toTicks(Sent(p), lastTick[p])
  /\ reply' # <<>> /\ single' = (Len(reply') = 1)
  /\ passedOver' = passedOver \cup
       {<<p, t>> : t \in {t \in market[p] : lastTick[p] <= t /\ t < Min(Sent(p))}}
  /\ UNCHANGED <<exchange, time, market, tickRows, lastTick, faults>>

RequestFails ==
  /\ getting # NoPair /\ reply = <<>>
  /\ getting' = NoPair
  /\ UNCHANGED <<exchange, time, market, tickRows, lastTick, reply, single, faults,
                 passedOver>>

-----------------------------------------------------------------------------
(* StoreExchangeTicks *)

\* One tick is inserted; the unique index drops it when it is there.  After the
\* last one, Get moves its time on, and asks again if the reply may not have been all.
StoreTick ==
  /\ reply # <<>>
  /\ tickRows' = [tickRows EXCEPT ![getting] = @ \cup {Head(reply)}]
  /\ reply' = Tail(reply)
  /\ IF Len(reply) > 1 THEN UNCHANGED <<lastTick, getting>>
     ELSE /\ lastTick' = [lastTick EXCEPT ![getting] = Head(reply)]
          /\ getting' = IF ApiLimited /\ ~single /\ Due(getting, Head(reply)) THEN getting
                        ELSE NoPair
  /\ UNCHANGED <<exchange, time, market, single, faults, passedOver>>

\* Another error of the database: the rest is not stored, and Get's time stays.
InsertFails ==
  /\ reply # <<>> /\ faults < MaxFaults /\ faults' = faults + 1
  /\ getting' = NoPair /\ reply' = <<>>
  /\ UNCHANGED <<exchange, time, market, tickRows, lastTick, single, passedOver>>

-----------------------------------------------------------------------------
\* The newest tick of the exchange, whatever its pair.
RegisterExchange ==
  LET T == UNION {tickRows[p] : p \in Pairs}
  IN IF T = {} THEN Start(time) ELSE Max(T)

\* The process ends, also inside Get, and starts again.  The collectors of an
\* exchange begin at one time; what a pair had left before that is passed over.
RestartTicks ==
  /\ faults < MaxFaults /\ faults' = faults + 1
  /\ lastTick' = [p \in Pairs |-> RegisterExchange]
  /\ getting' = NoPair /\ reply' = <<>>
  /\ passedOver' = passedOver \cup
       {pt \in Pairs \X (0..MaxNow) :
          /\ pt[2] < RegisterExchange
          /\ tickRows[pt[1]] # {} /\ pt[2] > Max(tickRows[pt[1]])}
  /\ UNCHANGED <<exchange, time, market, tickRows, single>>

TicksNext ==
  \/ \E traded \in SUBSET Pairs : TimePasses(traded)
  \/ \E p \in Pairs : Request(p)
  \/ RequestFails \/ StoreTick \/ InsertFails \/ RestartTicks

TicksSpec == TicksInit /\ [][TicksNext]_ticksVars

-----------------------------------------------------------------------------
(* Properties *)

\* The type invariant.
TicksTypeOK ==
  /\ {time, faults} \subseteq Nat
  /\ DOMAIN market = Pairs /\ DOMAIN tickRows = Pairs
  /\ \A p \in Pairs : tickRows[p] \subseteq market[p] /\ market[p] \subseteq 0..time
  /\ lastTick \in [Pairs -> Nat] /\ getting \in Pairs \cup {NoPair}
  /\ reply # <<>> => getting # NoPair /\ ToSet(reply) \subseteq market[getting]
  /\ single \in BOOLEAN

(***************************************************************************)
(* Between the ticks stored for a pair none is missing that the exchange   *)
(* has, although they are stored one by one, an insert may fail and the    *)
(* process may be killed half-way.  The exceptions are the code's: a pair  *)
(* that was behind another one of its exchange when the process started,   *)
(* and a collector that was down longer than bittrex looks back.           *)
(***************************************************************************)
TicksHaveNoGap ==
  \A p \in Pairs : \A t \in market[p] :
    (\E a, b \in tickRows[p] : a < t /\ t < b) => t \in tickRows[p] \/ <<p, t>> \in passedOver

=============================================================================
