---------------------------- MODULE PortfolioLedger ----------------------------
(***************************************************************************)
(* What the imports and the refresh leave in the database: positions and   *)
(* their cost, executions, daily values and profits of the broker,         *)
(* portfolio snapshots and FX rates, and the review of the last refresh.   *)
(*                                                                         *)
(* Every job commits once and jobs do not overlap here (PortfolioJobs);    *)
(* what the market does while a connector waits, they do not see.          *)
(***************************************************************************)
EXTENDS BrokerConnectors

CONSTANTS
  Currencies,   \* numbers, in their order
  Fx,           \* the rate between the two currencies, by time
  RateAges,     \* how old a rate may be when the provider answers it
  StopPrice,    \* the stop prices configured, by instrument
  MaxPercent,   \* the share of NAV a position should not exceed
  Queries,      \* the sets of accounts a history query is configured for
  Base,         \* the reporting currency at first
  None,
  MaxRefreshes, \* bound: refreshes
  MaxSettings   \* bound: changes of the reporting currency

ASSUME LedgerAssumption ==
  /\ Currencies \subseteq Nat
  /\ AccountCurrency \in [Accounts -> Currencies]
  /\ InstrumentCurrency \in [Instruments -> Currencies]
  /\ Fx \in [Times -> Nat \ {0}] /\ RateAges \subseteq Nat
  /\ MaxPercent \in 1..100 /\ Base \in Currencies
  /\ Queries \subseteq SUBSET Accounts

\* No snapshot is mistaken for none.
SnapshotRows ==
  [id : ({"review"} \X Nat) \cup ({"history"} \X Currencies \X (0..LastDay)), at : Nat,
   currency : Currencies, nav : Int, count : Nat, valued : Nat]

ASSUME NoneAssumption == None \notin SnapshotRows

VARIABLES
  positions,    \* the open rows: [quantity, cost, status]
  transactions, \* the executions, by transaction id
  navs, pnl,    \* the broker's days: by account and day, by key and day
  snapshots,    \* [id, at, currency, nav, count, valued]
  rates,        \* [pair, at]
  base,         \* portfolio.base_currency
  review,       \* the last DailyReviewResult
  last,         \* history: the last import: which, and when it read
  reported,     \* history: the trades of every report imported
  refreshes, settings

tables   == <<positions, transactions, navs, pnl, snapshots, rates>>
history  == <<last, reported>>
vars     == <<market, connectors, tables, base, review, history, refreshes, settings>>

Empty  == [x \in {} |-> None]
Upserted(f, g) == [x \in DOMAIN f \cup DOMAIN g |-> IF x \in DOMAIN g THEN g[x] ELSE f[x]]
Replaced(ss, new) == {s \in ss : \A n \in new : s.id # n.id} \cup new

LedgerInit ==
  /\ positions = Empty /\ transactions = Empty /\ navs = Empty /\ pnl = Empty
  /\ snapshots = {} /\ rates = {}
  /\ base = Base
  /\ review = None
  /\ last = [kind |-> "none", from |-> 0, to |-> 0]
  /\ reported = {}
  /\ refreshes = 0 /\ settings = 0

----------------------------------------------------------------------------
(* Imports.                                                                *)

Trades(r) == {e \in ExecutedBy(r) : Day(e.at) >= Day(r) - Period}

\* The cost the report states, or that of its trades when they make up the
\* quantity held, or none.
Lot(key, r, stated) ==
  LET quantity == Held(key, r)
      window   == TradesOf(key, Trades(r))
      book     == CostOf(TradesOf(key, ExecutedBy(r)))
      status   == IF stated /\ book # 0 THEN "broker"
                  ELSE IF QuantityOf(window) = quantity /\ CostOf(window) # 0
                    THEN "reconstructed" ELSE "unavailable" IN
  [quantity |-> quantity,
   cost   |-> IF status = "broker" THEN book
              ELSE IF status = "reconstructed" THEN CostOf(window) ELSE 0,
   status |-> status]

\* Mutant: the broker's id alone identifies an execution.
TransactionId_OfBroker(f) == <<f.id>>

TransactionId(f) == <<f.account, f.id>>

\* The positions of every account the report lists are its own: others close.
CommitActivity ==
  /\ kind = "activity" /\ Fetched
  /\ \E stated \in BOOLEAN :
       positions' = [key \in Holdings(answers[1]) |-> Lot(key, answers[1], stated)]
  /\ transactions' = Upserted(transactions,
       [i \in {TransactionId(e.fill) : e \in Trades(answers[2])} |->
          CHOOSE e \in Trades(answers[2]) : TransactionId(e.fill) = i])
  /\ reported' = reported \cup Trades(answers[2])
  /\ last' = [kind |-> "activity", from |-> since, to |-> now]
  /\ EndJob
  /\ UNCHANGED <<market, navs, pnl, snapshots, rates, base, review, refreshes, settings>>

\* The Portal connector reads quantities; Position's default cost status
\* stands although a row has an average cost.  It lists no executions.
CommitPortal ==
  /\ kind = "portal" /\ Fetched
  /\ positions' = [key \in DOMAIN rows |->
                     [quantity |-> rows[key], cost |-> 0, status |-> "unavailable"]]
  /\ last' = [kind |-> "portal", from |-> since, to |-> now]
  /\ EndJob
  /\ UNCHANGED <<market, transactions, navs, pnl, snapshots, rates, base, review,
                 reported, refreshes, settings>>

\* The statements of a daily history query: one per account and closed day.
StatementDays(r) == {d \in 0..LastDay : Day(r) - Period <= d /\ d < Day(r)}

DailyNav(a, d) ==
  [currency |-> AccountCurrency[a],
   starting |-> IF d = 0 THEN 0 ELSE ValueAt(a, Close(d - 1)),
   ending   |-> ValueAt(a, Close(d)),
   mtm      |-> SumFunction([i \in Instruments |-> EarnedOn(<<a, i>>, d)])]

\* Mutant: the accounts of a day are one portfolio, whatever their currency.
DaySnapshot_AnyCurrency(as, c, d) ==
  [id |-> <<"history", c, d>>, at |-> Midnight(d), currency |-> c,
   nav |-> SumFunction([a \in as |-> ValueAt(a, Close(d))]),
   count |-> Cardinality(UNION {HoldingsOf(a, Close(d)) : a \in as}),
   valued |-> Cardinality(UNION {HoldingsOf(a, Close(d)) : a \in as})]

DaySnapshot(as, c, d) ==
  LET own  == {a \in as : AccountCurrency[a] = c}
      held == UNION {HoldingsOf(a, Close(d)) : a \in own} IN
  [id |-> <<"history", c, d>>, at |-> Midnight(d), currency |-> c,
   nav |-> SumFunction([a \in own |-> ValueAt(a, Close(d))]),
   count |-> Cardinality(held), valued |-> Cardinality(held)]

\* A report without a closed day is an error: nothing is written (RequestRaises).
CommitHistory ==
  /\ kind = "history" /\ Fetched
  /\ LET days == StatementDays(answers[1]) IN
     /\ days # {}
     /\ \E as \in Queries :
          /\ navs' = Upserted(navs, [x \in as \X days |-> DailyNav(x[1], x[2])])
          /\ pnl'  = Upserted(pnl, [x \in (as \X Instruments) \X days |->
                                      EarnedOn(x[1], x[2])])
          /\ snapshots' = Replaced(snapshots,
               {DaySnapshot(as, AccountCurrency[x[1]], x[2]) : x \in as \X days})
  /\ last' = [kind |-> "history", from |-> since, to |-> now]
  /\ EndJob
  /\ UNCHANGED <<market, positions, transactions, rates, base, review, reported,
                 refreshes, settings>>

----------------------------------------------------------------------------
(* The refresh: rates, valuation, the snapshot, the signals.               *)

LocalCurrency(key) == InstrumentCurrency[key[2]]
Pairs(ps, c) == {<<LocalCurrency(key), c>> : key \in ps} \ {<<c, c>>}

PointsOf(pair, rs) == {r.at : r \in {q \in rs : q.pair = pair}}

\* The newest persisted rate of every pair that has one (latest).
Newest(pairs, rs) ==
  [pair \in {p \in pairs : PointsOf(p, rs) # {}} |-> Max(PointsOf(pair, rs))]

Valued(ps, c, used) ==
  {key \in ps : LocalCurrency(key) = c \/ <<LocalCurrency(key), c>> \in DOMAIN used}

UnitPrice(key, c, used) ==
  IF LocalCurrency(key) = c THEN Price[now] ELSE Price[now] * Fx[used[<<LocalCurrency(key), c>>]]

Worth(key, c, used) == positions[key].quantity * UnitPrice(key, c, used)

PortfolioSnapshot(id, c, used) ==
  LET valued == Valued(DOMAIN positions, c, used) IN
  [id |-> id, at |-> now, currency |-> c,
   nav |-> SumFunction([key \in valued |-> Worth(key, c, used)]),
   count |-> Cardinality(DOMAIN positions), valued |-> Cardinality(valued)]

\* Mutant: a portfolio worth nothing has a limit as well.
Reduction_AnyNav(value, unit, nav) ==
  Max({100 * value - MaxPercent * nav, 0}) \div (100 * unit)

\* recommend_reduction: whole shares, rounded down.
Reduction(value, unit, nav) ==
  IF nav <= 0 THEN 0 ELSE Max({100 * value - MaxPercent * nav, 0}) \div (100 * unit)

\* evaluate_stop_rules: a position whose currency has no rate is reported
\* without a reduction.
Signals(c, used, nav) ==
  {[key |-> key, held |-> positions[key].quantity, nav |-> nav,
    unit |-> IF key \in Valued({key}, c, used) THEN UnitPrice(key, c, used) ELSE 0,
    reduce |-> IF key \in Valued({key}, c, used)
                 THEN Reduction(Worth(key, c, used), UnitPrice(key, c, used), nav) ELSE 0]
   : key \in {k \in DOMAIN positions : k[2] \in DOMAIN StopPrice
                                       /\ Price[now] <= StopPrice[k[2]]}}

NewestOf(ss) == CHOOSE s \in {o \in ss : \A p \in ss : p.at <= o.at} : TRUE

\* _previous_daily_snapshot
Previous(ss, s) ==
  LET prior == {o \in ss : o.currency = s.currency /\ Day(o.at) < Day(s.at)} IN
  IF prior = {} THEN None ELSE NewestOf(prior)

\* A provider answers for some of the pairs, with a time of its own.
FetchedRates(c) ==
  UNION {[pairs -> {t \in Times : now - t \in RateAges}]
           : pairs \in SUBSET Pairs(DOMAIN positions, c)}

Persisted(fetched) == rates \cup {[pair |-> p, at |-> fetched[p]] : p \in DOMAIN fetched}

\* Mutant: only a rate that was fetched values a position.
Resolved_Fetched(c, fetched) == fetched

\* What was fetched, whatever its time, and else the newest persisted rate.
Resolved(c, fetched) == Upserted(Newest(Pairs(DOMAIN positions, c), rates), fetched)

\* The reporting currency is a page of Notion, read when a refresh begins.
Refresh(c) ==
  /\ kind = "idle" /\ refreshes < MaxRefreshes
  /\ \A s \in snapshots : s.at # now
  /\ c # base => settings < MaxSettings
  /\ base' = c
  /\ settings' = IF c = base THEN settings ELSE settings + 1
  /\ refreshes' = refreshes + 1
  /\ \E fetched \in FetchedRates(c) :
       LET used == Resolved(c, fetched)
           s    == PortfolioSnapshot(<<"review", refreshes>>, c, used) IN
       /\ rates' = Persisted(fetched)
       /\ snapshots' = Replaced(snapshots, {s})
       /\ review' = [snapshot |-> s, previous |-> Previous(snapshots', s), rates |-> used,
                     signals |-> Signals(c, used, s.nav)]
  /\ UNCHANGED <<market, connectors, positions, transactions, navs, pnl, history>>

Quiet == UNCHANGED <<tables, base, review, history, refreshes, settings>>

Step ==
  \/ (ConnectorStep /\ UNCHANGED market /\ Quiet)
  \/ CommitActivity \/ CommitPortal \/ CommitHistory

Init == MarketInit /\ ConnectorInit /\ LedgerInit

Next ==
  \/ (Advance /\ UNCHANGED connectors /\ Quiet)
  \/ (UNCHANGED market /\ Quiet
      /\ (RequestRaises \/ \E k \in {"activity", "history", "portal"} : BeginJob(k)))
  \/ Step
  \/ \E c \in Currencies : Refresh(c)

Spec == Init /\ [][Next]_vars
===============================================================================
