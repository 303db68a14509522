---------------------------- MODULE PortfolioReads ----------------------------
(***************************************************************************)
(* What the dashboard and the position charts read out of the ledger:      *)
(* daily profit and loss, performance, the current portfolio, contributors *)
(* of a day, the list of positions and their executions on candles.  Pure  *)
(* functions of the tables, and what must be true of them together.        *)
(***************************************************************************)
EXTENDS PortfolioLedger, SequencesExt

CONSTANTS
  Windows,    \* the `days' a request may ask for, None for all of them
  ZoneOffset, \* the exchange's local time, ahead of UTC by these times
  ChartDays,  \* the days before today a chart shows
  NewMonth,   \* the local day on which a month begins
  Sessions    \* the times a provider may have candles of

ASSUME ReadsAssumption ==
  /\ Windows \subseteq Nat \cup {None} /\ ZoneOffset \in -2..2 /\ ChartDays \in Nat
  /\ NewMonth \in Int /\ Sessions \subseteq SUBSET Times

----------------------------------------------------------------------------
(* Daily profit and loss (analytics/daily_pnl.py).                         *)

\* PortfolioSnapshotRepository.list_history and BrokerDailyNavRepository's:
\* the one cuts at a time, the other at a date.
SnapshotsWithin(w) == IF w = None THEN snapshots ELSE {s \in snapshots : s.at >= now - 3 * w}
NavDaysWithin(w)   == IF w = None THEN DOMAIN navs
                      ELSE {x \in DOMAIN navs : x[2] >= Day(now) - w}

\* Mutant: the first snapshot of a day stands for it.
LatestPerDay_First(ss) ==
  {s \in ss : \A o \in ss : o.currency = s.currency /\ Day(o.at) = Day(s.at) => o.at >= s.at}

LatestPerDay(ss) ==
  {s \in ss : \A o \in ss : o.currency = s.currency /\ Day(o.at) = Day(s.at) => o.at <= s.at}

\* The members of a set from the first to the last, by an order on them.
InOrder(S, Before(_, _)) ==
  [i \in 1..Cardinality(S) |-> CHOOSE x \in S : Cardinality({y \in S : Before(y, x)}) = i - 1]

Earlier(s, o) == s.at < o.at \/ (s.at = o.at /\ s.currency < o.currency)

InTimeOrder(ss) == InOrder(ss, Earlier)

\* build_indicative_daily_pnl: the days of the newest snapshot's currency, each
\* compared with the one before it.
Indicative(ss) ==
  LET currency == NewestOf(ss).currency
      days     == InTimeOrder(LatestPerDay({s \in ss : s.currency = currency})) IN
  [currency |-> currency,
   points |-> [i \in DOMAIN days |->
     [day |-> Day(days[i].at), at |-> days[i].at, nav |-> days[i].nav,
      against |-> IF i = 1 THEN None ELSE Day(days[i - 1].at),
      amount  |-> IF i = 1 THEN None ELSE days[i].nav - days[i - 1].nav]]]

\* build_broker_daily_pnl: in the currency of the first account that has the
\* newest day.
BrokerCurrency(xs) ==
  LET newest == {x \in xs : x[2] = Max({y[2] : y \in xs})} IN
  navs[<<Min({x[1] : x \in newest}), Max({y[2] : y \in xs})>>].currency

BrokerDays(xs) ==
  LET own == {x \in xs : navs[x].currency = BrokerCurrency(xs)} IN
  [d \in {x[2] : x \in own} |->
     LET day == {x \in own : x[2] = d} IN
     [nav    |-> SumFunction([x \in day |-> navs[x].ending]),
      amount |-> SumFunction([x \in day |-> navs[x].mtm])]]

\* GET /analysis/daily-pnl: the broker's days where there are any, and above
\* them the newest snapshot.
DailyPnl(w) ==
  LET ss == SnapshotsWithin(w)
      xs == NavDaysWithin(w) IN
  IF xs = {} /\ ss = {} THEN None
  ELSE IF xs = {} THEN [currency |-> Indicative(ss).currency,
                        nav      |-> Last(Indicative(ss).points).nav,
                        unit     |-> Indicative(ss).currency]
  ELSE LET days == BrokerDays(xs)
           end  == Max(DOMAIN days)
           late == ss # {} /\ NewestOf(ss).at > Midnight(end) IN
       [currency |-> IF late THEN NewestOf(ss).currency ELSE BrokerCurrency(xs),
        nav      |-> IF late THEN NewestOf(ss).nav ELSE days[end].nav,
        unit     |-> BrokerCurrency(xs)]

\* GET /analysis/broker-daily-pnl: the securities of the newest day.
Contributors(d) == SumFunction([x \in {y \in DOMAIN pnl : y[2] = d} |-> pnl[x]])

----------------------------------------------------------------------------
(* Performance (analytics/performance.py), and the current portfolio.      *)

\* The largest fall from a peak so far, as [fall, peak]; 0 of 1 before one.
Worse(a, b) == IF b.fall * a.peak > a.fall * b.peak THEN b ELSE a

Fallen(a, v) ==
  LET top == Max({a.top, v}) IN
  [top |-> top,
   worst |-> IF top = 0 THEN a.worst ELSE Worse(a.worst, [fall |-> top - v, peak |-> top])]

Drawdown(values) ==
  LET upTo[i \in 0..Len(values)] ==
        IF i = 0 THEN [top |-> values[1], worst |-> [fall |-> 0, peak |-> 1]]
        ELSE Fallen(upTo[i - 1], values[i]) IN
  upTo[Len(values)].worst

Performance(w) ==
  LET days == InTimeOrder(LatestPerDay(SnapshotsWithin(w))) IN
  [i \in DOMAIN days |-> days[i].nav]

\* GET /analysis/current: the positions at the newest persisted rates.
CurrentNav ==
  PortfolioSnapshot("current", base, Newest(Pairs(DOMAIN positions, base), rates)).nav

----------------------------------------------------------------------------
(* Position charts (analytics/position_chart.py).                          *)

ExecutionsOf(key) == TradesOf(key, {transactions[i] : i \in DOMAIN transactions})

\* list_positions: what is open, then what has executions and is not.
ClosedKeys == {KeyOf(transactions[i].fill) : i \in DOMAIN transactions} \ DOMAIN positions

LatestExecution(key) == Max({0} \cup {e.at : e \in ExecutionsOf(key)})

ListedBefore(k, l) ==
  \/ LatestExecution(k) > LatestExecution(l)
  \/ /\ LatestExecution(k) = LatestExecution(l)
     /\ k[2] < l[2] \/ (k[2] = l[2] /\ k[1] < l[1])

Charted == InOrder(DOMAIN positions, ListedBefore) \o InOrder(ClosedKeys, ListedBefore)

LocalDay(t) == (t + ZoneOffset) \div 3

\* A chart of one day shows the last session of a week; the others show the
\* days before today.
Ranges == {"1d", "longer"}
DaysBack(range) == IF range = "1d" THEN 7 ELSE ChartDays

\* A series is the interval of its candles and the times they start at.
Intervals == {"5m", "15m", "1d", "1wk", "1mo"}
NoSeries  == [interval |-> None, starts |-> {}]

\* _fetch_with_fallback: the first interval the provider has.
Interval(wanted, available) ==
  LET attempts == IF wanted = "5m" THEN <<"5m", "15m", "1d">> ELSE <<wanted>>
      found == {i \in DOMAIN attempts : attempts[i] \in available} IN
  IF found = {} THEN None ELSE attempts[Min(found)]

Shown == {Interval(wanted, available) : wanted \in Intervals, available \in SUBSET Intervals}

\* What a provider answers for a window: candles of some of its local days.
Within(range, starts) ==
  {u \in starts : u <= now /\ LocalDay(u) \in (Day(now) - DaysBack(range))..Day(now)}

Series(range) ==
  {NoSeries} \cup [interval : Shown \ {None},
                   starts : {Within(range, starts) : starts \in Sessions} \ {{}}]

\* _latest_session: a chart of one day keeps the candles of the last of them.
LastSession(series) == LocalDay(Max(series.starts))

Trimmed(range, series) ==
  IF range = "1d" /\ series # NoSeries
  THEN [series EXCEPT !.starts = {u \in @ : LocalDay(u) = LastSession(series)}]
  ELSE series

\* The window with a day to spare on either side ...
Spared(executions, range) ==
  {e \in executions : Day(e.at) \in (Day(now) - DaysBack(range) - 1)..(Day(now) + 1)}

\* Mutant: executions are cut at the UTC days of the window first.
Relevant_UtcDays(spared, range, series) ==
  {e \in spared :
     /\ Day(now) - DaysBack(range) <= Day(e.at)
     /\ series # NoSeries =>
          IF range = "1d" THEN LocalDay(e.at) = LastSession(series)
          ELSE LocalDay(e.at) \in (Day(now) - ChartDays)..Day(now)}

\* ... and, where there are candles, of it the exchange's days: those of the
\* window, or the last session.
Relevant(spared, range, series) ==
  {e \in spared :
     series # NoSeries =>
       IF range = "1d" THEN LocalDay(e.at) = LastSession(series)
       ELSE LocalDay(e.at) \in (Day(now) - ChartDays)..Day(now)}

\* The times of a candle: those of a local day, week or month, or a single one
\* where intraday data is to be had.  Its range is that of their prices.
InCandle(interval, start, u) ==
  CASE interval = "1d"  -> LocalDay(u) = LocalDay(start)
    [] interval = "1wk" -> LocalDay(u) - LocalDay(start) \in 0..6
    [] interval = "1mo" -> (LocalDay(u) < NewMonth) = (LocalDay(start) < NewMonth)
    [] OTHER            -> u = start

CandleTimes(interval, start) == {u \in Times : u <= now /\ InCandle(interval, start, u)}

\* _matching_candle: the candles of an execution's time; the first counts.
Matching(e, series) == {u \in series.starts : e.at \in CandleTimes(series.interval, u)}

\* _reconcile_execution: an execution's price against the candle of its time.
\* A price near the range is a `warning' too.
Status(e, series) ==
  IF Matching(e, series) = {} THEN "unavailable"
  ELSE LET range == {Price[u] : u \in CandleTimes(series.interval, Min(Matching(e, series)))} IN
       IF Min(range) <= Price[e.at] /\ Price[e.at] <= Max(range) THEN "matched" ELSE "warning"

----------------------------------------------------------------------------
(* Properties.                                                             *)

\* Types, of what the jobs compute above all: no signal asks to buy.
TypeOK ==
  /\ now \in Times
  /\ kind \in {"idle", "activity", "history", "portal"} /\ polls \in 0..(Retries - 1)
  /\ DOMAIN positions \subseteq Keys
  /\ \A key \in DOMAIN positions : /\ positions[key].quantity \in Int \ {0}
                                   /\ positions[key].cost \in Int
  /\ \A i \in DOMAIN transactions : transactions[i] \in ExecutedBy(now)
  /\ \A s \in snapshots : s.nav \in Int /\ s.valued \in 0..s.count
  /\ \A r \in rates : r.pair \in Currencies \X Currencies /\ r.at \in Times
  /\ base \in Currencies
  /\ review # None => \A g \in review.signals : g.reduce \in Nat

\* An import during which nothing traded leaves exactly the holdings of the
\* broker, of every account and whichever connector read them, page by page or
\* from a report that took several polls.
PositionsAreTheBrokers ==
  (/\ last.kind \in {"activity", "portal"}
   /\ \A e \in ExecutedBy(last.to) : e.at <= last.from)
     => [key \in DOMAIN positions |-> positions[key].quantity]
          = [key \in Holdings(last.to) |-> Held(key, last.to)]

\* After an activity import every quantity is explained: it is what the
\* imported executions add up to, with the earlier trades no report listed.
\* Positions and executions come from one report, and no execution takes the
\* row of another.  And a cost rebuilt from the trades of a report that goes
\* back a few days is that of all of the position's trades, earlier ones too.
LedgerExplainsPositions ==
  last.kind = "activity" =>
    \E r \in last.from..last.to : \A key \in Keys :
      /\ (IF key \in DOMAIN positions THEN positions[key].quantity ELSE 0)
           = QuantityOf(ExecutionsOf(key)) + QuantityOf(TradesOf(key, ExecutedBy(r) \ reported))
      /\ key \in DOMAIN positions /\ positions[key].status = "reconstructed" =>
           positions[key].cost = CostOf(TradesOf(key, ExecutedBy(r)))

\* The views a history import leaves agree: the snapshot of a day and the
\* broker's daily profit and loss give the portfolio the same value, and the
\* securities of the newest day add up to what the accounts earned on it.
HistoryViewsAgree ==
  DOMAIN navs # {} =>
    LET days   == BrokerDays(DOMAIN navs)
        newest == Max({x[2] : x \in DOMAIN navs}) IN
    /\ \A s \in snapshots : \A d \in DOMAIN days :
         s.id = <<"history", BrokerCurrency(DOMAIN navs), d>> => s.nav = days[d].nav
    /\ Contributors(newest)
         = SumFunction([x \in {y \in DOMAIN navs : y[2] = newest} |-> navs[x].mtm])

\* The review a refresh has just committed, the dashboard and the current
\* portfolio are computed by different code and say the same: the daily change
\* Notion shows and the dashboard's compare with the same day.  And unless the
\* refresh was answered a rate older than one on file, valued anew from the
\* database the portfolio is worth what the review said
\* (refresh_and_sync.py:282-302, repositories.py:859-881).
ReadsAgreeWithReview ==
  [][refreshes' # refreshes =>
       (LET point == Last(Indicative(snapshots).points) IN
        /\ point.at = review.snapshot.at
        /\ IF review.previous = None THEN point.against = None
           ELSE /\ point.against = Day(review.previous.at)
                /\ point.amount = review.snapshot.nav - review.previous.nav
        /\ (\A r \in rates : r.pair \in DOMAIN review.rates => r.at <= review.rates[r.pair])
             => CurrentNav = review.snapshot.nav)']_vars

\* A shorter history ends with the same days as the whole one: cutting it at a
\* time, in the middle of a day, changes no day that is still shown.  Its
\* maximum drawdown is the worst fall from any of its days to any later one.
ShorterHistory(all, shown) ==
  LET cut == Len(all) - Len(shown) IN
  /\ cut >= 0
  /\ \A i \in DOMAIN shown :
       /\ shown[i].nav = all[cut + i].nav
       /\ i > 1 => shown[i] = all[cut + i]

WorstFall(values, worst) ==
  /\ \E i, j \in DOMAIN values :
       \/ worst.fall = 0
       \/ i < j /\ worst = [fall |-> values[i] - values[j], peak |-> values[i]]
  /\ \A i, j \in DOMAIN values :
       i < j => (values[i] - values[j]) * worst.peak <= worst.fall * values[i]

PerformanceIsOfItsDays ==
  \A w \in Windows :
    SnapshotsWithin(w) # {} =>
      LET values == Performance(w) IN
      /\ ShorterHistory(Indicative(snapshots).points, Indicative(SnapshotsWithin(w)).points)
      /\ (\A i \in DOMAIN values : values[i] >= 0) => WorstFall(values, Drawdown(values))

\* A recommended reduction never sells more than is held, and leaves the
\* position at most one share above its limit.
ReductionRestoresTheLimit ==
  review # None =>
    \A g \in review.signals :
      g.reduce > 0 =>
        /\ g.reduce <= g.held
        /\ 100 * (g.held - g.reduce - 1) * g.unit < MaxPercent * g.nav

\* Everything open and everything ever executed has one chart.  With candles it
\* shows exactly the executions of its days by the exchange's calendar, or of
\* the last session the provider has, and without them no fewer.  An execution
\* is unavailable only where the provider has no candle of its time, though the
\* chart of one day keeps the candles of its session only; and one at the
\* market's price matches whichever candle it meets
\* (position_chart.py:420-466, 652-763).
DaysShown(range, series) ==
  IF range = "1d" /\ series # NoSeries THEN {LastSession(series)}
  ELSE (Day(now) - DaysBack(range))..Day(now)

ChartsShowTheLedger ==
  /\ IsInjective(Charted)
  /\ ToSet(Charted) = DOMAIN positions \cup {KeyOf(transactions[i].fill) : i \in DOMAIN transactions}
  /\ \A key \in ToSet(Charted), range \in Ranges :
       LET executions == ExecutionsOf(key)
           spared     == Spared(executions, range) IN
       \A series \in Series(range) :
         LET shown == Relevant(spared, range, series)
             due   == {e \in executions : LocalDay(e.at) \in DaysShown(range, series)} IN
         /\ due \subseteq shown
         /\ series # NoSeries => shown = due
         /\ \A e \in shown :
              Status(e, Trimmed(range, series))
                = IF Matching(e, series) = {} THEN "unavailable" ELSE "matched"

\* What a running job still has to do: pages, questions, polls, its commit.
RowsLeft(a)  == Max({Cardinality(HoldingsOf(a, now)) - (IF a = account THEN page ELSE 0), 0})
Left ==
  IF kind = "idle" THEN 0
  ELSE IF kind = "portal"
    THEN 1 + SumFunction([a \in {b \in Accounts : b >= account} |-> 1 + RowsLeft(a)])
    ELSE 1 + Len(Questions(kind)) - Len(answers) + (IF root = 0 THEN Retries - polls ELSE 0)

\* Every step of a job brings it closer to its end, whatever the market does
\* between the steps: polls are bounded, pages run out, and nothing asks again
\* for what it was told.
StepsMakeProgress == [][kind # "idle" /\ now' = now => Left' < Left]_vars

\* The daily answer is in one currency: that of its header is that of its days.
AnswerInOneCurrency ==
  \A w \in Windows : DailyPnl(w) # None => DailyPnl(w).currency = DailyPnl(w).unit
===============================================================================
