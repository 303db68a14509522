# PA Investing, specified and checked

PA Investing is a FastAPI service over PostgreSQL and a Notion workspace. It
imports positions from Interactive Brokers, refreshes quotes, keeps a daily
review and presents all of it in Notion and in analysis pages. These modules
specify the parts of it whose correctness depends on the order in which things
happen (jobs that overlap in one database, transactions that fail half-way,
processes that die, requests that race) and the parts where several pieces of
code compute what must agree (identities, ledgers, snapshots, charts, findings).

Paths below are relative to `backend/src/pa_investing/` unless they start with
`backend/` or `docs/`.

## 1. The system

| Component | State it keeps | Operations | Hard because |
|---|---|---|---|
| Position and price store (`db/repositories.py`, `db/models.py`, `db/session.py`) | `positions`, `prices`; per session: staged changes, row locks | `upsert`, `upsert_broker_position`, `set_manual_average_cost`, `list_open_positions`, `close_positions_missing_from_snapshot`, `PriceRepository.upsert` | READ COMMITTED, no version column, column-wise UPDATEs, row locks |
| Provider runs (`ProviderRunRepository`) | `provider_runs` | start (committed), finish | a crash leaves RUNNING; the start commits whatever the session holds |
| Broker import (`workflows/broker_import.py`) | one session | fetch, upsert each lot, close missing, commit, record failure | rows that are skipped, several accounts, errors anywhere |
| Refresh and sync (`workflows/refresh_and_sync.py`, `workflows/daily_review.py`, `market_data/selection.py`) | `Position` objects read before remote calls | apply Notion inputs, fetch quotes, write back, persist review, commit, sync pages | stale objects, two transactions, an external system after the commit |
| Refresh buttons (`workflows/full_refresh.py`, `api/routes.py`) | cooldown row and labels in `app_settings` | full, positions, history | check-then-set, stages that fail, overlapping requests |
| Notion client (`notion/live.py`, `notion/sync.py`) | remote pages | find then create or update | no transaction, retries, duplicates |
| Historical data (`market_data/history/`, `HistoricalDataRepository`) | series with an active dataset, immutable datasets | fetch through providers in order, validate, save, stale answer, promote | concurrent requests for one series, provider failures |
| Instrument identity (`_resolve_instrument_record`, `instruments/resolution.py`) | instruments, identifiers | resolve, promote, search | several sources for one listing |
| Market-data mappings (`MarketDataMappingRepository`, `instruments/default_mappings.py`) | mappings | seed, import, list | seeding over user edits |
| Ledger and history (`TransactionRepository`, `BrokerReconciliationRepository`, `BrokerDaily*Repository`, `PortfolioSnapshotRepository`) | rows keyed by broker id or date | upsert | idempotent re-import |
| Analytics (`analytics/`, `signals/`, `sizing/`) | none | valuation, snapshots, daily P&L, performance, charts, reductions | gaps, boundaries, mixed currencies, two code paths for one number |
| Finance skills (`finance/`, `scripts/analyze_instrument.py`) | none; the cached bars | window, registry, skills, findings | the last completed session, a cache others fill, errors of one of many |
| Connectors (`brokers/`) | the parsed statement | send, poll, page | retry bound, pagination |
| API, pages, scripts | none of their own | start jobs, read | sync routes run in a thread pool, so requests overlap; scripts are other processes |

How they interact. A route is a synchronous function, so FastAPI runs requests
in threads; each request gets a session of its own, and the import commands are
processes with theirs. The full refresh calls, in one request, the broker
import (own session), the history import (own session) and refresh-and-sync
(own session); between these nothing is held. All of them share the database,
and refresh-and-sync shares the Notion workspace with the user, who edits `Cost
Override` on position pages.

What makes each part correct:

* store: the effective cost follows manual and broker cost; a closed position
  stays closed; no lock outlives its transaction;
* import: all of a statement or none of it; what it does not mention is closed;
  manual costs are not its business;
* refresh: review, rows and run outcome are committed together; the newest
  price in the instrument's currency wins; Notion only after the commit;
* every job ends, and unless its process died its run does not stay RUNNING;
* historical data: a fresh answer is complete and of the right listing; what
  was accepted is saved and reused; a request ends;
* buttons: two attempts let through are a cooldown apart; a refusal has a
  cause; a label tells the truth;
* Notion: one page per external id, whole pages, no override lost;
* identity: an instrument is one security and a security one instrument,
  whatever is renamed, relisted or listed twice;
* connectors and ledger: positions are the broker's, executions explain them,
  a cost is rebuilt only from all of a position's trades;
* reads: the review, the dashboard and the current portfolio agree where the
  rates they use do; windows, drawdown and charts are of what the ledger holds;
* finance: an analysis reads its window and nothing later; a review answers
  every holding.

## 2. Modules

```
PositionStore         rows, sessions, repository operations
  ProviderRuns        a job: stages, its run, its failure branch
    BrokerImport      BrokerImportWorkflow
    RefreshAndSync    RefreshAndSyncWorkflow
      PortfolioJobs   imports and refreshes together: Next, fairness, properties
        JobsInvariant     the inductive invariant
          MCPortfolioJobs       constants for TLC
        PortfolioJobsSafety     proofs: types, the invariant and what follows from it
          PortfolioJobsSerial     proofs: jobs that do not overlap
FullRefresh           FullRefreshWorkflow and its three buttons
  MCFullRefresh         symmetry
  FullRefreshProofs     proofs
HistoricalCoverage    windows, weekends and bars: the tests of cache and validator
  HistoricalAnswers     abstract: what a request for bars is promised
  HistoricalData        HistoricalDataService, router and repository
    MCHistoricalData      constants for TLC
    HistoricalDataProofs  proofs: invariant, coverage, markets, refinement, serial
NotionPages           NotionSync, LiveNotionClient: pages, overrides
  MCNotionPages         symmetry
  NotionPagesProofs     proofs
InstrumentIdentity    instruments, identifiers, mappings, migration 0006
  MCInstrumentIdentity  constants for TLC
  InstrumentIdentityProofs  proofs
Broker                external: trades, holdings, daily values
  BrokerConnectors      Flex reports, Portal pages
    PortfolioLedger       what imports and refreshes store
      PortfolioReads        P&L, performance, current portfolio, charts; properties
        MCPortfolioReads      constants for TLC
        LedgerProofs          proofs, of connectors, ledger and reads
FinanceSkills         the skills over bars
InstrumentSearch      two searchers' candidates
  FinanceAnalysis       reviews and commands over the cache (of both)
    MCFinanceAnalysis     constants for TLC
    FinanceAnalysisProofs proofs, of searches, skills and analyses
```

An operator whose name is a definition's name and a suffix (`Released_...`,
`TooSoon_Early`) is a mutant: that definition as a plausible mistake would have
it. Nothing uses the mutants but the check that each property notices its own.

### PositionStore

A session is a job. `rows` are the committed rows; `staged[s]` holds, column by
column, what session `s` has changed and not committed; `lock[p]` is the
session whose flushed change holds the row's lock. `Seen(s, p)` is what a
SELECT of `s` returns: the committed row with the session's own changes over
it. `Assign` stages only the columns whose value differs from the one loaded,
as SQLAlchemy's attribute history does; `Flush` is one UPDATE or INSERT, taking
the lock; `CommitSession` publishes everything at once and `RollbackSession`
drops it. `InsertCollides` is the unique constraint on account and instrument.
The code reloads a row before it assigns to it (records are not kept between
queries, and commits expire them), so an assignment starts from `Seen`.

Data: costs, prices and quantities are integers. A price *is* the time it was
observed, so "newer" is `>`. `average_cost` stands for the pair of effective
cost and status, `broker_average_cost` for the pair of broker cost and status.
`latest_price` stands for price, time, provider and quality, which are always
assigned together.

### ProviderRuns, BrokerImport, RefreshAndSync

`pc[s]` is the place of job `s` in its `run` method; one action is the code
between two points at which another session can act (a statement that queries
or waits, a remote call, a commit). `todo[s]` is what a loop has left; its
order is the order of a report, a dictionary or a SELECT without ORDER BY, so
any. Every statement first needs the rows staged before it flushed
(`Flushed(s)`), which is where a job waits for a lock.

* `FetchStatement` covers the four connector calls: any statement over the
  positions and accounts, each position with a lot, mentioned in a row that is
  skipped, or absent, and at least one account or lot. It stamps the prices.
* `UpsertLot` is `upsert_broker_position`; `CloseMissing` writes the price
  points and closes; the ledger rows and mapping seeds that follow touch no
  modelled row and are in the step to the commit.
* `ReadInputs`/`SkipInputs`, `SetManualCost`, `ListAgain` are
  `_apply_notion_inputs` and the second listing; `StartMarketRun` commits the
  RUNNING row *and the manual costs staged so far*.
* `FetchQuotes` answers, for each instrument, nothing, an older, an equally old
  or a new observation (`Candidates`). A candidate that validation rejects
  (currency, exchange, a move of more than half the price) is "nothing".
  The newest persisted price is used only if it is in the instrument's currency
  (`ValidPersisted`, which is `_validate_persisted`): `Foreign` gives, for each
  instrument, the time up to which prices on file are in a currency it had
  before the jobs began; no job changes an instrument's currency here.
  `QuotePosition` and `WritePosition` are the two halves of the loop body:
  between the SELECT of the newest price and the SELECT of the row another
  session can commit.
* `PersistReview` stages snapshot, signals and audit rows; `CommitMarket`
  commits them with the run's success; `StartNotionRun`, `SyncPage`,
  `SyncReview`, `FinishNotion` write the pages.
* `ImportRaises`, `RefreshRaises`, `FailsBeforeRun`, `SyncFails`,
  `StartNotionFails` may happen wherever a remote call or statement can raise.
  The handler of `SyncFails` has no rollback
  (`workflows/refresh_and_sync.py:145-153`): if a statement had failed, recording
  the failure raises too and the Notion run stays RUNNING, so both are possible;
  `RollbackFailed` and `RecordFailed` are the except branches.
* `Crash` ends a process anywhere: PostgreSQL rolls back, the run stays
  RUNNING.

### PortfolioJobs

`Next` interleaves all jobs, their flushes, crashes, and the user's edits in
Notion. `MaxConcurrentJobs` is the number of jobs a deployment lets overlap:
nothing in the code limits it, so the runs with 1 say what holds when operators
serialise the jobs, and the runs with 2 what the code as it is promises.

### FullRefresh

One process per browser request. `CheckCooldown` and `RecordAttempt` are the
read and the write of `_record_attempt_or_raise_cooldown`; `StageSucceeds` and
`StageRaises` the outcome of an import or refresh; `ReadLabels` and
`RecordSuccess` the labels. `admitted` and `passed` are history variables the
properties speak of. A first INSERT that loses the race for a row's primary key
raises. `overlapped` remembers that requests did. The clock is an integer; the code's `int()` of elapsed seconds is the
same truncation.

### HistoricalCoverage, HistoricalAnswers, HistoricalData

A day is a number, day 0 a Monday. A dataset is named by the request that
fetched it and reduced to the first and last day of its bars, its series and
the listing they are of; missing sessions inside are warnings in the code and
nothing here. `Covers` is the cache's `_covers`, `Accepts` the part of
`validate_dataset` that concerns dates; a dataset that fails any of its other
tests is one the provider "refuses". A listing is what
`_validate_series_identity` compares: symbol, currency and exchange.

`pc[r]` is where a request stands: `lookup` and `linked` are the two cache
queries, `fetch` one step per provider, `unavailable` the commit of the FAILED
run, `stale` the stale lookup, `save` the SELECT of the series row, `commit`
the writes. `AskPortfolio` resolves the listing from the instrument's row and
keys the series by its id; `AskResearch` keys it by the listing, or by the
instrument id its caller gives (`Identified`, which name `IdOf` an instrument),
with any listing. `CommitDataset` links a new series to the id of its request as
it comes, without comparing currencies or venues as `Promote` does. `found[r]`
remembers whether the SELECT found the row, so that two first requests can both
insert it (`SaveCollides`). The flushes of a save are one step with its commit,
as nothing of them can be seen earlier and a rollback drops all. `Promote` is
`promote_series`, reachable through the resolver only; `Relist` is what an
import does to the row of an instrument it matched by an identifier. `Fails` is
a database or process that goes away.

`HistoricalAnswers` knows no cache, router, transaction or series row: a
request gets one answer, and a dataset appears with the answer that carries it.
`ImplementsAnswers` is the refinement; its mapping is the identity but for
`Published`, which drops the time of fetch.

### NotionPages

One refresh is `ReadInputs` (or `ReadFails`: `NotionReadError` keeps what is
stored), `ApplyInputs`, then for each external id, in any order, `FindPage` and
either `CreatePage` or `UpdateProperties` and `UpdateBody`. `Fails` stops it
before or after the effect of any call. A property shows the refresh that
computed its value, so "of one refresh" is an equality; a property that is not
in a payload keeps its value (Notion merges; the fake client of the tests
replaces the whole page). A payload has a price if there is one, a rate if there
is one, current or stale, a reporting value if there are both, and a status
always (`KnownProperties`). The user edits `Cost Override` and imports open and
close positions between any two calls. Pages of the symbol-keyed layout of
earlier versions are read and never written. Settings, account and signal
pages are further keys of the review's kind; the order of the upserts, fixed in
the code, is any order here. Nobody deletes a page, and a query sees every page
created before it.

### InstrumentIdentity

`Resolved` and `Conflict` are `_resolve_instrument_record` and the unique
constraints it runs into: by the caller's id and the known identifiers, else by
listing, else a new row whose id is made of the listing. An import resolves
every position, then describes every priced instrument again as it was when the
position was written, closes, resolves its executions and seeds the default
mappings, in one transaction with a rollback. `ReadInstrument` and `WriteBack`
are a refresh that holds an instrument over an import. `Upgrade` and
`Downgrade` are the data part of migration 0006. A lot carries, for the
properties alone, the security it is about; `means` remembers which securities
a row was resolved from.

### Broker, BrokerConnectors, PortfolioLedger, PortfolioReads

`Broker` is the outside: trades that execute while time passes. A day has three
times, one of them midnight, so that a snapshot of a day's start, two refreshes
of one day and a trade near midnight in another time zone are different things.
A report is named by the time it was made; what it says follows from the trades.

`BrokerConnectors` is one action per answer: a report that is ready or not
(`NotReady` raises after `Retries`), a question of the import answered from the
report held, a page of positions read while trades go on, the empty page that
ends an account. `PortfolioLedger` commits what was fetched: positions with the
cost the report states or its trades give (`Lot`), executions, the broker's
days and the day's snapshot; `Refresh` values the positions with fetched,
persisted or missing rates and stores snapshot, rates and signals. A fetched
rate bears the provider's time, which may be any of `RateAges` old, and is used
whatever it is (`Resolved`); only where none was fetched does the refresh take
the newest on file, as every read does (`Newest`). Jobs do not
overlap here: their interleaving is that of PortfolioJobs. Cash rows, the
content of reconciliations, commissions and quotes are left out: a price is the
market's at the time.

`PortfolioReads` holds the read routes as operators over those tables: daily
P&L of snapshots and of the broker, contributors, performance, the current
portfolio, the list of charts, the executions on a chart and their match with
candles. A provider's answer (`Series`) is the interval it has of those tried
and the start of its candles, any of `Sessions`, or nothing. The chart of one
day asks for a week and keeps the last session (`Trimmed`); an execution without
a candle of its time is unavailable. A candle is daily, weekly, monthly or, for
an intraday interval, of one time.

### FinanceSkills, InstrumentSearch, FinanceAnalysis

`FinanceSkills` translates the three skills to sequences of bars with integer
prices; averages are fractions, compared by cross-multiplication, so no
rounding hides a boundary. The rounding to eight digits, the trend strength
index and the second average, on which no finding depends, are left out, and so
are threshold overrides, which no caller passes.

`FinanceAnalysis` runs a review or a command over a dataset per instrument that
requests of anyone replace (`Browse`), while days go by (`Tick`): `Ask` fixes
the window, `Reuse`, `Fetch`, `FallBack` and `Unavailable` are the historical
data service (HistoricalData has its details), `Analyse` cuts the bars on the
date it then is. A bar fetched on its own day is unfinished. The review's date
is that of UTC, the service's that of the host (`Zones`). Every day is a
session; weekends are in HistoricalCoverage. `InstrumentSearch` merges the
candidates of both searchers; the symbol and exchange tables are constants. A
searcher says of a listing its exchange, its MIC (Twelve Data only), both or
neither. The currency and class it reports are the listing's.

## 3. Properties and runs

All safety runs use `CHECK_DEADLOCK FALSE`: each job or request runs once, so a
behaviour really ends.

| Run | Instance | Shows |
|---|---|---|
| `jobs_overlap` | 1 import, 1 refresh, 1 position, Notion on, 3 lots, overlapping | the inductive invariant `JobsInv`, of which `TypeOK`, `LocksAreHeldByWriters`, `ReviewIffSuccess` and `NotionAfterCommit` are conjuncts; `RowsChangeWithSuccess` |
| `jobs_ends` | 1 import, 1 refresh, 2 positions, overlapping | `JobsEnd` (liveness) |
| `jobs_serial` | 1 import, 1 refresh, 2 positions, one of an instrument with prices in a former currency, Notion on, one at a time | `EffectiveCostIsCurrent`, `ClosedStaysClosed`, `ImportAppliesStatement`, `RefreshBringsNewestPrice` |
| `jobs_stale_closed` | as `jobs_overlap` | `ClosedStaysClosed` **fails** |
| `buttons` | 3 requests, two at a time, cooldown 2, clock to 4 | `RefusedForAnAttempt`, `LabelsAreEarned`, `AttemptsAreSpaced` |
| `history_overlap` | 2 requests overlapping, 2 instruments of which imports relist one, a research caller's instrument id, 2 listings at different venues, windows cut by a weekend, promotions | `SeriesShowsItsListing`, `FreshAnswersAreComplete`, `AnswersFollowTheMarket`, `ImplementsAnswers` (refinement) |
| `history_serial` | 3 requests, one at a time, 1 instrument, an id that names it, 1 listing, two windows cut by a weekend, five spans of bars, promotions | `AcceptedIsPersisted`, `CoveredIsNotFetched`, `StaleIsLastValidated` |
| `notion` | 2 refreshes, overlapping, 1 position with a page by id or by symbol or none, with and without a price, with a current, stale or missing rate, 2 edits | `OnePagePerKey`, `StatusFitsValue`, `WrittenPagesAreWhole`, `ClearedByTheUser` |
| `identity` | 9 reports of 2 securities in 2 accounts, 3 listings, 4 identifiers, rows of the old schema; the bounds of the cfg | `TypeOK`, `OneSecurityPerInstrument`, `OneInstrumentPerSecurity`, `RefusedOnlyIfAmbiguous`, `EnabledMappingsStay`, `MigrationsKeepPositions` |
| `ledger` | 2 accounts of different currencies, 2 instruments, 6 trades in 3 days, reports of 1 day, 2 imports, 2 refreshes, rates of now or a day ago, 1 change of currency, charts of one day and of two with candles of some times | `PositionsAreTheBrokers`, `LedgerExplainsPositions`, `HistoryViewsAgree`, `PerformanceIsOfItsDays`, `ReductionRestoresTheLimit`, `ChartsShowTheLedger`, `ReadsAgreeWithReview`, `StepsMakeProgress` |
| `analysis` | 3 instruments (one without a row, one no equity), 6 days, 1 task, 2 fetches; skills on the 1024 sequences of 5 bars of 4 shapes; 1 symbol on 4 venues, three of one currency, two of one market | `AnalysesAreOfTheirWindow`, `MirroredMarketsMirrorFindings`, `LongerLookbackKeepsFindings`, `SearchesNameOneListing`, `ReviewsAnswerEveryHolding` |
| `analysis_unfinished` | as `analysis` | `AnalysesReadFinalBars` **fails** |

The type invariant of InstrumentIdentity is checked by its run (and proved) and
that of PortfolioJobs inside `JobsInv`; those of FullRefresh, HistoricalData,
NotionPages, PortfolioReads and FinanceAnalysis are proved, as are `HistoryInv`
and `ImportKeepsOverride`, and no run repeats them.

The bounds. Two jobs are what an interleaving of an import with a refresh
needs; a second position is what a deadlock, a partly applied statement or a
missing lot needs. Lots differ from the held row in quantity and cost;
`jobs_overlap` has one without a mark price. Costs are at most 2, with 0 as the valid manual cost. Three
requests are what the race for an *existing* attempt row needs: one to record
it, two to read it. The clock bound lets a cooldown of 2 pass and start again.
Two requests for bars are what a reuse, a collision or a save over a save
needs, three a stale answer after a second save. The spans a provider returns include
one that covers more than the window, one that starts late and one that ends before the
weekend; the nine days hold one weekend. `MaxConcurrent` also keeps promotions
out of a request where it is 1. Two refreshes of Notion pages are what a page
needs to be created twice, or left half updated and mended; two edits let the
user enter an override and empty it, and a page left from earlier, with a current
rate or none (`KeptRates`), stands for the refreshes before. The reports of `identity` are one each of a security listed,
renamed, relisted, listed twice in one report or in two accounts, and of
another that keeps or takes its listing; two imports in a row combine any two.
The trades of `ledger` put one instrument in two accounts of two currencies,
some before the first report, two on one day, one that closes and one that sells
short, and number two of them alike in different accounts; prices and rates
change at every time. The candles of `ledger` are at three times of two days, so
that there are executions with one, two and no candles of their day. The spans
of `analysis` are two to four sessions for 12 to 50, with histories one session longer than the longest of them.

### What the failing runs say

* `jobs_stale_closed`: refresh-and-sync writes back the objects it listed
  before the quote provider answered. An import that commits in between is
  overwritten: a closed position is open again, with the old quantity, until
  the next import. `backend/README.md:215-216` promises the close.
* `analysis_unfinished`: the market-data route and `fetch_historical_data.py`
  accept today as the end of a window and the validator accepts today's bar.
  It is stored as it is in the middle of the session, and the next day the
  cache serves it to an analysis as a completed session, although skills are to
  "use adjusted completed daily bars"
  (`docs/superpowers/plans/2026-07-16-finance-skills-and-canonical-references.md:16`).

### Also met while modelling

These were seen by checking the property named under the constants named; no
run is kept for them.

* `EffectiveCostIsCurrent`, jobs overlapping: an import loads a row without a
  manual cost, a refresh commits one, the import then commits its broker cost
  and the effective cost it computed from what it had loaded. The override is
  still in the row but has no effect (`backend/README.md:228-229`) until the row
  is next written.
* `SkippedStaysOpen`: a broker row that cannot be mapped is reported and then
  its position closed as missing
  (`docs/2026-07-15-real-portfolio-mvp-design-and-plan.md:161,186`).
* `RefreshBringsNewestPrice` with one instrument in two accounts:
  `positions_by_id` keeps one of its positions
  (`workflows/refresh_and_sync.py:252`); and without its condition on `Foreign`:
  only the newest price on file is looked at, and if it is in a currency the
  instrument no longer has, it is ignored and what the position carries stays
  (`market_data/selection.py:77-87`).
* `AttemptsAreSpaced` without its `~overlapped`: two requests read the same
  expired attempt and both go on to IBKR within one cooldown.
* `AcceptedIsPersisted` with relistings: a portfolio series keeps the listing of
  its first save, so after an import relisted the instrument every dataset
  accepted for it is dropped with an error
  (`docs/superpowers/plans/2026-07-16-finance-library-historical-data-routing.md:850`);
  with `MaxConcurrent = 2`: the loser of two first saves of a series raises and
  drops its dataset.
* `CoveredIsNotFetched` with a window that is a weekend (days 5 to 6): the cache
  never covers it, the validator accepts it, so each such request asks the
  providers and replaces the active dataset (`:849` of that plan).
* `StaleIsLastValidated` with four research requests and `MaxConcurrent = 2`:
  the last commit is active, not the last fetch (`README.md:258`).
* `AnswersFollowTheMarket` without `ClaimsAgree`: a research request whose
  reference names an instrument id and another market creates a series that is
  linked to the instrument, and a portfolio request is answered with its bars as
  fresh (`market_data/history/service.py:63`, `db/repositories.py:287-300,390-413`).
* `OnePagePerKey` without its `overlapped`: two refreshes both query before
  either creates.
* The net value in `ReadsAgreeWithReview` without its condition: a refresh is
  answered a rate older than one on file, values the portfolio with it and
  stores it; `/analysis/current` takes the newest on file and says another
  value (`workflows/refresh_and_sync.py:290-297`, `db/repositories.py:870`).
* `SearchesNameOneListing` without its condition: of results without exchange
  and MIC the merge knows no venue (`instruments/searchers.py:220,229-230`,
  `instruments/resolution.py:174`), so two listings of one symbol, currency and
  class become one candidate.
* `ListingsCoexist`: two listings of one report that share an ISIN become one
  instrument, and the second overwrites the first's position
  (`docs/2026-07-15-real-portfolio-mvp-design-and-plan.md:240` wants them to
  coexist).
* `AnswerInOneCurrency`: after a change of the reporting currency the daily P&L
  has the newest snapshot's currency in its header and the broker's in its days
  (`docs/superpowers/plans/2026-07-19-indicative-pnl-dashboard-mvp.md:17`).

Cases a property leaves out, as no document says which answer is meant:

* a position page whose price is missing keeps the price and the reporting value
  an earlier refresh wrote beside the new status and rate, and one whose rate is
  missing keeps the earlier value beside the status `missing`
  (`notion/sync.py:201-236`); `StatusFitsValue` compares what one refresh wrote;
* a series asked for with two listings, by research callers that name one id or
  after a relisting, drops what is fetched for the other one;
* a market asked for by name is one of the tables' names; a name two venues share
  does not tell them apart, and a chart without candles shows the executions of a
  day more on either side;
* the stale answer looks at the request's own series only, the cache also at
  series promoted to the instrument (`:852` of the routing plan); and the cache
  does not compare listings as a save does, so a relisted instrument is answered
  with the bars of its old listing;
* a stage of a refresh that succeeded before a later one failed leaves no label
  (`backend/README.md:438-439`);
* a symbol-keyed page left beside a keyed one can overwrite the override the
  user typed there, and pages of closed positions keep their last values;
* reports that contradict each other (`Ambiguous`, `~Steady`): after a rename, a
  recycled ticker makes the canonical id collide and every later import fails,
  or, before the rename is known, the new security takes the old row over; an
  instrument of the old schema, which has neither venue nor identifiers, is not
  matched by a report that names a venue: its row is closed and its manual cost
  stays behind (`backend/README.md:150-151`);
* a default mapping the user *disabled* is enabled again by the next import
  (`db/repositories.py:740`), and one of a renamed instrument keeps the old
  symbol; a refresh's late write-back restores an instrument's old listing;
* an import of part of the accounts replaces the day's snapshot, whose id knows
  day and currency only, by a partial sum; `Queries` has one set of accounts;
* `/analysis/performance` puts snapshots of several currencies in one series;
  the drawdown is compared over values of any currency;
* positions read over the Portal have no cost status although the gateway
  states a cost, and a page read while holdings change can miss a row, which is
  then closed (`PositionsAreTheBrokers` asks that nothing traded meanwhile);
* the reduction is of the net value without the positions that have no rate,
  and is rounded down, so up to one share too many stays;
* an instrument listed for less than the look back is always refused; findings
  of the technical skill depend on where the window starts, as the averages do;
* what a failed searcher would have said can make an ambiguous name unambiguous;
  names on Hong Kong are always ambiguous, and Yahoo's candidates on most
  European exchanges are dropped, as their codes are not in the tables.

Also met while reading, and not a matter of behaviour: the cooldown is
documented as 900 seconds (`backend/README.md:442`) and is 300 in
`core/config.py`; a Flex answer with status `Warn` is parsed as a report.

### Fairness

`FairSpec` assumes weak fairness of `RunsOn(s)` for each job that has begun: a
statement that can run does, a loop takes its next element, an exception branch
runs, and a statement the database refuses (a colliding INSERT, a deadlock
victim) raises. That is what an operating system and PostgreSQL give a thread.
No job is obliged to begin, nothing obliges a remote call to fail or a user to
edit, and a crash can stop a job for good. Every remote call has a timeout, so
it returns or raises. `StepsMakeProgress` is the same for the connectors without
fairness: a measure that every step of a job lowers.

## 4. Proofs

All theorems hold for any sets of importers, refreshers, positions, accounts,
instruments, lots and overrides, and any number of jobs at a time, under the
assumptions named in the modules, which TLC evaluates on every run:

| Assumption | Says |
|---|---|
| `StoreAssumption`, `JobsAssumption`, `LotsAssumption`, `RefreshAssumption` | sets of jobs, positions and lots, costs that are numbers, prices left from a former currency (`Foreign`) that have times |
| `RefreshConstants`, `HistoricalConstants`, `NotionAssumption` | clocks and days are numbers, "none" is no value, an id a research caller gives is that of an instrument |
| `IdentityAssumption` | a lot is of one security, with at most one identifier of a kind |
| `BrokerAssumption`, `FlatAssumption` | a schedule is finitely many trades of other numbers, prices are positive; a position of nothing costs nothing |
| `ConnectorAssumption`, `LedgerAssumption`, `NoneAssumption`, `ReadsAssumption` | polls and reports are bounded, every instrument and account has a currency, rates are positive and of some age, no row is "none"; a last session is a set of times of the clock |
| `SkillsAssumption`, `ThresholdsAssumption` | each skill is given the bars its windows need, and thresholds are ordered, as the classes of `finance/skills/` and the defaults have them |
| `SearchAssumption` | no name of a venue is that of nothing; two listings of one symbol, currency and class whose venues share a canonical name, or both have no Yahoo suffix, are one |
| `AnalysisAssumption` | dates, look backs and bars are of their types, days of a history ascend |

A theorem that needs more says so in its ASSUME, and the text below says why.

* `PortfolioJobsSafety`: `TypeCorrect` (`Spec => []TypeOK`), from one lemma per
  action. Type correctness is not inductive by itself: an override that is
  staged must be an integer, which needs `LoopsAreSound`. Then
  `JobsInvariance` (`Spec => []JobsInv`). `JobsInv` adds to the properties what each stage may have staged: some stages are clean, a
  refresh stages only costs before its run, an import never a manual cost, and
  a run succeeds only in stages after the commit. From it `LocksHeldByWriters`,
  `ReviewWithSuccess`, `NotionFollowsCommit` are parts, and
  `RowsChangeOnlyWithSuccess`, `ImportsKeepOverrides` are action properties
  proved step by step: the commits that are not a success (`StartImport`,
  `StartMarketRun`, `RecordFailed`) find only clean rows, or manual costs.
* `FullRefreshProofs`: `ButtonsTypeCorrect`, `LabelsEarned`,
  `RefusalsJustified` for any overlap, and `SerialAttemptsSpaced` for the
  requests up to the first overlap. The last needs an invariant: no admitted attempt is
  later than the attempt row, the row is never later than the clock, and a
  request between its check and its write has read the row as it still is.
* `HistoricalDataProofs`: `HistoryInvariance` (`Spec => [](TypeOK /\
  HistoryInv)`), from which `HistoryTypeCorrect`, `SeriesShowTheirListing` and
  `FreshAnswersComplete` follow. `HistoryInv` says what a request has at each
  stage; its hardest part is that a save which found a row still has a row of
  its own listing at its commit, because no step changes a row's listing.
  `AnswersKeepTheMarket` adds `LinkInv`: a series of a key that is neither
  relisted nor a caller's id has the key's listing, and one linked to an
  instrument shares its market or was created by a research request that named
  it. `save_dataset` links such a series with no check, so the property speaks of
  requests whose instrument no research request names with another market
  (`ClaimsAgree`). `AcceptedIsCovered`: for every window with a session the two coverage
  tests agree, so what was fetched for a window is reused for it; a weekend
  window is the only disagreement. It rests on lemmas about the first and last
  session around a day. `ServiceImplementsAnswers` is the refinement, one case
  per action, under the invariant.
* `NotionPagesProofs`: `NotionInvariance` (`Spec => [](NotionInv /\
  UnseenInv)`), from which follow `NotionTypeCorrect` and the three invariants of the run:
  `StatusesFitValues` for refreshes that overlap as they like, `PagesAreUnique`
  and `WrittenAreWhole` until they first do. The invariant says that a payload
  holds values of its own refresh only and a reporting value exactly when it has
  a price and a rate, that the page of an upsert has its external id, and that
  without overlap a refresh about to create a page is the only one that could.
  As an update leaves what its payload lacks, a page can show an old price below
  a new quantity. `UnseenInv` says that no page shows anything of a refresh that
  has still to write it: a price and a quantity of one refresh were then written
  by the same update, which wrote the reporting value too.
* `PortfolioJobsSerial`: what needs jobs that do not overlap
  (`MaxConcurrentJobs = 1`; with two, `jobs_stale_closed` and the list above have
  the counterexamples). `SerialInvariance` (`Spec => []SerialInv`) says that one
  session at a time has anything in hand, that the rows it sees have current
  costs, that an import has brought every row it has visited to its statement,
  and that the objects of a refresh have the quantities of the table. From it
  `SerialCostsAreCurrent`, `SerialImportsApply` and `SerialClosedStays`.
  `SerialRefreshesBringNewest` also needs that no instrument has two positions
  (`OnePositionEach`; `positions_by_id` loses one otherwise) and two more
  invariants: `StampsInv` (observations carry times, proved for any overlap) and
  `PricesInv` (a refresh has left each row it has visited with the newest price
  of its instrument, and carries the others as they are). The selection takes the
  newest price on file and drops it if it is of another currency, so both exempt
  an instrument of which such a price (`Foreign`) is as new as any other.
* `HistoricalDataProofs` ends with requests one at a time (`MaxConcurrent = 1`):
  `SerialInvariance` says that a session still finds what it has read and that a
  series shows the newest dataset that passed. `SerialSavesPersist` is about
  series asked for with one listing, `SerialFetchesAreNeeded` assumes that every
  window holds a session; without either the list above has the counterexample.
  `SerialFallsBackToTheNewest` needs neither.
* `NotionPagesProofs` ends with `OnlyTheUserClears`, up to the first overlap and
  wherever a refresh stops. Its invariant `CostInv` says that a manual cost was
  entered on a page of the position, and that an empty override is read only
  where nothing is stored or the user emptied it.
* `InstrumentIdentityProofs`: for any statements, listings, identifiers and old
  rows, all properties of the run. `IdentityAssumption` says what a lot is: of
  one security, with at most one identifier of a kind (as the connectors build
  them); the rows before the migration are finitely many. `IdentityInv` is an
  invariant about *reports*: a row's key, listing, identifiers and seeded mapping
  were each said of the security the row means, and an identifier that was
  always given for a security leads to its row (`Sound`). It must hold of three
  things at once: the tables, the tables a rollback would restore, and the rows
  a running import or refresh has read and will write again, which still mean
  what they meant (`StillMeant`). It is stated relative to `~Ambiguous`, and
  reports only grow, so each step first shows that what was said stays said
  (`SoundWithMore`). `ResolvedIsMeant` is the heart: with unambiguous reports all
  rows found for a lot mean its security. `NoConflict` is its counterpart: with
  `Steady` reports as well the security's row is always found, so the unique
  constraints are never hit; `RefusalsAreOfContradictions` and
  `SecuritiesKeepOneRow` follow. `MigrationsKeepHoldings` needs that both
  migrations give different rows different keys: the upgrade because symbols
  were the keys, the downgrade because it looks for duplicates.
* `LedgerProofs`: all eight properties of the run `ledger`, and the types. What
  the ledger says is sums (of trades, of values, of days), and what its readers
  compute are recursive functions, so the module begins with those: a fold over
  a finite set exists, does not depend on the order, splits over two parts and
  is unchanged by renaming. An induction over data has to be made by hand, as
  the absence of a smallest counterexample (`CountUp`). Then, in the order of
  the data:
  * `JobsReadTheBroker` is the invariant of the connectors. A report that was
    polled for is still the one asked for; the rows read from pages are exactly
    the holdings of the accounts and places before the next page (`PagingInv`),
    which needs that an account's holdings, in order, fill its places without a
    gap (`RanksGrow`, `RanksFill`). It holds while nothing trades.
    `ImportsLeaveTheBrokersPositions` follows at the commit, with `LastInv`,
    which keeps the statement while time passes.
  * `LedgerAlwaysExplainsPositions` adds `TradesInv`: the executions on file are
    the trades of the reports imported, each under its own id, and a running
    import began after all of them; two trades of one number in one account
    would break it, two of one number in different accounts do not. A cost is
    rebuilt from a report's trades only if they add up to the position, and
    with `FlatAssumption` they then are all of its cost.
  * `HistoryViewsAlwaysAgree` has `HistoryInv`: the broker's days on file are a
    rectangle of accounts and days, each equal to what the trades give, however
    often and in whatever parts they were imported. It assumes *one* configured
    query, of any accounts: with two, the snapshot of a day is that of the last
    imported, as its id knows day and currency only (section 3).
  * `ReadsAlwaysAgreeWithReview` has `SnapshotsInv`: a snapshot is at a
    time of the clock or at the midnight its id names, and no two of one currency
    have one time. The review's daily change and the dashboard's are maxima of
    different sets, shown to be the same snapshot. The refresh resolves a rate by taking what
    the provider answered, however old, and the reads take the newest on file;
    `ResolvedAreNewest` shows that the two give the same rates where none on file
    is newer than the one used, and the net value of the review and that of the
    current portfolio are then one sum over two sets of positions.
  * `PerformanceIsAlwaysOfItsDays` shows that a window's days are a suffix of
    the history's, and by induction over the values that the running peak
    computes the worst of all pairs. `ChartsAlwaysShowTheLedger` that the list
    of charts has everything once, and of each chart, whatever candles the
    provider gives, that its candles are of its days (`SeriesAreOfTheWindow`),
    that an execution is matched exactly where a candle of its time was given
    (`CandlesAreOfTheirDay`, `ExecutionsAreMatched`), and that trimming a day's
    chart to the last session takes no candle from an execution of that session
    (`SessionsKeepTheirCandles`, `ExecutionsAreShown`). `ReductionsRestoreTheLimit` that the integer division
    leaves at most one share above the limit, and sells no more than is held.
    `ImportsProgress` (`Spec => StepsMakeProgress`) that a number falls with every step: the polls
    and questions left, or the pages left of the accounts left.
* `FinanceAnalysisProofs`: all five properties of the run `analysis`, and the
  types. `AnalysisInvariance` has `AnalysisInv`, of these parts: what is asked
  ends on a day that is over and what is given has all of it unless it is stale
  (`TaskInv`), a dataset ends on the day it was fetched at the latest
  (`CacheInv`), what is noted is of its window (`EvidenceInv`), and answered
  holdings and those to do are, in order, what the review covers (`ReviewInv`).
  An analysis cuts its bars on the day it then is, which may be later than the
  day its window was asked on, so `EvidenceInv` speaks of the former.
  `AnalysesAlwaysOfTheirWindow` and `ReviewsAlwaysAnswer` follow. The latter
  needs that `Covered`, a recursive function over holdings, names each equity
  and ETF once; that such functions exist and obey their equations is
  `StepsExist`, again by the smallest counterexample.
  * `LongerLookbacksKeepFindings`: the last closes of a suffix are those of the
    history, so patterns, moves and volatility are the same; the highest close
    of the history is at least as high, so the fall from it at least as deep;
    and as days ascend the reported candles are of the same days.
  * `MirroredMarketsAlwaysMirror`: sums and averages of mirrored prices are
    mirrored, by induction, and gains and losses change places, so every
    comparison turns over, ties included. It assumes that the thresholds of the
    strength index are as far from the middle, as the defaults 70 and 30 are
    (`finance/skills/technical.py:30-31`): otherwise the skill is not symmetric.
  * `SearchesAlwaysNameOneListing`: candidates merged under one key share
    symbol, currency, class and a canonical venue, or Yahoo gave no suffix and
    Twelve Data neither exchange nor MIC. `SearchAssumption` makes the former one
    listing; the latter is what the property exempts, as the two may be
    different listings there (section 3).

Only model-checked: `JobsEnd`, which is liveness under fairness, and the two
properties of the failing runs, which are false. Every other property of a run
is stated by a theorem. That the runs' constants satisfy the additional
hypotheses of theorems is visible in the cfg files and MC modules: `Queries` of
`ledger` has one set, thresholds of `analysis` are the defaults.

## 5. Not modelled, and what could follow

Left out, as they keep no state: HTML pages (`analytics_app/pages.py`, a sixth
of the code), the research proxy, the LLM mock, formatting, authentication, and
the HTTP clients of the providers. The migrations other than 0006 add tables and
columns. Of the position chart the averages, events and resampling of candles
are left out. The backup is a shell script around `pg_dump`.

What could follow, in this order:

1. the overlapping counterparts of the serial theorems of PortfolioJobs, once
   the code guards its rows with a version or a lock;
2. imports of the history for part of the accounts, with the snapshot that
   should then result;
3. the ledger under overlapping jobs, as PortfolioJobs has the positions.
