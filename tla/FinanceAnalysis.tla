--------------------------- MODULE FinanceAnalysis ---------------------------
(***************************************************************************)
(* FinanceAnalysisService and its two callers: the daily review collects   *)
(* evidence on every equity and ETF it holds, analyze_instrument.py        *)
(* analyses one.  Bars come from the historical data service, whose cache  *)
(* anyone may have filled before (a request over the API or a script), and *)
(* days go by in between.  HistoricalData models that service; here it     *)
(* keeps one dataset per instrument, and every day is a session.           *)
(***************************************************************************)
EXTENDS FinanceSkills, InstrumentSearch

CONSTANTS
  Instruments,
  Missing,     \* instruments without a row to resolve
  Unsupported, \* instruments that are no equity and no ETF
  Markets,     \* the final bars of each instrument, by day
  Holdings,    \* positions in order: their instrument, and whether it is analysed
  Histories,   \* the bar sequences the skills are compared on
  Around,      \* the sum of a price and its mirror image
  Start, LastDay,
  Dates, Lookbacks,  \* what a command may ask about
  ReviewLookback,
  Zones,       \* the date of UTC, less the date date.today() tells
  Requested,   \* the skills a command may ask for
  MaxTasks, MaxFetches,
  NoData, NoTask

Days == 1 .. LastDay

Windows    == [first : Int, last : Int]
Datasets   == [first : Days, last : Days, on : Days]
GivenBars  == [first : Days, last : Days, on : Days, stale : BOOLEAN]

Tasks ==
  [kind : {"review"}, holdings : Holdings, asOf : Nat, lookback : Nat \ {0}, skills : {Bundle},
   stale : {FALSE}]
  \cup [kind : {"command"}, asOf : Nat, lookback : Nat \ {0}, skills : Requested \cup {Bundle},
        stale : BOOLEAN]

\* Bars are those of their day, and a history has one of a day.
ASSUME AnalysisAssumption ==
  /\ Missing \cup Unsupported \subseteq Instruments
  /\ Lookbacks \subseteq Nat \ {0} /\ ReviewLookback \in Nat \ {0} /\ Dates \subseteq Nat
  /\ LastDay \in Nat /\ Start \in Days /\ Zones \subseteq -1 .. 1
  /\ Markets \subseteq [Instruments -> [Days -> DailyBars]]
  /\ \A m \in Markets, i \in Instruments, d \in Days : m[i][d].day = d
  /\ \A h \in Histories : h \in Seq(DailyBars) /\ \A n \in 2 .. Len(h) : h[n - 1].day < h[n].day
  /\ Around \in Int
  /\ Holdings \subseteq Seq([instrument : Instruments, analysed : BOOLEAN])
  /\ NoTask \notin Tasks /\ NoData \notin Windows \cup Datasets \cup GivenBars
  /\ MaxTasks \in Nat /\ MaxFetches \in Nat

VARIABLES
  market,    \* what really traded
  today,     \* date.today()
  history,   \* the dataset of each instrument: its days, and the day it was fetched
  task,      \* the review or command that runs
  todo,      \* the instruments it has still to analyse
  asked,     \* the window it asked bars for
  got,       \* the dataset it was given
  evidence,  \* the analyses and errors so far
  tasks, fetches

vars == <<market, today, history, task, todo, asked, got, evidence, tasks, fetches>>

Idle == task = NoTask

----------------------------------------------------------------------------
(* The market and the stored history.                                      *)

\* A bar on its own day, soon after the open: no move and no volume yet.
Unfinished(bar) ==
  [bar EXCEPT !.high = bar.open, !.low = bar.open, !.close = bar.open, !.volume = 0]

Bar(i, day, on) ==
  IF day < on THEN market[i][day] ELSE Unfinished(market[i][day])

\* The bars of a dataset, oldest first.
BarsOf(i, d) == [n \in 1 .. d.last - d.first + 1 |-> Bar(i, d.first + n - 1, d.on)]

Window(first, last) == [first |-> first, last |-> last]

Serves(i, window) ==
  /\ history[i] # NoData
  /\ history[i].first <= window.first /\ window.last <= history[i].last

\* A provider has no bars of before the instrument was listed or after today.
CanFetch(window) == window.first >= 1 /\ window.last <= today /\ fetches < MaxFetches

Fetched(window) == [first |-> window.first, last |-> window.last, on |-> today]

\* HistoricalDataResult
Given(dataset, stale) ==
  [first |-> dataset.first, last |-> dataset.last, on |-> dataset.on, stale |-> stale]

\* GET /analysis/market-data, fetch_historical_data.py: today is a valid end.
Browse(i, window) ==
  /\ i \notin Missing /\ window.first <= window.last
  /\ ~Serves(i, window) /\ CanFetch(window)
  /\ history' = [history EXCEPT ![i] = Fetched(window)]
  /\ fetches' = fetches + 1
  /\ UNCHANGED <<market, today, task, todo, asked, got, evidence, tasks>>

Tick ==
  /\ today < LastDay
  /\ today' = today + 1
  /\ UNCHANGED <<market, history, task, todo, asked, got, evidence, tasks, fetches>>

----------------------------------------------------------------------------
(* The tasks.                                                              *)

Begin(t, instruments) ==
  /\ Idle /\ tasks < MaxTasks
  /\ task' = t
  /\ todo' = instruments
  /\ evidence' = <<>>
  /\ tasks' = tasks + 1
  /\ UNCHANGED <<market, today, history, asked, got, fetches>>

\* _collect_finance_evidence: each equity and ETF once, in order.
Covered(holdings) ==
  LET upTo[n \in 0 .. Len(holdings)] ==
        IF n = 0 THEN <<>>
        ELSE IF holdings[n].analysed /\ holdings[n].instrument \notin Range(upTo[n - 1])
        THEN Append(upTo[n - 1], holdings[n].instrument) ELSE upTo[n - 1] IN
  upTo[Len(holdings)]

Review(holdings, zone) ==
  Begin([kind |-> "review", holdings |-> holdings, asOf |-> today + zone,
         lookback |-> ReviewLookback, skills |-> Bundle, stale |-> FALSE], Covered(holdings))

Command(i, asOf, lookback, skills, stale) ==
  Begin([kind |-> "command", asOf |-> asOf, lookback |-> lookback,
         skills |-> IF skills = <<>> THEN Bundle ELSE skills, stale |-> stale], <<i>>)

\* _completed_through
Completed(asOf) == IF asOf < today - 1 THEN asOf ELSE today - 1

First(t) == t.asOf - t.lookback

\* Mutant: the first error ends the review.
Raise_Ends ==
  /\ evidence' = Append(evidence, [instrument |-> Head(todo), kind |-> "error"])
  /\ todo' = <<>>
  /\ asked' = NoData /\ got' = NoData

\* The review notes an error and goes on; a command has nothing left to do.
Raise ==
  /\ evidence' = Append(evidence, [instrument |-> Head(todo), kind |-> "error"])
  /\ todo' = Tail(todo)
  /\ asked' = NoData /\ got' = NoData

Asking == ~Idle /\ todo # <<>> /\ asked = NoData
Waiting == asked # NoData /\ got = NoData

\* No row, or a window that ends before it begins.
AskRaises ==
  /\ Asking
  /\ Head(todo) \in Missing \/ First(task) > Completed(task.asOf)
  /\ Raise
  /\ UNCHANGED <<market, today, history, task, tasks, fetches>>

Ask ==
  /\ Asking
  /\ Head(todo) \notin Missing /\ First(task) <= Completed(task.asOf)
  /\ asked' = Window(First(task), Completed(task.asOf))
  /\ UNCHANGED <<market, today, history, task, todo, got, evidence, tasks, fetches>>

Reuse ==
  /\ Waiting /\ Serves(Head(todo), asked)
  /\ got' = Given(history[Head(todo)], FALSE)
  /\ UNCHANGED <<market, today, history, task, todo, asked, evidence, tasks, fetches>>

Fetch ==
  /\ Waiting /\ ~Serves(Head(todo), asked) /\ CanFetch(asked)
  /\ history' = [history EXCEPT ![Head(todo)] = Fetched(asked)]
  /\ got' = Given(Fetched(asked), FALSE)
  /\ fetches' = fetches + 1
  /\ UNCHANGED <<market, today, task, todo, asked, evidence, tasks>>

\* No provider has the bars: an older dataset, if the command allows it.
FallBack ==
  /\ Waiting /\ ~Serves(Head(todo), asked)
  /\ task.stale /\ history[Head(todo)] # NoData
  /\ got' = Given(history[Head(todo)], TRUE)
  /\ UNCHANGED <<market, today, history, task, todo, asked, evidence, tasks, fetches>>

Unavailable ==
  /\ Waiting /\ ~Serves(Head(todo), asked)
  /\ ~(task.stale /\ history[Head(todo)] # NoData)
  /\ Raise
  /\ UNCHANGED <<market, today, history, task, tasks, fetches>>

\* Mutant: the bars are used from the first the cache holds.
Trimmed_AtTheEnd(bars, first, last) == SelectSeq(bars, LAMBDA b : b.day <= last)

Trimmed(bars, first, last) ==
  LET upTo[n \in 0 .. Len(bars)] ==
        IF n = 0 THEN <<>>
        ELSE IF first <= bars[n].day /\ bars[n].day <= last
        THEN Append(upTo[n - 1], bars[n]) ELSE upTo[n - 1] IN
  upTo[Len(bars)]

\* FinanceAnalysisService._run, on the date it then is.
Analyse ==
  LET i    == Head(todo)
      bars == Trimmed(BarsOf(i, got), First(task), Completed(task.asOf)) IN
  /\ got # NoData /\ i \notin Unsupported
  /\ evidence' = Append(evidence, [instrument |-> i, kind |-> "analysis", task |-> task,
                                   asked |-> asked, dataset |-> got, on |-> today,
                                   result |-> Analysis(task.skills, bars)])
  /\ todo' = Tail(todo)
  /\ asked' = NoData /\ got' = NoData
  /\ UNCHANGED <<market, today, history, task, tasks, fetches>>

\* The request for an instrument of another class is refused with its bars there.
AnalyseRaises ==
  /\ got # NoData /\ Head(todo) \in Unsupported
  /\ Raise
  /\ UNCHANGED <<market, today, history, task, tasks, fetches>>

\* The command has printed its result, the review goes on without the skills.
Finish ==
  /\ ~Idle /\ todo = <<>>
  /\ task' = NoTask
  /\ UNCHANGED <<market, today, history, todo, asked, got, evidence, tasks, fetches>>

Init ==
  /\ market \in Markets
  /\ today = Start
  /\ history = [i \in Instruments |-> NoData]
  /\ task = NoTask /\ todo = <<>> /\ asked = NoData /\ got = NoData
  /\ evidence = <<>> /\ tasks = 0 /\ fetches = 0

Work == AskRaises \/ Ask \/ Reuse \/ Fetch \/ FallBack \/ Unavailable \/ Analyse \/ AnalyseRaises
        \/ Finish

Next ==
  \/ Work
  \/ Tick
  \/ \E i \in Instruments, first, last \in Days : Browse(i, Window(first, last))
  \/ \E holdings \in Holdings, zone \in Zones : Review(holdings, zone)
  \/ \E i \in Instruments, asOf \in Dates, lookback \in Lookbacks, skills \in Requested,
        stale \in BOOLEAN : Command(i, asOf, lookback, skills, stale)

Spec == Init /\ [][Next]_vars

----------------------------------------------------------------------------
(* Properties                                                              *)

Results ==
  {e.result : e \in {f \in Range(evidence) : f.kind = "analysis"}}

\* The state has its type: datasets end on the day they were fetched or before,
\* a window is asked for and bars are given only while a task waits for them,
\* and a result has findings only of the skills it ran.
TypeOK ==
  /\ market \in Markets /\ today \in Start .. LastDay
  /\ \A i \in Instruments :
       history[i] # NoData => history[i] \in Datasets /\ history[i].last <= history[i].on
  /\ task \in Tasks \cup {NoTask}
  /\ todo \in Seq(Instruments) /\ (Idle => todo = <<>>)
  /\ asked \in Windows \cup {NoData} /\ (asked # NoData => todo # <<>>)
  /\ got \in GivenBars \cup {NoData} /\ (got # NoData => asked # NoData)
  /\ \A r \in Results :
       /\ r.status \in {"success", "partial", "failed"}
       /\ \A s \in DOMAIN r.findings : r.findings[s] # {} => s \in Skills /\ r.status # "failed"
  /\ tasks \in 0 .. MaxTasks /\ fetches \in 0 .. MaxFetches

Analyses == {e \in Range(evidence) : e.kind = "analysis"}

FinalBars(i, first, last) ==
  [n \in 1 .. last - first + 1 |-> market[i][first + n - 1]]

\* What an analysis of fresh bars says is decided by the market alone: it is
\* that of the closed sessions from the start of its window to one that was
\* completed while it ran, whatever windows others had fetched into the cache
\* before (service.py:124 cuts the dataset).  Bars that were fetched on the
\* last day itself are left to AnalysesReadFinalBars.  And no analysis, of
\* stale bars neither, looks ahead of the date asked about or at the day that
\* still runs (service.py:147).
AnalysesAreOfTheirWindow ==
  \A e \in Analyses :
    /\ ~e.dataset.stale /\ e.dataset.on > e.result.through =>
         /\ e.result.through >= e.asked.last
         /\ e.result = Analysis(e.task.skills,
                                FinalBars(e.instrument, First(e.task), e.result.through))
    /\ e.result.through <= e.task.asOf /\ e.result.through < e.on
    /\ \A s \in DOMAIN e.result.findings : \A f \in e.result.findings[s] :
         f.day <= e.task.asOf

\* Every bar an analysis reads is final.  It is not: the historical data
\* routes and fetch_historical_data.py accept today as the end of a window,
\* the bar of today is stored, and the cache serves it when the day is over.
AnalysesReadFinalBars == \A e \in Analyses : e.dataset.on > e.result.through

\* A review ends with one analysis or error for every equity and ETF it holds,
\* though rows are missing, providers fail and a position is held in several
\* accounts (daily_review.py:102).
ReviewsAnswerEveryHolding ==
  [][task # NoTask /\ task' = NoTask /\ task.kind = "review" =>
       /\ {e.instrument : e \in Range(evidence)}
            = {h.instrument : h \in {g \in Range(task.holdings) : g.analysed}}
       /\ IsInjective([n \in DOMAIN evidence |-> evidence[n].instrument])]_vars

Before == tasks = 0 /\ fetches = 0 /\ today = Start

\* The skills see no difference between up and down: turn the prices over and
\* every trend, momentum and candle finding turns over with them.
MirroredMarketsMirrorFindings ==
  Before => \A bars \in Histories, s \in {"technical_snapshot", "candlestick_events"} :
    SkillFindings(s, Mirrored(bars, Around))
      = {MirroredFinding(f) : f \in SkillFindings(s, bars)}

\* Whatever a searcher leaves out or fails to say, a command that finds a
\* single candidate analyses one listing, the one whose symbols it merged,
\* unless all that identifies the candidate is its symbol, currency and class
\* and Twelve Data left out both names of a venue (analyze_instrument.py:104).
SearchesNameOneListing == Before => CandidatesAreListings

\* A longer look back loses no candle and no warning of risk: every finding of
\* the shorter window is there, a drawdown at least as grave.
LongerLookbackKeepsFindings ==
  Before => \A bars \in Histories, s \in {"candlestick_events", "market_risk_snapshot"} :
    \A n \in DOMAIN bars : \A f \in SkillFindings(s, SubSeq(bars, n, Len(bars))) :
      \E g \in SkillFindings(s, bars) : NoWeaker(f, g)
=============================================================================
