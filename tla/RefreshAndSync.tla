---------------------------- MODULE RefreshAndSync ----------------------------
(***************************************************************************)
(* RefreshAndSyncWorkflow.run (workflows/refresh_and_sync.py): read the    *)
(* open positions, apply the manual costs the user keeps in Notion, commit *)
(* a RUNNING provider run, fetch quotes, write the quoted positions back   *)
(* from the objects read at the start, persist the daily review and commit *)
(* everything at once; only then write the Notion pages.                   *)
(*                                                                         *)
(* The reporting currency, FX and signal contents are data no step of this *)
(* model depends on; they travel with the review that is committed.        *)
(***************************************************************************)
EXTENDS ProviderRuns

CONSTANTS
  NotionConfigured, \* the Notion databases are configured
  Overrides,        \* manual costs a user may enter
  NoOverride,       \* the position has no page or no such property
  NoPosition

ASSUME RefreshAssumption ==
  /\ NotionConfigured \in BOOLEAN
  /\ Overrides \subseteq Int
  /\ NoOverride \notin Int
  /\ NoPosition \notin Positions

VARIABLES
  local,      \* the Position objects a refresh works on
  inputs,     \* the cost overrides it read
  quotes,     \* the provider's candidate for each instrument, 0 if none
  current,    \* the position whose quote is selected and not yet written
  reviews,    \* snapshot, signals and audit rows of each refresh
  override,   \* Notion: the user's `Cost Override' of every position
  pages,      \* Notion: the refresh that last wrote each position's page
  reviewPage, \* Notion: the refresh that last wrote the daily review
  notionRuns  \* status of each refresh's notion_sync provider run

refreshVars == <<local, inputs, quotes, current, reviews>>
notionVars  == <<pages, reviewPage, notionRuns>>

NoPositions == [p \in Positions |-> NoRow]
NoQuotes    == [i \in Instruments |-> NoPrice]
NoInputs    == [p \in Positions |-> NoOverride]

\* `Cost Override' is a number, or present and empty (NoCost).
OverrideValues == Overrides \cup {NoCost, NoOverride}

ListOpen(s) == local' = [local EXCEPT ![s] = OpenPositions(s)]
Listed(s)   == {p \in Positions : IsOpen(local[s][p])}

(***************************************************************************)
(* Before the provider run                                                 *)
(***************************************************************************)

BeginRefresh(s) ==
  /\ MayBegin(s)
  /\ GoTo(s, "idle", "inputs")
  /\ ListOpen(s)
  /\ UNCHANGED <<storeVars, todo, runs, now, inputs, quotes, current, reviews,
                 override, notionVars>>

\* Only overrides of positions in the list are applied.
ReadInputs(s) ==
  /\ NotionConfigured
  /\ GoTo(s, "inputs", "overrides")
  /\ inputs' = [inputs EXCEPT ![s] = override]
  /\ Visit(s, {p \in Listed(s) : override[p] # NoOverride})
  /\ UNCHANGED <<storeVars, runs, now, local, quotes, current, reviews,
                 override, notionVars>>

\* NotionReadError, or nothing to read: nothing is applied.
SkipInputs(s) ==
  /\ GoTo(s, "inputs", "overrides")
  /\ UNCHANGED <<storeVars, todo, runs, now, refreshVars, override, notionVars>>

SetManualCost(s, p) ==
  /\ pc[s] = "overrides"
  /\ p \in todo[s]
  /\ Flushed(s)
  /\ Assign(s, [q \in {p} |-> ManuallyCosted(Seen(s, p), inputs[s][p])])
  /\ Visit(s, todo[s] \ {p})
  /\ UNCHANGED <<rows, lock, prices, newPrices, pc, runs, now, refreshVars,
                 override, notionVars>>

ListAgain(s) ==
  /\ GoTo(s, "overrides", "start")
  /\ todo[s] = {}
  /\ Flushed(s)
  /\ ListOpen(s)
  /\ inputs' = [inputs EXCEPT ![s] = NoInputs]
  /\ UNCHANGED <<storeVars, todo, runs, now, quotes, current, reviews,
                 override, notionVars>>

\* _start_provider_run commits the RUNNING row, and the manual costs with it.
StartMarketRun(s) ==
  /\ GoTo(s, "start", "fetch")
  /\ FinishRun(s, "running")
  /\ UNCHANGED <<todo, now, refreshVars, override, notionVars>>

(***************************************************************************)
(* The market-data run                                                     *)
(***************************************************************************)

\* positions_by_id keeps one listed position of each instrument.
OnePerInstrument(s) ==
  {S \in SUBSET Listed(s) :
     /\ \A p, q \in S : InstrumentOf[p] = InstrumentOf[q] => p = q
     /\ \A p \in Listed(s) : \E q \in S : InstrumentOf[q] = InstrumentOf[p]}

\* Candidates the provider may answer with for an instrument it is asked for:
\* none, one older than the newest observation, one as old, or a new one.
Candidates == {NoPrice, now - 1, now, now + 1}

FetchQuotes(s) ==
  /\ GoTo(s, "fetch", "select")
  /\ \E answer \in [Instruments -> Candidates] :
       /\ \A i \in Instruments :
            answer[i] # NoPrice => \E p \in Listed(s) : InstrumentOf[p] = i
       /\ quotes' = [quotes EXCEPT ![s] = answer]
       /\ now' = IF \E i \in Instruments : answer[i] > now THEN now + 1 ELSE now
  /\ \E byId \in OnePerInstrument(s) : Visit(s, byId)
  /\ UNCHANGED <<storeVars, runs, local, inputs, current, reviews,
                 override, notionVars>>

\* Mutant: any candidate wins, however old.
SelectQuote_AnyCandidate(candidate, persisted, carried) ==
  IF candidate # NoPrice THEN candidate
  ELSE IF persisted # NoPrice THEN persisted ELSE carried

\* select_position_quote: the candidate unless the persisted price is newer,
\* else the persisted price, else the price the position carries.
SelectQuote(candidate, persisted, carried) ==
  IF candidate # NoPrice /\ candidate >= persisted THEN candidate
  ELSE IF persisted # NoPrice THEN persisted ELSE carried

\* _validate_persisted: the newest price on file counts only if it is in
\* the instrument's currency; of two observed at one time either is newest.
ValidPersisted(s, i) ==
  {price \in {SeenPrice(s, i), NoPrice} :
     IF price = NoPrice THEN SeenPrice(s, i) <= Foreign[i] ELSE price >= Foreign[i]}

QuotePosition(s, p) ==
  /\ p \in todo[s]
  /\ Flushed(s)
  /\ \E persisted \in ValidPersisted(s, InstrumentOf[p]) :
       LET i        == InstrumentOf[p]
           selected == SelectQuote(quotes[s][i], persisted, local[s][p]["latest_price"])
       IN  IF selected = NoPrice
           THEN /\ pc[s] = "select"
                /\ Visit(s, todo[s] \ {p})
                /\ UNCHANGED <<pc, newPrices, local, current>>
           ELSE /\ GoTo(s, "select", "write")
                /\ PriceUpserted(s, i, selected)
                /\ local' = [local EXCEPT ![s][p]["latest_price"] = selected]
                /\ current' = [current EXCEPT ![s] = p]
                /\ UNCHANGED todo
  /\ UNCHANGED <<rows, staged, lock, prices, runs, now, inputs, quotes, reviews,
                 override, notionVars>>

\* PositionRepository.upsert loads the row anew and assigns every column of
\* the object read before the provider was called.
WritePosition(s) ==
  /\ GoTo(s, "write", "select")
  /\ Flushed(s)
  /\ Assign(s, [q \in {current[s]} |-> Upserted(local[s][q])])
  /\ Visit(s, todo[s] \ {current[s]})
  /\ current' = [current EXCEPT ![s] = NoPosition]
  /\ UNCHANGED <<rows, lock, prices, newPrices, runs, now, local, inputs, quotes,
                 reviews, override, notionVars>>

PersistReview(s) ==
  /\ GoTo(s, "select", "commit")
  /\ todo[s] = {}
  /\ Flushed(s)
  /\ reviews' = [reviews EXCEPT ![s] = "staged"]
  /\ quotes' = [quotes EXCEPT ![s] = NoQuotes]
  /\ UNCHANGED <<storeVars, todo, runs, now, local, inputs, current,
                 override, notionVars>>

\* A commit makes the review rows staged with it visible.
CommitReview(s) ==
  reviews' = [reviews EXCEPT ![s] = IF @ = "staged" THEN "committed" ELSE @]

CommitMarket(s) ==
  /\ GoTo(s, "commit", "enrich")
  /\ FinishRun(s, "success")
  /\ CommitReview(s)
  /\ UNCHANGED <<todo, now, local, inputs, quotes, current, override, notionVars>>

(***************************************************************************)
(* After the commit: finance evidence, then Notion                         *)
(***************************************************************************)

\* The Position objects and what was fetched die with the request.
ForgetRefresh(s) ==
  /\ local' = [local EXCEPT ![s] = NoPositions]
  /\ inputs' = [inputs EXCEPT ![s] = NoInputs]
  /\ quotes' = [quotes EXCEPT ![s] = NoQuotes]
  /\ current' = [current EXCEPT ![s] = NoPosition]

NotionRun(s, status) == notionRuns' = [notionRuns EXCEPT ![s] = status]

StartNotionRun(s) ==
  /\ NotionConfigured
  /\ GoTo(s, "enrich", "sync")
  /\ NotionRun(s, "running")
  /\ Visit(s, Listed(s))
  /\ UNCHANGED <<storeVars, runs, now, refreshVars, override, pages, reviewPage>>

SyncPage(s, p) ==
  /\ pc[s] = "sync"
  /\ p \in todo[s]
  /\ pages' = [pages EXCEPT ![p] = s]
  /\ Visit(s, todo[s] \ {p})
  /\ UNCHANGED <<storeVars, pc, runs, now, refreshVars, override, reviewPage,
                 notionRuns>>

SyncReview(s) ==
  /\ GoTo(s, "sync", "synced")
  /\ todo[s] = {}
  /\ reviewPage' = s
  /\ UNCHANGED <<storeVars, todo, runs, now, refreshVars, override, pages,
                 notionRuns>>

FinishNotion(s) ==
  /\ GoTo(s, "synced", "done")
  /\ NotionRun(s, "success")
  /\ ForgetRefresh(s)
  /\ UNCHANGED <<storeVars, todo, runs, now, reviews, override, pages, reviewPage>>

\* Without Notion the pages go to an in-memory client and no run is kept.
FinishWithoutNotion(s) ==
  /\ ~NotionConfigured
  /\ GoTo(s, "enrich", "done")
  /\ ForgetRefresh(s)
  /\ UNCHANGED <<storeVars, todo, runs, now, reviews, override, notionVars>>

(***************************************************************************)
(* Errors                                                                  *)
(***************************************************************************)

\* Before the run exists an exception only ends the session.
FailsBeforeRun(s) ==
  /\ pc[s] \in {"inputs", "overrides", "start"}
  /\ pc' = [pc EXCEPT ![s] = "done"]
  /\ RollbackSession(s)
  /\ Visit(s, {})
  /\ ForgetRefresh(s)
  /\ UNCHANGED <<runs, now, reviews, override, notionVars>>

RefreshRaises(s) ==
  /\ pc[s] \in {"fetch", "select", "write", "commit"}
  /\ pc' = [pc EXCEPT ![s] = "failing"]
  /\ ForgetRefresh(s)
  /\ UNCHANGED <<storeVars, todo, runs, now, reviews, override, notionVars>>

\* Mutant: the review staged before the error is committed with the failure.
RollbackRefresh_KeepsReview(s) ==
  /\ RollbackFailed(s)
  /\ UNCHANGED <<local, inputs, quotes, current, reviews, override, notionVars>>

RollbackRefresh(s) ==
  /\ RollbackFailed(s)
  /\ reviews' = [reviews EXCEPT ![s] = "none"]
  /\ UNCHANGED <<local, inputs, quotes, current, override, notionVars>>

RecordRefreshFailed(s) ==
  /\ RecordFailed(s)
  /\ CommitReview(s)
  /\ UNCHANGED <<local, inputs, quotes, current, override, notionVars>>

\* A page cannot be written: the Notion run fails, the review stays.  There
\* is no rollback before the failure is recorded: if it was a statement that
\* failed, recording it raises again and the run stays RUNNING.
SyncFails(s) ==
  /\ pc[s] \in {"sync", "synced"}
  /\ pc' = [pc EXCEPT ![s] = "done"]
  /\ NotionRun(s, "failed") \/ UNCHANGED notionRuns
  /\ Visit(s, {})
  /\ ForgetRefresh(s)
  /\ UNCHANGED <<storeVars, runs, now, reviews, override, pages, reviewPage>>

\* The Notion run cannot even be started: outside every handler.
StartNotionFails(s) ==
  /\ NotionConfigured
  /\ GoTo(s, "enrich", "done")
  /\ ForgetRefresh(s)
  /\ UNCHANGED <<storeVars, todo, runs, now, reviews, override, notionVars>>

\* The user edits a position's `Cost Override'.
EditOverride(p, value) ==
  /\ NotionConfigured
  /\ override[p] # value
  /\ override' = [override EXCEPT ![p] = value]
  /\ UNCHANGED <<storeVars, jobVars, refreshVars, notionVars>>

RefreshTypeOK ==
  /\ local \in [Refreshers -> [Positions -> Row]]
  /\ inputs \in [Refreshers -> [Positions -> OverrideValues]]
  /\ quotes \in [Refreshers -> [Instruments -> Int]]
  /\ current \in [Refreshers -> Positions \cup {NoPosition}]
  /\ reviews \in [Refreshers -> {"none", "staged", "committed"}]
  /\ override \in [Positions -> OverrideValues]
  /\ pages \in [Positions -> Refreshers \cup {Nobody}]
  /\ reviewPage \in Refreshers \cup {Nobody}
  /\ notionRuns \in [Refreshers -> Statuses]

RefreshInit ==
  /\ local = [s \in Refreshers |-> NoPositions]
  /\ inputs = [s \in Refreshers |-> NoInputs]
  /\ quotes = [s \in Refreshers |-> NoQuotes]
  /\ current = [s \in Refreshers |-> NoPosition]
  /\ reviews = [s \in Refreshers |-> "none"]
  /\ override = NoInputs
  /\ pages = [p \in Positions |-> Nobody]
  /\ reviewPage = Nobody
  /\ notionRuns = [s \in Refreshers |-> "none"]
=============================================================================
