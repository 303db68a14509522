---------------------------- MODULE HistoricalData ----------------------------
(***************************************************************************)
(* HistoricalDataService, its router and its cache (market_data/history/   *)
(* and HistoricalDataRepository): a request for daily bars is answered     *)
(* from the database if the dataset its series shows covers the window;    *)
(* otherwise the providers are asked in order, and the first complete      *)
(* dataset becomes the one its series shows.  Every request has a session  *)
(* of its own, and holds no lock while a provider answers.                 *)
(***************************************************************************)
EXTENDS HistoricalCoverage, FiniteSets

CONSTANTS
  Requests,       \* requests for bars, each sent once; a dataset is named by its request
  Instruments,    \* portfolio instruments: their series are keyed by the internal id
  Listings,       \* symbol, exchange and currency: research series are keyed by these,
  Identified,     \* or by the internal id, if the caller names one
  IdOf,           \* the instrument each of those names
  MarketOf,       \* currency and venue of a listing, the venue "" if there is none
  Windows,        \* the windows asked for
  Fetchable,      \* the spans of bars a provider may return
  Today,          \* no bar is newer
  NumProviders,   \* the router's providers
  MaxConcurrent,  \* sessions that overlap
  Relistable,     \* instruments whose listing an import may change
  NoDataset, NoListing, NoInstrument

Keys == Instruments \cup Listings \cup Identified

ASSUME HistoricalConstants ==
  /\ Instruments \cap Listings = {}
  /\ Identified \cap (Instruments \cup Listings) = {}
  /\ IdOf \in [Identified -> Instruments]
  /\ Relistable \subseteq Instruments
  /\ Windows \subseteq Spans /\ \A w \in Windows : w.first <= w.last
  /\ Fetchable \subseteq Spans
  /\ Today \in Int
  /\ NumProviders \in Nat \ {0}
  /\ MaxConcurrent \in Nat
  /\ NoDataset \notin Requests
  /\ NoListing \notin Keys
  /\ NoInstrument \notin Keys

VARIABLES
  listing,   \* the instrument rows: the listing of each instrument
  identity,  \* historical_series: the listing of each series, NoListing if no row
  link,      \* historical_series.instrument_id
  active,    \* historical_series.active_dataset_id
  dataset,   \* historical_datasets, with the span of their bars
  clock,     \* time of the newest fetch
  pc,        \* where each request stands
  asked,     \* what it asks for, its instrument resolved
  tried,     \* the providers that refused it
  fetched,   \* the dataset it got
  found,     \* whether its save found the series row
  answer     \* its answer, "raised" or "failed" if it has none

storeVars   == <<identity, link, active, dataset>>
requestVars == <<asked, tried, fetched, found>>
vars == <<listing, storeVars, clock, pc, requestVars, answer>>

Kinds  == {"none", "fresh", "stale", "raised", "failed"}
Data   == [key : Keys, listing : Listings, span : Fetchable, at : Nat]
NoData == [key |-> NoListing]
Wants  == [key : Keys, listing : Listings, window : Windows, stale : BOOLEAN]
NoWant == [key |-> NoListing]

Running(r) == pc[r] \notin {"idle", "done"}

CanStart == Cardinality({r \in Requests : Running(r)}) < MaxConcurrent

GoTo(r, from, to) ==
  /\ pc[r] = from
  /\ pc' = [pc EXCEPT ![r] = to]

Done(r, from, kind, d) ==
  /\ GoTo(r, from, "done")
  /\ answer' = [answer EXCEPT ![r] = [kind |-> kind, dataset |-> d]]

(***************************************************************************)
(* The request: get_for_portfolio resolves the instrument's row, the       *)
(* identity of get_for_research is the caller's, who may name an           *)
(* instrument's id with any listing.                                       *)
(***************************************************************************)
Ask(r, key, lst, window, stale) ==
  /\ CanStart
  /\ GoTo(r, "idle", "lookup")
  /\ asked' = [asked EXCEPT ![r] = [key |-> key, listing |-> lst,
                                    window |-> window, stale |-> stale]]
  /\ UNCHANGED <<listing, storeVars, clock, tried, fetched, found, answer>>

AskPortfolio(r, window, stale) ==
  \E i \in Instruments : Ask(r, i, listing[i], window, stale)

AskResearch(r, window, stale) ==
  \E l \in Listings, k \in Listings \cup Identified :
    (k \in Identified \/ k = l) /\ Ask(r, k, l, window, stale)

(***************************************************************************)
(* The cache                                                               *)
(***************************************************************************)
\* Mutant: any active dataset of the series will do.
Serves_Active(k, window) == active[k] # NoDataset

Serves(k, window) ==
  active[k] # NoDataset /\ Covers(dataset[active[k]].span, window)

\* latest_covering
FindActive(r) ==
  LET key == asked[r].key IN
  /\ pc[r] = "lookup"
  /\ IF Serves(key, asked[r].window)
     THEN Done(r, "lookup", "fresh", active[key])
     ELSE /\ GoTo(r, "lookup", IF key \in Instruments THEN "linked" ELSE "fetch")
          /\ UNCHANGED answer
  /\ UNCHANGED <<listing, storeVars, clock, requestVars>>

\* latest_covering_for_instrument: the newest of the datasets that serve.
Linked(r) ==
  {k \in Keys : link[k] = asked[r].key /\ Serves(k, asked[r].window)}

FindLinked(r) ==
  /\ pc[r] = "linked"
  /\ IF Linked(r) # {}
     THEN \E k \in Linked(r) :
            /\ \A j \in Linked(r) : dataset[active[j]].at <= dataset[active[k]].at
            /\ Done(r, "linked", "fresh", active[k])
     ELSE GoTo(r, "linked", "fetch") /\ UNCHANGED answer
  /\ UNCHANGED <<listing, storeVars, clock, requestVars>>

(***************************************************************************)
(* The router: HistoricalDataRouter.fetch, one provider a step             *)
(***************************************************************************)
\* No mapping, not available, an error, or a dataset that fails validation.
ProviderRefuses(r) ==
  /\ tried' = [tried EXCEPT ![r] = @ + 1]
  /\ GoTo(r, "fetch", IF tried[r] + 1 < NumProviders THEN "fetch" ELSE "unavailable")
  /\ UNCHANGED <<listing, storeVars, clock, asked, fetched, found, answer>>

ProviderServes(r, span) ==
  /\ GoTo(r, "fetch", "save")
  /\ Accepts(span, asked[r].window, Today)
  /\ clock' = clock + 1
  /\ fetched' = [fetched EXCEPT ![r] = [key |-> asked[r].key, listing |-> asked[r].listing,
                                        span |-> span, at |-> clock + 1]]
  /\ UNCHANGED <<listing, storeVars, asked, tried, found, answer>>

\* The FAILED run is committed and, if it may be, the stale dataset read.
RecordFailure(r) ==
  /\ pc[r] = "unavailable"
  /\ IF asked[r].stale THEN GoTo(r, "unavailable", "stale") /\ UNCHANGED answer
                       ELSE Done(r, "unavailable", "raised", NoDataset)
  /\ UNCHANGED <<listing, storeVars, clock, requestVars>>

\* Mutant: the first dataset ever saved for the series.
Latest_First(k) ==
  IF active[k] = NoDataset THEN NoDataset
  ELSE CHOOSE d \in Requests : /\ dataset[d].key = k
                               /\ \A e \in Requests : dataset[e].key = k => dataset[d].at <= dataset[e].at

Latest(k) == active[k]

AnswerStale(r) ==
  /\ pc[r] = "stale"
  /\ LET d == Latest(asked[r].key) IN
     Done(r, "stale", IF d = NoDataset THEN "raised" ELSE "stale", d)
  /\ UNCHANGED <<listing, storeVars, clock, requestVars>>

(***************************************************************************)
(* save_dataset: the series row is read and its identity compared; then    *)
(* the row, the dataset and its bars are written, the series is pointed at *)
(* the dataset and the transaction commits with its SUCCESS run.           *)
(***************************************************************************)
Exists(k) == identity[k] # NoListing

\* Mutant: the row found is taken for the listing's.
Mismatch_Never(r) == FALSE

Mismatch(r) ==
  Exists(asked[r].key) /\ identity[asked[r].key] # asked[r].listing

FindSeries(r) ==
  /\ pc[r] = "save"
  /\ IF Mismatch(r) THEN Done(r, "save", "raised", NoDataset) /\ UNCHANGED found
     ELSE /\ GoTo(r, "save", "commit")
          /\ found' = [found EXCEPT ![r] = Exists(asked[r].key)]
          /\ UNCHANGED answer
  /\ UNCHANGED <<listing, storeVars, clock, asked, tried, fetched>>

\* Mutant: the row is inserted on every save.
Collides_Always(r) == Exists(asked[r].key)

\* The INSERT of a row that another session has inserted since.
Collides(r) == ~found[r] /\ Exists(asked[r].key)

\* The instrument a series is created with: save_dataset takes the id of
\* the request as it comes, and compares no listing.
InstrumentOf(k) ==
  IF k \in Instruments THEN k ELSE IF k \in Identified THEN IdOf[k] ELSE NoInstrument

CommitDataset(r) ==
  LET key == asked[r].key IN
  /\ pc[r] = "commit"
  /\ ~Collides(r)
  /\ dataset' = [dataset EXCEPT ![r] = fetched[r]]
  /\ active' = [active EXCEPT ![key] = r]
  /\ IF found[r] THEN UNCHANGED <<identity, link>>
     ELSE /\ identity' = [identity EXCEPT ![key] = asked[r].listing]
          /\ link' = [link EXCEPT ![key] = InstrumentOf(key)]
  /\ Done(r, "commit", "fresh", r)
  /\ UNCHANGED <<listing, clock, requestVars>>

SaveCollides(r) ==
  /\ pc[r] = "commit"
  /\ Collides(r)
  /\ Done(r, "commit", "raised", NoDataset)
  /\ UNCHANGED <<listing, storeVars, clock, requestVars>>

\* The database or the process goes away, and with it what was not committed.
Fails(r) ==
  /\ Running(r)
  /\ Done(r, pc[r], "failed", NoDataset)
  /\ UNCHANGED <<listing, storeVars, clock, requestVars>>

(***************************************************************************)
(* Other sessions: promote_series links a series to an instrument of its   *)
(* market; an import that matches an instrument by an identifier rewrites  *)
(* its row (_resolve_instrument_record).                                   *)
(***************************************************************************)
SameMarket(l, m) ==
  /\ MarketOf[l].currency = MarketOf[m].currency
  /\ \/ MarketOf[l].venue = MarketOf[m].venue
     \/ "" \in {MarketOf[l].venue, MarketOf[m].venue}

\* Mutant: any instrument will do.
MayLink_Any(k, i) == Exists(k)

MayLink(k, i) == Exists(k) /\ SameMarket(identity[k], listing[i])

Promote(k, i) ==
  /\ CanStart
  /\ MayLink(k, i)
  /\ link' = [link EXCEPT ![k] = i]
  /\ UNCHANGED <<listing, identity, active, dataset, clock, pc, requestVars, answer>>

Relist(i, l) ==
  /\ CanStart
  /\ i \in Relistable
  /\ listing' = [listing EXCEPT ![i] = l]
  /\ UNCHANGED <<storeVars, clock, pc, requestVars, answer>>

Init ==
  /\ listing \in [Instruments -> Listings]
  /\ identity = [k \in Keys |-> NoListing]
  /\ link = [k \in Keys |-> NoInstrument]
  /\ active = [k \in Keys |-> NoDataset]
  /\ dataset = [r \in Requests |-> NoData]
  /\ clock = 0
  /\ pc = [r \in Requests |-> "idle"]
  /\ asked = [r \in Requests |-> NoWant]
  /\ tried = [r \in Requests |-> 0]
  /\ fetched = [r \in Requests |-> NoData]
  /\ found = [r \in Requests |-> FALSE]
  /\ answer = [r \in Requests |-> [kind |-> "none", dataset |-> NoDataset]]

Step(r) ==
  \/ FindActive(r)
  \/ FindLinked(r)
  \/ ProviderRefuses(r)
  \/ \E span \in Fetchable : ProviderServes(r, span)
  \/ RecordFailure(r)
  \/ AnswerStale(r)
  \/ FindSeries(r)
  \/ CommitDataset(r)
  \/ SaveCollides(r)

Next ==
  \/ \E r \in Requests :
       \/ \E window \in Windows, stale \in BOOLEAN :
            AskPortfolio(r, window, stale) \/ AskResearch(r, window, stale)
       \/ Step(r)
       \/ Fails(r)
  \/ \E i \in Instruments :
       \/ \E k \in Keys : Promote(k, i)
       \/ \E l \in Listings : Relist(i, l)

Spec == Init /\ [][Next]_vars

-----------------------------------------------------------------------------
TypeOK ==
  /\ listing \in [Instruments -> Listings]
  /\ identity \in [Keys -> Listings \cup {NoListing}]
  /\ link \in [Keys -> Instruments \cup {NoInstrument}]
  /\ active \in [Keys -> Requests \cup {NoDataset}]
  /\ dataset \in [Requests -> Data \cup {NoData}]
  /\ clock \in Nat
  /\ pc \in [Requests -> {"idle", "lookup", "linked", "fetch", "unavailable", "stale",
                          "save", "commit", "done"}]
  /\ asked \in [Requests -> Wants \cup {NoWant}]
  /\ tried \in [Requests -> 0 .. NumProviders]
  /\ fetched \in [Requests -> Data \cup {NoData}]
  /\ found \in [Requests -> BOOLEAN]
  /\ answer \in [Requests -> [kind : Kinds, dataset : Requests \cup {NoDataset}]]

(***************************************************************************)
(* What every request has done when it stands where it stands, and every   *)
(* series when it shows a dataset: the inductive invariant.  A save that   *)
(* found a row still has a row of its own listing when it commits, though  *)
(* other saves, promotions and relistings commit in between: a row never   *)
(* changes its listing (repositories.py:276-306).                          *)
(***************************************************************************)
RequestInv(r) ==
  /\ pc[r] = "idle" <=> asked[r] = NoWant
  /\ pc[r] = "done" <=> answer[r].kind # "none"
  /\ pc[r] \in {"idle", "lookup", "linked", "fetch"} => tried[r] < NumProviders
  /\ pc[r] = "stale" => asked[r].stale
  /\ pc[r] \in {"save", "commit"} =>
       /\ fetched[r] # NoData
       /\ fetched[r].key = asked[r].key
       /\ fetched[r].listing = asked[r].listing
       /\ Holds(fetched[r].span, asked[r].window)
  /\ pc[r] = "commit" /\ found[r] => identity[asked[r].key] = asked[r].listing
  /\ pc[r] # "done" => dataset[r] = NoData
  /\ answer[r].kind = "fresh" =>
       /\ answer[r].dataset # NoDataset
       /\ dataset[answer[r].dataset] # NoData
       /\ Holds(dataset[answer[r].dataset].span, asked[r].window)

SeriesInv(k) ==
  /\ active[k] # NoDataset <=> Exists(k)
  /\ active[k] # NoDataset =>
       /\ dataset[active[k]].key = k
       /\ dataset[active[k]].listing = identity[k]

HistoryInv ==
  /\ \A r \in Requests : RequestInv(r)
  /\ \A k \in Keys : SeriesInv(k)

(***************************************************************************)
(* The dataset a series shows is published, was fetched for that series    *)
(* and holds bars of the series' own listing, even while imports relist    *)
(* the instrument between a request's resolution and its save              *)
(* (repositories.py:276-306, 438-448).                                     *)
(***************************************************************************)
SeriesShowsItsListing ==
  \A k \in Keys : active[k] # NoDataset =>
    /\ dataset[active[k]].key = k
    /\ dataset[active[k]].listing = identity[k]

(***************************************************************************)
(* A fresh answer holds every session of the window that was asked for,    *)
(* whether it was fetched and validated (validation.py:84-99) or read from *)
(* the cache by the other test (repositories.py:479-496).                  *)
(***************************************************************************)
FreshAnswersAreComplete ==
  \A r \in Requests : answer[r].kind = "fresh" =>
    Holds(dataset[answer[r].dataset].span, asked[r].window)

(***************************************************************************)
(* Unless an import relists its own instrument, or a research request that *)
(* names its id claims another market, a fresh answer is of the market the *)
(* request resolved to, through promotions of any series at any time:      *)
(* promote_series links a series only to an instrument of its currency     *)
(* and, where both have one, of its venue; save_dataset links it to the id *)
(* of the request that creates it (repositories.py:287-300, 390-436).      *)
(***************************************************************************)
ClaimsAgree(r) ==
  \A q \in Requests :
    asked[q].key \in Identified /\ IdOf[asked[q].key] = InstrumentOf(asked[r].key) =>
      SameMarket(asked[q].listing, asked[r].listing)

AnswersFollowTheMarket ==
  \A r \in Requests :
    answer[r].kind = "fresh" /\ asked[r].key \notin Relistable /\ ClaimsAgree(r) =>
      SameMarket(dataset[answer[r].dataset].listing, asked[r].listing)

(***************************************************************************)
(* A stale answer is the last dataset of its series that passed            *)
(* validation: callers accept "the last validated dataset" (README.md:258).*)
(***************************************************************************)
StaleIsLastValidated ==
  [][\A r \in Requests :
       answer[r].kind # "stale" /\ answer'[r].kind = "stale" =>
         \A q \in Requests : dataset[q].key = asked[r].key =>
           dataset[q].at <= dataset[answer'[r].dataset].at]_vars

(***************************************************************************)
(* A dataset that passed validation is saved, unless the database or the   *)
(* process goes away, or its series is asked for with two listings: "an    *)
(* uncovered range triggers the router and persists the accepted dataset"  *)
(* (docs/superpowers/plans/2026-07-16-finance-library-historical-data-     *)
(* routing.md:850).                                                        *)
(***************************************************************************)
AskedWithOneListing(k) ==
  \A r, q \in Requests :
    asked[r].key = k /\ asked[q].key = k => asked[r].listing = asked[q].listing

AcceptedIsPersisted ==
  \A r \in Requests : fetched[r] # NoData /\ AskedWithOneListing(asked[r].key) =>
    answer[r].kind # "raised"

(***************************************************************************)
(* No provider is asked while a series the request may read shows a        *)
(* dataset validation would accept for its window: "an existing active     *)
(* dataset covering the requested range causes no provider call"           *)
(* (line 849 of the same).                                                 *)
(***************************************************************************)
CoveredIsNotFetched ==
  [][\A r \in Requests :
       pc[r] = "fetch" /\ (tried'[r] # tried[r] \/ fetched'[r] # fetched[r]) =>
         ~ \E k \in Keys : /\ asked[r].key \in {k, link[k]}
                           /\ active[k] # NoDataset
                           /\ Accepts(dataset[active[k]].span, asked[r].window, Today)]_vars

(***************************************************************************)
(* The service implements HistoricalAnswers: whatever overlaps or fails,   *)
(* a dataset is published whole, with the answer that carries it, and an   *)
(* answer is what its series showed when it was given (service.py:72-121). *)
(***************************************************************************)
Published ==
  [r \in Requests |->
     IF dataset[r] = NoData THEN NoData
     ELSE [key |-> dataset[r].key, listing |-> dataset[r].listing, span |-> dataset[r].span]]

Answers == INSTANCE HistoricalAnswers
             WITH Owners <- Instruments \cup {NoInstrument}, dataset <- Published

ImplementsAnswers == Answers!Spec
=============================================================================
