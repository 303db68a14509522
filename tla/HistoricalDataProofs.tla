------------------------- MODULE HistoricalDataProofs -------------------------
(***************************************************************************)
(* What the historical-data service keeps for any number of requests,      *)
(* series and providers, and that it implements HistoricalAnswers.         *)
(***************************************************************************)
EXTENDS HistoricalData, FiniteSetTheorems, TLAPS

(***************************************************************************)
(* The first and last session of a window.                                 *)
(***************************************************************************)
LEMMA NextSessionIsFirst ==
  ASSUME NEW day \in Int
  PROVE  /\ NextSession(day) \in Int /\ NextSession(day) >= day
         /\ Session(NextSession(day))
         /\ \A d \in Int : d >= day /\ Session(d) => NextSession(day) <= d
<1>1. CASE day % 7 = 5
  BY <1>1 DEF NextSession, Session
<1>2. CASE day % 7 = 6
  BY <1>2 DEF NextSession, Session
<1>3. CASE day % 7 # 5 /\ day % 7 # 6
  BY <1>3 DEF NextSession, Session
<1> QED
  BY <1>1, <1>2, <1>3

LEMMA PreviousSessionIsLast ==
  ASSUME NEW day \in Int
  PROVE  /\ PreviousSession(day) \in Int /\ PreviousSession(day) <= day
         /\ Session(PreviousSession(day))
         /\ \A d \in Int : d <= day /\ Session(d) => d <= PreviousSession(day)
<1>1. CASE day % 7 = 5
  BY <1>1 DEF PreviousSession, Session
<1>2. CASE day % 7 = 6
  BY <1>2 DEF PreviousSession, Session
<1>3. CASE day % 7 # 5 /\ day % 7 # 6
  BY <1>3 DEF PreviousSession, Session
<1> QED
  BY <1>1, <1>2, <1>3

LEMMA CoversHolds ==
  ASSUME NEW span \in Spans, NEW window \in Spans, Covers(span, window)
  PROVE  Holds(span, window)
BY NextSessionIsFirst, PreviousSessionIsLast DEF Covers, Holds, SessionsOf, Spans

(***************************************************************************)
(* For a window with a session, the cache covers exactly what validation   *)
(* accepts: what was fetched for it is reused for it.                      *)
(***************************************************************************)
THEOREM AcceptedIsCovered ==
  ASSUME NEW span \in Spans, NEW window \in Spans, NEW today \in Int,
         SessionsOf(window) # {}
  PROVE  Accepts(span, window, today) <=> Covers(span, window) /\ span.last <= today
<1>1. PICK day \in Int : window.first <= day /\ day <= window.last /\ Session(day)
  BY DEF SessionsOf, Spans
<1>2. /\ NextSession(window.first) \in SessionsOf(window)
      /\ PreviousSession(window.last) \in SessionsOf(window)
      /\ NextSession(window.first) <= PreviousSession(window.last)
  BY <1>1, NextSessionIsFirst, PreviousSessionIsLast DEF SessionsOf, Spans
<1>3. ASSUME Accepts(span, window, today)
      PROVE  Covers(span, window) /\ span.last <= today
  BY <1>2, <1>3 DEF Accepts, Covers
<1>4. ASSUME Covers(span, window), span.last <= today
      PROVE  Accepts(span, window, today)
  BY <1>4, CoversHolds DEF Accepts, Holds
<1> QED
  BY <1>3, <1>4

LEMMA AcceptsHolds ==
  ASSUME NEW span, NEW window, NEW today, Accepts(span, window, today)
  PROVE  Holds(span, window)
BY DEF Accepts, Holds

-----------------------------------------------------------------------------
(***************************************************************************)
(* Types                                                                   *)
(***************************************************************************)
LEMMA AskedIsKnown ==
  ASSUME TypeOK, NEW r \in Requests, asked[r] # NoWant
  PROVE  asked[r] \in Wants
BY DEF TypeOK

LEMMA GivenTypes ==
  /\ NoWant \notin Wants /\ NoData \notin Data
  /\ \A w \in Wants : w.key \in Keys /\ w.listing \in Listings /\ w.window \in Spans
                      /\ w.stale \in BOOLEAN
  /\ \A d \in Data : d.key \in Keys /\ d.listing \in Listings /\ d.span \in Spans
<1>1. \A w \in Wants : w.key \in Keys /\ w.listing \in Listings /\ w.window \in Spans
                      /\ w.stale \in BOOLEAN
  BY HistoricalConstants DEF Wants
<1>2. \A d \in Data : d.key \in Keys /\ d.listing \in Listings /\ d.span \in Spans
  BY HistoricalConstants DEF Data
<1>3. NoWant.key \notin Keys /\ NoData.key \notin Keys
  BY HistoricalConstants DEF NoWant, NoData
<1> QED
  BY <1>1, <1>2, <1>3

LEMMA InstrumentOfTypes ==
  \A k \in Keys : InstrumentOf(k) \in Instruments \cup {NoInstrument}
BY HistoricalConstants DEF InstrumentOf, Keys

LEMMA InitHistory == Init => TypeOK /\ HistoryInv
<1> SUFFICES ASSUME Init PROVE TypeOK /\ HistoryInv
  OBVIOUS
<1>1. TypeOK
  BY HistoricalConstants DEF Init, TypeOK, Kinds
<1>2. ASSUME NEW r \in Requests PROVE RequestInv(r)
  BY HistoricalConstants DEF Init, RequestInv
<1>3. ASSUME NEW k \in Keys PROVE SeriesInv(k)
  BY DEF Init, SeriesInv, Exists
<1> QED
  BY <1>1, <1>2, <1>3 DEF HistoryInv

LEMMA StepTypes ==
  ASSUME TypeOK, HistoryInv, [Next]_vars
  PROVE  TypeOK'
<1> USE DEF TypeOK
<1>1. ASSUME NEW r \in Requests, NEW window \in Windows, NEW stale \in BOOLEAN,
             AskPortfolio(r, window, stale) \/ AskResearch(r, window, stale)
      PROVE  TypeOK'
  <2>1. PICK key \in Keys, lst \in Listings : Ask(r, key, lst, window, stale)
    BY <1>1 DEF AskPortfolio, AskResearch, Keys
  <2> QED
    BY <2>1 DEF Ask, GoTo, Wants, storeVars
<1>2. ASSUME NEW r \in Requests, Step(r) \/ Fails(r)
      PROVE  TypeOK'
  <2> DEFINE want == asked[r]
  <2>r. RequestInv(r)
    BY DEF HistoryInv
  <2>w. want.key \in Keys /\ want.listing \in Listings
    BY <1>2, <2>r, GivenTypes
       DEF Step, FindActive, FindLinked, ProviderRefuses, ProviderServes, RecordFailure,
           AnswerStale, FindSeries, CommitDataset, SaveCollides, Fails, Running, GoTo, RequestInv
  <2>1. CASE FindActive(r)
    BY <2>1, <2>w DEF FindActive, Serves, Done, GoTo, Kinds, storeVars, requestVars
  <2>2. CASE FindLinked(r)
    BY <2>2 DEF FindLinked, Linked, Done, GoTo, Kinds, storeVars, requestVars
  <2>3. CASE ProviderRefuses(r)
    BY <2>3, <2>r, HistoricalConstants DEF ProviderRefuses, RequestInv, GoTo, storeVars
  <2>4. CASE \E span \in Fetchable : ProviderServes(r, span)
    <3>1. PICK span \in Fetchable : ProviderServes(r, span)
      BY <2>4
    <3> QED
      BY <3>1, <2>w DEF ProviderServes, GoTo, Data, storeVars
  <2>5. CASE RecordFailure(r)
    BY <2>5 DEF RecordFailure, Done, GoTo, Kinds, storeVars, requestVars
  <2>6. CASE AnswerStale(r)
    BY <2>6, <2>w DEF AnswerStale, Latest, Done, GoTo, Kinds, storeVars, requestVars
  <2>7. CASE FindSeries(r)
    <3>1. Exists(want.key) \in BOOLEAN
      BY DEF Exists
    <3>2. PICK b \in BOOLEAN : found' = found \/ found' = [found EXCEPT ![r] = b]
      <4>1. CASE Mismatch(r)
        BY <2>7, <4>1, Zenon DEF FindSeries
      <4>2. CASE ~Mismatch(r)
        BY <2>7, <3>1, <4>2, Zenon DEF FindSeries
      <4> QED
        BY <4>1, <4>2
    <3>3. found' \in [Requests -> BOOLEAN]
      BY <3>2
    <3> QED
      BY <2>7, <3>3 DEF FindSeries, Done, GoTo, Kinds, storeVars
  <2>8. CASE CommitDataset(r)
    BY <2>8, <2>w, InstrumentOfTypes DEF CommitDataset, Done, GoTo, Kinds, requestVars
  <2>9. CASE SaveCollides(r)
    BY <2>9 DEF SaveCollides, Done, GoTo, Kinds, storeVars, requestVars
  <2>10. CASE Fails(r)
    BY <2>10 DEF Fails, Done, GoTo, Kinds, storeVars, requestVars
  <2> QED
    BY <1>2, <2>1, <2>2, <2>3, <2>4, <2>5, <2>6, <2>7, <2>8, <2>9, <2>10 DEF Step
<1>3. ASSUME NEW i \in Instruments, NEW k \in Keys, Promote(k, i)
      PROVE  TypeOK'
  BY <1>3 DEF Promote, requestVars
<1>4. ASSUME NEW i \in Instruments, NEW l \in Listings, Relist(i, l)
      PROVE  TypeOK'
  BY <1>4 DEF Relist, storeVars, requestVars
<1>5. CASE UNCHANGED vars
  BY <1>5 DEF vars, storeVars, requestVars
<1> QED
  BY <1>1, <1>2, <1>3, <1>4, <1>5 DEF Next

-----------------------------------------------------------------------------
(***************************************************************************)
(* The inductive invariant.  Rows and datasets never change once they are  *)
(* there, which is all a request needs of the steps of the others.         *)
(***************************************************************************)
Grows ==
  /\ \A k \in Keys : Exists(k) => identity'[k] = identity[k]
  /\ \A d \in Requests : dataset[d] # NoData => dataset'[d] = dataset[d]

Same(q) ==
  /\ pc'[q] = pc[q] /\ answer'[q] = answer[q] /\ asked'[q] = asked[q]
  /\ tried'[q] = tried[q] /\ fetched'[q] = fetched[q] /\ found'[q] = found[q]

LEMMA RequestFrame ==
  ASSUME TypeOK, NEW q \in Requests, RequestInv(q), Grows, Same(q),
         dataset'[q] = dataset[q]
  PROVE  RequestInv(q)'
<1>1. pc[q] = "commit" /\ found[q] => identity'[asked[q].key] = identity[asked[q].key]
  <2> SUFFICES ASSUME pc[q] = "commit", found[q]
               PROVE  identity'[asked[q].key] = identity[asked[q].key]
    OBVIOUS
  <2>1. asked[q].key \in Keys /\ asked[q].listing \in Listings
    BY AskedIsKnown, GivenTypes DEF RequestInv
  <2>2. Exists(asked[q].key)
    BY <2>1, HistoricalConstants DEF RequestInv, Exists, Keys
  <2> QED
    BY <2>1, <2>2 DEF Grows
<1>2. answer[q].kind = "fresh" =>
        dataset'[answer[q].dataset] = dataset[answer[q].dataset]
  BY DEF RequestInv, TypeOK, Grows
<1> QED
  BY <1>1, <1>2 DEF RequestInv, Same

LEMMA SeriesFrame ==
  ASSUME TypeOK, NEW k \in Keys, SeriesInv(k), UNCHANGED <<identity, active, dataset>>
  PROVE  SeriesInv(k)'
BY DEF SeriesInv, Exists

\* A step of one request that leaves the tables as they are.
LEMMA RequestStep ==
  ASSUME TypeOK, HistoryInv, UNCHANGED <<identity, active, dataset>>,
         NEW r \in Requests, \A q \in Requests \ {r} : Same(q), RequestInv(r)'
  PROVE  HistoryInv'
<1>1. Grows
  BY DEF Grows
<1>2. ASSUME NEW q \in Requests PROVE RequestInv(q)'
  BY <1>1, RequestFrame DEF HistoryInv
<1>3. ASSUME NEW k \in Keys PROVE SeriesInv(k)'
  BY SeriesFrame DEF HistoryInv
<1> QED
  BY <1>2, <1>3 DEF HistoryInv

\* A step of no request that leaves them as they are, or only links a series.
LEMMA OtherStep ==
  ASSUME TypeOK, HistoryInv, UNCHANGED <<identity, active, dataset, pc, requestVars, answer>>
  PROVE  HistoryInv'
<1>1. Grows /\ \A q \in Requests : Same(q)
  BY DEF Grows, Same, requestVars
<1>2. ASSUME NEW q \in Requests PROVE RequestInv(q)'
  BY <1>1, RequestFrame DEF HistoryInv
<1>3. ASSUME NEW k \in Keys PROVE SeriesInv(k)'
  BY SeriesFrame DEF HistoryInv
<1> QED
  BY <1>2, <1>3 DEF HistoryInv

\* What the cache serves has every session of the window.
LEMMA ServedHolds ==
  ASSUME TypeOK, HistoryInv, NEW k \in Keys, NEW window \in Spans, Serves(k, window)
  PROVE  /\ active[k] \in Requests /\ dataset[active[k]] # NoData
         /\ Holds(dataset[active[k]].span, window)
<1>1. active[k] \in Requests /\ dataset[active[k]].key = k
  BY DEF TypeOK, Serves, HistoryInv, SeriesInv
<1>2. dataset[active[k]] # NoData
  BY <1>1, HistoricalConstants DEF NoData
<1>3. dataset[active[k]].span \in Spans
  BY <1>1, <1>2, GivenTypes DEF TypeOK
<1> QED
  BY <1>1, <1>2, <1>3, CoversHolds DEF Serves

LEMMA CommitStep ==
  ASSUME TypeOK, HistoryInv, NEW r \in Requests, CommitDataset(r)
  PROVE  HistoryInv'
<1> DEFINE key == asked[r].key
<1>r. RequestInv(r) /\ pc[r] = "commit"
  BY DEF HistoryInv, CommitDataset
<1>w. key \in Keys /\ asked[r].listing \in Listings
  BY <1>r, AskedIsKnown, GivenTypes DEF RequestInv
<1>1. /\ identity' \in [Keys -> Listings \cup {NoListing}]
      /\ identity'[key] = asked[r].listing
      /\ \A k \in Keys \ {key} : identity'[k] = identity[k]
  BY <1>r, <1>w DEF CommitDataset, RequestInv, TypeOK
<1>2. Grows
  <2>1. Exists(key) => identity'[key] = identity[key]
    BY <1>r, <1>1 DEF CommitDataset, Collides, RequestInv
  <2>2. \A d \in Requests : dataset[d] # NoData => dataset'[d] = dataset[d]
    BY <1>r DEF CommitDataset, RequestInv, TypeOK
  <2> QED
    BY <1>1, <2>1, <2>2 DEF Grows
<1>3. dataset'[r] = fetched[r] /\ \A q \in Requests \ {r} : dataset'[q] = dataset[q]
  BY DEF CommitDataset, TypeOK
<1>4. \A q \in Requests \ {r} : Same(q)
  BY DEF CommitDataset, Done, GoTo, Same, requestVars, TypeOK
<1>5. RequestInv(r)'
  <2>1. /\ pc'[r] = "done" /\ answer'[r] = [kind |-> "fresh", dataset |-> r]
        /\ UNCHANGED requestVars
    BY DEF CommitDataset, Done, GoTo, TypeOK
  <2> QED
    BY <1>r, <1>3, <2>1, HistoricalConstants DEF RequestInv, requestVars
<1>6. ASSUME NEW q \in Requests PROVE RequestInv(q)'
  BY <1>2, <1>3, <1>4, <1>5, RequestFrame DEF HistoryInv
<1>7. ASSUME NEW k \in Keys PROVE SeriesInv(k)'
  <2>1. active'[key] = r /\ \A j \in Keys \ {key} : active'[j] = active[j]
    BY <1>w DEF CommitDataset, TypeOK
  <2>2. CASE k = key
    BY <1>r, <1>w, <1>1, <1>3, <2>1, <2>2, HistoricalConstants
       DEF SeriesInv, RequestInv, Exists, Keys
  <2>3. CASE k # key
    <3>1. active[k] # NoDataset => active[k] # r
      BY <1>r, HistoricalConstants DEF HistoryInv, SeriesInv, RequestInv, NoData
    <3> QED
      BY <1>1, <1>3, <2>1, <2>3, <3>1 DEF HistoryInv, SeriesInv, Exists, TypeOK
  <2> QED
    BY <2>2, <2>3
<1> QED
  BY <1>6, <1>7 DEF HistoryInv

LEMMA StepHistory ==
  ASSUME TypeOK, TypeOK', HistoryInv, [Next]_vars
  PROVE  HistoryInv'
<1>1. ASSUME NEW r \in Requests, NEW window \in Windows, NEW stale \in BOOLEAN,
             AskPortfolio(r, window, stale) \/ AskResearch(r, window, stale)
      PROVE  HistoryInv'
  <2>1. PICK key \in Keys, lst \in Listings : Ask(r, key, lst, window, stale)
    BY <1>1 DEF AskPortfolio, AskResearch, Keys, TypeOK
  <2>2. UNCHANGED <<identity, active, dataset>> /\ \A q \in Requests \ {r} : Same(q)
    BY <2>1 DEF Ask, GoTo, Same, storeVars, TypeOK
  <2>3. asked'[r].key = key /\ key # NoListing
    BY <2>1, HistoricalConstants DEF Ask, TypeOK
  <2>4. RequestInv(r)'
    BY <2>1, <2>3, HistoricalConstants DEF Ask, GoTo, storeVars, HistoryInv, RequestInv, NoWant, TypeOK
  <2> QED
    BY <2>2, <2>4, RequestStep
<1>2. ASSUME NEW r \in Requests, Step(r) \/ Fails(r)
      PROVE  HistoryInv'
  <2>r. RequestInv(r)
    BY DEF HistoryInv
  <2>p. pc[r] # "idle" /\ pc[r] # "done"
    BY <1>2 DEF Step, FindActive, FindLinked, ProviderRefuses, ProviderServes, RecordFailure,
           AnswerStale, FindSeries, CommitDataset, SaveCollides, Fails, Running, GoTo
  <2>w. /\ asked[r] # NoWant /\ asked[r].key \in Keys /\ asked[r].listing \in Listings
        /\ asked[r].window \in Spans
    BY <2>r, <2>p, AskedIsKnown, GivenTypes DEF RequestInv
  <2>1. CASE CommitDataset(r)
    BY <2>1, CommitStep
  <2>2. CASE ~CommitDataset(r)
    <3>1. UNCHANGED <<identity, active, dataset>> /\ \A q \in Requests \ {r} : Same(q)
      BY <1>2, <2>2
         DEF Step, FindActive, FindLinked, ProviderRefuses, ProviderServes, RecordFailure,
             AnswerStale, FindSeries, SaveCollides, Fails, Done, GoTo, Same, storeVars,
             requestVars, TypeOK
    <3>2. asked'[r] = asked[r]
      BY <1>2, <2>2
         DEF Step, FindActive, FindLinked, ProviderRefuses, ProviderServes, RecordFailure,
             AnswerStale, FindSeries, SaveCollides, Fails, requestVars
    <3> SUFFICES RequestInv(r)'
      BY <3>1, RequestStep
    <3>3. ASSUME NEW k \in Keys, Serves(k, asked[r].window), pc'[r] = "done",
                 answer'[r] = [kind |-> "fresh", dataset |-> active[k]]
          PROVE  RequestInv(r)'
      <4>1. /\ active[k] \in Requests /\ dataset[active[k]] # NoData
            /\ Holds(dataset[active[k]].span, asked[r].window)
        BY <2>w, <3>3, ServedHolds
      <4> QED
        BY <2>w, <3>1, <3>2, <3>3, <4>1, HistoricalConstants DEF RequestInv
    <3>4. ASSUME pc'[r] = "done", answer'[r].kind \in {"stale", "raised", "failed"}
          PROVE  RequestInv(r)'
      BY <2>w, <3>2, <3>4 DEF RequestInv
    <3>5. CASE FindActive(r)
      <4>1. CASE Serves(asked[r].key, asked[r].window)
        BY <2>w, <3>3, <3>5, <4>1 DEF FindActive, Done, GoTo, TypeOK
      <4>2. CASE ~Serves(asked[r].key, asked[r].window)
        BY <2>r, <2>w, <3>1, <3>5, <4>2 DEF FindActive, GoTo, RequestInv, requestVars, TypeOK
      <4> QED
        BY <4>1, <4>2
    <3>6. CASE FindLinked(r)
      <4>1. CASE Linked(r) # {}
        BY <3>3, <3>6, <4>1 DEF FindLinked, Linked, Done, GoTo, TypeOK
      <4>2. CASE Linked(r) = {}
        BY <2>r, <2>w, <3>1, <3>6, <4>2 DEF FindLinked, GoTo, RequestInv, requestVars, TypeOK
      <4> QED
        BY <4>1, <4>2
    <3>7. CASE ProviderRefuses(r)
      BY <2>r, <2>w, <3>1, <3>7, HistoricalConstants
         DEF ProviderRefuses, GoTo, RequestInv, storeVars, TypeOK
    <3>8. CASE \E span \in Fetchable : ProviderServes(r, span)
      <4>1. PICK span \in Fetchable : ProviderServes(r, span)
        BY <3>8
      <4>2. Holds(span, asked[r].window)
        BY <4>1, AcceptsHolds DEF ProviderServes
      <4>3. /\ fetched'[r].key = asked[r].key /\ fetched'[r].listing = asked[r].listing
            /\ fetched'[r].span = span
        BY <4>1 DEF ProviderServes, TypeOK
      <4>4. fetched'[r] # NoData
        BY <2>w, <4>3, HistoricalConstants DEF NoData
      <4> QED
        BY <2>r, <2>w, <4>1, <4>2, <4>3, <4>4 DEF ProviderServes, GoTo, RequestInv, storeVars, TypeOK
    <3>9. CASE RecordFailure(r)
      <4>1. CASE asked[r].stale
        BY <2>r, <2>w, <3>1, <3>9, <4>1 DEF RecordFailure, GoTo, RequestInv, requestVars, TypeOK
      <4> QED
        BY <3>4, <3>9, <4>1 DEF RecordFailure, Done, GoTo, TypeOK
    <3>10. CASE AnswerStale(r)
      BY <3>4, <3>10 DEF AnswerStale, Done, GoTo, TypeOK
    <3>11. CASE FindSeries(r)
      <4>1. CASE ~Mismatch(r)
        <5>1. /\ pc[r] = "save" /\ pc'[r] = "commit" /\ answer' = answer
              /\ UNCHANGED <<storeVars, asked, tried, fetched>>
          BY <3>11, <4>1 DEF FindSeries, GoTo, TypeOK
        <5>2. found'[r] => Exists(asked[r].key)
          BY <3>11, <4>1 DEF FindSeries, TypeOK
        <5>3. found'[r] => identity[asked[r].key] = asked[r].listing
          BY <4>1, <5>2 DEF Mismatch
        <5> QED
          BY <2>r, <2>w, <5>1, <5>3 DEF RequestInv, storeVars
      <4> QED
        BY <3>4, <3>11, <4>1 DEF FindSeries, Done, GoTo, TypeOK
    <3>12. CASE SaveCollides(r) \/ Fails(r)
      BY <3>4, <3>12 DEF SaveCollides, Fails, Done, GoTo, TypeOK
    <3> QED
      BY <1>2, <2>2, <3>5, <3>6, <3>7, <3>8, <3>9, <3>10, <3>11, <3>12 DEF Step
  <2> QED
    BY <2>1, <2>2
<1>3. ASSUME NEW i \in Instruments, NEW k \in Keys, Promote(k, i)
      PROVE  HistoryInv'
  BY <1>3, OtherStep DEF Promote
<1>4. ASSUME NEW i \in Instruments, NEW l \in Listings, Relist(i, l)
      PROVE  HistoryInv'
  BY <1>4, OtherStep DEF Relist, storeVars
<1>5. CASE UNCHANGED vars
  BY <1>5, OtherStep DEF vars, storeVars
<1> QED
  BY <1>1, <1>2, <1>3, <1>4, <1>5 DEF Next

(***************************************************************************)
(* The inductive invariant of requests and series, together with their     *)
(* types, whatever overlaps, is promoted, relisted or fails.               *)
(***************************************************************************)
THEOREM HistoryInvariance == Spec => [](TypeOK /\ HistoryInv)
<1>1. TypeOK /\ HistoryInv /\ [Next]_vars => (TypeOK /\ HistoryInv)'
  BY StepTypes, StepHistory
<1> QED
  BY <1>1, InitHistory, PTL DEF Spec

(***************************************************************************)
(* Every variable keeps its type, for any number of requests and           *)
(* providers.                                                              *)
(***************************************************************************)
THEOREM HistoryTypeCorrect == Spec => []TypeOK
BY HistoryInvariance, PTL

(***************************************************************************)
(* The dataset a series shows was fetched for it and holds bars of its own *)
(* listing, whatever overlaps and whatever imports relist.                 *)
(***************************************************************************)
THEOREM SeriesShowTheirListing == Spec => []SeriesShowsItsListing
<1>1. HistoryInv => SeriesShowsItsListing
  BY DEF HistoryInv, SeriesInv, SeriesShowsItsListing
<1> QED
  BY <1>1, HistoryInvariance, PTL

(***************************************************************************)
(* A fresh answer holds every session of the window asked for.             *)
(***************************************************************************)
THEOREM FreshAnswersComplete == Spec => []FreshAnswersAreComplete
<1>1. HistoryInv => FreshAnswersAreComplete
  BY DEF HistoryInv, RequestInv, FreshAnswersAreComplete
<1> QED
  BY <1>1, HistoryInvariance, PTL

-----------------------------------------------------------------------------
(***************************************************************************)
(* Markets.  A key that is no relistable instrument and no caller's id has *)
(* one listing, which is that of its requests and of its series; every     *)
(* series has a listing it was asked for with; and one linked to an        *)
(* instrument has a listing of its market, unless its key names that id.   *)
(***************************************************************************)
KeyListing(k) == IF k \in Instruments THEN listing[k] ELSE k

AskedInv ==
  \A r \in Requests : asked[r] # NoWant /\ asked[r].key \notin Relistable \cup Identified =>
    asked[r].listing = KeyListing(asked[r].key)

WasAskedFor(k) == \E r \in Requests : asked[r].key = k /\ asked[r].listing = identity[k]

LinkInv(k) ==
  /\ k \notin Relistable \cup Identified => identity[k] = KeyListing(k)
  /\ WasAskedFor(k)
  /\ link[k] \notin Relistable \cup {NoInstrument} =>
       \/ SameMarket(identity[k], KeyListing(link[k]))
       \/ k \in Identified /\ IdOf[k] = link[k]

MarketInv ==
  /\ AskedInv
  /\ \A k \in Keys : Exists(k) => LinkInv(k)
  /\ AnswersFollowTheMarket

LEMMA OwnMarket == \A l : SameMarket(l, l)
BY DEF SameMarket

\* What a series a request may read shows is of the market of the request.
LEMMA ReadableMarket ==
  ASSUME TypeOK, MarketInv, NEW r \in Requests, asked[r] # NoWant,
         asked[r].key \notin Relistable, ClaimsAgree(r),
         NEW k \in Keys, Exists(k), asked[r].key \in {k, link[k]} \cap Keys
  PROVE  SameMarket(identity[k], asked[r].listing)
<1>1. LinkInv(k) /\ AskedInv
  BY DEF MarketInv
<1>2. PICK q \in Requests : asked[q].key = k /\ asked[q].listing = identity[k]
  BY <1>1 DEF LinkInv, WasAskedFor
<1>3. k \in Identified => InstrumentOf(k) = IdOf[k] /\ IdOf[k] \in Instruments
  BY HistoricalConstants DEF InstrumentOf
<1>4. CASE k \in Identified /\ (asked[r].key = k \/ IdOf[k] = asked[r].key)
  <2>1. InstrumentOf(asked[r].key) = IdOf[k]
    BY <1>3, <1>4 DEF InstrumentOf
  <2> QED
    BY <1>2, <1>4, <2>1 DEF ClaimsAgree
<1>5. CASE ~(k \in Identified /\ (asked[r].key = k \/ IdOf[k] = asked[r].key))
  <2>1. CASE asked[r].key = k
    <3>1. asked[r].listing = KeyListing(k) /\ identity[k] = KeyListing(k)
      BY <1>1, <1>5, <2>1 DEF AskedInv, LinkInv
    <3> QED
      BY <3>1, OwnMarket
  <2>2. CASE asked[r].key # k
    <3>1. asked[r].key = link[k] /\ link[k] \in Instruments
      BY <2>2, HistoricalConstants DEF TypeOK
    <3>2. asked[r].key \notin Identified
      BY <3>1, HistoricalConstants
    <3>3. asked[r].listing = KeyListing(link[k])
      BY <1>1, <3>1, <3>2 DEF AskedInv
    <3>4. SameMarket(identity[k], KeyListing(link[k]))
      BY <1>1, <1>5, <3>1, HistoricalConstants DEF LinkInv, Keys
    <3> QED
      BY <3>3, <3>4
  <2> QED
    BY <2>1, <2>2
<1> QED
  BY <1>4, <1>5

\* A step that asks, links and writes nothing, and gives no fresh answer but
\* that of a series the request may read.
LEMMA MarketStep ==
  ASSUME TypeOK, HistoryInv, MarketInv, UNCHANGED <<listing, storeVars, asked>>, NEW r \in Requests,
         \A q \in Requests \ {r} : answer'[q] = answer[q],
         answer'[r].kind = "fresh" =>
           \/ answer'[r] = answer[r]
           \/ \E k \in Keys : /\ asked[r] # NoWant /\ asked[r].key \in {k, link[k]} \cap Keys
                              /\ active[k] # NoDataset /\ answer'[r].dataset = active[k]
  PROVE  MarketInv'
<1>1. UNCHANGED <<listing, identity, link, active, dataset, asked>>
  BY DEF storeVars
<1>2. ASSUME NEW q \in Requests, answer'[q].kind = "fresh", asked[q].key \notin Relistable,
             ClaimsAgree(q)
      PROVE  SameMarket(dataset[answer'[q].dataset].listing, asked[q].listing)
  <2>1. CASE answer'[q] = answer[q]
    BY <1>2, <2>1 DEF MarketInv, AnswersFollowTheMarket
  <2>2. CASE answer'[q] # answer[q]
    <3>1. q = r
      BY <2>2
    <3>2. PICK k \in Keys : /\ asked[r] # NoWant /\ asked[r].key \in {k, link[k]} \cap Keys
                            /\ active[k] # NoDataset /\ answer'[r].dataset = active[k]
      BY <1>2, <2>2, <3>1
    <3>3. dataset[active[k]].listing = identity[k] /\ Exists(k)
      BY <3>2 DEF HistoryInv, SeriesInv
    <3>4. SameMarket(identity[k], asked[r].listing)
      BY <1>2, <3>1, <3>2, <3>3, ReadableMarket
    <3> QED
      BY <3>1, <3>2, <3>3, <3>4 DEF MarketInv
  <2> QED
    BY <2>1, <2>2
<1>3. AnswersFollowTheMarket'
  BY <1>1, <1>2 DEF AnswersFollowTheMarket, ClaimsAgree
<1> QED
  BY <1>1, <1>3 DEF MarketInv, AskedInv, LinkInv, WasAskedFor, KeyListing, Exists

LEMMA NextMarket ==
  ASSUME TypeOK, TypeOK', HistoryInv, MarketInv, [Next]_vars
  PROVE  MarketInv'
<1>1. ASSUME NEW r \in Requests, NEW window \in Windows, NEW stale \in BOOLEAN,
             AskPortfolio(r, window, stale) \/ AskResearch(r, window, stale)
      PROVE  MarketInv'
  <2>1. PICK key \in Keys, lst \in Listings : /\ Ask(r, key, lst, window, stale)
                                              /\ key \in Identified \/ lst = KeyListing(key)
    <3>1. CASE AskPortfolio(r, window, stale)
      BY <3>1 DEF AskPortfolio, Keys, KeyListing, TypeOK
    <3>2. CASE AskResearch(r, window, stale)
      BY <3>2, HistoricalConstants DEF AskResearch, Keys, KeyListing
    <3> QED
      BY <1>1, <3>1, <3>2
  <2>2. UNCHANGED <<listing, identity, link, active, dataset, answer>>
    BY <2>1 DEF Ask, storeVars
  <2>3. /\ asked'[r].listing = lst /\ asked'[r].key = key
        /\ \A q \in Requests \ {r} : asked'[q] = asked[q]
    BY <2>1 DEF Ask, TypeOK
  <2>4. answer[r].kind = "none"
    BY <2>1 DEF Ask, GoTo, HistoryInv, RequestInv
  <2>5. AskedInv'
    <3>1. \A k : KeyListing(k)' = KeyListing(k)
      BY <2>2 DEF KeyListing
    <3> QED
      BY <2>1, <2>3, <3>1 DEF MarketInv, AskedInv
  <2>6. asked[r].key = NoListing
    BY <2>1 DEF Ask, GoTo, HistoryInv, RequestInv, NoWant
  <2>7. AnswersFollowTheMarket'
    <3>1. \A q \in Requests \ {r} : ClaimsAgree(q)' => ClaimsAgree(q)
      BY <2>3, <2>6, HistoricalConstants DEF ClaimsAgree, InstrumentOf, Keys
    <3> QED
      BY <2>2, <2>3, <2>4, <3>1 DEF MarketInv, AnswersFollowTheMarket
  <2>8. ASSUME NEW k \in Keys, Exists(k)'
        PROVE  LinkInv(k)'
    <3>1. LinkInv(k)
      BY <2>2, <2>8 DEF MarketInv, Exists
    <3>2. WasAskedFor(k)'
      BY <2>2, <2>3, <2>6, <3>1, HistoricalConstants DEF LinkInv, WasAskedFor, Keys
    <3> QED
      BY <2>2, <3>1, <3>2 DEF LinkInv, KeyListing
  <2> QED
    BY <2>5, <2>7, <2>8 DEF MarketInv
<1>2. ASSUME NEW r \in Requests, Step(r) \/ Fails(r)
      PROVE  MarketInv'
  <2>r. RequestInv(r) /\ pc[r] # "idle" /\ pc[r] # "done"
    BY <1>2 DEF HistoryInv, Step, FindActive, FindLinked, ProviderRefuses, ProviderServes,
           RecordFailure, AnswerStale, FindSeries, CommitDataset, SaveCollides, Fails,
           Running, GoTo
  <2>w. asked[r] # NoWant /\ asked[r].key \in Keys /\ asked[r].listing \in Listings
    BY <2>r, AskedIsKnown, GivenTypes DEF RequestInv
  <2>1. CASE FindActive(r)
    BY <2>1, <2>w, MarketStep DEF FindActive, Serves, Done, requestVars, TypeOK
  <2>2. CASE FindLinked(r)
    BY <2>2, <2>w, MarketStep DEF FindLinked, Linked, Serves, Done, requestVars, TypeOK
  <2>3. CASE ProviderRefuses(r) \/ \E span \in Fetchable : ProviderServes(r, span)
    BY <2>3, MarketStep DEF ProviderRefuses, ProviderServes
  <2>4. CASE RecordFailure(r) \/ AnswerStale(r) \/ FindSeries(r) \/ SaveCollides(r) \/ Fails(r)
    <3>1. UNCHANGED <<listing, storeVars, asked>>
      BY <2>4 DEF RecordFailure, AnswerStale, FindSeries, SaveCollides, Fails, requestVars
    <3>2. \A q \in Requests \ {r} : answer'[q] = answer[q]
      BY <2>4 DEF RecordFailure, AnswerStale, FindSeries, SaveCollides, Fails, Done, TypeOK
    <3>3. answer'[r].kind = "fresh" => answer'[r] = answer[r]
      BY <2>4 DEF RecordFailure, AnswerStale, FindSeries, SaveCollides, Fails, Done, TypeOK
    <3> QED
      BY <3>1, <3>2, <3>3, MarketStep
  <2>5. CASE CommitDataset(r)
    <3> DEFINE key == asked[r].key
    <3>1. /\ UNCHANGED <<listing, asked>>
          /\ answer'[r] = [kind |-> "fresh", dataset |-> r]
          /\ \A q \in Requests \ {r} : answer'[q] = answer[q]
          /\ dataset'[r] = fetched[r] /\ pc[r] = "commit"
          /\ \A q \in Requests \ {r} : dataset'[q] = dataset[q]
      BY <2>5 DEF CommitDataset, Done, requestVars, TypeOK
    <3>2. /\ identity'[key] = asked[r].listing
          /\ Exists(key) => identity'[key] = identity[key] /\ link'[key] = link[key]
          /\ ~Exists(key) => link'[key] = InstrumentOf(key)
          /\ \A k \in Keys \ {key} : identity'[k] = identity[k] /\ link'[k] = link[k]
      <4>1. found[r] => Exists(key) /\ identity[key] = asked[r].listing
        BY <2>r, <2>w, <3>1, HistoricalConstants DEF RequestInv, Exists, Keys
      <4>2. ~found[r] => ~Exists(key)
        BY <2>5 DEF CommitDataset, Collides
      <4>3. CASE found[r]
        BY <2>5, <4>1, <4>3 DEF CommitDataset
      <4>4. CASE ~found[r]
        BY <2>5, <2>w, <4>2, <4>4 DEF CommitDataset, TypeOK
      <4> QED
        BY <4>3, <4>4
    <3>3. ASSUME NEW q \in Requests, answer'[q].kind = "fresh", asked[q].key \notin Relistable,
                 ClaimsAgree(q)
          PROVE  SameMarket(dataset'[answer'[q].dataset].listing, asked[q].listing)
      <4>1. CASE q = r
        BY <2>r, <3>1, <4>1, OwnMarket DEF RequestInv
      <4>2. CASE q # r
        <5>1. answer[q].dataset \in Requests \ {r}
          BY <2>r, <3>1, <3>3, <4>2 DEF HistoryInv, RequestInv, TypeOK
        <5> QED
          BY <3>1, <3>3, <4>2, <5>1 DEF MarketInv, AnswersFollowTheMarket
      <4> QED
        BY <4>1, <4>2
    <3>4. ASSUME NEW k \in Keys, Exists(k)'
          PROVE  LinkInv(k)'
      <4>1. CASE k # key \/ Exists(key)
        <5>1. LinkInv(k) /\ identity'[k] = identity[k] /\ link'[k] = link[k]
          BY <3>2, <3>4, <4>1 DEF MarketInv, Exists
        <5> QED
          BY <3>1, <5>1 DEF LinkInv, WasAskedFor, KeyListing
      <4>2. CASE k = key /\ ~Exists(key)
        <5>1. identity'[k] = asked[r].listing /\ link'[k] = InstrumentOf(k)
          BY <3>2, <4>2
        <5>2. k \notin Relistable \cup Identified => identity'[k] = KeyListing(k)
          BY <2>w, <4>2, <5>1 DEF MarketInv, AskedInv
        <5>3. InstrumentOf(k) \notin Relistable \cup {NoInstrument} =>
                \/ SameMarket(identity'[k], KeyListing(InstrumentOf(k)))
                \/ k \in Identified /\ IdOf[k] = InstrumentOf(k)
          BY <5>2, OwnMarket, HistoricalConstants DEF InstrumentOf
        <5>4. WasAskedFor(k)'
          BY <3>1, <4>2, <5>1 DEF WasAskedFor
        <5>5. KeyListing(k)' = KeyListing(k) /\ KeyListing(link[k])' = KeyListing(InstrumentOf(k))
          BY <3>1, <5>1 DEF KeyListing
        <5>6. SameMarket(identity[k], KeyListing(link[k]))'
                <=> SameMarket(identity'[k], KeyListing(InstrumentOf(k)))
          BY <5>5 DEF SameMarket
        <5> QED
          BY <5>1, <5>2, <5>3, <5>4, <5>5, <5>6 DEF LinkInv
      <4> QED
        BY <4>1, <4>2
    <3>5. AnswersFollowTheMarket'
      BY <3>1, <3>3 DEF AnswersFollowTheMarket, ClaimsAgree
    <3>6. AskedInv'
      BY <3>1 DEF MarketInv, AskedInv, KeyListing
    <3> QED
      BY <3>4, <3>5, <3>6 DEF MarketInv
  <2> QED
    BY <1>2, <2>1, <2>2, <2>3, <2>4, <2>5 DEF Step
<1>3. ASSUME NEW i \in Instruments, NEW k \in Keys, Promote(k, i)
      PROVE  MarketInv'
  <2>1. /\ UNCHANGED <<listing, identity, dataset, asked, answer>>
        /\ link'[k] = i /\ \A j \in Keys \ {k} : link'[j] = link[j]
        /\ SameMarket(identity[k], KeyListing(i))
    BY <1>3 DEF Promote, MayLink, requestVars, KeyListing, TypeOK
  <2>2. AskedInv' /\ AnswersFollowTheMarket'
    BY <2>1 DEF MarketInv, AskedInv, KeyListing, AnswersFollowTheMarket, ClaimsAgree
  <2>3. ASSUME NEW j \in Keys, Exists(j)'
        PROVE  LinkInv(j)'
    BY <2>1, <2>3 DEF MarketInv, LinkInv, WasAskedFor, KeyListing, Exists
  <2> QED
    BY <2>2, <2>3 DEF MarketInv
<1>4. ASSUME NEW i \in Instruments, NEW l \in Listings, Relist(i, l)
      PROVE  MarketInv'
  <2>1. /\ UNCHANGED <<identity, link, active, dataset, asked, answer>>
        /\ \A j \in Instruments \ Relistable : listing'[j] = listing[j]
    BY <1>4 DEF Relist, storeVars, requestVars, TypeOK
  <2>2. \A k \in (Keys \cup {NoInstrument}) \ Relistable : KeyListing(k)' = KeyListing(k)
    BY <2>1, HistoricalConstants DEF KeyListing, Keys
  <2>3. \A k \in Keys : link[k] \in Keys \cup {NoInstrument}
    BY DEF TypeOK, Keys
  <2>4. \A r \in Requests : asked[r] # NoWant => asked[r].key \in Keys
    BY AskedIsKnown, GivenTypes
  <2>5. AnswersFollowTheMarket'
    BY <2>1 DEF MarketInv, AnswersFollowTheMarket, ClaimsAgree
  <2>6. AskedInv'
    BY <2>1, <2>2, <2>4 DEF MarketInv, AskedInv
  <2>7. ASSUME NEW k \in Keys, Exists(k)'
        PROVE  LinkInv(k)'
    <3>1. LinkInv(k) /\ WasAskedFor(k)'
      BY <2>1, <2>7 DEF MarketInv, LinkInv, WasAskedFor, Exists
    <3>2. link[k] \notin Relistable \cup {NoInstrument} => KeyListing(link[k])' = KeyListing(link[k])
      BY <2>1, <2>3, HistoricalConstants DEF KeyListing, Keys
    <3>3. link'[k] = link[k] /\ identity'[k] = identity[k]
      BY <2>1
    <3>4. k \notin Relistable => KeyListing(k)' = KeyListing(k)
      BY <2>2
    <3>5. link[k] \notin Relistable \cup {NoInstrument} =>
            (SameMarket(identity[k], KeyListing(link[k]))'
               <=> SameMarket(identity[k], KeyListing(link[k])))
      BY <3>2, <3>3 DEF SameMarket
    <3> QED
      BY <3>1, <3>3, <3>4, <3>5 DEF LinkInv
  <2> QED
    BY <2>5, <2>6, <2>7 DEF MarketInv
<1>5. CASE UNCHANGED vars
  BY <1>5 DEF vars, storeVars, requestVars, MarketInv, AskedInv, LinkInv, WasAskedFor, KeyListing,
              Exists, AnswersFollowTheMarket, ClaimsAgree
<1> QED
  BY <1>1, <1>2, <1>3, <1>4, <1>5 DEF Next

(***************************************************************************)
(* Every fresh answer to a request whose instrument is not relisted, and   *)
(* whose id no research request names with another market, is of the       *)
(* market the request resolved to, whatever is promoted meanwhile.         *)
(***************************************************************************)
LEMMA InitMarket == Init => MarketInv
BY DEF Init, MarketInv, AskedInv, Exists, AnswersFollowTheMarket

THEOREM AnswersKeepTheMarket == Spec => []AnswersFollowTheMarket
<1>1. Init => MarketInv
  BY InitMarket
<1>2. TypeOK /\ HistoryInv /\ (TypeOK /\ HistoryInv)' /\ MarketInv /\ [Next]_vars => MarketInv'
  BY NextMarket
<1>3. MarketInv => AnswersFollowTheMarket
  BY DEF MarketInv
<1> QED
  BY <1>1, <1>2, <1>3, HistoryInvariance, PTL DEF Spec

-----------------------------------------------------------------------------
(***************************************************************************)
(* The refinement: the answer of a request and the publication of its      *)
(* dataset are one step, every other step of a request is invisible.       *)
(***************************************************************************)
LEMMA PublishedData ==
  ASSUME TypeOK
  PROVE  /\ Published \in [Requests -> {NoData} \cup [key : Keys, listing : Listings, span : Fetchable]]
         /\ \A d \in Requests : dataset[d] # NoData => Published[d].span = dataset[d].span
         /\ \A d \in Requests : dataset[d] = NoData => Published[d] = NoData
BY DEF TypeOK, Published, Data

LEMMA PublishedSame ==
  ASSUME UNCHANGED dataset
  PROVE  UNCHANGED Published
BY DEF Published

LEMMA HoldsIsHolds ==
  ASSUME NEW span, NEW window
  PROVE  Answers!Holds(span, window) <=> Holds(span, window)
BY DEF Holds, SessionsOf, Session, Answers!Holds, Answers!SessionsOf, Answers!Session

LEMMA RefusedStep ==
  ASSUME NEW r \in Requests, Answers!Open(r), UNCHANGED <<active, link, dataset, asked>>,
         NEW kind \in {"raised", "failed"},
         answer' = [answer EXCEPT ![r] = [kind |-> kind, dataset |-> NoDataset]]
  PROVE  Answers!Refuse(r)
BY PublishedSame DEF Answers!Refuse, Answers!Answer

LEMMA ReusedStep ==
  ASSUME TypeOK, HistoryInv, NEW r \in Requests, Answers!Open(r), NEW k \in Keys,
         asked[r].key \in {k, link[k]}, Serves(k, asked[r].window), asked[r].window \in Spans,
         UNCHANGED <<active, link, dataset, asked>>,
         answer' = [answer EXCEPT ![r] = [kind |-> "fresh", dataset |-> active[k]]]
  PROVE  Answers!Reuse(r, k)
<1>1. /\ active[k] \in Requests /\ dataset[active[k]] # NoData
      /\ Holds(dataset[active[k]].span, asked[r].window)
  BY ServedHolds
<1>2. Holds(Published[active[k]].span, asked[r].window)
  BY <1>1, PublishedData
<1> QED
  BY <1>1, <1>2, PublishedSame, HoldsIsHolds, HistoricalConstants
     DEF Answers!Reuse, Answers!MayRead, Answers!Answer

LEMMA PublishedStep ==
  ASSUME TypeOK, HistoryInv, NEW r \in Requests, Answers!Open(r), CommitDataset(r)
  PROVE  \E span \in Fetchable : Answers!Publish(r, span)
<1> DEFINE key == asked[r].key
           data == [key |-> asked[r].key, listing |-> asked[r].listing, span |-> fetched[r].span]
<1>1. RequestInv(r) /\ pc[r] = "commit"
  BY DEF HistoryInv, CommitDataset
<1>2. key \in Keys /\ fetched[r] \in Data
  BY <1>1, AskedIsKnown, GivenTypes DEF RequestInv, TypeOK
<1>3. fetched[r].span \in Fetchable
  BY <1>2 DEF Data
<1>4. dataset' = [dataset EXCEPT ![r] = fetched[r]]
  BY DEF CommitDataset
<1>5. Published' = [Published EXCEPT ![r] = data]
  BY <1>1, <1>4 DEF Published, RequestInv, TypeOK
<1>6. Published[r] = NoData
  BY <1>1, PublishedData DEF RequestInv
<1>7. \/ UNCHANGED link
      \/ /\ active[key] = NoDataset
         /\ \E o \in Instruments \cup {NoInstrument} : link' = [link EXCEPT ![key] = o]
  BY <1>2, InstrumentOfTypes DEF CommitDataset, Collides, HistoryInv, SeriesInv
<1>8. /\ active' = [active EXCEPT ![key] = r] /\ UNCHANGED asked
      /\ answer' = [answer EXCEPT ![r] = [kind |-> "fresh", dataset |-> r]]
  BY DEF CommitDataset, Done, requestVars
<1>9. Holds(fetched[r].span, asked[r].window)
  BY <1>1 DEF RequestInv
<1> QED
  BY <1>3, <1>5, <1>6, <1>7, <1>8, <1>9, HoldsIsHolds DEF Answers!Publish, Answers!Answer

LEMMA AnswersStep ==
  ASSUME TypeOK, TypeOK', HistoryInv, HistoryInv', [Next]_vars
  PROVE  [Answers!Next]_(Answers!vars)
<1>1. ASSUME NEW r \in Requests, NEW window \in Windows, NEW stale \in BOOLEAN,
             AskPortfolio(r, window, stale) \/ AskResearch(r, window, stale)
      PROVE  \E want \in Wants : Answers!Ask(r, want)
  <2>1. PICK key \in Keys, lst \in Listings : Ask(r, key, lst, window, stale)
    BY <1>1 DEF AskPortfolio, AskResearch, Keys, TypeOK
  <2> DEFINE want == [key |-> key, listing |-> lst, window |-> window, stale |-> stale]
  <2>2. want \in Wants
    BY DEF Wants
  <2>3. asked[r] = NoWant
    BY <2>1 DEF Ask, GoTo, HistoryInv, RequestInv
  <2> QED
    BY <2>1, <2>2, <2>3, PublishedSame DEF Ask, storeVars, Answers!Ask
<1>2. ASSUME NEW r \in Requests, Step(r) \/ Fails(r)
      PROVE  \/ \E k \in Keys : Answers!Reuse(r, k)
             \/ \E span \in Fetchable : Answers!Publish(r, span)
             \/ Answers!FallBack(r)
             \/ Answers!Refuse(r)
             \/ UNCHANGED Answers!vars
  <2>r. RequestInv(r) /\ pc[r] # "idle" /\ pc[r] # "done"
    BY <1>2 DEF HistoryInv, Step, FindActive, FindLinked, ProviderRefuses, ProviderServes,
           RecordFailure, AnswerStale, FindSeries, CommitDataset, SaveCollides, Fails,
           Running, GoTo
  <2>o. Answers!Open(r)
    BY <2>r DEF RequestInv, Answers!Open
  <2>w. asked[r].key \in Keys /\ asked[r].window \in Spans
    BY <2>r, AskedIsKnown, GivenTypes DEF RequestInv
  <2>u. UNCHANGED <<active, link, dataset, asked, answer>> => UNCHANGED Answers!vars
    BY PublishedSame DEF Answers!vars
  <2>1. CASE FindActive(r)
    <3>1. CASE Serves(asked[r].key, asked[r].window)
      BY <2>1, <2>o, <2>w, <3>1, ReusedStep DEF FindActive, Done, storeVars, requestVars
    <3>2. CASE ~Serves(asked[r].key, asked[r].window)
      BY <2>1, <2>u, <3>2 DEF FindActive, storeVars, requestVars
    <3> QED
      BY <3>1, <3>2
  <2>2. CASE FindLinked(r)
    <3>1. CASE Linked(r) # {}
      BY <2>2, <2>o, <2>w, <3>1, ReusedStep DEF FindLinked, Linked, Done, storeVars, requestVars
    <3>2. CASE Linked(r) = {}
      BY <2>2, <2>u, <3>2 DEF FindLinked, storeVars, requestVars
    <3> QED
      BY <3>1, <3>2
  <2>3. CASE ProviderRefuses(r) \/ \E span \in Fetchable : ProviderServes(r, span)
    BY <2>3, <2>u DEF ProviderRefuses, ProviderServes, storeVars
  <2>4. CASE RecordFailure(r)
    <3>1. CASE asked[r].stale
      BY <2>4, <2>u, <3>1 DEF RecordFailure, storeVars, requestVars
    <3> QED
      BY <2>4, <2>o, <3>1, RefusedStep DEF RecordFailure, Done, storeVars, requestVars
  <2>5. CASE AnswerStale(r)
    <3>1. CASE active[asked[r].key] = NoDataset
      BY <2>5, <2>o, <3>1, RefusedStep DEF AnswerStale, Latest, Done, storeVars, requestVars
    <3>2. CASE active[asked[r].key] # NoDataset
      BY <2>5, <2>o, <2>r, <3>2, PublishedSame
         DEF AnswerStale, Latest, Done, storeVars, requestVars, RequestInv,
             Answers!FallBack, Answers!Answer
    <3> QED
      BY <3>1, <3>2
  <2>6. CASE FindSeries(r)
    <3>1. CASE Mismatch(r)
      BY <2>6, <2>o, <3>1, RefusedStep DEF FindSeries, Done, storeVars
    <3> QED
      BY <2>6, <2>u, <3>1 DEF FindSeries, storeVars
  <2>7. CASE CommitDataset(r)
    BY <2>7, <2>o, PublishedStep
  <2>8. CASE SaveCollides(r) \/ Fails(r)
    BY <2>8, <2>o, RefusedStep DEF SaveCollides, Fails, Done, storeVars, requestVars
  <2> QED
    BY <1>2, <2>1, <2>2, <2>3, <2>4, <2>5, <2>6, <2>7, <2>8 DEF Step
<1>3. ASSUME NEW i \in Instruments, NEW k \in Keys, Promote(k, i)
      PROVE  \E o \in Instruments \cup {NoInstrument} : Answers!Promote(k, o)
  BY <1>3, PublishedSame
     DEF Promote, MayLink, HistoryInv, SeriesInv, requestVars, Answers!Promote
<1>4. ASSUME NEW i \in Instruments, NEW l \in Listings, Relist(i, l)
      PROVE  UNCHANGED Answers!vars
  BY <1>4, PublishedSame DEF Relist, storeVars, requestVars, Answers!vars
<1>5. CASE UNCHANGED vars
  BY <1>5, PublishedSame DEF vars, storeVars, requestVars, Answers!vars
<1> QED
  BY <1>1, <1>2, <1>3, <1>4, <1>5 DEF Next, Answers!Next

(***************************************************************************)
(* The service implements what it promises its callers.                    *)
(***************************************************************************)
THEOREM ServiceImplementsAnswers == Spec => ImplementsAnswers
<1>1. Init => Answers!Init
  BY DEF Init, Published, Answers!Init
<1>2. TypeOK /\ HistoryInv /\ (TypeOK /\ HistoryInv)' /\ [Next]_vars
        => [Answers!Next]_(Answers!vars)
  BY AnswersStep
<1> QED
  BY <1>1, <1>2, HistoryInvariance, PTL DEF Spec, ImplementsAnswers, Answers!Spec

-----------------------------------------------------------------------------
(***************************************************************************)
(* One session at a time.  While a request runs nothing else does, so what *)
(* it found in the cache or in its series is still so when it acts on it,  *)
(* and datasets are saved in the order they were fetched.                  *)
(***************************************************************************)
SerialRequest(r) ==
  /\ pc[r] = "linked" => ~Serves(asked[r].key, asked[r].window)
  /\ pc[r] = "fetch" => \A k \in Keys : asked[r].key \in {k, link[k]} => ~Serves(k, asked[r].window)
  /\ pc[r] \in {"save", "commit"} => fetched[r].at = clock
  /\ pc[r] \notin {"save", "commit", "done"} => fetched[r] = NoData
  /\ pc[r] = "commit" /\ ~found[r] => ~Exists(asked[r].key)

NewestShown ==
  \A d \in Requests : dataset[d] # NoData =>
    /\ dataset[d].at <= clock
    /\ active[dataset[d].key] # NoDataset
    /\ dataset[d].at <= dataset[active[dataset[d].key]].at

SerialInv ==
  /\ \A r, q \in Requests : Running(r) /\ Running(q) => r = q
  /\ \A r \in Requests : SerialRequest(r)
  /\ NewestShown

LEMMA NothingRuns ==
  ASSUME MaxConcurrent = 1, \A r, q \in Requests : Running(r) /\ Running(q) => r = q, CanStart
  PROVE  \A r \in Requests : ~Running(r)
<1> DEFINE R == {r \in Requests : Running(r)}
<1> SUFFICES ASSUME NEW r \in Requests, Running(r) PROVE FALSE
  OBVIOUS
<1>1. R = {r}
  OBVIOUS
<1>2. Cardinality(R) = 1
  BY <1>1, FS_Singleton
<1> QED
  BY <1>2 DEF CanStart

LEMMA RestFrame ==
  ASSUME NEW q \in Requests, SerialRequest(q), ~Running(q), Same(q)
  PROVE  SerialRequest(q)'
BY DEF SerialRequest, Running, Same

LEMMA NewestFrame ==
  ASSUME TypeOK, TypeOK', NewestShown, UNCHANGED <<active, dataset>>, clock <= clock'
  PROVE  NewestShown'
<1>1. \A d \in Requests : dataset[d] # NoData => dataset[d].at \in Nat
  BY DEF TypeOK, Data
<1> QED
  BY <1>1 DEF NewestShown, TypeOK

\* A step of the request that runs, when it leaves the tables as they are.
LEMMA RunningStep ==
  ASSUME TypeOK, TypeOK', SerialInv, UNCHANGED <<active, dataset>>, clock <= clock',
         NEW r \in Requests, Running(r), \A q \in Requests \ {r} : Same(q), SerialRequest(r)'
  PROVE  SerialInv'
<1>1. \A q \in Requests \ {r} : ~Running(q) /\ ~Running(q)'
  BY DEF SerialInv, Same, Running
<1>2. \A q \in Requests : SerialRequest(q)'
  BY <1>1, RestFrame DEF SerialInv
<1> QED
  BY <1>1, <1>2, NewestFrame DEF SerialInv

\* A step of no request, taken while none runs.
LEMMA RestingStep ==
  ASSUME TypeOK, TypeOK', SerialInv, UNCHANGED <<active, dataset, clock>>,
         \A q \in Requests : ~Running(q) /\ Same(q)
  PROVE  SerialInv'
<1>1. \A q \in Requests : ~Running(q)' /\ SerialRequest(q)'
  BY RestFrame DEF SerialInv, Same, Running
<1> QED
  BY <1>1, NewestFrame DEF SerialInv, TypeOK

LEMMA SerialCommit ==
  ASSUME TypeOK, TypeOK', HistoryInv, SerialInv, NEW r \in Requests, CommitDataset(r)
  PROVE  SerialInv'
<1> DEFINE key == asked[r].key
<1>r. RequestInv(r) /\ SerialRequest(r) /\ pc[r] = "commit"
  BY DEF HistoryInv, SerialInv, CommitDataset
<1>w. key \in Keys
  BY <1>r, AskedIsKnown, GivenTypes DEF RequestInv
<1>1. /\ dataset'[r] = fetched[r] /\ \A q \in Requests \ {r} : dataset'[q] = dataset[q]
      /\ active'[key] = r /\ \A k \in Keys \ {key} : active'[k] = active[k]
      /\ UNCHANGED <<clock, requestVars>>
      /\ pc'[r] = "done" /\ answer'[r].kind = "fresh"
  BY <1>w DEF CommitDataset, Done, GoTo, TypeOK
<1>2. \A q \in Requests \ {r} : Same(q) /\ ~Running(q)
  BY <1>r DEF CommitDataset, Done, GoTo, Same, requestVars, SerialInv, Running, TypeOK
<1>3. \A q \in Requests : SerialRequest(q)' /\ ~Running(q)'
  BY <1>1, <1>2, RestFrame DEF SerialInv, SerialRequest, Running, Same
<1>4. fetched[r].key = key /\ fetched[r].at = clock
  BY <1>r DEF RequestInv, SerialRequest
<1>5. NewestShown'
  <2> SUFFICES ASSUME NEW d \in Requests, dataset'[d] # NoData
               PROVE  LET k == dataset'[d].key IN
                      /\ dataset'[d].at <= clock
                      /\ active'[k] # NoDataset
                      /\ dataset'[d].at <= dataset'[active'[k]].at
    BY <1>1 DEF NewestShown
  <2> DEFINE k == dataset'[d].key
  <2>1. dataset'[d].at <= clock
    <3>1. CASE d = r
      BY <1>1, <1>4, <3>1 DEF TypeOK
    <3>2. CASE d # r
      BY <1>1, <3>2 DEF SerialInv, NewestShown
    <3> QED
      BY <3>1, <3>2
  <2>2. CASE k = key
    BY <1>1, <1>4, <2>1, <2>2, HistoricalConstants
  <2>3. CASE k # key
    <3>1. d # r /\ dataset[d] # NoData /\ dataset[d].key = k /\ k \in Keys
      BY <1>1, <1>4, <2>3, GivenTypes DEF TypeOK
    <3>2. active[k] \in Requests /\ dataset[d].at <= dataset[active[k]].at
      BY <3>1 DEF SerialInv, NewestShown, TypeOK
    <3>3. active[k] # r
      BY <1>r, <3>1, <3>2, HistoricalConstants DEF HistoryInv, SeriesInv, RequestInv, NoData
    <3> QED
      BY <1>1, <2>1, <2>3, <3>1, <3>2, <3>3, HistoricalConstants
  <2> QED
    BY <2>2, <2>3
<1> QED
  BY <1>3, <1>5 DEF SerialInv

LEMMA SerialStep ==
  ASSUME MaxConcurrent = 1, TypeOK, TypeOK', HistoryInv, MarketInv, SerialInv, [Next]_vars
  PROVE  SerialInv'
<1>1. ASSUME NEW r \in Requests, NEW window \in Windows, NEW stale \in BOOLEAN,
             AskPortfolio(r, window, stale) \/ AskResearch(r, window, stale)
      PROVE  SerialInv'
  <2>1. PICK key \in Keys, lst \in Listings : Ask(r, key, lst, window, stale)
    BY <1>1 DEF AskPortfolio, AskResearch, Keys, TypeOK
  <2>2. \A q \in Requests : ~Running(q)
    BY <2>1, NothingRuns DEF Ask, SerialInv
  <2>3. \A q \in Requests \ {r} : Same(q)
    BY <2>1 DEF Ask, GoTo, Same, TypeOK
  <2>4. /\ pc[r] = "idle" /\ pc'[r] = "lookup" /\ UNCHANGED <<active, dataset, clock, fetched, answer>>
    BY <2>1 DEF Ask, GoTo, storeVars, TypeOK
  <2>5. SerialRequest(r)'
    BY <2>4 DEF SerialInv, SerialRequest, HistoryInv, RequestInv
  <2>6. \A q \in Requests : SerialRequest(q)'
    BY <2>2, <2>3, <2>5, RestFrame DEF SerialInv
  <2>7. \A q \in Requests \ {r} : ~Running(q)'
    BY <2>2, <2>3 DEF Running, Same
  <2> QED
    BY <2>4, <2>6, <2>7, NewestFrame DEF SerialInv, TypeOK
<1>2. ASSUME NEW r \in Requests, Step(r) \/ Fails(r)
      PROVE  SerialInv'
  <2>r. RequestInv(r) /\ SerialRequest(r)
    BY DEF HistoryInv, SerialInv
  <2>p. Running(r) /\ pc[r] # "done" /\ pc[r] # "idle"
    BY <1>2 DEF Step, FindActive, FindLinked, ProviderRefuses, ProviderServes, RecordFailure,
           AnswerStale, FindSeries, CommitDataset, SaveCollides, Fails, Running, GoTo
  <2>n. answer[r].kind = "none"
    BY <2>r, <2>p DEF RequestInv
  <2>w. asked[r] # NoWant /\ asked[r].key \in Keys
    BY <2>r, <2>p, AskedIsKnown, GivenTypes DEF RequestInv
  <2>1. CASE CommitDataset(r)
    BY <2>1, SerialCommit
  <2>2. CASE ~CommitDataset(r)
    <3>1. /\ UNCHANGED <<identity, link, active, dataset>> /\ asked'[r] = asked[r]
          /\ \A q \in Requests \ {r} : Same(q)
      BY <1>2, <2>2
         DEF Step, FindActive, FindLinked, ProviderRefuses, ProviderServes, RecordFailure,
             AnswerStale, FindSeries, SaveCollides, Fails, Done, GoTo, Same, storeVars,
             requestVars, TypeOK
    <3>2. clock <= clock'
      BY <1>2, <2>2
         DEF Step, FindActive, FindLinked, ProviderRefuses, ProviderServes, RecordFailure,
             AnswerStale, FindSeries, SaveCollides, Fails, TypeOK
    <3> SUFFICES SerialRequest(r)'
      BY <2>p, <3>1, <3>2, RunningStep
    <3>3. ASSUME pc'[r] = "done"
          PROVE  SerialRequest(r)'
      BY <3>3 DEF SerialRequest
    <3>4. CASE FindActive(r)
      <4>1. CASE Serves(asked[r].key, asked[r].window)
        BY <3>3, <3>4, <4>1 DEF FindActive, Done, GoTo, TypeOK
      <4>2. CASE ~Serves(asked[r].key, asked[r].window)
        <5>1. /\ pc'[r] = (IF asked[r].key \in Instruments THEN "linked" ELSE "fetch")
              /\ fetched'[r] = NoData /\ answer'[r] = answer[r]
          BY <2>r, <3>4, <4>2 DEF FindActive, GoTo, SerialRequest, requestVars, TypeOK
        <5>2. asked[r].key \notin Instruments => \A k \in Keys : asked[r].key # link[k]
          BY <2>w, HistoricalConstants DEF TypeOK, Keys
        <5> QED
          BY <2>n, <3>1, <4>2, <5>1, <5>2 DEF SerialRequest, Serves
      <4> QED
        BY <4>1, <4>2
    <3>5. CASE FindLinked(r)
      <4>1. CASE Linked(r) # {}
        BY <3>3, <3>5, <4>1 DEF FindLinked, Done, GoTo, TypeOK
      <4>2. CASE Linked(r) = {}
        <5>1. pc'[r] = "fetch" /\ fetched'[r] = NoData /\ answer'[r] = answer[r]
          BY <2>r, <3>5, <4>2 DEF FindLinked, GoTo, SerialRequest, requestVars, TypeOK
        <5>2. \A k \in Keys : asked[r].key \in {k, link[k]} => ~Serves(k, asked[r].window)
          BY <2>r, <3>5, <4>2 DEF FindLinked, Linked, SerialRequest
        <5> QED
          BY <2>n, <3>1, <5>1, <5>2 DEF SerialRequest, Serves
      <4> QED
        BY <4>1, <4>2
    <3>6. CASE ProviderRefuses(r)
      <4>1. /\ pc[r] = "fetch" /\ pc'[r] \in {"fetch", "unavailable"}
            /\ fetched'[r] = NoData /\ answer'[r] = answer[r]
        BY <2>r, <3>6 DEF ProviderRefuses, GoTo, SerialRequest, TypeOK
      <4> QED
        BY <2>r, <2>n, <3>1, <4>1 DEF SerialRequest, Serves
    <3>7. CASE \E span \in Fetchable : ProviderServes(r, span)
      <4>1. pc'[r] = "save" /\ fetched'[r].at = clock' /\ answer'[r] = answer[r]
        BY <3>7 DEF ProviderServes, GoTo, TypeOK
      <4> QED
        BY <2>n, <4>1 DEF SerialRequest
    <3>8. CASE RecordFailure(r)
      <4>1. fetched'[r] = NoData
        BY <2>r, <3>8 DEF RecordFailure, SerialRequest, requestVars
      <4>2. CASE asked[r].stale
        BY <2>n, <3>8, <4>1, <4>2 DEF RecordFailure, GoTo, SerialRequest, TypeOK
      <4> QED
        BY <3>3, <3>8, <4>1, <4>2 DEF RecordFailure, Done, GoTo, TypeOK
    <3>9. CASE AnswerStale(r)
      BY <2>r, <3>3, <3>9 DEF AnswerStale, Done, GoTo, SerialRequest, requestVars, TypeOK
    <3>10. CASE FindSeries(r)
      <4>1. CASE Mismatch(r)
        BY <3>10, <4>1 DEF FindSeries, Done, GoTo, SerialRequest, TypeOK
      <4>2. CASE ~Mismatch(r)
        <5>1. /\ pc[r] = "save" /\ pc'[r] = "commit" /\ answer' = answer
              /\ UNCHANGED <<identity, clock, asked, fetched>>
          BY <3>10, <4>2 DEF FindSeries, GoTo, storeVars, TypeOK
        <5>2. found'[r] = Exists(asked[r].key)
          BY <3>10, <4>2 DEF FindSeries, TypeOK
        <5> QED
          BY <2>r, <2>n, <5>1, <5>2 DEF SerialRequest, Exists
      <4> QED
        BY <4>1, <4>2
    <3>11. CASE SaveCollides(r)
      BY <2>r, <3>11 DEF SaveCollides, Collides, SerialRequest
    <3>12. CASE Fails(r)
      BY <3>3, <3>12 DEF Fails, Done, GoTo, TypeOK
    <3> QED
      BY <1>2, <2>2, <3>4, <3>5, <3>6, <3>7, <3>8, <3>9, <3>10, <3>11, <3>12 DEF Step
  <2> QED
    BY <2>1, <2>2
<1>3. ASSUME NEW i \in Instruments,
             (\E k \in Keys : Promote(k, i)) \/ (\E l \in Listings : Relist(i, l))
      PROVE  SerialInv'
  <2>1. \A q \in Requests : ~Running(q)
    BY <1>3, NothingRuns DEF Promote, Relist, SerialInv
  <2>2. UNCHANGED <<active, dataset, clock>> /\ \A q \in Requests : Same(q)
    BY <1>3 DEF Promote, Relist, storeVars, requestVars, Same
  <2> QED
    BY <2>1, <2>2, RestingStep
<1>4. CASE UNCHANGED vars
  BY <1>4, NewestFrame
     DEF vars, storeVars, requestVars, SerialInv, SerialRequest, Serves, Exists, Running, TypeOK
<1> QED
  BY <1>1, <1>2, <1>3, <1>4 DEF Next

LEMMA InitSerial == Init => SerialInv
BY HistoricalConstants DEF Init, SerialInv, SerialRequest, NewestShown, Running, Exists, Serves

(***************************************************************************)
(* Sessions that do not overlap: each of them has read what the tables     *)
(* still hold, and the series show the newest dataset that passed.         *)
(***************************************************************************)
THEOREM SerialInvariance ==
  ASSUME MaxConcurrent = 1
  PROVE  Spec => [](TypeOK /\ HistoryInv /\ MarketInv /\ SerialInv)
<1>1. Init => MarketInv
  BY InitMarket
<1>2. TypeOK /\ HistoryInv /\ (TypeOK /\ HistoryInv)' /\ MarketInv /\ SerialInv /\ [Next]_vars
        => MarketInv' /\ SerialInv'
  BY NextMarket, SerialStep
<1> QED
  BY <1>1, <1>2, InitSerial, HistoryInvariance, PTL DEF Spec

\* The request that raises with a dataset in hand met a row of another listing.
LEMMA PersistedStep ==
  ASSUME TypeOK, TypeOK', HistoryInv, MarketInv, SerialInv, AcceptedIsPersisted, [Next]_vars
  PROVE  AcceptedIsPersisted'
<1>1. ASSUME NEW r \in Requests, NEW window \in Windows, NEW stale \in BOOLEAN,
             AskPortfolio(r, window, stale) \/ AskResearch(r, window, stale)
      PROVE  AcceptedIsPersisted'
  <2>1. PICK key \in Keys, lst \in Listings : Ask(r, key, lst, window, stale)
    BY <1>1 DEF AskPortfolio, AskResearch, Keys, TypeOK
  <2>2. /\ UNCHANGED <<fetched, answer>>
        /\ \A q \in Requests \ {r} : asked'[q] = asked[q]
    BY <2>1 DEF Ask, TypeOK
  <2>3. asked[r].key = NoListing /\ answer[r].kind = "none"
    BY <2>1 DEF Ask, GoTo, HistoryInv, RequestInv, NoWant
  <2>4. ASSUME NEW q \in Requests, answer[q].kind = "raised", AskedWithOneListing(asked[q].key)'
        PROVE  AskedWithOneListing(asked[q].key)
    <3>1. q # r /\ asked[q] # NoWant
      BY <2>3, <2>4 DEF HistoryInv, RequestInv
    <3>2. asked[q].key # NoListing
      BY <3>1, AskedIsKnown, GivenTypes, HistoricalConstants
    <3> QED
      BY <2>2, <2>3, <2>4, <3>1, <3>2 DEF AskedWithOneListing
  <2>5. \A q \in Requests : answer[q].kind = "raised" => asked'[q] = asked[q]
    BY <2>2, <2>3
  <2> QED
    BY <2>2, <2>4, <2>5 DEF AcceptedIsPersisted, AskedWithOneListing
<1>2. ASSUME NEW r \in Requests, Step(r) \/ Fails(r)
      PROVE  AcceptedIsPersisted'
  <2>r. RequestInv(r) /\ SerialRequest(r)
    BY DEF HistoryInv, SerialInv
  <2>p. pc[r] # "done" /\ pc[r] # "idle"
    BY <1>2 DEF Step, FindActive, FindLinked, ProviderRefuses, ProviderServes, RecordFailure,
           AnswerStale, FindSeries, CommitDataset, SaveCollides, Fails, Running, GoTo
  <2>w. asked[r] # NoWant /\ asked[r].key \in Keys
    BY <2>r, <2>p, AskedIsKnown, GivenTypes DEF RequestInv
  <2>1. /\ UNCHANGED asked
        /\ \A q \in Requests \ {r} : fetched'[q] = fetched[q] /\ answer'[q] = answer[q]
    BY <1>2
       DEF Step, FindActive, FindLinked, ProviderRefuses, ProviderServes, RecordFailure,
           AnswerStale, FindSeries, CommitDataset, SaveCollides, Fails, Done, storeVars,
           requestVars, TypeOK
  <2> SUFFICES ASSUME fetched'[r] # NoData, answer'[r].kind = "raised",
                      AskedWithOneListing(asked[r].key)
               PROVE  FALSE
    BY <2>1 DEF AcceptedIsPersisted, AskedWithOneListing
  <2>n. answer[r].kind = "none"
    BY <2>r, <2>p DEF RequestInv
  <2>2. CASE RecordFailure(r) \/ AnswerStale(r)
    BY <2>2, <2>r DEF RecordFailure, AnswerStale, Done, GoTo, SerialRequest, requestVars
  <2>3. CASE FindSeries(r)
    <3>1. Mismatch(r)
      BY <2>3, <2>n DEF FindSeries
    <3>2. PICK q \in Requests : /\ asked[q].key = asked[r].key
                                /\ asked[q].listing = identity[asked[r].key]
      BY <2>w, <3>1 DEF Mismatch, MarketInv, LinkInv, WasAskedFor
    <3> QED
      BY <3>1, <3>2 DEF Mismatch, AskedWithOneListing
  <2>4. CASE SaveCollides(r)
    BY <2>4, <2>r DEF SaveCollides, Collides, SerialRequest
  <2>5. CASE ProviderRefuses(r) \/ \E span \in Fetchable : ProviderServes(r, span)
    BY <2>5, <2>n DEF ProviderRefuses, ProviderServes
  <2>6. CASE FindActive(r) \/ FindLinked(r) \/ CommitDataset(r) \/ Fails(r)
    BY <2>6, <2>n DEF FindActive, FindLinked, CommitDataset, Fails, Done, TypeOK
  <2> QED
    BY <1>2, <2>2, <2>3, <2>4, <2>5, <2>6 DEF Step
<1>3. ASSUME NEW i \in Instruments,
             (\E k \in Keys : Promote(k, i)) \/ (\E l \in Listings : Relist(i, l))
      PROVE  AcceptedIsPersisted'
  BY <1>3 DEF Promote, Relist, requestVars, AcceptedIsPersisted, AskedWithOneListing
<1>4. CASE UNCHANGED vars
  BY <1>4 DEF vars, requestVars, AcceptedIsPersisted, AskedWithOneListing
<1> QED
  BY <1>1, <1>2, <1>3, <1>4 DEF Next

(***************************************************************************)
(* Sessions that do not overlap persist every dataset that passed          *)
(* validation, unless the process or the database fails or the series is   *)
(* asked for with two listings: no other save meets a row of another       *)
(* listing or one inserted since it looked.                                *)
(***************************************************************************)
THEOREM SerialSavesPersist ==
  ASSUME MaxConcurrent = 1
  PROVE  Spec => []AcceptedIsPersisted
<1>1. Init => AcceptedIsPersisted
  BY DEF Init, AcceptedIsPersisted
<1>2. (TypeOK /\ HistoryInv /\ MarketInv /\ SerialInv) /\ (TypeOK /\ HistoryInv /\ MarketInv /\ SerialInv)'
        /\ AcceptedIsPersisted /\ [Next]_vars => AcceptedIsPersisted'
  BY PersistedStep
<1> QED
  BY <1>1, <1>2, SerialInvariance, PTL DEF Spec

(***************************************************************************)
(* Sessions that do not overlap ask no provider for what a readable series *)
(* covers, for windows with at least one session: the two tests of         *)
(* coverage agree on those.                                                *)
(***************************************************************************)
THEOREM SerialFetchesAreNeeded ==
  ASSUME MaxConcurrent = 1, \A w \in Windows : SessionsOf(w) # {}
  PROVE  Spec => CoveredIsNotFetched
<1>1. ASSUME TypeOK, HistoryInv, SerialInv, [Next]_vars,
             NEW r \in Requests, pc[r] = "fetch",
             NEW k \in Keys, asked[r].key \in {k, link[k]}, active[k] # NoDataset
      PROVE  ~Accepts(dataset[active[k]].span, asked[r].window, Today)
  <2>1. asked[r] # NoWant /\ asked[r] \in Wants
    BY <1>1, AskedIsKnown DEF HistoryInv, RequestInv
  <2>2. asked[r].window \in Spans /\ SessionsOf(asked[r].window) # {}
    BY <2>1, GivenTypes DEF Wants
  <2>3. dataset[active[k]].key = k /\ active[k] \in Requests
    BY <1>1 DEF HistoryInv, SeriesInv, TypeOK
  <2>4. dataset[active[k]].span \in Spans
    BY <1>1, <2>3, GivenTypes, HistoricalConstants DEF TypeOK, NoData
  <2>5. ~Covers(dataset[active[k]].span, asked[r].window)
    BY <1>1 DEF SerialInv, SerialRequest, Serves
  <2> QED
    BY <2>2, <2>4, <2>5, AcceptedIsCovered, HistoricalConstants
<1> DEFINE A == \A r \in Requests :
       pc[r] = "fetch" /\ (tried'[r] # tried[r] \/ fetched'[r] # fetched[r]) =>
         ~ \E k \in Keys : /\ asked[r].key \in {k, link[k]}
                           /\ active[k] # NoDataset
                           /\ Accepts(dataset[active[k]].span, asked[r].window, Today)
<1>2. TypeOK /\ HistoryInv /\ SerialInv /\ [Next]_vars => A
  BY <1>1
<1>3. TypeOK /\ HistoryInv /\ SerialInv /\ [Next]_vars => [A]_vars
  BY <1>2
<1> QED
  BY <1>3, SerialInvariance, PTL DEF Spec, CoveredIsNotFetched

(***************************************************************************)
(* Sessions that do not overlap fall back to the newest dataset of the     *)
(* series that ever passed validation.                                     *)
(***************************************************************************)
THEOREM SerialFallsBackToTheNewest ==
  ASSUME MaxConcurrent = 1
  PROVE  Spec => StaleIsLastValidated
<1> DEFINE A == \A r \in Requests :
       answer[r].kind # "stale" /\ answer'[r].kind = "stale" =>
         \A q \in Requests : dataset[q].key = asked[r].key =>
           dataset[q].at <= dataset[answer'[r].dataset].at
<1>1. ASSUME TypeOK, HistoryInv, SerialInv, [Next]_vars,
             NEW r \in Requests, answer[r].kind # "stale", answer'[r].kind = "stale",
             NEW q \in Requests, dataset[q].key = asked[r].key
      PROVE  dataset[q].at <= dataset[answer'[r].dataset].at
  <2>0. answer' # answer
    BY <1>1
  <2>p. PICK p \in Requests : Step(p) \/ Fails(p)
    BY <1>1, <2>0 DEF Next, AskPortfolio, AskResearch, Ask, Promote, Relist, vars
  <2>c. PICK d : \E kind \in Kinds :
          /\ answer' = [answer EXCEPT ![p] = [kind |-> kind, dataset |-> d]]
          /\ kind = "stale" => AnswerStale(p)
    <3>1. AnswerStale(p) => \E d : \E kind \in Kinds :
            answer' = [answer EXCEPT ![p] = [kind |-> kind, dataset |-> d]]
      BY DEF AnswerStale, Done, Kinds
    <3> QED
      BY <2>p, <2>0, <3>1
         DEF Step, FindActive, FindLinked, ProviderRefuses, ProviderServes, RecordFailure,
             FindSeries, CommitDataset, SaveCollides, Fails, Done, Kinds
  <2>d. PICK kind \in Kinds :
          /\ answer' = [answer EXCEPT ![p] = [kind |-> kind, dataset |-> d]]
          /\ kind = "stale" => AnswerStale(p)
    BY <2>c
  <2>1. p = r /\ AnswerStale(r)
    BY <1>1, <2>d DEF TypeOK
  <2>2. answer'[r].dataset = active[asked[r].key]
    <3>1. answer' = [answer EXCEPT ![r] =
            [kind |-> IF active[asked[r].key] = NoDataset THEN "raised" ELSE "stale",
             dataset |-> active[asked[r].key]]]
      BY <2>1 DEF AnswerStale, Latest, Done
    <3> QED
      BY <1>1, <3>1 DEF TypeOK
  <2>3. asked[r].key \in Keys
    BY <2>1, AskedIsKnown, GivenTypes, <1>1 DEF AnswerStale, Done, GoTo, HistoryInv, RequestInv
  <2>4. dataset[q] # NoData
    BY <1>1, <2>3, HistoricalConstants DEF NoData
  <2> QED
    BY <1>1, <2>2, <2>4 DEF SerialInv, NewestShown
<1>2. TypeOK /\ HistoryInv /\ SerialInv /\ [Next]_vars => [A]_vars
  BY <1>1
<1> QED
  BY <1>2, SerialInvariance, PTL DEF Spec, StaleIsLastValidated
=============================================================================
