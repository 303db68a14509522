-------------------------- MODULE HistoricalAnswers --------------------------
(***************************************************************************)
(* What HistoricalDataService promises its callers, whatever providers,    *)
(* sessions and failures do.  A request gets one answer: the dataset a     *)
(* series it may read shows at that moment, or a new one that becomes that *)
(* of its series with the answer, both with every session of its window;   *)
(* the dataset of its own series marked stale, if it allowed that; or an   *)
(* error.  A published dataset never changes.                              *)
(***************************************************************************)
EXTENDS HistoricalCoverage

CONSTANTS Requests, Keys, Owners, Fetchable, Wants, NoWant, NoData, NoDataset

VARIABLES
  active,   \* the dataset each series shows, named by the request it came from
  link,     \* the instrument each series is linked to
  dataset,  \* the published datasets
  asked,    \* what each request asks for
  answer    \* its answer: a kind, and the dataset it carries

vars == <<active, link, dataset, asked, answer>>

Open(r) == asked[r] # NoWant /\ answer[r].kind = "none"

\* A request reads the series of its key and those linked to that key.
MayRead(r, k) == asked[r].key \in {k, link[k]}

Answer(r, kind, d) == answer' = [answer EXCEPT ![r] = [kind |-> kind, dataset |-> d]]

Ask(r, want) ==
  /\ asked[r] = NoWant
  /\ asked' = [asked EXCEPT ![r] = want]
  /\ UNCHANGED <<active, link, dataset, answer>>

Reuse(r, k) ==
  /\ Open(r)
  /\ MayRead(r, k)
  /\ active[k] # NoDataset
  /\ Holds(dataset[active[k]].span, asked[r].window)
  /\ Answer(r, "fresh", active[k])
  /\ UNCHANGED <<active, link, dataset, asked>>

\* A series that is created with its first dataset is linked with it.
Publish(r, span) ==
  /\ Open(r)
  /\ dataset[r] = NoData
  /\ Holds(span, asked[r].window)
  /\ dataset' = [dataset EXCEPT ![r] = [key |-> asked[r].key,
                                        listing |-> asked[r].listing, span |-> span]]
  /\ active' = [active EXCEPT ![asked[r].key] = r]
  /\ \/ UNCHANGED link
     \/ /\ active[asked[r].key] = NoDataset
        /\ \E o \in Owners : link' = [link EXCEPT ![asked[r].key] = o]
  /\ Answer(r, "fresh", r)
  /\ UNCHANGED asked

FallBack(r) ==
  /\ Open(r)
  /\ asked[r].stale
  /\ active[asked[r].key] # NoDataset
  /\ Answer(r, "stale", active[asked[r].key])
  /\ UNCHANGED <<active, link, dataset, asked>>

Refuse(r) ==
  /\ Open(r)
  /\ \E kind \in {"raised", "failed"} : Answer(r, kind, NoDataset)
  /\ UNCHANGED <<active, link, dataset, asked>>

Promote(k, o) ==
  /\ active[k] # NoDataset
  /\ link' = [link EXCEPT ![k] = o]
  /\ UNCHANGED <<active, dataset, asked, answer>>

Init ==
  /\ active = [k \in Keys |-> NoDataset]
  /\ link \in [Keys -> Owners]
  /\ dataset = [r \in Requests |-> NoData]
  /\ asked = [r \in Requests |-> NoWant]
  /\ answer = [r \in Requests |-> [kind |-> "none", dataset |-> NoDataset]]

Next ==
  \/ \E r \in Requests :
       \/ \E want \in Wants : Ask(r, want)
       \/ \E k \in Keys : Reuse(r, k)
       \/ \E span \in Fetchable : Publish(r, span)
       \/ FallBack(r)
       \/ Refuse(r)
  \/ \E k \in Keys, o \in Owners : Promote(k, o)

Spec == Init /\ [][Next]_vars
=============================================================================
