----------------------------- MODULE NotionPages -----------------------------
(***************************************************************************)
(* The pages a refresh keeps in Notion (notion/sync.py, notion/live.py,    *)
(* notion/schemas.py) and the costs it reads back from them. The workspace *)
(* has no transactions: a page is found by a query on its external id and  *)
(* then created or patched, and every call may fail before or after it had *)
(* its effect. Refreshes of one database may overlap.                      *)
(*                                                                         *)
(* Values are reduced to their origin: a property shows the refresh that   *)
(* computed it. Settings, account and signal pages are further keys like   *)
(* the review's and are left out.                                          *)
(***************************************************************************)
EXTENDS Integers, FiniteSets, Sequences

CONSTANTS
  Syncs,         \* refreshes; each runs once
  Positions,
  Costs,         \* what a user may enter as `Cost Override'
  NoCost,        \* an empty `Cost Override', or no manual cost
  Invalid,       \* a negative or non-numeric entry
  None,
  MaxConcurrent, \* bound: refreshes at once
  KeptRates,     \* bound: the rate statuses pages of earlier refreshes show
  MaxEdits       \* bound: edits of the user and imports

ASSUME NotionAssumption ==
  /\ NoCost \notin Costs /\ Invalid \notin Costs /\ NoCost # Invalid
  /\ None \notin Syncs
  /\ MaxConcurrent \in Nat /\ MaxEdits \in Nat

VARIABLES
  pages,      \* Notion: all pages, in the order of their creation
  manual,     \* database: manual cost of each position
  open,       \* database: the open positions
  pc,
  inputs,     \* the overrides a refresh has read, of the positions with one
  payloads,   \* what it will write, by external id
  todo,       \* the external ids it has not written yet
  target,     \* the external id and the page of the upsert it is in
  overlapped, \* history: some refresh began while another ran
  edits       \* bound: edits of the user and imports

workspace == <<pages, edits>>
database  == <<manual, open>>
syncVars  == <<pc, inputs, payloads, todo, target, overlapped>>
vars      == <<workspace, database, syncVars>>

(***************************************************************************)
(* External ids, properties, payloads                                      *)
(***************************************************************************)

\* position_external_id; pages written before instruments had ids of their
\* own are known by the symbol, and only read.
KeyOf(p)    == <<"position", p>>
LegacyOf(p) == <<"symbol", p>>
ReviewKey   == <<"review", None>>
Keys        == {KeyOf(p) : p \in Positions} \cup {LegacyOf(p) : p \in Positions}
                 \cup {ReviewKey}

Properties == {"Quantity", "Price", "FX Rate", "FX Status", "Reporting Market Value"}

\* What a refresh knows of a position: whether it has a price, and its rate.
Rates  == {"missing", "current", "stale"}
Quotes == [priced : BOOLEAN, rate : Rates]

\* The converted value takes a price and a rate (reporting_market_value).
KnownProperties(quote) ==
  {"Quantity", "FX Status"}
    \cup {q \in {"Price"} : quote.priced}
    \cup {q \in {"FX Rate"} : quote.rate # "missing"}
    \cup {q \in {"Reporting Market Value"} : quote.priced /\ quote.rate # "missing"}

\* Mutant: a missing rate leaves the status out, as it does the rate.
PositionPayload_NoStatus(s, quote) ==
  [q \in KnownProperties(quote) \ {p \in {"FX Status"} : quote.rate = "missing"} |->
     IF q = "FX Status" THEN quote.rate ELSE s]

\* build_position_payload: what is not known is no property at all, but the
\* status is always there.
PositionPayload(s, quote) ==
  [q \in KnownProperties(quote) |-> IF q = "FX Status" THEN quote.rate ELSE s]

\* The review's page always shows all it has.
ReviewPayload(s) == PositionPayload(s, [priced |-> TRUE, rate |-> "current"])

\* PATCH of the properties in the payload; the others keep their value.
Merged(shown, payload) ==
  [q \in Properties |-> IF q \in DOMAIN payload THEN payload[q] ELSE shown[q]]

Blank     == [q \in Properties |-> None]
NoPayloads == [k \in {} |-> Blank]
NoInputs  == [p \in {} |-> NoCost]
NoTarget  == [key |-> ReviewKey, page |-> 0]
NewPage(k, payload, s) ==
  [key |-> k, shown |-> Merged(Blank, payload), body |-> s,
   override |-> NoCost, emptied |-> FALSE]

(***************************************************************************)
(* Refreshes                                                               *)
(***************************************************************************)

Active  == {s \in Syncs : pc[s] \notin {"idle", "ended"}}
Become(s, place) == pc' = [pc EXCEPT ![s] = place]
PagesOf(K) == {i \in DOMAIN pages : pages[i].key \in K}
InputPages(p) == PagesOf({KeyOf(p), LegacyOf(p)})

\* A page of earlier refreshes, by id or by symbol, with what a user entered.
KeptPages == {[key |-> k, shown |-> Merged(Blank, PositionPayload(None, quote)),
               body |-> None, override |-> c, emptied |-> FALSE] :
                k \in Keys \ {ReviewKey}, quote \in {q \in Quotes : q.rate \in KeptRates},
                c \in Costs \cup {NoCost}}

Init ==
  /\ pages \in {<<>>} \cup {<<page>> : page \in KeptPages}
  /\ manual = [p \in Positions |->
                 IF \E i \in PagesOf({KeyOf(p)}) : pages[i].override \in Costs
                 THEN pages[1].override ELSE NoCost]
  /\ open = Positions
  /\ pc = [s \in Syncs |-> "idle"]
  /\ inputs = [s \in Syncs |-> NoInputs]
  /\ payloads = [s \in Syncs |-> NoPayloads]
  /\ todo = [s \in Syncs |-> {}]
  /\ target = [s \in Syncs |-> NoTarget]
  /\ overlapped = FALSE /\ edits = 0

Begin(s) ==
  /\ pc[s] = "idle"
  /\ Cardinality(Active) < MaxConcurrent
  /\ Become(s, "inputs")
  /\ overlapped' = (overlapped \/ Active # {})
  /\ UNCHANGED <<workspace, database, inputs, payloads, todo, target>>

\* Mutant: an entry that is not a cost clears the override.
Entered_InvalidClears(p) ==
  {IF pages[i].override = Invalid THEN NoCost ELSE pages[i].override :
     i \in InputPages(p)}

\* The overrides the pages of a position hold, invalid entries left out.
Entered(p) ==
  {pages[i].override : i \in InputPages(p)} \ {Invalid}

\* read_portfolio_inputs: of several pages the last row of the query counts,
\* and the query has no order.
ReadInputs(s) ==
  /\ pc[s] = "inputs"
  /\ Become(s, "apply")
  /\ LET given == {p \in open : Entered(p) # {}} IN
     \E read \in {f \in [given -> Costs \cup {NoCost}] :
                    \A p \in given : f[p] \in Entered(p)} :
       inputs' = [inputs EXCEPT ![s] = read]
  /\ UNCHANGED <<workspace, database, payloads, todo, target, overlapped>>

\* NotionReadError: what is stored is retained.
ReadFails(s) ==
  /\ pc[s] = "inputs"
  /\ Become(s, "apply")
  /\ UNCHANGED <<workspace, database, inputs, payloads, todo, target, overlapped>>

\* set_manual_average_cost of every position read, and the payloads of the
\* positions listed afterwards, each with the price and the rate that are found for it.
ApplyInputs(s) ==
  /\ pc[s] = "apply"
  /\ Become(s, "sync")
  /\ manual' = [p \in Positions |->
                  IF p \in DOMAIN inputs[s] THEN inputs[s][p] ELSE manual[p]]
  /\ inputs' = [inputs EXCEPT ![s] = NoInputs]
  /\ \E quote \in [open -> Quotes] :
       payloads' = [payloads EXCEPT ![s] =
         [k \in {KeyOf(p) : p \in open} \cup {ReviewKey} |->
            IF k = ReviewKey THEN ReviewPayload(s) ELSE PositionPayload(s, quote[k[2]])]]
  /\ todo' = [todo EXCEPT ![s] = {KeyOf(p) : p \in open} \cup {ReviewKey}]
  /\ UNCHANGED <<workspace, open, target, overlapped>>

(***************************************************************************)
(* upsert_page                                                             *)
(***************************************************************************)

\* Mutant: only the first rows of the database are looked through.
Matching_FirstRows(k) == PagesOf({k}) \cap {1}

\* _find_page_id: the pages with the external id; the first of them is used.
Matching(k) == PagesOf({k})

FindPage(s, k) ==
  /\ pc[s] = "sync"
  /\ k \in todo[s]
  /\ \/ /\ Matching(k) = {}
        /\ target' = [target EXCEPT ![s] = [key |-> k, page |-> 0]]
        /\ Become(s, "create")
     \/ \E i \in Matching(k) :
        /\ target' = [target EXCEPT ![s] = [key |-> k, page |-> i]]
        /\ Become(s, "update")
  /\ UNCHANGED <<workspace, database, inputs, payloads, todo, overlapped>>

CreatePage(s) ==
  /\ pc[s] = "create"
  /\ LET k == target[s].key IN
     /\ pages' = Append(pages, NewPage(k, payloads[s][k], s))
     /\ todo' = [todo EXCEPT ![s] = @ \ {k}]
  /\ target' = [target EXCEPT ![s] = NoTarget]
  /\ Become(s, "sync")
  /\ UNCHANGED <<edits, database, inputs, payloads, overlapped>>

\* The first half of _update_page.
UpdateProperties(s) ==
  /\ pc[s] = "update"
  /\ LET t == target[s] IN
     pages' = [pages EXCEPT ![t.page].shown = Merged(@, payloads[s][t.key])]
  /\ Become(s, "body")
  /\ UNCHANGED <<edits, database, inputs, payloads, todo, target, overlapped>>

\* Mutant: the body of a page is written when it is created and never again.
UpdateBody_Once(s) ==
  /\ pc[s] = "body"
  /\ todo' = [todo EXCEPT ![s] = @ \ {target[s].key}]
  /\ target' = [target EXCEPT ![s] = NoTarget]
  /\ Become(s, "sync")
  /\ UNCHANGED <<pages, edits, database, inputs, payloads, overlapped>>

\* _sync_page_body: the first paragraph is read, and patched if its text
\* differs. A failure between the two is one before the step.
UpdateBody(s) ==
  /\ pc[s] = "body"
  /\ pages' = [pages EXCEPT ![target[s].page].body = s]
  /\ todo' = [todo EXCEPT ![s] = @ \ {target[s].key}]
  /\ target' = [target EXCEPT ![s] = NoTarget]
  /\ Become(s, "sync")
  /\ UNCHANGED <<edits, database, inputs, payloads, overlapped>>

\* The end of a refresh; what it held is gone.
End(s) ==
  /\ Become(s, "ended")
  /\ inputs' = [inputs EXCEPT ![s] = NoInputs]
  /\ payloads' = [payloads EXCEPT ![s] = NoPayloads]
  /\ todo' = [todo EXCEPT ![s] = {}]
  /\ target' = [target EXCEPT ![s] = NoTarget]
  /\ UNCHANGED <<workspace, database, overlapped>>

Finish(s) ==
  /\ pc[s] = "sync"
  /\ todo[s] = {}
  /\ End(s)

\* A call raises, or the process dies: before the call had an effect, or
\* after it, when only the answer was lost.
Fails(s) ==
  /\ s \in Active
  /\ End(s)

(***************************************************************************)
(* The user and the import                                                 *)
(***************************************************************************)

EnterOverride(i, c) ==
  /\ edits < MaxEdits
  /\ pages[i].key # ReviewKey
  /\ pages[i].override # c
  /\ edits' = edits + 1
  /\ pages' = [pages EXCEPT ![i].override = c,
                            ![i].emptied = @ \/ c = NoCost]
  /\ UNCHANGED <<database, syncVars>>

\* An import closes or reopens a position.
Import(p) ==
  /\ edits < MaxEdits
  /\ edits' = edits + 1
  /\ open' = IF p \in open THEN open \ {p} ELSE open \cup {p}
  /\ UNCHANGED <<pages, manual, syncVars>>

SyncStep(s) ==
  \/ Begin(s) \/ ReadInputs(s) \/ ReadFails(s) \/ ApplyInputs(s)
  \/ \E k \in Keys : FindPage(s, k)
  \/ CreatePage(s) \/ UpdateProperties(s) \/ UpdateBody(s)
  \/ Finish(s) \/ Fails(s)

Next ==
  \/ \E s \in Syncs : SyncStep(s)
  \/ \E i \in DOMAIN pages, c \in Costs \cup {NoCost, Invalid} : EnterOverride(i, c)
  \/ \E p \in Positions : Import(p)

Spec == Init /\ [][Next]_vars

(***************************************************************************)
(* Properties                                                              *)
(***************************************************************************)

Places == {"idle", "inputs", "apply", "sync", "create", "update", "body",
           "ended"}
Values == Syncs \cup Rates \cup {None}
Page   == [key : Keys, shown : [Properties -> Values], body : Syncs \cup {None},
           override : Costs \cup {NoCost, Invalid}, emptied : BOOLEAN]

\* Type invariant of workspace, database and refreshes: a refresh that updates
\* a page has found one, and writes only what it has a payload for.
TypeOK ==
  /\ pages \in Seq(Page)
  /\ manual \in [Positions -> Costs \cup {NoCost}]
  /\ open \subseteq Positions
  /\ pc \in [Syncs -> Places]
  /\ inputs = [s \in Syncs |-> inputs[s]]
  /\ payloads = [s \in Syncs |-> payloads[s]]
  /\ todo \in [Syncs -> SUBSET Keys]
  /\ target \in [Syncs -> [key : Keys, page : Nat]]
  /\ overlapped \in BOOLEAN /\ edits \in 0..MaxEdits
  /\ \A s \in Syncs :
       /\ inputs[s] \in [DOMAIN inputs[s] -> Costs \cup {NoCost}]
       /\ DOMAIN inputs[s] \subseteq Positions
       /\ todo[s] \subseteq DOMAIN payloads[s]
       /\ pc[s] \in {"create", "update", "body"} => target[s].key \in todo[s]
       /\ pc[s] \in {"update", "body"} =>
            /\ target[s].page \in DOMAIN pages
            /\ pages[target[s].page].key = target[s].key

\* The find-then-create of upsert_page leaves at most one page of an external
\* id, through lost answers and dead processes, unless refreshes overlapped.
OnePagePerKey ==
  overlapped \/ \A i, j \in DOMAIN pages : pages[i].key = pages[j].key => i = j

\* A page whose FX status is not `missing' shows a rate of the refresh its
\* quantity is of, and if its price is of that refresh too, a reporting value
\* of that refresh, although what is unknown is left out of a payload and
\* keeps what an earlier refresh wrote, and refreshes overlap
\* (sync.py:200-236, models.py:129-132).
StatusFitsValue ==
  \A i \in DOMAIN pages :
    LET shown == pages[i].shown IN
    shown["FX Status"] \in {"current", "stale"} =>
      /\ shown["FX Rate"] = shown["Quantity"]
      /\ shown["Price"] = shown["Quantity"] =>
           shown["Reporting Market Value"] = shown["Quantity"]

\* Where refreshes do not overlap, every page a refresh has written so far is
\* its payload and its body: what an earlier refresh that failed between the
\* two halves of an update left behind is repaired.
WrittenPagesAreWhole ==
  \A s \in Syncs : ~overlapped /\ pc[s] = "sync" =>
    \A k \in DOMAIN payloads[s] \ todo[s] : \E i \in PagesOf({k}) :
      /\ pages[i].body = s
      /\ \A q \in DOMAIN payloads[s][k] : pages[i].shown[q] = payloads[s][k][q]

\* A refresh clears a manual cost only if the user emptied the override on the
\* position's page. Not so where refreshes overlapped, or where a page of the
\* position by its symbol is left from earlier versions.
ClearedByTheUser ==
  [][\A p \in Positions :
       /\ manual[p] # NoCost /\ manual'[p] = NoCost
       /\ ~overlapped /\ PagesOf({LegacyOf(p)}) = {}
       => \E i \in PagesOf({KeyOf(p)}) : pages[i].emptied]_vars
=============================================================================
