-------------------------- MODULE NotionPagesProofs --------------------------
(***************************************************************************)
(* What refreshes keep in Notion, for any number of refreshes, positions   *)
(* and costs. Pages are only appended, and a page keeps its key; what a    *)
(* page shows changes by a payload at a time; and where refreshes do not   *)
(* overlap nothing comes between the query for a page and its creation.    *)
(***************************************************************************)
EXTENDS NotionPages, TLAPS

-----------------------------------------------------------------------------
(* The inductive invariant.                                                *)

\* A payload is one refresh's, and a page shows payloads.
PayloadInv ==
  \A s \in Syncs :
    /\ pc[s] \notin {"sync", "create", "update", "body"} => DOMAIN payloads[s] = {}
    /\ \A k \in DOMAIN payloads[s] :
         \E quote \in Quotes : payloads[s][k] = PositionPayload(s, quote)

\* Without overlap there is one refresh at a time, a page is created only
\* where there is none, and a page is whole once its body is written.
SerialInv ==
  overlapped \/
    /\ \A s, t \in Active : s = t
    /\ OnePagePerKey
    /\ \A s \in Syncs : pc[s] = "create" => Matching(target[s].key) = {}

\* A page shows the payload a refresh has for it.
Shows(i, payload) == \A q \in DOMAIN payload : pages[i].shown[q] = payload[q]

Whole(s) ==
  /\ \A k \in DOMAIN payloads[s] \ todo[s] : \E i \in PagesOf({k}) :
       pages[i].body = s /\ Shows(i, payloads[s][k])
  /\ pc[s] = "body" => Shows(target[s].page, payloads[s][target[s].key])

WholeInv == \A s \in Active : ~overlapped => Whole(s)

NotionInv == TypeOK /\ PayloadInv /\ StatusFitsValue /\ SerialInv /\ WholeInv

\* What a refresh has still to write shows nothing of it yet.
Unwritten(s, k) ==
  \/ pc[s] \in {"idle", "inputs", "apply"}
  \/ k \in todo[s] /\ ~(pc[s] = "body" /\ target[s].key = k)

Unseen(s, i) == \A q \in Properties \ {"FX Status"} : pages[i].shown[q] # s

UnseenInv == \A s \in Syncs, i \in DOMAIN pages : Unwritten(s, pages[i].key) => Unseen(s, i)

Fits(shown) ==
  shown["FX Status"] \in {"current", "stale"} =>
    /\ shown["FX Rate"] = shown["Quantity"]
    /\ shown["Price"] = shown["Quantity"] =>
         shown["Reporting Market Value"] = shown["Quantity"]

\* A payload leaves a page that fits its status, whatever the page showed.
LEMMA PayloadFits ==
  ASSUME NEW s \in Syncs \cup {None}, NEW quote \in Quotes,
         NEW shown \in [Properties -> Values],
         shown = Blank \/ \A q \in Properties \ {"FX Status"} : shown[q] # s
  PROVE  LET payload == PositionPayload(s, quote) IN
         /\ Merged(shown, payload) \in [Properties -> Values]
         /\ Fits(Merged(shown, payload))
         /\ \A q \in DOMAIN payload : Merged(shown, payload)[q] = payload[q]
<1> DEFINE payload == PositionPayload(s, quote)
           page == Merged(shown, payload)
<1>1. /\ DOMAIN payload = KnownProperties(quote)
      /\ \A q \in KnownProperties(quote) :
           payload[q] = IF q = "FX Status" THEN quote.rate ELSE s
  BY DEF PositionPayload
<1>2. quote.rate \in Rates /\ quote.priced \in BOOLEAN
  BY DEF Quotes
<1>3. KnownProperties(quote) \subseteq Properties
  BY DEF KnownProperties, Properties
<1>4. \A q \in DOMAIN payload : payload[q] \in Values
  BY <1>1, <1>2 DEF Values
<1> HIDE DEF payload
<1>5. \A q \in Properties : page[q] = IF q \in DOMAIN payload THEN payload[q] ELSE shown[q]
  BY DEF Merged
<1>6. page \in [Properties -> Values]
  BY <1>4 DEF Merged
<1>7. \A q \in DOMAIN payload : page[q] = payload[q]
  BY <1>1, <1>3, <1>5
<1> HIDE DEF page
<1>8. ASSUME page["FX Status"] \in {"current", "stale"}
      PROVE  /\ page["FX Rate"] = page["Quantity"]
             /\ page["Price"] = page["Quantity"] =>
                  page["Reporting Market Value"] = page["Quantity"]
  <2>1. page["FX Status"] = quote.rate /\ page["Quantity"] = s
    BY <1>1, <1>7 DEF KnownProperties
  <2>2. page["FX Rate"] = s
    BY <1>1, <1>7, <1>8, <2>1 DEF KnownProperties
  <2>3. CASE quote.priced
    BY <1>1, <1>7, <1>8, <2>1, <2>2, <2>3 DEF KnownProperties
  <2>4. CASE ~quote.priced
    <3>1. /\ page["Price"] = shown["Price"]
          /\ page["Reporting Market Value"] = shown["Reporting Market Value"]
      BY <1>1, <1>5, <2>4 DEF KnownProperties, Properties
    <3>2. shown = Blank => \A q \in Properties : shown[q] = None
      BY DEF Blank
    <3>3. page["Price"] = s => page["Reporting Market Value"] = s
      BY <3>1, <3>2 DEF Properties
    <3> QED
      BY <2>1, <2>2, <3>3
  <2> QED
    BY <1>2, <2>3, <2>4
<1> QED
  BY <1>6, <1>7, <1>8 DEF Fits, page, payload

LEMMA BlankFits == Blank \in [Properties -> Values]
BY DEF Blank, Values

\* Keys of positions, symbols and the review are told apart.
LEMMA KeysAreKeys ==
  /\ ReviewKey \in Keys
  /\ \A p \in Positions : KeyOf(p) \in Keys /\ LegacyOf(p) \in Keys
BY DEF Keys

LEMMA InitNotionInv == Init => NotionInv
<1> SUFFICES ASSUME Init PROVE NotionInv
  OBVIOUS
<1> USE DEF Init
<1>1. ASSUME NEW page \in KeptPages PROVE page \in Page /\ Fits(page.shown)
  <2>1. PICK k \in Keys \ {ReviewKey}, quote \in Quotes, c \in Costs \cup {NoCost} :
          page = [key |-> k, shown |-> Merged(Blank, PositionPayload(None, quote)),
                  body |-> None, override |-> c, emptied |-> FALSE]
    BY <1>1 DEF KeptPages
  <2>2. /\ Merged(Blank, PositionPayload(None, quote)) \in [Properties -> Values]
        /\ Fits(Merged(Blank, PositionPayload(None, quote)))
    BY BlankFits, PayloadFits
  <2> QED
    BY <2>1, <2>2 DEF Page
<1>2. pages \in Seq(Page) /\ Len(pages) <= 1 /\ \A i \in DOMAIN pages : Fits(pages[i].shown)
  <2>1. CASE pages = <<>>
    BY <2>1
  <2>2. CASE \E page \in KeptPages : pages = <<page>>
    BY <2>2, <1>1
  <2> QED
    BY <2>1, <2>2
<1>3. manual \in [Positions -> Costs \cup {NoCost}]
  <2> SUFFICES ASSUME NEW p \in Positions, NEW i \in PagesOf({KeyOf(p)}),
                      pages[i].override \in Costs
               PROVE  pages[1].override \in Costs
    OBVIOUS
  <2> QED
    BY <1>2 DEF PagesOf
<1>4. Active = {}
  BY DEF Active
<1>5. TypeOK
  <2>1. NoInputs \in [DOMAIN NoInputs -> Costs \cup {NoCost}] /\ DOMAIN NoInputs = {}
    BY DEF NoInputs
  <2>2. NoTarget \in [key : Keys, page : Nat]
    BY KeysAreKeys DEF NoTarget
  <2>3. /\ inputs = [s \in Syncs |-> inputs[s]] /\ payloads = [s \in Syncs |-> payloads[s]]
        /\ \A s \in Syncs : inputs[s] = NoInputs /\ todo[s] = {} /\ pc[s] = "idle"
    OBVIOUS
  <2>4. /\ pc \in [Syncs -> Places] /\ todo \in [Syncs -> SUBSET Keys]
        /\ overlapped \in BOOLEAN /\ open \subseteq Positions
    BY Zenon DEF Places
  <2>6. edits = 0
    BY Zenon
  <2>5. target \in [Syncs -> [key : Keys, page : Nat]]
    BY <2>2
  <2> HIDE DEF Init
  <2>7. edits \in 0..MaxEdits /\ pages \in Seq(Page)
    BY <1>2, <2>6, NotionAssumption
  <2>8. \A s \in Syncs : /\ inputs[s] \in [DOMAIN inputs[s] -> Costs \cup {NoCost}]
                         /\ DOMAIN inputs[s] \subseteq Positions
                         /\ todo[s] \subseteq DOMAIN payloads[s]
                         /\ pc[s] \notin {"create", "update", "body"}
    BY <2>1, <2>3
  <2> QED
    BY <1>3, <2>3, <2>4, <2>5, <2>7, <2>8 DEF TypeOK
<1>6. StatusFitsValue
  BY <1>2 DEF StatusFitsValue, Fits
<1>7. PayloadInv /\ SerialInv /\ WholeInv
  BY <1>2, <1>4 DEF PayloadInv, SerialInv, WholeInv, Whole, NoPayloads, OnePagePerKey
<1> QED
  BY <1>5, <1>6, <1>7 DEF NotionInv

-----------------------------------------------------------------------------
(* One lemma for each kind of step.                                        *)

USE DEF workspace, database, syncVars, Become

LEMMA StutterPreserves == NotionInv /\ UNCHANGED vars => NotionInv'
<1> SUFFICES ASSUME NotionInv, UNCHANGED vars PROVE NotionInv'
  OBVIOUS
<1> USE DEF vars, NotionInv
<1>1. TypeOK'
  BY DEF TypeOK
<1>2. PayloadInv' /\ StatusFitsValue'
  BY DEF PayloadInv, StatusFitsValue
<1>3. SerialInv'
  BY DEF SerialInv, OnePagePerKey, Matching, PagesOf, Active
<1>4. WholeInv'
  BY DEF WholeInv, Whole, Shows, PagesOf, Active
<1> QED
  BY <1>1, <1>2, <1>3, <1>4

\* Begin, reads and failures write no page, and finish nothing that is not
\* whole.
LEMMA QuietPreserves ==
  ASSUME NotionInv, NEW s \in Syncs,
         Begin(s) \/ ReadInputs(s) \/ ReadFails(s) \/ Finish(s) \/ Fails(s)
  PROVE  NotionInv'
<1> USE DEF NotionInv
<1>0. pages' = pages /\ manual' = manual /\ open' = open /\ edits' = edits
  BY DEF Begin, ReadInputs, ReadFails, Finish, Fails, End
<1>1. TypeOK'
  <2>1. CASE Begin(s)
    BY <2>1 DEF Begin, TypeOK, Places
  <2>2. CASE ReadInputs(s)
    <3>1. PICK read \in [{p \in open : Entered(p) # {}} -> Costs \cup {NoCost}] :
            inputs' = [inputs EXCEPT ![s] = read]
      BY <2>2 DEF ReadInputs
    <3> QED
      BY <2>2, <3>1 DEF ReadInputs, TypeOK, Places
  <2>3. CASE ReadFails(s)
    BY <2>3 DEF ReadFails, TypeOK, Places
  <2>4. CASE Finish(s) \/ Fails(s)
    <3>1. NoInputs \in [DOMAIN NoInputs -> Costs \cup {NoCost}] /\ DOMAIN NoInputs = {}
      BY DEF NoInputs
    <3>2. NoTarget \in [key : Keys, page : Nat]
      BY KeysAreKeys DEF NoTarget
    <3> HIDE DEF NoInputs, NoTarget
    <3>3. /\ pc' = [pc EXCEPT ![s] = "ended"] /\ todo' = [todo EXCEPT ![s] = {}]
          /\ inputs' = [inputs EXCEPT ![s] = NoInputs]
          /\ payloads' = [payloads EXCEPT ![s] = NoPayloads]
          /\ target' = [target EXCEPT ![s] = NoTarget]
          /\ overlapped' = overlapped
      BY <2>4 DEF Finish, Fails, End
    <3>4. /\ pc' \in [Syncs -> Places] /\ todo' \in [Syncs -> SUBSET Keys]
          /\ target' \in [Syncs -> [key : Keys, page : Nat]]
      BY <3>2, <3>3 DEF TypeOK, Places
    <3>5. /\ inputs' = [t \in Syncs |-> inputs'[t]] /\ payloads' = [t \in Syncs |-> payloads'[t]]
      BY <3>3 DEF TypeOK
    <3>6. ASSUME NEW t \in Syncs
          PROVE  /\ inputs'[t] \in [DOMAIN inputs'[t] -> Costs \cup {NoCost}]
                 /\ DOMAIN inputs'[t] \subseteq Positions
                 /\ todo'[t] \subseteq DOMAIN payloads'[t]
                 /\ pc'[t] \in {"create", "update", "body"} =>
                      pc'[t] = pc[t] /\ target'[t] = target[t] /\ todo'[t] = todo[t]
      <4>1. CASE t = s
        BY <3>1, <3>3, <4>1 DEF TypeOK
      <4>2. CASE t # s
        BY <3>3, <4>2 DEF TypeOK
      <4> QED
        BY <4>1, <4>2
    <3> QED
      BY <1>0, <3>3, <3>4, <3>5, <3>6 DEF TypeOK
  <2> QED
    BY <2>1, <2>2, <2>3, <2>4
<1>2. PayloadInv'
  <2> SUFFICES ASSUME NEW t \in Syncs
               PROVE  /\ pc'[t] \notin {"sync", "create", "update", "body"} => DOMAIN payloads'[t] = {}
                      /\ \A k \in DOMAIN payloads'[t] :
                           \E quote \in Quotes : payloads'[t][k] = PositionPayload(t, quote)
    BY DEF PayloadInv
  <2>1. CASE Begin(s) \/ ReadInputs(s) \/ ReadFails(s)
    <3>1. payloads' = payloads /\ (pc[t] \in {"sync", "create", "update", "body"} => pc'[t] = pc[t])
      BY <2>1 DEF Begin, ReadInputs, ReadFails, TypeOK
    <3> QED
      BY <3>1 DEF PayloadInv
  <2>2. CASE Finish(s) \/ Fails(s)
    <3>1. payloads'[t] = IF t = s THEN NoPayloads ELSE payloads[t]
      BY <2>2 DEF Finish, Fails, End, TypeOK
    <3>2. t # s => pc'[t] = pc[t]
      BY <2>2 DEF Finish, Fails, End, TypeOK
    <3> QED
      BY <3>1, <3>2 DEF PayloadInv, NoPayloads
  <2> QED
    BY <2>1, <2>2
<1>3. StatusFitsValue'
  BY <1>0 DEF StatusFitsValue
<1>4. SerialInv'
  <2> SUFFICES ASSUME ~overlapped' PROVE SerialInv'
    BY DEF SerialInv
  <2>1. ~overlapped /\ \A t, u \in Active' : t = u
    <3>1. CASE Begin(s)
      <4>1. ~overlapped /\ Active = {}
        BY <3>1 DEF Begin
      <4>2. \A t \in Syncs : pc'[t] \notin {"idle", "ended"} => t = s
        BY <3>1, <4>1 DEF Begin, TypeOK, Active
      <4> QED
        BY <4>1, <4>2 DEF Active
    <3>2. CASE ReadInputs(s) \/ ReadFails(s) \/ Finish(s) \/ Fails(s)
      <4>1. overlapped' = overlapped
        BY <3>2 DEF ReadInputs, ReadFails, Finish, Fails, End
      <4>2. \A t \in Syncs \ {s} : pc'[t] = pc[t]
        BY <3>2 DEF TypeOK, ReadInputs, ReadFails, Finish, Fails, End
      <4>3. pc[s] \notin {"idle", "ended"}
        BY <3>2 DEF ReadInputs, ReadFails, Finish, Fails, Active
      <4>4. Active' \subseteq Active
        BY <4>2, <4>3 DEF Active
      <4> QED
        BY <4>1, <4>4 DEF SerialInv
    <3> QED
      BY <3>1, <3>2
  <2>2. OnePagePerKey'
    BY <1>0, <2>1 DEF SerialInv, OnePagePerKey
  <2>3. \A t \in Syncs : pc'[t] = "create" => pc[t] = "create" /\ target'[t] = target[t]
    BY DEF TypeOK, Begin, ReadInputs, ReadFails, Finish, Fails, End
  <2>4. \A t \in Syncs : pc'[t] = "create" => Matching(target[t].key)' = {}
    BY <1>0, <2>1, <2>3 DEF SerialInv, Matching, PagesOf
  <2> QED
    BY <2>1, <2>2, <2>4 DEF SerialInv, Matching
<1>5. WholeInv'
  <2> SUFFICES ASSUME NEW t \in Active', ~overlapped' PROVE Whole(t)'
    BY DEF WholeInv
  <2>1. CASE pc[t] \in {"idle", "inputs"}
    <3>1. DOMAIN payloads'[t] = {} /\ pc'[t] # "body"
      BY <2>1 DEF PayloadInv, TypeOK, Active, Begin, ReadInputs, ReadFails, Finish, Fails, End
    <3> QED
      BY <3>1 DEF Whole
  <2>2. CASE pc[t] \notin {"idle", "inputs"}
    <3>1. /\ t \in Active /\ ~overlapped /\ pc'[t] = pc[t]
          /\ payloads'[t] = payloads[t] /\ todo'[t] = todo[t] /\ target'[t] = target[t]
      BY <2>2 DEF TypeOK, Active, Places, Begin, ReadInputs, ReadFails, Finish, Fails, End
    <3> QED
      BY <1>0, <3>1 DEF WholeInv, Whole, Shows, PagesOf
  <2> QED
    BY <2>1, <2>2
<1> QED
  BY <1>1, <1>2, <1>3, <1>4, <1>5

\* The inputs a refresh read become manual costs, and its payloads are made.
LEMMA ApplyPreserves ==
  ASSUME NotionInv, NEW s \in Syncs, ApplyInputs(s)
  PROVE  NotionInv'
<1> USE DEF NotionInv, ApplyInputs
<1> DEFINE K == {KeyOf(p) : p \in open} \cup {ReviewKey}
<1>1. PICK quote \in [open -> Quotes] :
        payloads' = [payloads EXCEPT ![s] =
          [k \in K |-> IF k = ReviewKey THEN ReviewPayload(s)
                                         ELSE PositionPayload(s, quote[k[2]])]]
  OBVIOUS
<1>2. \A k \in K : k = ReviewKey \/ k[2] \in open
  BY DEF KeyOf
<1>3. K \subseteq Keys
  BY DEF Keys, TypeOK
<1>4. /\ DOMAIN payloads'[s] = K /\ todo'[s] = K /\ pc'[s] = "sync"
      /\ \A k \in K : \E r \in Quotes : payloads'[s][k] = PositionPayload(s, r)
      /\ \A t \in Syncs \ {s} : /\ payloads'[t] = payloads[t] /\ todo'[t] = todo[t]
                               /\ pc'[t] = pc[t]
  <2>1. \A k \in K : k = ReviewKey \/ quote[k[2]] \in Quotes
    BY <1>2
  <2>5. \E r \in Quotes : ReviewPayload(s) = PositionPayload(s, r)
    <3>1. [priced |-> TRUE, rate |-> "current"] \in Quotes
      BY DEF Quotes, Rates
    <3> QED
      BY <3>1 DEF ReviewPayload
  <2>2. payloads'[s] = [k \in K |-> IF k = ReviewKey THEN ReviewPayload(s)
                                     ELSE PositionPayload(s, quote[k[2]])]
    BY <1>1 DEF TypeOK
  <2>3. \A t \in Syncs \ {s} : payloads'[t] = payloads[t]
    BY <1>1 DEF TypeOK
  <2>4. todo'[s] = K /\ pc'[s] = "sync"
        /\ \A t \in Syncs \ {s} : todo'[t] = todo[t] /\ pc'[t] = pc[t]
    BY DEF TypeOK
  <2> HIDE DEF K
  <2> QED
    BY <2>1, <2>2, <2>3, <2>4, <2>5
<1> HIDE DEF K
<1>5. TypeOK'
  <2>1. manual' \in [Positions -> Costs \cup {NoCost}]
    BY DEF TypeOK
  <2>2. pc' \in [Syncs -> Places] /\ todo' \in [Syncs -> SUBSET Keys]
    BY <1>3 DEF TypeOK, Places, K
  <2>3. NoInputs \in [DOMAIN NoInputs -> Costs \cup {NoCost}] /\ DOMAIN NoInputs = {}
    BY DEF NoInputs
  <2>4. /\ inputs' = [t \in Syncs |-> inputs'[t]]
        /\ \A t \in Syncs : inputs'[t] = IF t = s THEN NoInputs ELSE inputs[t]
    BY DEF TypeOK
  <2>5. payloads' = [t \in Syncs |-> payloads'[t]]
    BY <1>1 DEF TypeOK
  <2>6. UNCHANGED <<pages, open, target, overlapped, edits>>
    OBVIOUS
  <2>7. \A t \in Syncs : inputs'[t] \in [DOMAIN inputs'[t] -> Costs \cup {NoCost}]
                       /\ DOMAIN inputs'[t] \subseteq Positions
    BY <2>3, <2>4 DEF TypeOK
  <2> HIDE DEF ApplyInputs
  <2> QED
    BY <1>4, <2>1, <2>2, <2>4, <2>5, <2>6, <2>7 DEF TypeOK
<1>6. PayloadInv'
  <2> HIDE DEF ApplyInputs
  <2> QED
    BY <1>4 DEF PayloadInv
<1>7. StatusFitsValue'
  BY DEF StatusFitsValue
<1>8. SerialInv'
  BY <1>4 DEF SerialInv, TypeOK, Active, OnePagePerKey, Matching, PagesOf
<1>9. WholeInv'
  <2> SUFFICES ASSUME NEW t \in Active', ~overlapped' PROVE Whole(t)'
    BY DEF WholeInv
  <2>1. CASE t = s
    BY <2>1, <1>4 DEF Whole
  <2>2. CASE t # s
    BY <2>2, <1>4 DEF WholeInv, Whole, Shows, PagesOf, Active
  <2> QED
    BY <2>1, <2>2
<1> QED
  BY <1>5, <1>6, <1>7, <1>8, <1>9

\* A query for a page: what it finds is a page of the key.
LEMMA FindPreserves ==
  ASSUME NotionInv, NEW s \in Syncs, NEW k \in Keys, FindPage(s, k)
  PROVE  NotionInv'
<1> USE DEF NotionInv
<1>1. PICK i \in Nat, place \in {"create", "update"} :
        /\ pc' = [pc EXCEPT ![s] = place]
        /\ target' = [target EXCEPT ![s] = [key |-> k, page |-> i]]
        /\ place = "create" => Matching(k) = {}
        /\ place = "update" => i \in DOMAIN pages /\ pages[i].key = k
  <2>1. CASE Matching(k) = {} /\ target' = [target EXCEPT ![s] = [key |-> k, page |-> 0]]
                            /\ pc' = [pc EXCEPT ![s] = "create"]
    BY <2>1
  <2>2. CASE \E i \in Matching(k) :
          target' = [target EXCEPT ![s] = [key |-> k, page |-> i]]
            /\ pc' = [pc EXCEPT ![s] = "update"]
    <3>1. PICK i \in Matching(k) :
            target' = [target EXCEPT ![s] = [key |-> k, page |-> i]]
              /\ pc' = [pc EXCEPT ![s] = "update"]
      BY <2>2
    <3>2. i \in Nat /\ i \in DOMAIN pages /\ pages[i].key = k
      BY DEF Matching, PagesOf, TypeOK
    <3> QED
      BY <3>1, <3>2
  <2> QED
    BY <2>1, <2>2 DEF FindPage
<1>2. /\ pc[s] = "sync" /\ k \in todo[s]
      /\ UNCHANGED <<workspace, database, inputs, payloads, todo, overlapped>>
  BY DEF FindPage
<1>3. TypeOK'
  <2>1. pc' \in [Syncs -> Places]
    BY <1>1 DEF TypeOK, Places
  <2>2. target' \in [Syncs -> [key : Keys, page : Nat]]
    BY <1>1 DEF TypeOK
  <2>3. ASSUME NEW t \in Syncs
        PROVE  /\ pc'[t] \in {"create", "update", "body"} => target'[t].key \in todo[t]
               /\ pc'[t] \in {"update", "body"} =>
                    target'[t].page \in DOMAIN pages /\ pages[target'[t].page].key = target'[t].key
    <3>1. CASE t = s
      BY <1>1, <1>2, <3>1 DEF TypeOK
    <3>2. CASE t # s
      BY <1>1, <3>2 DEF TypeOK
    <3> QED
      BY <3>1, <3>2
  <2> QED
    BY <1>2, <2>1, <2>2, <2>3 DEF TypeOK
<1>4. \A t \in Syncs : t # s => pc'[t] = pc[t] /\ target'[t] = target[t]
  BY <1>1 DEF TypeOK
<1>5. pc'[s] \in {"create", "update"} /\ (pc'[s] = "create" => Matching(target'[s].key) = {})
  BY <1>1 DEF TypeOK
<1>6. PayloadInv' /\ StatusFitsValue'
  BY <1>2, <1>4, <1>5 DEF PayloadInv, StatusFitsValue
<1>7. Active' = Active
  BY <1>2, <1>4, <1>5 DEF Active
<1>8. SerialInv'
  BY <1>2, <1>4, <1>5, <1>7 DEF SerialInv, OnePagePerKey, Matching, PagesOf
<1>9. WholeInv'
  <2> SUFFICES ASSUME NEW t \in Active', ~overlapped' PROVE Whole(t)'
    BY DEF WholeInv
  <2>1. Whole(t)
    BY <1>2, <1>7 DEF WholeInv
  <2>2. pc'[t] = "body" => pc[t] = "body" /\ target'[t] = target[t]
    BY <1>4, <1>5, <1>7 DEF Active
  <2>3. UNCHANGED <<pages, payloads, todo>>
    BY <1>2
  <2> QED
    BY <2>1, <2>2, <2>3 DEF Whole, Shows, PagesOf
<1> QED
  BY <1>3, <1>6, <1>8, <1>9

\* A new page is the only one of its key, shows its payload and fits.
LEMMA CreatePreserves ==
  ASSUME NotionInv, NEW s \in Syncs, CreatePage(s)
  PROVE  NotionInv'
<1> USE DEF NotionInv
<1> DEFINE k == target[s].key
           new == NewPage(k, payloads[s][k], s)
<1>1. /\ pc[s] = "create" /\ pages' = Append(pages, new)
      /\ todo' = [todo EXCEPT ![s] = @ \ {k}] /\ target' = [target EXCEPT ![s] = NoTarget]
      /\ pc' = [pc EXCEPT ![s] = "sync"]
      /\ UNCHANGED <<edits, manual, open, inputs, payloads, overlapped>>
  BY DEF CreatePage
<1>2. k \in todo[s] /\ k \in Keys /\ k \in DOMAIN payloads[s]
  BY <1>1 DEF TypeOK
<1>3. PICK quote \in Quotes : payloads[s][k] = PositionPayload(s, quote)
  BY <1>2 DEF PayloadInv
<1>4. /\ new \in Page /\ Fits(new.shown) /\ new.key = k /\ new.body = s
      /\ \A q \in DOMAIN payloads[s][k] : new.shown[q] = payloads[s][k][q]
  <2>1. /\ Merged(Blank, payloads[s][k]) \in [Properties -> Values]
        /\ Fits(Merged(Blank, payloads[s][k]))
        /\ \A q \in DOMAIN payloads[s][k] : Merged(Blank, payloads[s][k])[q] = payloads[s][k][q]
    <3>1. LET payload == PositionPayload(s, quote) IN
          /\ Merged(Blank, payload) \in [Properties -> Values]
          /\ Fits(Merged(Blank, payload))
          /\ \A q \in DOMAIN payload : Merged(Blank, payload)[q] = payload[q]
      <4> HIDE DEF NotionInv
      <4> QED
        BY BlankFits, PayloadFits
    <3> QED
      BY <1>3, <3>1
  <2> QED
    BY <1>2, <2>1 DEF NewPage, Page
<1> HIDE DEF new
<1>5. /\ Len(pages) \in Nat /\ DOMAIN pages = 1..Len(pages)
      /\ DOMAIN pages' = 1..(Len(pages) + 1) /\ pages'[Len(pages) + 1] = new
      /\ \A i \in DOMAIN pages : pages'[i] = pages[i]
      /\ pages' \in Seq(Page)
  BY <1>1, <1>4 DEF TypeOK
<1>6. \A t \in Syncs : /\ t # s => pc'[t] = pc[t] /\ target'[t] = target[t] /\ todo'[t] = todo[t]
                       /\ t = s => pc'[t] = "sync" /\ todo'[t] = todo[t] \ {k}
  BY <1>1 DEF TypeOK
<1>7. TypeOK'
  <2>1. pc' \in [Syncs -> Places] /\ todo' \in [Syncs -> SUBSET Keys]
    BY <1>1 DEF TypeOK, Places
  <2>2. target' \in [Syncs -> [key : Keys, page : Nat]]
    BY <1>1, KeysAreKeys DEF TypeOK, NoTarget
  <2>3. ASSUME NEW t \in Syncs
        PROVE  /\ todo'[t] \subseteq DOMAIN payloads[t]
               /\ pc'[t] \in {"create", "update", "body"} => target'[t].key \in todo'[t]
               /\ pc'[t] \in {"update", "body"} =>
                    target'[t].page \in DOMAIN pages' /\ pages'[target'[t].page].key = target'[t].key
    <3>1. CASE t = s
      BY <1>6, <3>1 DEF TypeOK
    <3>2. CASE t # s
      <4>1. pc'[t] = pc[t] /\ target'[t] = target[t] /\ todo'[t] = todo[t]
        BY <1>6, <3>2
      <4>2. pc[t] \in {"update", "body"} =>
              target[t].page \in DOMAIN pages /\ pages[target[t].page].key = target[t].key
        BY DEF TypeOK
      <4>3. pc[t] \in {"update", "body"} =>
              target[t].page \in DOMAIN pages' /\ pages'[target[t].page].key = target[t].key
        BY <1>5, <4>2
      <4> QED
        BY <4>1, <4>3 DEF TypeOK
    <3> QED
      BY <3>1, <3>2
  <2> QED
    BY <1>1, <1>5, <2>1, <2>2, <2>3 DEF TypeOK
<1>8. PayloadInv'
  BY <1>1, <1>6 DEF PayloadInv
<1>9. StatusFitsValue'
  <2> SUFFICES ASSUME NEW i \in DOMAIN pages' PROVE Fits(pages'[i].shown)
    BY DEF StatusFitsValue, Fits
  <2>1. CASE i \in DOMAIN pages
    BY <1>5, <2>1 DEF StatusFitsValue, Fits
  <2>2. CASE i = Len(pages) + 1
    BY <1>4, <1>5, <2>2
  <2> QED
    BY <1>5, <2>1, <2>2
<1>10. Active' = Active
  BY <1>1, <1>6 DEF Active
<1>11. SerialInv'
  <2> SUFFICES ASSUME ~overlapped PROVE SerialInv'
    BY <1>1 DEF SerialInv
  <2>1. s \in Active /\ (\A t, u \in Active : t = u) /\ OnePagePerKey /\ Matching(k) = {}
    BY <1>1 DEF SerialInv, Active
  <2>2. \A i \in DOMAIN pages : pages[i].key # k
    BY <2>1 DEF Matching, PagesOf
  <2>3. OnePagePerKey'
    BY <1>4, <1>5, <2>1, <2>2 DEF OnePagePerKey
  <2>4. \A t \in Syncs : pc'[t] # "create"
    <3> SUFFICES ASSUME NEW t \in Syncs, pc'[t] = "create" PROVE FALSE
      OBVIOUS
    <3>1. t # s /\ pc[t] = "create"
      BY <1>6
    <3> QED
      BY <2>1, <3>1 DEF Active
  <2> QED
    BY <1>10, <2>1, <2>3, <2>4 DEF SerialInv
<1>12. WholeInv'
  <2> SUFFICES ASSUME NEW t \in Active', ~overlapped' PROVE Whole(t)'
    BY DEF WholeInv
  <2>1. t = s /\ Whole(s)
    BY <1>1, <1>10 DEF SerialInv, WholeInv, Active
  <2>2. ASSUME NEW j \in DOMAIN payloads[s] \ todo'[s]
        PROVE  \E i \in PagesOf({j})' : pages'[i].body = s /\ Shows(i, payloads[s][j])'
    <3>1. CASE j = k
      BY <1>1, <1>4, <1>5, <3>1 DEF PagesOf, Shows
    <3>2. CASE j # k
      BY <1>1, <1>5, <1>6, <2>1, <3>2 DEF Whole, PagesOf, Shows
    <3> QED
      BY <3>1, <3>2
  <2> QED
    BY <1>1, <1>6, <2>1, <2>2 DEF Whole
<1> QED
  BY <1>7, <1>8, <1>9, <1>11, <1>12

\* A page is replaced by one of the same key that fits: the part of a step
\* that updates a page which needs no history.
LEMMA ReplacedPages ==
  ASSUME NotionInv, NEW i \in DOMAIN pages, NEW new \in Page,
         new.key = pages[i].key, Fits(new.shown),
         pages' = [pages EXCEPT ![i] = new]
  PROVE  /\ pages' \in Seq(Page) /\ DOMAIN pages' = DOMAIN pages
         /\ pages'[i] = new /\ \A j \in DOMAIN pages : j # i => pages'[j] = pages[j]
         /\ \A j \in DOMAIN pages : pages'[j].key = pages[j].key
         /\ \A K : PagesOf(K)' = PagesOf(K)
         /\ StatusFitsValue'
<1> USE DEF NotionInv
<1>1. pages' \in Seq(Page) /\ DOMAIN pages' = DOMAIN pages
  BY DEF TypeOK
<1>2. pages'[i] = new /\ \A j \in DOMAIN pages : j # i => pages'[j] = pages[j]
  BY DEF TypeOK
<1>3. \A j \in DOMAIN pages : pages'[j].key = pages[j].key
  BY <1>2
<1>4. \A K : PagesOf(K)' = PagesOf(K)
  BY <1>1, <1>3 DEF PagesOf
<1>5. StatusFitsValue'
  BY <1>1, <1>2 DEF StatusFitsValue, Fits
<1> QED
  BY <1>1, <1>2, <1>3, <1>4, <1>5

\* The properties of a page are patched.
LEMMA UpdatePropertiesPreserves ==
  ASSUME NotionInv, UnseenInv, NEW s \in Syncs, UpdateProperties(s)
  PROVE  NotionInv'
<1> USE DEF NotionInv
<1> DEFINE k == target[s].key
           i == target[s].page
           new == [pages[i] EXCEPT !.shown = Merged(@, payloads[s][k])]
<1>1. /\ pc[s] = "update" /\ pages' = [pages EXCEPT ![i] = new]
      /\ pc' = [pc EXCEPT ![s] = "body"]
      /\ UNCHANGED <<edits, manual, open, inputs, payloads, todo, target, overlapped>>
  BY DEF UpdateProperties
<1>2. /\ k \in todo[s] /\ k \in DOMAIN payloads[s] /\ i \in DOMAIN pages /\ pages[i].key = k
  BY <1>1 DEF TypeOK
<1>3. PICK quote \in Quotes : payloads[s][k] = PositionPayload(s, quote)
  BY <1>2 DEF PayloadInv
<1>4. pages[i] \in Page
  BY <1>2 DEF TypeOK
<1>5. /\ new \in Page /\ new.key = pages[i].key /\ new.body = pages[i].body /\ Fits(new.shown)
      /\ \A q \in DOMAIN payloads[s][k] : new.shown[q] = payloads[s][k][q]
  <2>1. /\ Merged(pages[i].shown, payloads[s][k]) \in [Properties -> Values]
        /\ Fits(Merged(pages[i].shown, payloads[s][k]))
        /\ \A q \in DOMAIN payloads[s][k] :
             Merged(pages[i].shown, payloads[s][k])[q] = payloads[s][k][q]
    <3>1. \A q \in Properties \ {"FX Status"} : pages[i].shown[q] # s
      BY <1>1, <1>2 DEF UnseenInv, Unwritten, Unseen
    <3>2. pages[i].shown \in [Properties -> Values]
      BY <1>4 DEF Page
    <3>3. LET payload == PositionPayload(s, quote)
              shown == pages[i].shown IN
          /\ Merged(shown, payload) \in [Properties -> Values]
          /\ Fits(Merged(shown, payload))
          /\ \A q \in DOMAIN payload : Merged(shown, payload)[q] = payload[q]
      <4> HIDE DEF NotionInv, i
      <4> QED
        BY <3>1, <3>2, PayloadFits
    <3> QED
      BY <1>3, <3>3
  <2> QED
    BY <1>4, <2>1 DEF Page
<1> HIDE DEF new
<1>6. /\ pages' \in Seq(Page) /\ DOMAIN pages' = DOMAIN pages
      /\ pages'[i] = new /\ \A j \in DOMAIN pages : j # i => pages'[j] = pages[j]
      /\ \A j \in DOMAIN pages : pages'[j].key = pages[j].key
      /\ \A K : PagesOf(K)' = PagesOf(K)
      /\ StatusFitsValue'
  BY <1>1, <1>2, <1>5, ReplacedPages
<1>7. \A t \in Syncs : /\ t # s => pc'[t] = pc[t]
                       /\ t = s => pc'[t] = "body" /\ pc[t] = "update"
  BY <1>1 DEF TypeOK
<1>8. TypeOK'
  <2>1. pc' \in [Syncs -> Places]
    BY <1>1 DEF TypeOK, Places
  <2>2. ASSUME NEW t \in Syncs
        PROVE  /\ pc'[t] \in {"create", "update", "body"} => target[t].key \in todo[t]
               /\ pc'[t] \in {"update", "body"} =>
                    target[t].page \in DOMAIN pages' /\ pages'[target[t].page].key = target[t].key
    <3>1. pc[t] \in {"update", "body"} \/ pc'[t] = pc[t]
      BY <1>7
    <3>2. /\ pc[t] \in {"create", "update", "body"} => target[t].key \in todo[t]
          /\ pc[t] \in {"update", "body"} =>
               target[t].page \in DOMAIN pages /\ pages[target[t].page].key = target[t].key
      BY DEF TypeOK
    <3> HIDE DEF NotionInv
    <3> QED
      BY <1>6, <3>1, <3>2
  <2> QED
    BY <1>1, <1>6, <2>1, <2>2 DEF TypeOK
<1>9. PayloadInv'
  BY <1>1, <1>7 DEF PayloadInv
<1>10. Active' = Active
  BY <1>1, <1>7 DEF Active
<1>11. SerialInv'
  <2> SUFFICES ASSUME ~overlapped PROVE SerialInv'
    BY <1>1 DEF SerialInv
  <2>1. OnePagePerKey'
    BY <1>6 DEF SerialInv, OnePagePerKey
  <2>2. \A t \in Syncs : pc'[t] # "create"
    <3> SUFFICES ASSUME NEW t \in Syncs, pc'[t] = "create" PROVE FALSE
      OBVIOUS
    <3>1. t # s /\ t \in Active /\ s \in Active
      BY <1>1, <1>7 DEF Active
    <3> QED
      BY <3>1 DEF SerialInv
  <2> QED
    BY <1>10, <2>1, <2>2 DEF SerialInv
<1>12. WholeInv'
  <2> SUFFICES ASSUME NEW t \in Active', ~overlapped' PROVE Whole(t)'
    BY DEF WholeInv
  <2>1. t = s /\ Whole(s) /\ OnePagePerKey
    BY <1>1, <1>10 DEF SerialInv, WholeInv, Active
  <2>2. ASSUME NEW j \in DOMAIN payloads[s] \ todo[s]
        PROVE  \E h \in PagesOf({j})' : pages'[h].body = s /\ Shows(h, payloads[s][j])'
    <3>1. PICK h \in PagesOf({j}) : pages[h].body = s /\ Shows(h, payloads[s][j])
      BY <2>1 DEF Whole
    <3>2. h \in DOMAIN pages /\ h # i /\ h \in PagesOf({j})'
      BY <1>2, <1>6 DEF PagesOf
    <3> QED
      BY <1>1, <1>6, <3>1, <3>2 DEF Shows
  <2>3. Shows(i, payloads[s][k])'
    BY <1>1, <1>5, <1>6 DEF Shows
  <2> QED
    BY <1>1, <2>1, <2>2, <2>3 DEF Whole
<1> QED
  BY <1>6, <1>8, <1>9, <1>11, <1>12

\* The second half of an update.
LEMMA UpdateBodyPreserves ==
  ASSUME NotionInv, NEW s \in Syncs, UpdateBody(s)
  PROVE  NotionInv'
<1> USE DEF NotionInv
<1> DEFINE k == target[s].key
           i == target[s].page
           new == [pages[i] EXCEPT !.body = s]
<1>1. /\ pc[s] = "body" /\ pages' = [pages EXCEPT ![i] = new]
      /\ pc' = [pc EXCEPT ![s] = "sync"] /\ todo' = [todo EXCEPT ![s] = @ \ {k}]
      /\ target' = [target EXCEPT ![s] = NoTarget]
      /\ UNCHANGED <<edits, manual, open, inputs, payloads, overlapped>>
  BY DEF UpdateBody
<1>2. /\ k \in todo[s] /\ k \in DOMAIN payloads[s] /\ i \in DOMAIN pages /\ pages[i].key = k
  BY <1>1 DEF TypeOK
<1>3. pages[i] \in Page /\ Fits(pages[i].shown)
  <2>1. pages[i] \in Page
    BY <1>2 DEF TypeOK
  <2>2. Fits(pages[i].shown)
    BY <1>2 DEF StatusFitsValue, Fits
  <2> QED
    BY <2>1, <2>2
<1>4. new \in Page /\ new.key = pages[i].key /\ new.body = s /\ new.shown = pages[i].shown
  BY <1>3 DEF Page
<1> HIDE DEF new
<1>5. /\ pages' \in Seq(Page) /\ DOMAIN pages' = DOMAIN pages
      /\ pages'[i] = new /\ \A j \in DOMAIN pages : j # i => pages'[j] = pages[j]
      /\ \A j \in DOMAIN pages : pages'[j].key = pages[j].key
      /\ \A K : PagesOf(K)' = PagesOf(K)
      /\ StatusFitsValue'
  BY <1>1, <1>2, <1>3, <1>4, ReplacedPages
<1>6. \A t \in Syncs : /\ t # s => pc'[t] = pc[t] /\ target'[t] = target[t] /\ todo'[t] = todo[t]
                       /\ t = s => pc'[t] = "sync" /\ todo'[t] = todo[t] \ {k}
  BY <1>1 DEF TypeOK
<1>7. TypeOK'
  <2>1. pc' \in [Syncs -> Places] /\ todo' \in [Syncs -> SUBSET Keys]
    BY <1>1 DEF TypeOK, Places
  <2>2. target' \in [Syncs -> [key : Keys, page : Nat]]
    BY <1>1, KeysAreKeys DEF TypeOK, NoTarget
  <2>3. ASSUME NEW t \in Syncs
        PROVE  /\ todo'[t] \subseteq DOMAIN payloads[t]
               /\ pc'[t] \in {"create", "update", "body"} => target'[t].key \in todo'[t]
               /\ pc'[t] \in {"update", "body"} =>
                    target'[t].page \in DOMAIN pages' /\ pages'[target'[t].page].key = target'[t].key
    <3>1. CASE t = s
      BY <1>6, <3>1 DEF TypeOK
    <3>2. CASE t # s
      <4>1. pc'[t] = pc[t] /\ target'[t] = target[t] /\ todo'[t] = todo[t]
        BY <1>6, <3>2
      <4>2. /\ pc[t] \in {"update", "body"} =>
                 target[t].page \in DOMAIN pages /\ pages[target[t].page].key = target[t].key
            /\ pc[t] \in {"create", "update", "body"} => target[t].key \in todo[t]
            /\ todo[t] \subseteq DOMAIN payloads[t]
        BY DEF TypeOK
      <4> QED
        BY <1>5, <4>1, <4>2
    <3> QED
      BY <3>1, <3>2
  <2> QED
    BY <1>1, <1>5, <2>1, <2>2, <2>3 DEF TypeOK
<1>8. PayloadInv'
  BY <1>1, <1>6 DEF PayloadInv
<1>9. Active' = Active
  BY <1>1, <1>6 DEF Active
<1>10. SerialInv'
  <2> SUFFICES ASSUME ~overlapped PROVE SerialInv'
    BY <1>1 DEF SerialInv
  <2>1. OnePagePerKey'
    BY <1>5 DEF SerialInv, OnePagePerKey
  <2>2. \A t \in Syncs : pc'[t] # "create"
    <3> SUFFICES ASSUME NEW t \in Syncs, pc'[t] = "create" PROVE FALSE
      OBVIOUS
    <3>1. t # s /\ t \in Active /\ s \in Active
      BY <1>1, <1>6 DEF Active
    <3> QED
      BY <3>1 DEF SerialInv
  <2> QED
    BY <1>9, <2>1, <2>2 DEF SerialInv
<1>11. WholeInv'
  <2> SUFFICES ASSUME NEW t \in Active', ~overlapped' PROVE Whole(t)'
    BY DEF WholeInv
  <2>1. t = s /\ Whole(s)
    BY <1>1, <1>9 DEF SerialInv, WholeInv, Active
  <2>2. ASSUME NEW j \in DOMAIN payloads[s] \ todo'[s]
        PROVE  \E h \in PagesOf({j})' : pages'[h].body = s /\ Shows(h, payloads[s][j])'
    <3>1. CASE j = k
      <4>0. PICK h : h = i
        OBVIOUS
      <4>1. h \in PagesOf({j})'
        BY <1>2, <1>5, <3>1, <4>0 DEF PagesOf
      <4>2. Shows(h, payloads[s][j])
        BY <1>1, <2>1, <3>1, <4>0 DEF Whole
      <4>3. pages'[h].shown = pages[h].shown /\ pages'[h].body = s
        BY <1>4, <1>5, <4>0
      <4>4. Shows(h, payloads[s][j])'
        BY <1>1, <4>2, <4>3 DEF Shows
      <4> QED
        BY <4>1, <4>3, <4>4
    <3>2. CASE j # k
      <4>0. j \notin todo[s]
        BY <1>6, <3>2
      <4>1. PICK h \in PagesOf({j}) : pages[h].body = s /\ Shows(h, payloads[s][j])
        BY <2>1, <4>0 DEF Whole
      <4>2. h \in DOMAIN pages /\ h # i /\ h \in PagesOf({j})'
        BY <1>2, <1>5, <3>2 DEF PagesOf
      <4> QED
        BY <1>1, <1>5, <4>1, <4>2 DEF Shows
    <3> QED
      BY <3>1, <3>2
  <2>3. pc'[s] = "sync" /\ payloads' = payloads
    BY <1>1, <1>6
  <2> QED
    BY <2>1, <2>2, <2>3 DEF Whole
<1> QED
  BY <1>5, <1>7, <1>8, <1>10, <1>11

\* The user's entry leaves key, values and body alone; an import touches no page.
LEMMA OthersPreserve ==
  ASSUME NotionInv,
         \/ \E i \in DOMAIN pages, c \in Costs \cup {NoCost, Invalid} : EnterOverride(i, c)
         \/ \E p \in Positions : Import(p)
  PROVE  NotionInv'
<1> USE DEF NotionInv
<1>1. ASSUME NEW p \in Positions, Import(p) PROVE NotionInv'
  <2>1. TypeOK'
    <3>1. /\ open' \subseteq Positions /\ edits' \in 0..MaxEdits
          /\ UNCHANGED <<pages, manual, pc, inputs, payloads, todo, target, overlapped>>
      BY <1>1, NotionAssumption DEF Import, TypeOK
    <3> QED
      BY <3>1 DEF TypeOK
  <2>2. PayloadInv' /\ StatusFitsValue'
    BY <1>1 DEF Import, PayloadInv, StatusFitsValue
  <2>3. SerialInv' /\ WholeInv'
    BY <1>1 DEF Import, SerialInv, WholeInv, Whole, Shows, OnePagePerKey, Matching, PagesOf, Active
  <2> QED
    BY <2>1, <2>2, <2>3
<1>2. ASSUME NEW i \in DOMAIN pages, NEW c \in Costs \cup {NoCost, Invalid}, EnterOverride(i, c)
      PROVE  NotionInv'
  <2> DEFINE new == [pages[i] EXCEPT !.override = c, !.emptied = @ \/ c = NoCost]
  <2>1. /\ pages' = [pages EXCEPT ![i] = new] /\ edits' = edits + 1 /\ edits < MaxEdits
        /\ UNCHANGED <<database, syncVars>>
    BY <1>2 DEF EnterOverride
  <2>2. pages[i] \in Page /\ Fits(pages[i].shown)
    <3>1. pages[i] \in Page
      BY DEF TypeOK
    <3>2. Fits(pages[i].shown)
      BY DEF StatusFitsValue, Fits
    <3> QED
      BY <3>1, <3>2
  <2>3. /\ new \in Page /\ new.key = pages[i].key /\ new.body = pages[i].body
        /\ new.shown = pages[i].shown
    BY <2>2 DEF Page
  <2> HIDE DEF new
  <2>4. /\ pages' \in Seq(Page) /\ DOMAIN pages' = DOMAIN pages
        /\ pages'[i] = new /\ \A j \in DOMAIN pages : j # i => pages'[j] = pages[j]
        /\ \A j \in DOMAIN pages : pages'[j].key = pages[j].key
        /\ \A K : PagesOf(K)' = PagesOf(K)
        /\ StatusFitsValue'
    BY <2>1, <2>2, <2>3, ReplacedPages
  <2>5. \A j \in DOMAIN pages : pages'[j].shown = pages[j].shown /\ pages'[j].body = pages[j].body
    BY <2>3, <2>4
  <2>6. TypeOK'
    BY <2>1, <2>4, NotionAssumption DEF TypeOK
  <2>7. PayloadInv'
    BY <2>1 DEF PayloadInv
  <2>8. SerialInv'
    BY <2>1, <2>4 DEF SerialInv, OnePagePerKey, Matching, Active
  <2>9. WholeInv'
    <3> SUFFICES ASSUME NEW t \in Active', ~overlapped' PROVE Whole(t)'
      BY DEF WholeInv
    <3>1. Whole(t) /\ t \in Syncs
      BY <2>1 DEF WholeInv, Active
    <3>2. pc[t] = "body" => target[t].page \in DOMAIN pages /\ target[t].key \in DOMAIN payloads[t]
      BY <3>1 DEF TypeOK
    <3>3. \A K : \A j \in PagesOf(K) : j \in DOMAIN pages
      BY DEF PagesOf
    <3> QED
      <4>1. /\ payloads' = payloads /\ todo' = todo /\ target' = target /\ pc' = pc
        BY <2>1
      <4>2. \A j \in DOMAIN pages : \A k \in DOMAIN payloads[t] :
              Shows(j, payloads[t][k]) => Shows(j, payloads[t][k])'
        BY <2>5, <4>1 DEF Shows
      <4> QED
        BY <2>4, <2>5, <3>1, <3>2, <3>3, <4>1, <4>2 DEF Whole
  <2> QED
    BY <2>4, <2>6, <2>7, <2>8, <2>9
<1> QED
  BY <1>1, <1>2

LEMMA InitUnseen == Init => UnseenInv
<1> SUFFICES ASSUME Init, NEW s \in Syncs, NEW i \in DOMAIN pages PROVE Unseen(s, i)
  BY DEF UnseenInv
<1>1. PICK k \in Keys \ {ReviewKey}, quote \in Quotes, c \in Costs \cup {NoCost} :
        pages[i] = [key |-> k, shown |-> Merged(Blank, PositionPayload(None, quote)),
                    body |-> None, override |-> c, emptied |-> FALSE]
  <2>1. PICK page \in KeptPages : pages = <<page>>
    BY DEF Init
  <2>2. pages[i] = page
    BY <2>1
  <2> QED
    BY <2>2 DEF KeptPages
<1>2. \A q \in Properties \ {"FX Status"} : pages[i].shown[q] = None
  <2>0. pages[i].shown = Merged(Blank, PositionPayload(None, quote))
    BY <1>1
  <2> SUFFICES ASSUME NEW q \in Properties \ {"FX Status"}
               PROVE  Merged(Blank, PositionPayload(None, quote))[q] = None
    BY <2>0
  <2>1. Blank[q] = None
    BY DEF Blank
  <2>2. q \in DOMAIN PositionPayload(None, quote) => PositionPayload(None, quote)[q] = None
    BY DEF PositionPayload
  <2> QED
    BY <2>1, <2>2 DEF Merged
<1> QED
  BY <1>2, NotionAssumption DEF Unseen

\* A step that shows nothing new, and lets nobody write what it has written.
LEMMA UnseenFrame ==
  ASSUME UnseenInv, DOMAIN pages' = DOMAIN pages,
         \A i \in DOMAIN pages : pages'[i].key = pages[i].key /\ pages'[i].shown = pages[i].shown,
         \A s \in Syncs, i \in DOMAIN pages : Unwritten(s, pages[i].key)' => Unwritten(s, pages[i].key)
  PROVE  UnseenInv'
<1> SUFFICES ASSUME NEW s \in Syncs, NEW i \in DOMAIN pages, Unwritten(s, pages[i].key)'
             PROVE  Unseen(s, i)'
  BY DEF UnseenInv
<1>1. Unseen(s, i)
  BY DEF UnseenInv
<1> QED
  BY <1>1 DEF Unseen

LEMMA UnseenStep ==
  ASSUME NotionInv, UnseenInv, NEW s \in Syncs, SyncStep(s)
  PROVE  UnseenInv'
<1> USE DEF NotionInv
<1>0. ASSUME UNCHANGED pages, \A t \in Syncs, k \in Keys : Unwritten(t, k)' => Unwritten(t, k)
      PROVE  UnseenInv'
  <2>1. ASSUME NEW i \in DOMAIN pages PROVE pages[i].key \in Keys
    <3>1. pages[i] \in Page
      BY DEF TypeOK
    <3> QED
      BY <3>1 DEF Page
  <2>2. \A t \in Syncs, i \in DOMAIN pages : Unwritten(t, pages[i].key)' => Unwritten(t, pages[i].key)
    BY <1>0, <2>1 DEF Unwritten
  <2> HIDE DEF NotionInv
  <2> QED
    BY <1>0, <2>2, UnseenFrame
<1>1. CASE Begin(s) \/ ReadInputs(s) \/ ReadFails(s) \/ ApplyInputs(s)
  <2>1. /\ UNCHANGED pages /\ pc[s] \in {"idle", "inputs", "apply"}
        /\ \A t \in Syncs \ {s} : pc'[t] = pc[t] /\ todo'[t] = todo[t] /\ target'[t] = target[t]
    BY <1>1 DEF Begin, ReadInputs, ReadFails, ApplyInputs, TypeOK
  <2> QED
    BY <2>1, <1>0 DEF Unwritten
<1>3. CASE \E k \in Keys : FindPage(s, k)
  <2>1. /\ UNCHANGED <<pages, todo>> /\ pc[s] = "sync" /\ pc'[s] \in {"create", "update"}
        /\ \A t \in Syncs \ {s} : pc'[t] = pc[t] /\ target'[t] = target[t]
    BY <1>3 DEF FindPage, TypeOK
  <2> QED
    BY <2>1, <1>0 DEF Unwritten
<1>4. CASE Finish(s) \/ Fails(s)
  <2>1. /\ UNCHANGED pages /\ pc'[s] = "ended" /\ todo'[s] = {}
        /\ \A t \in Syncs \ {s} : pc'[t] = pc[t] /\ todo'[t] = todo[t] /\ target'[t] = target[t]
    BY <1>4 DEF Finish, Fails, End, Active, TypeOK
  <2> QED
    BY <2>1, <1>0 DEF Unwritten
<1>5. CASE CreatePage(s)
  <2> DEFINE k == target[s].key
             new == NewPage(k, payloads[s][k], s)
  <2>1. /\ pages' = Append(pages, new) /\ pc[s] = "create" /\ pc'[s] = "sync"
        /\ todo'[s] = todo[s] \ {k} /\ k \in todo[s] /\ k \in DOMAIN payloads[s]
        /\ \A t \in Syncs \ {s} : pc'[t] = pc[t] /\ todo'[t] = todo[t] /\ target'[t] = target[t]
    BY <1>5 DEF CreatePage, TypeOK
  <2>2. \A q \in Properties \ {"FX Status"} : new.shown[q] \in {s, None}
    <3>1. PICK quote \in Quotes : payloads[s][k] = PositionPayload(s, quote)
      BY <2>1 DEF PayloadInv
    <3> QED
      BY <3>1 DEF NewPage, Merged, PositionPayload, Blank
  <2>3. new.key = k
    BY DEF NewPage
  <2> HIDE DEF new
  <2>4. /\ DOMAIN pages' = DOMAIN pages \cup {Len(pages) + 1} /\ pages'[Len(pages) + 1] = new
        /\ \A i \in DOMAIN pages : pages'[i] = pages[i]
    BY <2>1 DEF TypeOK
  <2> SUFFICES ASSUME NEW t \in Syncs, NEW i \in DOMAIN pages', Unwritten(t, pages[i].key)'
               PROVE  Unseen(t, i)'
    BY DEF UnseenInv
  <2>5. CASE i \in DOMAIN pages
    <3>1. Unwritten(t, pages[i].key)
      BY <2>1, <2>4, <2>5 DEF Unwritten
    <3> QED
      BY <2>4, <2>5, <3>1 DEF UnseenInv, Unseen
  <2>6. CASE i \notin DOMAIN pages
    <3>1. pages'[i] = new /\ t # s
      BY <2>1, <2>3, <2>4, <2>6 DEF Unwritten
    <3> QED
      BY <2>2, <3>1, NotionAssumption DEF Unseen
  <2> QED
    BY <2>5, <2>6
<1>6. CASE UpdateProperties(s)
  <2> DEFINE k == target[s].key
             j == target[s].page
  <2>1. /\ pages' = [pages EXCEPT ![j].shown = Merged(@, payloads[s][k])]
        /\ pc[s] = "update" /\ pc'[s] = "body" /\ UNCHANGED <<todo, target>>
        /\ k \in todo[s] /\ k \in DOMAIN payloads[s] /\ j \in DOMAIN pages /\ pages[j].key = k
        /\ \A t \in Syncs \ {s} : pc'[t] = pc[t]
    BY <1>6 DEF UpdateProperties, TypeOK
  <2>2. /\ DOMAIN pages' = DOMAIN pages /\ \A i \in DOMAIN pages \ {j} : pages'[i] = pages[i]
        /\ pages'[j].key = pages[j].key
        /\ pages'[j].shown = Merged(pages[j].shown, payloads[s][k])
    <3>1. pages' = [pages EXCEPT ![j] = [pages[j] EXCEPT !.shown = Merged(pages[j].shown, payloads[s][k])]]
      BY <2>1
    <3>2. pages[j] \in Page /\ DOMAIN pages' = DOMAIN pages
      BY <2>1 DEF TypeOK
    <3>3. pages'[j] = [pages[j] EXCEPT !.shown = Merged(pages[j].shown, payloads[s][k])]
      BY <2>1, <3>1 DEF TypeOK
    <3> QED
      BY <2>1, <3>1, <3>2, <3>3 DEF TypeOK, Page
  <2>3. \A q \in Properties \ {"FX Status"} : pages'[j].shown[q] \in {s, pages[j].shown[q]}
    <3>1. PICK quote \in Quotes : payloads[s][k] = PositionPayload(s, quote)
      BY <2>1 DEF PayloadInv
    <3> QED
      BY <2>2, <3>1 DEF Merged, PositionPayload
  <2> SUFFICES ASSUME NEW t \in Syncs, NEW i \in DOMAIN pages, Unwritten(t, pages[i].key)'
               PROVE  Unseen(t, i)'
    BY <2>2 DEF UnseenInv
  <2>4. pages'[i].key = pages[i].key
    BY <2>2
  <2>5. Unwritten(t, pages[i].key) /\ (i = j => t # s)
    BY <2>1, <2>4 DEF Unwritten
  <2> QED
    BY <2>2, <2>3, <2>5 DEF UnseenInv, Unseen
<1>7. CASE UpdateBody(s)
  <2>1. /\ \A i \in DOMAIN pages : pages'[i].key = pages[i].key /\ pages'[i].shown = pages[i].shown
        /\ DOMAIN pages' = DOMAIN pages
    BY <1>7 DEF UpdateBody, TypeOK, Page
  <2>2. /\ pc[s] = "body" /\ pc'[s] = "sync" /\ todo'[s] = todo[s] \ {target[s].key}
        /\ \A t \in Syncs \ {s} : pc'[t] = pc[t] /\ todo'[t] = todo[t] /\ target'[t] = target[t]
    BY <1>7 DEF UpdateBody, TypeOK
  <2>3. \A t \in Syncs, i \in DOMAIN pages : Unwritten(t, pages[i].key)' => Unwritten(t, pages[i].key)
    BY <2>1, <2>2 DEF Unwritten
  <2> QED
    BY <2>1, <2>3, UnseenFrame
<1> QED
  BY <1>1, <1>3, <1>4, <1>5, <1>6, <1>7 DEF SyncStep

LEMMA UnseenNext == NotionInv /\ UnseenInv /\ [Next]_vars => UnseenInv'
<1> SUFFICES ASSUME NotionInv, UnseenInv, [Next]_vars PROVE UnseenInv'
  OBVIOUS
<1>1. CASE \E s \in Syncs : SyncStep(s)
  BY <1>1, UnseenStep
<1>2. CASE \E i \in DOMAIN pages, c \in Costs \cup {NoCost, Invalid} : EnterOverride(i, c)
  <2>1. /\ \A i \in DOMAIN pages : pages'[i].key = pages[i].key /\ pages'[i].shown = pages[i].shown
        /\ DOMAIN pages' = DOMAIN pages /\ UNCHANGED <<pc, todo, target>>
    BY <1>2 DEF EnterOverride, NotionInv, TypeOK, Page
  <2> QED
    BY <2>1, UnseenFrame DEF Unwritten
<1>3. CASE \E p \in Positions : Import(p)
  BY <1>3 DEF Import, UnseenInv, Unwritten, Unseen
<1>4. CASE UNCHANGED vars
  BY <1>4 DEF vars, UnseenInv, Unwritten, Unseen
<1> QED
  BY <1>1, <1>2, <1>3, <1>4 DEF Next

-----------------------------------------------------------------------------
(* The theorems.                                                           *)

\* The inductive invariant holds in every reachable state, and no page shows
\* anything of a refresh that has still to write it.
THEOREM NotionInvariance == Spec => [](NotionInv /\ UnseenInv)
<1>1. NotionInv /\ UnseenInv /\ [Next]_vars => NotionInv'
  BY StutterPreserves, QuietPreserves, ApplyPreserves, FindPreserves, CreatePreserves,
     UpdatePropertiesPreserves, UpdateBodyPreserves, OthersPreserve DEF Next, SyncStep
<1> QED
  BY <1>1, UnseenNext, InitUnseen, InitNotionInv, PTL DEF Spec

\* Every reachable state of refreshes and workspace is well typed: a refresh
\* patches only a page it found by the external id it has a payload for.
THEOREM NotionTypeCorrect == Spec => []TypeOK
BY NotionInvariance, PTL DEF NotionInv

\* A page with a rate shows rate and quantity of one refresh, and with its
\* price its value too, however many refreshes overlap and fail.
THEOREM StatusesFitValues == Spec => []StatusFitsValue
BY NotionInvariance, PTL DEF NotionInv

\* Refreshes that do not overlap never make a second page of an external id,
\* whichever answers are lost.
THEOREM PagesAreUnique == Spec => []OnePagePerKey
<1>1. NotionInv => OnePagePerKey
  BY DEF NotionInv, SerialInv, OnePagePerKey
<1> QED
  BY <1>1, NotionInvariance, PTL

\* Refreshes that do not overlap leave whole pages behind them.
THEOREM WrittenAreWhole == Spec => []WrittenPagesAreWhole
<1>1. NotionInv => WrittenPagesAreWhole
  BY DEF NotionInv, WholeInv, Whole, Shows, WrittenPagesAreWhole, Active
<1> QED
  BY <1>1, NotionInvariance, PTL

-----------------------------------------------------------------------------
(* Costs that are cleared.                                                 *)

\* What the pages of a position keep for ever: that a user emptied the
\* override, and that one was ever entered.
Emptied(p) == \E i \in PagesOf({KeyOf(p)}) : pages[i].emptied
Entering(p) ==
  \E i \in PagesOf({KeyOf(p)}) : pages[i].emptied \/ pages[i].override # NoCost

BySymbol(p) == PagesOf({LegacyOf(p)}) # {}

\* A manual cost, stored or read, was entered on the page of the position;
\* and an empty override is only read where nothing is stored or where the
\* user emptied it.
CostInv ==
  /\ \A p \in Positions : manual[p] # NoCost => BySymbol(p) \/ Entering(p)
  /\ \A s \in Syncs :
       /\ pc[s] # "apply" => DOMAIN inputs[s] = {}
       /\ \A p \in DOMAIN inputs[s] : ~BySymbol(p) =>
            /\ inputs[s][p] # NoCost => Entering(p)
            /\ ~overlapped /\ inputs[s][p] = NoCost => manual[p] = NoCost \/ Emptied(p)

LEMMA InitCosts == Init => CostInv
<1> SUFFICES ASSUME Init PROVE CostInv
  OBVIOUS
<1>1. \A s \in Syncs : DOMAIN inputs[s] = {}
  BY DEF Init, NoInputs
<1>2. ASSUME NEW p \in Positions, manual[p] # NoCost PROVE Entering(p)
  <2>1. \E i \in PagesOf({KeyOf(p)}) : pages[i].override \in Costs
    BY <1>2 DEF Init
  <2> QED
    BY <2>1, NotionAssumption DEF Entering
<1> QED
  BY <1>1, <1>2 DEF CostInv

\* No page is deleted or renamed, and none forgets what a user entered.
LEMMA PagesRemember ==
  ASSUME NotionInv, [Next]_vars
  PROVE  \A i \in DOMAIN pages :
           /\ i \in DOMAIN pages' /\ pages'[i].key = pages[i].key
           /\ pages[i].emptied => pages'[i].emptied
           /\ pages[i].emptied \/ pages[i].override # NoCost
                => pages'[i].emptied \/ pages'[i].override # NoCost
<1>t. /\ pages \in Seq(Page) /\ \A i \in DOMAIN pages : pages[i] \in Page
      /\ DOMAIN pages = 1..Len(pages) /\ Len(pages) \in Nat
  BY DEF NotionInv, TypeOK
<1>1. CASE UNCHANGED pages
  BY <1>1
<1>2. ASSUME NEW s \in Syncs, CreatePage(s)
      PROVE  \A i \in DOMAIN pages : i \in DOMAIN pages' /\ pages'[i] = pages[i]
  <2>1. \E new : pages' = Append(pages, new)
    BY <1>2 DEF CreatePage
  <2> QED
    BY <1>t, <2>1
<1>3. ASSUME NEW s \in Syncs, UpdateProperties(s) \/ UpdateBody(s), NEW i \in DOMAIN pages
      PROVE  /\ i \in DOMAIN pages' /\ pages'[i].key = pages[i].key
             /\ pages'[i].emptied = pages[i].emptied /\ pages'[i].override = pages[i].override
  <2>1. PICK j, v : \/ pages' = [pages EXCEPT ![j].shown = v]
                   \/ pages' = [pages EXCEPT ![j].body = v]
    BY <1>3 DEF UpdateProperties, UpdateBody
  <2>2. DOMAIN pages' = DOMAIN pages
    BY <1>t, <2>1
  <2>3. pages'[i] \in {pages[i], [pages[i] EXCEPT !.shown = v], [pages[i] EXCEPT !.body = v]}
    BY <1>t, <2>1
  <2> QED
    BY <1>t, <2>2, <2>3 DEF Page
<1>4. ASSUME NEW j \in DOMAIN pages, NEW c \in Costs \cup {NoCost, Invalid}, EnterOverride(j, c),
             NEW i \in DOMAIN pages
      PROVE  /\ i \in DOMAIN pages' /\ pages'[i].key = pages[i].key
             /\ pages[i].emptied => pages'[i].emptied
             /\ pages[i].emptied \/ pages[i].override # NoCost
                  => pages'[i].emptied \/ pages'[i].override # NoCost
  <2>1. pages' = [pages EXCEPT ![j] = [pages[j] EXCEPT !.override = c,
                                                       !.emptied = pages[j].emptied \/ c = NoCost]]
    BY <1>4 DEF EnterOverride
  <2>2. CASE i = j
    <3>1. pages'[i] = [pages[i] EXCEPT !.override = c, !.emptied = pages[i].emptied \/ c = NoCost]
      BY <2>1, <2>2
    <3>2. /\ pages'[i].key = pages[i].key /\ pages'[i].override = c
          /\ pages'[i].emptied = (pages[i].emptied \/ c = NoCost)
      BY <1>t, <3>1 DEF Page
    <3> QED
      BY <2>1, <3>2
  <2>3. CASE i # j
    BY <2>1, <2>3
  <2> QED
    BY <2>2, <2>3
<1>5. CASE \E s \in Syncs : SyncStep(s)
  <2>1. PICK s \in Syncs : SyncStep(s)
    BY <1>5
  <2>2. CASE CreatePage(s)
    BY <1>2, <2>2
  <2>3. CASE UpdateProperties(s) \/ UpdateBody(s)
    BY <1>3, <2>3
  <2>4. CASE ~(CreatePage(s) \/ UpdateProperties(s) \/ UpdateBody(s))
    BY <1>1, <2>1, <2>4 DEF SyncStep, Begin, ReadInputs, ReadFails, ApplyInputs, FindPage, Finish,
                            Fails, End, workspace
  <2> QED
    BY <2>2, <2>3, <2>4
<1>6. CASE UNCHANGED vars \/ \E p \in Positions : Import(p)
  BY <1>1, <1>6 DEF vars, workspace, Import
<1> QED
  BY <1>4, <1>5, <1>6 DEF Next

LEMMA PositionsRemember ==
  ASSUME NotionInv, [Next]_vars, NEW p
  PROVE  /\ BySymbol(p) => BySymbol(p)'
         /\ Emptied(p) => Emptied(p)'
         /\ Entering(p) => Entering(p)'
BY PagesRemember DEF BySymbol, Emptied, Entering, PagesOf

LEMMA ReadCosts ==
  ASSUME NotionInv, CostInv, NEW s \in Syncs, ReadInputs(s), NEW p \in DOMAIN inputs'[s],
         ~BySymbol(p)
  PROVE  /\ inputs'[s][p] # NoCost => Entering(p)
         /\ ~overlapped /\ inputs'[s][p] = NoCost => manual[p] = NoCost \/ Emptied(p)
<1> DEFINE given == {q \in open : Entered(q) # {}}
<1>1. PICK read \in [given -> Costs \cup {NoCost}] :
        /\ \A q \in given : read[q] \in Entered(q)
        /\ inputs' = [inputs EXCEPT ![s] = read]
  BY DEF ReadInputs
<1>2. inputs'[s] = read
  BY <1>1 DEF NotionInv, TypeOK
<1>3. p \in Positions /\ read[p] \in Entered(p)
  BY <1>1, <1>2 DEF NotionInv, TypeOK
<1>4. PICK i \in InputPages(p) : pages[i].override = read[p]
  BY <1>3 DEF Entered
<1>5. i \in PagesOf({KeyOf(p)})
  BY <1>4 DEF BySymbol, InputPages, PagesOf
<1>6. read[p] # NoCost => Entering(p)
  BY <1>4, <1>5 DEF Entering
<1>7. ASSUME ~overlapped, read[p] = NoCost, manual[p] # NoCost PROVE Emptied(p)
  <2>1. PICK j \in PagesOf({KeyOf(p)}) : pages[j].emptied \/ pages[j].override # NoCost
    BY <1>3, <1>7 DEF CostInv, Entering
  <2>2. i = j
    BY <1>5, <1>7, <2>1 DEF NotionInv, SerialInv, OnePagePerKey, PagesOf
  <2> QED
    BY <1>4, <1>5, <1>7, <2>1, <2>2 DEF Emptied
<1> QED
  BY <1>2, <1>6, <1>7

LEMMA NextCosts == NotionInv /\ CostInv /\ [Next]_vars => CostInv'
<1> SUFFICES ASSUME NotionInv, CostInv, [Next]_vars PROVE CostInv'
  OBVIOUS
<1>t. /\ manual \in [Positions -> Costs \cup {NoCost}] /\ pc \in [Syncs -> Places]
      /\ inputs = [s \in Syncs |-> inputs[s]]
      /\ \A s \in Syncs : DOMAIN inputs[s] \subseteq Positions
  BY DEF NotionInv, TypeOK
<1>e. DOMAIN NoInputs = {}
  BY DEF NoInputs
<1>1. ASSUME UNCHANGED <<manual, inputs, pc, overlapped>> PROVE CostInv'
  BY <1>1, PositionsRemember DEF CostInv
<1>2. ASSUME NEW s \in Syncs, SyncStep(s) PROVE CostInv'
  <2>1. CASE ReadInputs(s)
    <3>1. /\ pc'[s] = "apply" /\ UNCHANGED <<manual, overlapped, pages>>
          /\ \A t \in Syncs \ {s} : pc'[t] = pc[t] /\ inputs'[t] = inputs[t]
      BY <1>t, <2>1 DEF ReadInputs, Become, workspace, database
    <3>2. \A p : /\ BySymbol(p)' <=> BySymbol(p)
                 /\ Emptied(p)' <=> Emptied(p)
                 /\ Entering(p)' <=> Entering(p)
      BY <3>1 DEF BySymbol, Emptied, Entering, PagesOf
    <3>3. \A p \in DOMAIN inputs'[s] : ~BySymbol(p) =>
            /\ inputs'[s][p] # NoCost => Entering(p)
            /\ ~overlapped /\ inputs'[s][p] = NoCost => manual[p] = NoCost \/ Emptied(p)
      BY <2>1, ReadCosts
    <3> QED
      BY <3>1, <3>2, <3>3 DEF CostInv
  <2>2. CASE ApplyInputs(s)
    <3>1. /\ pc[s] = "apply" /\ pc'[s] = "sync" /\ inputs'[s] = NoInputs /\ UNCHANGED overlapped
          /\ \A t \in Syncs \ {s} : pc'[t] = pc[t] /\ inputs'[t] = inputs[t]
          /\ \A p \in Positions :
               manual'[p] = IF p \in DOMAIN inputs[s] THEN inputs[s][p] ELSE manual[p]
      BY <1>t, <2>2 DEF ApplyInputs, Become
    <3>2. ASSUME NEW p \in Positions, manual'[p] # NoCost PROVE (BySymbol(p) \/ Entering(p))'
      BY <3>1, <3>2, PositionsRemember DEF CostInv
    <3>3. ASSUME NEW t \in Syncs, NEW p \in DOMAIN inputs'[t] PROVE t # s /\ overlapped
      <4>1. t # s /\ pc[t] = "apply"
        BY <1>e, <3>1, <3>3 DEF CostInv
      <4> QED
        BY <3>1, <4>1 DEF NotionInv, SerialInv, Active
    <3>4. ASSUME NEW t \in Syncs, pc'[t] # "apply" PROVE DOMAIN inputs'[t] = {}
      BY <1>e, <3>1, <3>4 DEF CostInv
    <3>5. ASSUME NEW t \in Syncs, NEW p \in DOMAIN inputs'[t], ~BySymbol(p)', inputs'[t][p] # NoCost
          PROVE  Entering(p)'
      BY <3>1, <3>3, <3>5, PositionsRemember DEF CostInv
    <3> QED
      BY <3>1, <3>2, <3>3, <3>4, <3>5 DEF CostInv
  <2>3. CASE Finish(s) \/ Fails(s)
    <3>1. /\ inputs'[s] = NoInputs /\ UNCHANGED <<manual, overlapped>>
          /\ \A t \in Syncs \ {s} : pc'[t] = pc[t] /\ inputs'[t] = inputs[t]
      BY <1>t, <2>3 DEF Finish, Fails, End, Become, database
    <3> QED
      BY <1>e, <3>1, PositionsRemember DEF CostInv
  <2>4. CASE \/ Begin(s) \/ ReadFails(s) \/ CreatePage(s) \/ UpdateProperties(s) \/ UpdateBody(s)
             \/ \E k \in Keys : FindPage(s, k)
    <3>o. ~overlapped' => ~overlapped
      <4>1. CASE Begin(s)
        BY <4>1, Zenon DEF Begin
      <4>2. CASE ~Begin(s)
        BY <2>4, <4>2, Zenon DEF ReadFails, CreatePage, UpdateProperties, UpdateBody, FindPage
      <4> QED
        BY <4>1, <4>2
    <3>1. /\ UNCHANGED <<manual, inputs>>
          /\ pc[s] \in {"idle", "inputs", "sync", "create", "update", "body"}
          /\ \E place : pc' = [pc EXCEPT ![s] = place]
      BY <2>4 DEF Begin, ReadFails, CreatePage, UpdateProperties, UpdateBody, FindPage, Become,
                  database
    <3>2. pc[s] # "apply" /\ \A t \in Syncs \ {s} : pc'[t] = pc[t]
      BY <1>t, <3>1
    <3> QED
      BY <3>o, <3>1, <3>2, PositionsRemember DEF CostInv
  <2> QED
    BY <1>2, <2>1, <2>2, <2>3, <2>4 DEF SyncStep
<1>3. CASE \/ UNCHANGED vars \/ \E p \in Positions : Import(p)
           \/ \E i \in DOMAIN pages, c \in Costs \cup {NoCost, Invalid} : EnterOverride(i, c)
  BY <1>1, <1>3 DEF vars, database, syncVars, Import, EnterOverride
<1> QED
  BY <1>2, <1>3 DEF Next

\* Where a manual cost comes from, in every reachable state.
THEOREM CostInvariance == Spec => []CostInv
BY InitCosts, NextCosts, NotionInvariance, PTL DEF Spec

\* A refresh that does not overlap another clears a manual cost only if the
\* user emptied the override on the position's page, whichever reads and
\* writes fail and whatever else the user enters.
THEOREM OnlyTheUserClears == Spec => ClearedByTheUser
<1> DEFINE Cleared ==
      \A p \in Positions :
        /\ manual[p] # NoCost /\ manual'[p] = NoCost
        /\ ~overlapped /\ PagesOf({LegacyOf(p)}) = {}
        => \E i \in PagesOf({KeyOf(p)}) : pages[i].emptied
<1>1. ASSUME NotionInv, CostInv, [Next]_vars PROVE Cleared
  <2> SUFFICES ASSUME NEW p \in Positions, manual[p] # NoCost, manual'[p] = NoCost, ~overlapped,
                      ~BySymbol(p)
               PROVE  Emptied(p)
    BY DEF BySymbol, Emptied
  <2>1. PICK s \in Syncs : ApplyInputs(s)
    BY <1>1 DEF Next, SyncStep, Begin, ReadInputs, ReadFails, FindPage, CreatePage,
                UpdateProperties, UpdateBody, Finish, Fails, End, Import, EnterOverride, vars,
                database
  <2>2. p \in DOMAIN inputs[s] /\ inputs[s][p] = NoCost
    BY <1>1, <2>1 DEF ApplyInputs
  <2> QED
    BY <1>1, <2>2 DEF CostInv
<1>2. NotionInv /\ CostInv /\ [Next]_vars => [Cleared]_vars
  BY <1>1
<1> QED
  BY <1>2, NotionInvariance, CostInvariance, PTL DEF Spec, ClearedByTheUser
=============================================================================
