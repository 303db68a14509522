------------------------- MODULE PortfolioJobsSerial -------------------------
(***************************************************************************)
(* Jobs one after another: with one job at a time no row changes between   *)
(* the moment a job reads it and the moment it writes it, and the four     *)
(* properties of PortfolioJobs that overlapping jobs break hold for any    *)
(* number of jobs, positions, accounts and overrides.                      *)
(***************************************************************************)
EXTENDS PortfolioJobsSafety, FiniteSetTheorems

OneActive == \A s, t \in Sessions : Active(s) /\ Active(t) => s = t

CostIsCurrent(row) == row["average_cost"] = EffectiveCost(row)

\* The rows the job that runs works on have current costs too.
CostsInv ==
  /\ EffectiveCostIsCurrent
  /\ \A s \in Sessions : Active(s) => \A p \in Positions : CostIsCurrent(Seen(s, p))

\* An import has brought every lot it has visited to its quantity, and
\* before it commits every other row of its accounts to zero.
StatementInv ==
  \A s \in Importers :
    /\ pc[s] = "upsert" =>
         \A p \in Mentioned(statement[s]) \ todo[s] :
           Seen(s, p)["quantity"] = statement[s].lots[p].quantity
    /\ pc[s] = "commit" =>
         \A p \in Positions :
           AccountOf[p] \in statement[s].accounts /\ statement[s].lots[p] # Skipped =>
             Seen(s, p)["quantity"] = StatementQuantity(statement[s], p)

\* A refresh works on the quantities of the table.
ListedStages  == {"start", "fetch", "select", "write", "commit"}
ReadingStages == {"inputs", "overrides"} \cup ListedStages

QuantitiesInv ==
  \A s \in Refreshers, p \in Positions :
    /\ pc[s] \in ReadingStages => Seen(s, p)["quantity"] = rows[p]["quantity"]
    /\ pc[s] \in ListedStages => local[s][p]["quantity"] = rows[p]["quantity"]

\* Observations are stamped with times, 0 if there is none.
StampsInv ==
  /\ now >= 1
  /\ \A p \in Positions : rows[p]["latest_price"] >= 0
  /\ \A i \in Instruments : prices[i] >= 0
  /\ \A s \in Sessions : \A p \in Positions :
       staged[s][p]["latest_price"] # Keep => staged[s][p]["latest_price"] >= 0
  /\ \A s \in Importers : importedAt[s] >= 0
  /\ \A s \in Refreshers :
       /\ \A p \in Positions : local[s][p]["latest_price"] >= 0
       /\ \A i \in Instruments : quotes[s][i] >= 0

\* A refresh has left the listed positions it has visited with the newest
\* price of their instrument, unless one of another currency is as new, and
\* still works on the others as they are.
Carries(s, p) == local[s][p]["latest_price"] = Seen(s, p)["latest_price"]
IsNewest(s, i, price) == Foreign[i] < SeenPrice(s, i) => price = SeenPrice(s, i)
Newest(s, p)  == IsNewest(s, InstrumentOf[p], Seen(s, p)["latest_price"])
Quoted(s, p)  == IsNewest(s, InstrumentOf[p], local[s][p]["latest_price"])

Priced(s, p) ==
  /\ pc[s] \in {"start", "fetch"} => Carries(s, p)
  /\ pc[s] = "select" => IF p \in todo[s] THEN Carries(s, p) ELSE Newest(s, p)
  /\ pc[s] = "write" => IF p = current[s] THEN Quoted(s, p)
                        ELSE IF p \in todo[s] THEN Carries(s, p) ELSE Newest(s, p)
  /\ pc[s] = "commit" => Newest(s, p)

PricesInv == \A s \in Refreshers : \A p \in Listed(s) : Priced(s, p)

\* No two accounts hold the same instrument: of two that do, a refresh
\* quotes and writes only one (positions_by_id).
OnePositionEach ==
  \A p, q \in Positions : InstrumentOf[p] = InstrumentOf[q] => p = q

SerialInv == OneActive /\ CostsInv /\ StatementInv /\ QuantitiesInv

-----------------------------------------------------------------------------
(* One job at a time.                                                      *)

Acts(s) ==
  \/ s \in Importers /\ (ImportProgress(s) \/ ImportFailure(s) \/ ImportError(s))
  \/ s \in Refreshers /\ (RefreshProgress(s) \/ RefreshFailure(s) \/ RefreshError(s))
  \/ FlushStep(s)
  \/ Crash(s)

LEMMA ActorMoves ==
  ASSUME JobsInv, NEW s \in Sessions, Acts(s)
  PROVE  /\ \E stage \in Stages : pc' = [pc EXCEPT ![s] = stage]
         /\ Active(s) \/ MayBegin(s)
<1>t. pc \in [Sessions -> Stages]
  BY DEF JobsInv, TypeOK, JobTypeOK
<1>0. pc = [pc EXCEPT ![s] = pc[s]] /\ pc[s] \in Stages
  BY <1>t
<1>1. CASE s \in Importers /\ (ImportProgress(s) \/ ImportFailure(s) \/ ImportError(s))
  <2>1. CASE \E p \in Positions : UpsertLot(s, p)
    BY <1>0, <2>1 DEF UpsertLot, Active
  <2>2. CASE ~ \E p \in Positions : UpsertLot(s, p)
    BY <1>1, <2>2
       DEF ImportProgress, ImportFailure, ImportError, StartImport, FetchStatement, CloseMissing,
           CommitImport, RollbackFailed, RecordFailed, ImportRaises, GoTo, Active, Stages
  <2> QED
    BY <2>1, <2>2
<1>2. CASE s \in Refreshers /\ (RefreshProgress(s) \/ RefreshFailure(s) \/ RefreshError(s))
  <2>1. CASE \E p \in Positions : SetManualCost(s, p) \/ SyncPage(s, p)
    BY <1>0, <2>1 DEF SetManualCost, SyncPage, Active
  <2>2. CASE \E p \in Positions : QuotePosition(s, p)
    <3>1. pc[s] = "select" /\ (UNCHANGED pc \/ pc' = [pc EXCEPT ![s] = "write"])
      BY <2>2 DEF QuotePosition, GoTo
    <3> QED
      BY <1>0, <3>1 DEF Active, Stages
  <2>3. CASE \/ BeginRefresh(s) \/ ReadInputs(s) \/ SkipInputs(s) \/ ListAgain(s)
             \/ StartMarketRun(s) \/ FetchQuotes(s) \/ WritePosition(s) \/ PersistReview(s)
             \/ CommitMarket(s)
    BY <2>3 DEF BeginRefresh, ReadInputs, SkipInputs, ListAgain, StartMarketRun, FetchQuotes,
                WritePosition, PersistReview, CommitMarket, GoTo, Active, Stages
  <2>4. CASE \/ StartNotionRun(s) \/ SyncReview(s) \/ FinishNotion(s) \/ FinishWithoutNotion(s)
             \/ RollbackRefresh(s) \/ RecordRefreshFailed(s) \/ FailsBeforeRun(s)
             \/ RefreshRaises(s) \/ SyncFails(s) \/ StartNotionFails(s)
    BY <2>4 DEF StartNotionRun, SyncReview, FinishNotion, FinishWithoutNotion, RollbackRefresh,
                RollbackFailed, RecordRefreshFailed, RecordFailed, FailsBeforeRun, RefreshRaises,
                SyncFails, StartNotionFails, GoTo, Active, Stages
  <2> QED
    BY <1>2, <2>1, <2>2, <2>3, <2>4 DEF RefreshProgress, RefreshFailure, RefreshError
<1>3. CASE FlushStep(s)
  BY <1>0, <1>3 DEF FlushStep, FlushRow, jobVars
<1>4. CASE Crash(s)
  BY <1>4 DEF Crash, Stages
<1> QED
  BY <1>1, <1>2, <1>3, <1>4 DEF Acts

\* Nothing else runs while a job takes a step, before or after it.
LEMMA Alone ==
  ASSUME MaxConcurrentJobs = 1, JobsInv, OneActive, NEW s \in Sessions, Acts(s)
  PROVE  \A t \in Sessions \ {s} : ~Active(t) /\ pc'[t] = pc[t]
<1>1. \A t \in Sessions \ {s} : pc'[t] = pc[t]
  BY ActorMoves DEF JobsInv, TypeOK, JobTypeOK
<1>2. ASSUME NEW t \in Sessions \ {s}, Active(t) PROVE FALSE
  <2>1. MayBegin(s)
    BY <1>2, ActorMoves DEF OneActive
  <2>2. {u \in Sessions : Active(u)} = {t}
    BY <1>2 DEF OneActive
  <2>3. Cardinality({u \in Sessions : Active(u)}) = 1
    BY <2>2, FS_Singleton
  <2> QED
    BY <2>1, <2>3 DEF MayBegin
<1> QED
  BY <1>1, <1>2

\* A step is one of a session's, or the user's, or of nobody.
LEMMA ActorOfStep ==
  ASSUME [Next]_vars
  PROVE  \/ \E s \in Sessions : Acts(s)
         \/ UNCHANGED <<storeVars, jobVars, importVars, refreshVars>>
<1>1. ASSUME NEW s \in Sessions, FlushStep(s) \/ Crash(s) PROVE \E t \in Sessions : Acts(t)
  BY <1>1 DEF Acts
<1>2. ASSUME NEW s \in Importers, ImportProgress(s) \/ ImportFailure(s) \/ ImportError(s)
      PROVE  \E t \in Sessions : Acts(t)
  BY <1>2 DEF Acts, Sessions
<1>3. ASSUME NEW s \in Refreshers, RefreshProgress(s) \/ RefreshFailure(s) \/ RefreshError(s)
      PROVE  \E t \in Sessions : Acts(t)
  BY <1>3 DEF Acts, Sessions
<1>4. CASE \E p \in Positions, v \in OverrideValues : EditOverride(p, v) /\ UNCHANGED importVars
  BY <1>4 DEF EditOverride
<1>5. CASE UNCHANGED vars
  BY <1>5 DEF vars
<1> QED
  BY <1>1, <1>2, <1>3, <1>4, <1>5 DEF Next

LEMMA StaysAlone ==
  ASSUME MaxConcurrentJobs = 1, JobsInv, OneActive, [Next]_vars
  PROVE  OneActive'
<1>1. ASSUME NEW s \in Sessions, Acts(s) PROVE OneActive'
  BY <1>1, Alone DEF OneActive, Active
<1>2. CASE UNCHANGED jobVars
  BY <1>2 DEF jobVars, OneActive, Active
<1> QED
  BY <1>1, <1>2, ActorOfStep

-----------------------------------------------------------------------------
(* The rows a session sees after each of the things it does to them.       *)

LEMMA AssignSeen ==
  ASSUME StoreTypeOK, NEW s \in Sessions, NEW new, Assign(s, new), UNCHANGED rows,
         NEW p \in Positions, p \in DOMAIN new => new[p] \in Row
  PROVE  Seen(s, p)' = IF p \in DOMAIN new THEN new[p] ELSE Seen(s, p)
<1>1. staged'[s][p] = IF p \in DOMAIN new THEN Change(s, p, new[p]) ELSE staged[s][p]
  BY DEF StoreTypeOK, Assign
<1>2. CASE p \in DOMAIN new
  <2>1. new[p] \in [Columns -> Int]
    BY <1>2 DEF Row
  <2>2. ASSUME NEW c \in Columns PROVE Seen(s, p)'[c] = new[p][c]
    <3>1. Seen(s, p)'[c] = IF Change(s, p, new[p])[c] = Keep THEN rows[p][c]
                           ELSE Change(s, p, new[p])[c]
      BY <1>1, <1>2 DEF Seen, Overlay
    <3>2. CASE new[p][c] = Seen(s, p)[c]
      BY <3>1, <3>2 DEF Change, Seen, Overlay
    <3>3. CASE new[p][c] # Seen(s, p)[c]
      BY <2>1, <3>1, <3>3, StoreAssumption DEF Change
    <3> QED
      BY <3>2, <3>3
  <2>3. Seen(s, p)' = [c \in Columns |-> Seen(s, p)'[c]]
    BY DEF Seen, Overlay
  <2> QED
    BY <1>2, <2>1, <2>2, <2>3
<1>3. CASE p \notin DOMAIN new
  BY <1>1, <1>3 DEF Seen
<1> QED
  BY <1>2, <1>3

LEMMA CleanSeen ==
  ASSUME StoreTypeOK, NEW s \in Sessions, NEW p \in Positions, ~Dirty(s, p)
  PROVE  Seen(s, p) = rows[p]
<1>1. rows[p] \in [Columns -> Int]
  BY DEF StoreTypeOK, Row
<1>2. \A c \in Columns : staged[s][p][c] = Keep
  BY DEF Dirty, NoChange
<1>3. Seen(s, p) = [c \in Columns |-> rows[p][c]]
  BY <1>2 DEF Seen, Overlay
<1> QED
  BY <1>1, <1>3

\* A commit changes no row its session sees, and makes them the table's.
LEMMA CommitSeen ==
  ASSUME StoreTypeOK, StoreTypeOK', NEW s \in Sessions, CommitSession(s), NEW p \in Positions
  PROVE  rows'[p] = Seen(s, p) /\ Seen(s, p)' = Seen(s, p)
<1>1. rows'[p] = Seen(s, p)
  BY DEF CommitSession
<1>2. ~Dirty(s, p)'
  BY DEF CommitSession, StoreTypeOK, Dirty
<1>3. Seen(s, p)' = rows'[p]
  <2>1. rows'[p] \in [Columns -> Int]
    BY DEF StoreTypeOK, Row
  <2>2. \A c \in Columns : staged'[s][p][c] = Keep
    BY <1>2 DEF Dirty, NoChange
  <2>3. Seen(s, p)' = [c \in Columns |-> rows'[p][c]]
    BY <2>2 DEF Seen, Overlay
  <2> QED
    BY <2>1, <2>3
<1> QED
  BY <1>1, <1>3

LEMMA RollbackSeen ==
  ASSUME StoreTypeOK, NEW s \in Sessions, RollbackSession(s), NEW p \in Positions
  PROVE  UNCHANGED rows /\ Seen(s, p)' = rows[p]
<1>1. UNCHANGED rows /\ staged'[s][p] = NoChange
  BY DEF RollbackSession, StoreTypeOK
<1>2. rows[p] \in [Columns -> Int]
  BY DEF StoreTypeOK, Row
<1>3. Seen(s, p)' = [c \in Columns |-> rows[p][c]]
  BY <1>1 DEF Seen, Overlay, NoChange
<1> QED
  BY <1>1, <1>2, <1>3

-----------------------------------------------------------------------------
(* What the repository operations do to a row, and the steps to the rows   *)
(* their session sees.                                                     *)

LEMMA EffectiveCostColumns ==
  ASSUME NEW row \in Row
  PROVE  /\ CostIsCurrent(WithEffectiveCost(row))
         /\ \A c \in Columns \ {"average_cost"} : WithEffectiveCost(row)[c] = row[c]
<1>1. WithEffectiveCost(row)["average_cost"] = EffectiveCost(row)
  BY DEF WithEffectiveCost, Row, Columns
<1>2. \A c \in Columns \ {"average_cost"} : WithEffectiveCost(row)[c] = row[c]
  BY DEF WithEffectiveCost, Row, Columns
<1>3. EffectiveCost(WithEffectiveCost(row)) = EffectiveCost(row)
  BY <1>2 DEF EffectiveCost, Columns
<1> QED
  BY <1>1, <1>2, <1>3 DEF CostIsCurrent

LEMMA UpsertedColumns ==
  ASSUME NEW row \in Row
  PROVE  LET new == Upserted(row) IN
         /\ CostIsCurrent(new)
         /\ new["quantity"] = row["quantity"] /\ new["latest_price"] = row["latest_price"]
<1> DEFINE held == [row EXCEPT !["row_exists"] = 1]
<1>1. held \in Row
  BY 1 \in Int DEF Row
<1>2. held["quantity"] = row["quantity"] /\ held["latest_price"] = row["latest_price"]
  BY DEF Row, Columns
<1>3. {"quantity", "latest_price"} \subseteq Columns \ {"average_cost"}
  BY DEF Columns
<1>4. Upserted(row) = WithEffectiveCost(held)
  BY DEF Upserted
<1> HIDE DEF held
<1> QED
  BY <1>1, <1>2, <1>3, <1>4, EffectiveCostColumns

LEMMA BrokerUpsertedColumns ==
  ASSUME NEW row \in Row, NEW q \in Int, NEW v \in Int, NEW c \in Int
  PROVE  LET new == BrokerUpserted(row, q, v, c) IN
         CostIsCurrent(new) /\ new["quantity"] = q /\ new["latest_price"] = v
<1> DEFINE lot == [row EXCEPT !["row_exists"] = 1, !["quantity"] = q,
                             !["latest_price"] = v, !["broker_average_cost"] = c]
<1>1. lot \in Row
  BY 1 \in Int DEF Row
<1>2. lot["quantity"] = q /\ lot["latest_price"] = v
  BY DEF Row, Columns
<1>3. {"quantity", "latest_price"} \subseteq Columns \ {"average_cost"}
  BY DEF Columns
<1>4. BrokerUpserted(row, q, v, c) = WithEffectiveCost(lot)
  BY DEF BrokerUpserted
<1> HIDE DEF lot
<1> QED
  BY <1>1, <1>2, <1>3, <1>4, EffectiveCostColumns

LEMMA ManuallyCostedColumns ==
  ASSUME NEW row \in Row, NEW c \in Int
  PROVE  LET new == ManuallyCosted(row, c) IN
         /\ CostIsCurrent(new)
         /\ new["quantity"] = row["quantity"] /\ new["latest_price"] = row["latest_price"]
<1> DEFINE costed == [row EXCEPT !["manual_average_cost"] = c]
<1>1. costed \in Row
  BY DEF Row
<1>2. costed["quantity"] = row["quantity"] /\ costed["latest_price"] = row["latest_price"]
  BY DEF Row, Columns
<1>3. {"quantity", "latest_price"} \subseteq Columns \ {"average_cost"}
  BY DEF Columns
<1>4. ManuallyCosted(row, c) = WithEffectiveCost(costed)
  BY DEF ManuallyCosted
<1> HIDE DEF costed
<1> QED
  BY <1>1, <1>2, <1>3, <1>4, EffectiveCostColumns

LEMMA ClosedColumns ==
  ASSUME NEW row \in Row
  PROVE  LET new == [row EXCEPT !["quantity"] = 0] IN
         /\ CostIsCurrent(row) => CostIsCurrent(new)
         /\ new["quantity"] = 0 /\ new["latest_price"] = row["latest_price"]
BY DEF Row, Columns, CostIsCurrent, EffectiveCost

LEMMA UpsertSeen ==
  ASSUME JobsInv, NEW s \in Importers, NEW p \in Positions, UpsertLot(s, p)
  PROVE  LET lot == statement[s].lots[p]
             row == BrokerUpserted(Seen(s, p), lot.quantity, LotPrice(s, p), lot.cost) IN
         /\ UNCHANGED rows /\ lot \in Lots /\ lot.quantity \in Int /\ lot.cost \in Int
         /\ LotPrice(s, p) \in Int
         /\ row \in Row /\ Assign(s, [q \in {p} |-> row])
         /\ Seen(s, p)' = row
         /\ \A q \in Positions \ {p} : Seen(s, q)' = Seen(s, q)
<1> DEFINE lot == statement[s].lots[p]
           row == BrokerUpserted(Seen(s, p), lot.quantity, LotPrice(s, p), lot.cost)
           new == [q \in {p} |-> row]
<1>t. s \in Sessions /\ StoreTypeOK /\ importedAt[s] \in Int
  BY DEF JobsInv, TypeOK, JobTypeOK, ImportTypeOK, Sessions
<1>1. lot \in Lots
  BY DEF JobsInv, LoopsAreSound, UpsertLot, Mentioned
<1>2. lot.quantity \in Int /\ lot.cost \in Int /\ LotPrice(s, p) \in Int
  BY <1>t, <1>1, LotsAssumption, 0 \in Int DEF LotPrice, NoPrice
<1>3. row \in Row
  BY <1>t, <1>2, SeenIsRow, OperationsReturnRows
<1>4. Assign(s, new) /\ UNCHANGED rows
  BY DEF UpsertLot
<1> HIDE DEF row
<1>5. Seen(s, p)' = row
  BY <1>t, <1>3, <1>4, AssignSeen
<1>6. \A q \in Positions \ {p} : Seen(s, q)' = Seen(s, q)
  BY <1>t, <1>4, AssignSeen
<1> QED
  BY <1>1, <1>2, <1>3, <1>4, <1>5, <1>6 DEF row

LEMMA CloseSeen ==
  ASSUME JobsInv, NEW s \in Importers, CloseMissing(s)
  PROVE  LET missing == MissingFrom(s, statement[s].accounts, Mentioned(statement[s]))
             closed == [p \in missing |-> [Seen(s, p) EXCEPT !["quantity"] = 0]] IN
         /\ UNCHANGED rows /\ Assign(s, closed)
         /\ \A p \in missing : closed[p] \in Row /\ closed[p] = [Seen(s, p) EXCEPT !["quantity"] = 0]
         /\ \A p \in missing : Seen(s, p)' = [Seen(s, p) EXCEPT !["quantity"] = 0]
         /\ \A p \in Positions \ missing : Seen(s, p)' = Seen(s, p)
<1> DEFINE missing == MissingFrom(s, statement[s].accounts, Mentioned(statement[s]))
           closed == [p \in missing |-> [Seen(s, p) EXCEPT !["quantity"] = 0]]
<1>t. s \in Sessions /\ StoreTypeOK
  BY DEF JobsInv, TypeOK, JobTypeOK, Sessions
<1>1. missing \subseteq Positions
  BY DEF MissingFrom
<1>2. \A p \in missing : closed[p] \in Row
  BY <1>t, <1>1, 0 \in Int, SeenIsRow, OperationsReturnRows
<1>3. Assign(s, closed) /\ UNCHANGED rows
  BY DEF CloseMissing
<1>4. DOMAIN closed = missing /\ \A p \in missing : closed[p] = [Seen(s, p) EXCEPT !["quantity"] = 0]
  OBVIOUS
<1> HIDE DEF missing, closed
<1>5. \A p \in Positions : Seen(s, p)' = IF p \in missing THEN closed[p] ELSE Seen(s, p)
  BY <1>t, <1>2, <1>3, <1>4, AssignSeen
<1>6. /\ UNCHANGED rows /\ Assign(s, closed)
      /\ \A p \in missing : closed[p] \in Row /\ closed[p] = [Seen(s, p) EXCEPT !["quantity"] = 0]
      /\ \A p \in missing : Seen(s, p)' = [Seen(s, p) EXCEPT !["quantity"] = 0]
      /\ \A p \in Positions \ missing : Seen(s, p)' = Seen(s, p)
  BY <1>1, <1>2, <1>3, <1>4, <1>5
<1> QED
  BY <1>6 DEF missing, closed

LEMMA ManualCostSeen ==
  ASSUME JobsInv, NEW s \in Refreshers, NEW p \in Positions, SetManualCost(s, p)
  PROVE  LET row == ManuallyCosted(Seen(s, p), inputs[s][p]) IN
         /\ UNCHANGED rows /\ inputs[s][p] \in Int /\ Seen(s, p) \in Row
         /\ row \in Row /\ Assign(s, [q \in {p} |-> row])
         /\ Seen(s, p)' = row
         /\ \A q \in Positions \ {p} : Seen(s, q)' = Seen(s, q)
<1> DEFINE row == ManuallyCosted(Seen(s, p), inputs[s][p])
<1>t. s \in Sessions /\ StoreTypeOK /\ Seen(s, p) \in Row
  BY SeenIsRow DEF JobsInv, TypeOK, JobTypeOK, Sessions
<1>1. inputs[s][p] \in Int
  BY DEF SetManualCost, JobsInv, LoopsAreSound
<1>2. row \in Row
  BY <1>t, <1>1, OperationsReturnRows
<1>3. Assign(s, [q \in {p} |-> row]) /\ UNCHANGED rows
  BY DEF SetManualCost
<1> HIDE DEF row
<1>4. Seen(s, p)' = row
  BY <1>t, <1>2, <1>3, AssignSeen
<1>5. \A q \in Positions \ {p} : Seen(s, q)' = Seen(s, q)
  BY <1>t, <1>3, AssignSeen
<1> QED
  BY <1>t, <1>1, <1>2, <1>3, <1>4, <1>5 DEF row

LEMMA WriteSeen ==
  ASSUME JobsInv, NEW s \in Refreshers, WritePosition(s)
  PROVE  \E p \in Positions :
           /\ p = current[s] /\ UNCHANGED rows /\ local[s][p] \in Row
           /\ Upserted(local[s][p]) \in Row /\ Assign(s, [q \in {p} |-> Upserted(local[s][q])])
           /\ Seen(s, p)' = Upserted(local[s][p])
           /\ \A q \in Positions \ {p} : Seen(s, q)' = Seen(s, q)
<1>t. s \in Sessions /\ StoreTypeOK /\ local[s] \in [Positions -> Row]
  BY DEF JobsInv, TypeOK, JobTypeOK, RefreshTypeOK, Sessions
<1>1. PICK p \in Positions : p = current[s]
  BY DEF WritePosition, GoTo, JobsInv, LoopsAreSound
<1> DEFINE new == [q \in {p} |-> Upserted(local[s][q])]
<1>2. Upserted(local[s][p]) \in Row
  BY <1>t, 0 \in Int, OperationsReturnRows
<1>3. Assign(s, new) /\ UNCHANGED rows
  BY <1>1 DEF WritePosition
<1>4. DOMAIN new = {p} /\ new[p] = Upserted(local[s][p])
  OBVIOUS
<1> HIDE DEF new
<1>5. Seen(s, p)' = new[p]
  BY <1>t, <1>2, <1>3, <1>4, AssignSeen
<1>6. \A q \in Positions \ {p} : Seen(s, q)' = Seen(s, q)
  BY <1>t, <1>3, <1>4, AssignSeen
<1>7. Assign(s, [q \in {p} |-> Upserted(local[s][q])])
  BY <1>3 DEF new
<1> QED
  BY <1>t, <1>1, <1>2, <1>3, <1>4, <1>5, <1>6, <1>7

-----------------------------------------------------------------------------
(* Costs.                                                                  *)

LEMMA SeenStamp ==
  ASSUME StampsInv, NEW s \in Sessions, NEW p \in Positions
  PROVE  Seen(s, p)["latest_price"] >= 0
<1>1. Seen(s, p)["latest_price"] = IF staged[s][p]["latest_price"] = Keep
                                   THEN rows[p]["latest_price"] ELSE staged[s][p]["latest_price"]
  BY DEF Seen, Overlay, Columns
<1> QED
  BY <1>1 DEF StampsInv

\* Every statement of a job leaves the effective cost of its row current,
\* and stamps its price with a time.
SoundRows(s, new) ==
  /\ Assign(s, new)
  /\ \A p \in Positions \cap DOMAIN new :
       /\ new[p] \in Row
       /\ CostIsCurrent(Seen(s, p)) => CostIsCurrent(new[p])
       /\ StampsInv => new[p]["latest_price"] >= 0

LEMMA UpsertIsSound ==
  ASSUME JobsInv, NEW s \in Importers, NEW p \in Positions, UpsertLot(s, p)
  PROVE  UNCHANGED <<rows, prices>> /\ \E new : SoundRows(s, new)
<1> DEFINE lot == statement[s].lots[p]
           row == BrokerUpserted(Seen(s, p), lot.quantity, LotPrice(s, p), lot.cost)
<1>1. /\ lot.quantity \in Int /\ lot.cost \in Int /\ LotPrice(s, p) \in Int
      /\ row \in Row /\ Assign(s, [q \in {p} |-> row])
  BY UpsertSeen
<1>2. Seen(s, p) \in Row
  BY SeenIsRow DEF JobsInv, TypeOK, JobTypeOK, Sessions
<1>3. CostIsCurrent(row) /\ row["latest_price"] = LotPrice(s, p)
  BY <1>1, <1>2, BrokerUpsertedColumns
<1>4. StampsInv => LotPrice(s, p) >= 0
  BY DEF StampsInv, LotPrice, NoPrice
<1>5. UNCHANGED <<rows, prices>>
  BY DEF UpsertLot
<1> HIDE DEF row
<1> QED
  BY <1>1, <1>3, <1>4, <1>5 DEF SoundRows

LEMMA CloseIsSound ==
  ASSUME JobsInv, NEW s \in Importers, CloseMissing(s)
  PROVE  UNCHANGED <<rows, prices>> /\ \E new : SoundRows(s, new)
<1> DEFINE missing == MissingFrom(s, statement[s].accounts, Mentioned(statement[s]))
           closed == [p \in missing |-> [Seen(s, p) EXCEPT !["quantity"] = 0]]
<1>1. /\ Assign(s, closed) /\ DOMAIN closed = missing /\ missing \subseteq Positions
      /\ \A p \in missing : closed[p] \in Row /\ closed[p] = [Seen(s, p) EXCEPT !["quantity"] = 0]
  BY CloseSeen DEF MissingFrom
<1> HIDE DEF closed, missing
<1>2. ASSUME NEW p \in missing
      PROVE  /\ CostIsCurrent(Seen(s, p)) => CostIsCurrent(closed[p])
             /\ closed[p]["latest_price"] = Seen(s, p)["latest_price"]
  <2>1. Seen(s, p) \in Row
    BY <1>1, SeenIsRow DEF JobsInv, TypeOK, JobTypeOK, Sessions
  <2> QED
    BY <1>1, <1>2, <2>1, ClosedColumns
<1>3. UNCHANGED <<rows, prices>>
  BY DEF CloseMissing
<1> QED
  BY <1>1, <1>2, <1>3, SeenStamp DEF SoundRows, Sessions

LEMMA ManualCostIsSound ==
  ASSUME JobsInv, NEW s \in Refreshers, NEW p \in Positions, SetManualCost(s, p)
  PROVE  UNCHANGED <<rows, prices>> /\ \E new : SoundRows(s, new)
<1> DEFINE row == ManuallyCosted(Seen(s, p), inputs[s][p])
<1>1. /\ inputs[s][p] \in Int /\ Seen(s, p) \in Row
      /\ row \in Row /\ Assign(s, [q \in {p} |-> row])
  BY ManualCostSeen
<1>2. CostIsCurrent(row) /\ row["latest_price"] = Seen(s, p)["latest_price"]
  BY <1>1, ManuallyCostedColumns
<1>3. UNCHANGED <<rows, prices>>
  BY DEF SetManualCost
<1> HIDE DEF row
<1> QED
  BY <1>1, <1>2, <1>3, SeenStamp DEF SoundRows, Sessions

LEMMA WriteIsSound ==
  ASSUME JobsInv, NEW s \in Refreshers, WritePosition(s)
  PROVE  UNCHANGED <<rows, prices>> /\ \E new : SoundRows(s, new)
<1>1. PICK p \in Positions :
        /\ local[s][p] \in Row /\ Upserted(local[s][p]) \in Row
        /\ Assign(s, [q \in {p} |-> Upserted(local[s][q])])
  BY WriteSeen
<1>2. /\ CostIsCurrent(Upserted(local[s][p]))
      /\ Upserted(local[s][p])["latest_price"] = local[s][p]["latest_price"]
  BY <1>1, UpsertedColumns
<1>3. UNCHANGED <<rows, prices>>
  BY DEF WritePosition
<1> QED
  BY <1>1, <1>2, <1>3 DEF SoundRows, StampsInv

LEMMA StoreSteps ==
  ASSUME JobsInv, NEW s \in Sessions, Acts(s)
  PROVE  \/ UNCHANGED <<rows, staged, prices>>
         \/ UNCHANGED <<rows, prices>> /\ \E new : SoundRows(s, new)
         \/ CommitSession(s)
         \/ RollbackSession(s)
<1> USE DEF GoTo, FinishRun, storeVars
<1>1. CASE s \in Importers /\ (ImportProgress(s) \/ ImportFailure(s) \/ ImportError(s))
  <2>1. CASE StartImport(s) \/ CommitImport(s) \/ RollbackFailed(s) \/ RecordFailed(s)
    BY <2>1 DEF StartImport, CommitImport, RollbackFailed, RecordFailed
  <2>2. CASE FetchStatement(s) \/ ImportRaises(s)
    BY <2>2 DEF FetchStatement, ImportRaises
  <2> QED
    BY <1>1, <2>1, <2>2, UpsertIsSound, CloseIsSound DEF ImportProgress, ImportFailure, ImportError
<1>2. CASE s \in Refreshers /\ (RefreshProgress(s) \/ RefreshFailure(s) \/ RefreshError(s))
  <2>1. CASE \/ StartMarketRun(s) \/ CommitMarket(s) \/ RollbackRefresh(s)
             \/ RecordRefreshFailed(s) \/ FailsBeforeRun(s)
    BY <2>1 DEF StartMarketRun, CommitMarket, RollbackRefresh, RollbackFailed,
                RecordRefreshFailed, RecordFailed, FailsBeforeRun
  <2>2. CASE \/ BeginRefresh(s) \/ ReadInputs(s) \/ SkipInputs(s) \/ ListAgain(s)
             \/ FetchQuotes(s) \/ PersistReview(s)
             \/ \E p \in Positions : QuotePosition(s, p) \/ SyncPage(s, p)
    BY <2>2 DEF BeginRefresh, ReadInputs, SkipInputs, ListAgain, FetchQuotes, PersistReview,
                QuotePosition, SyncPage
  <2>3. CASE \/ StartNotionRun(s) \/ SyncReview(s) \/ FinishNotion(s) \/ FinishWithoutNotion(s)
             \/ RefreshRaises(s) \/ SyncFails(s) \/ StartNotionFails(s)
    BY <2>3 DEF StartNotionRun, SyncReview, FinishNotion, FinishWithoutNotion, RefreshRaises,
                SyncFails, StartNotionFails
  <2> QED
    BY <1>2, <2>1, <2>2, <2>3, ManualCostIsSound, WriteIsSound
       DEF RefreshProgress, RefreshFailure, RefreshError
<1>3. CASE FlushStep(s)
  BY <1>3 DEF FlushStep, FlushRow, Flush
<1>4. CASE Crash(s)
  BY <1>4 DEF Crash
<1> QED
  BY <1>1, <1>2, <1>3, <1>4 DEF Acts

LEMMA NextCosts ==
  ASSUME MaxConcurrentJobs = 1, JobsInv, JobsInv', OneActive, CostsInv, [Next]_vars
  PROVE  CostsInv'
<1>t. StoreTypeOK /\ StoreTypeOK'
  BY DEF JobsInv, TypeOK, JobTypeOK
<1>1. ASSUME NEW s \in Sessions, Acts(s) PROVE CostsInv'
  <2>1. \A t \in Sessions \ {s} : ~Active(t)'
    BY <1>1, Alone DEF Active
  <2>2. \A p \in Positions : CostIsCurrent(rows[p]) /\ CostIsCurrent(Seen(s, p))
    <3>1. \A p \in Positions : CostIsCurrent(rows[p])
      BY DEF CostsInv, EffectiveCostIsCurrent, CostIsCurrent
    <3>2. CASE Active(s)
      BY <3>1, <3>2 DEF CostsInv
    <3>3. CASE ~Active(s)
      <4>1. pc[s] \in CleanStages
        BY <3>3 DEF Active, CleanStages
      <4>2. \A p \in Positions : Seen(s, p) = rows[p]
        BY <1>t, <4>1, CleanSeen DEF JobsInv, StagesAreClean
      <4> QED
        BY <3>1, <4>2
    <3> QED
      BY <3>2, <3>3
  <2>3. \A p \in Positions : CostIsCurrent(rows'[p]) /\ CostIsCurrent(Seen(s, p)')
    <3>1. CASE UNCHANGED <<rows, staged, prices>>
      BY <2>2, <3>1 DEF Seen
    <3>2. CASE UNCHANGED <<rows, prices>> /\ \E new : SoundRows(s, new)
      <4>1. PICK new : SoundRows(s, new)
        BY <3>2
      <4>2. \A p \in Positions : Seen(s, p)' = IF p \in DOMAIN new THEN new[p] ELSE Seen(s, p)
        BY <1>t, <3>2, <4>1, AssignSeen DEF SoundRows
      <4> QED
        BY <2>2, <3>2, <4>1, <4>2 DEF SoundRows
    <3>3. CASE CommitSession(s)
      BY <1>t, <2>2, <3>3, CommitSeen
    <3>4. CASE RollbackSession(s)
      BY <1>t, <2>2, <3>4, RollbackSeen
    <3> QED
      BY <1>1, <3>1, <3>2, <3>3, <3>4, StoreSteps
  <2> QED
    BY <2>1, <2>3 DEF CostsInv, EffectiveCostIsCurrent, CostIsCurrent
<1>2. CASE UNCHANGED <<storeVars, jobVars>>
  BY <1>2 DEF storeVars, jobVars, CostsInv, EffectiveCostIsCurrent, Active, Seen
<1> QED
  BY <1>1, <1>2, ActorOfStep

-----------------------------------------------------------------------------
(* Quantities.                                                             *)

\* Once a refresh has ended its own market run, or any other job acts, it
\* reads nothing any more.
LEMMA OtherActors ==
  ASSUME MaxConcurrentJobs = 1, JobsInv, OneActive, NEW s \in Sessions, Acts(s),
         NEW t \in Sessions \ {s}
  PROVE  pc'[t] \notin {"upsert", "commit"} \cup ReadingStages
BY Alone DEF Active, ReadingStages, ListedStages

LEMMA ListedQuantity ==
  ASSUME TypeOK, NEW s \in Refreshers, ListOpen(s), NEW p \in Positions
  PROVE  /\ local'[s][p]["quantity"] = Seen(s, p)["quantity"]
         /\ IsOpen(local'[s][p]) => local'[s][p] = Seen(s, p)
<1>1. local'[s][p] = IF IsOpen(Seen(s, p)) THEN Seen(s, p) ELSE NoRow
  BY DEF TypeOK, RefreshTypeOK, ListOpen, OpenPositions
<1>2. NoRow["quantity"] = 0
  BY DEF NoRow, Columns
<1> QED
  BY <1>1, <1>2 DEF IsOpen

LEMMA QuotedQuantity ==
  ASSUME TypeOK, NEW s \in Refreshers, NEW q \in Positions, QuotePosition(s, q), NEW p \in Positions
  PROVE  /\ local'[s][p]["quantity"] = local[s][p]["quantity"]
         /\ p # q => local'[s][p] = local[s][p]
<1>1. local[s] \in [Positions -> [Columns -> Int]]
  BY DEF TypeOK, RefreshTypeOK, Row
<1>2. \/ UNCHANGED local
      \/ \E v : local' = [local EXCEPT ![s][q]["latest_price"] = v]
  BY DEF QuotePosition
<1> QED
  BY <1>1, <1>2 DEF TypeOK, RefreshTypeOK, Columns

LEMMA NextQuantities ==
  ASSUME MaxConcurrentJobs = 1, JobsInv, JobsInv', OneActive, QuantitiesInv, [Next]_vars
  PROVE  QuantitiesInv'
<1>t. /\ TypeOK /\ StoreTypeOK /\ StoreTypeOK' /\ pc \in [Sessions -> Stages]
      /\ local \in [Refreshers -> [Positions -> Row]]
  BY DEF JobsInv, TypeOK, JobTypeOK, RefreshTypeOK
<1>1. ASSUME NEW s \in Sessions, Acts(s) PROVE QuantitiesInv'
  <2>1. \A t \in Refreshers : t # s => pc'[t] \notin ReadingStages
    BY <1>1, OtherActors DEF Sessions
  <2> SUFFICES ASSUME s \in Refreshers, NEW p \in Positions, pc'[s] \in ReadingStages
               PROVE  /\ Seen(s, p)'["quantity"] = rows'[p]["quantity"]
                      /\ pc'[s] \in ListedStages => local'[s][p]["quantity"] = rows'[p]["quantity"]
    BY <2>1 DEF QuantitiesInv, ReadingStages
  <2>s. s \notin Importers
    BY StoreAssumption
  <2>q. /\ pc[s] \in ReadingStages => Seen(s, p)["quantity"] = rows[p]["quantity"]
        /\ pc[s] \in ListedStages => local[s][p]["quantity"] = rows[p]["quantity"]
    BY DEF QuantitiesInv
  <2>2. ASSUME UNCHANGED <<rows, staged>>, pc[s] \in ReadingStages,
               pc'[s] \in ListedStages =>
                 pc[s] \in ListedStages /\ local'[s][p]["quantity"] = local[s][p]["quantity"]
        PROVE  /\ Seen(s, p)'["quantity"] = rows'[p]["quantity"]
               /\ pc'[s] \in ListedStages => local'[s][p]["quantity"] = rows'[p]["quantity"]
    BY <2>q, <2>2 DEF Seen
  <2> USE DEF ReadingStages, ListedStages
  <2>3. CASE BeginRefresh(s)
    <3>1. pc[s] = "idle" /\ pc'[s] = "inputs" /\ UNCHANGED <<rows, staged>>
      BY <1>t, <2>3 DEF BeginRefresh, GoTo, storeVars
    <3>2. Seen(s, p) = rows[p]
      BY <1>t, <3>1, CleanSeen DEF JobsInv, StagesAreClean, CleanStages
    <3> QED
      BY <3>1, <3>2 DEF Seen
  <2>4. CASE ReadInputs(s) \/ SkipInputs(s) \/ FetchQuotes(s) \/ PersistReview(s)
    <3>1. /\ UNCHANGED <<rows, staged, local>>
          /\ \/ pc[s] = "inputs" /\ pc'[s] = "overrides"
             \/ pc[s] \in {"fetch", "select"}
      BY <1>t, <2>4 DEF ReadInputs, SkipInputs, FetchQuotes, PersistReview, GoTo, storeVars, refreshVars
    <3> QED
      BY <2>2, <3>1
  <2>5. ASSUME NEW q \in Positions, SetManualCost(s, q)
        PROVE  /\ Seen(s, p)'["quantity"] = rows'[p]["quantity"]
               /\ pc'[s] \in ListedStages => local'[s][p]["quantity"] = rows'[p]["quantity"]
    <3>1. pc[s] = "overrides" /\ pc'[s] = "overrides"
      BY <2>5 DEF SetManualCost
    <3>2. /\ UNCHANGED rows /\ inputs[s][q] \in Int /\ Seen(s, q) \in Row
          /\ Seen(s, q)' = ManuallyCosted(Seen(s, q), inputs[s][q])
          /\ q # p => Seen(s, p)' = Seen(s, p)
      BY <2>5, ManualCostSeen
    <3>3. ManuallyCosted(Seen(s, q), inputs[s][q])["quantity"] = Seen(s, q)["quantity"]
      BY <3>2, ManuallyCostedColumns
    <3>4. Seen(s, p)'["quantity"] = Seen(s, p)["quantity"]
      BY <3>2, <3>3
    <3> QED
      BY <2>q, <3>1, <3>2, <3>4
  <2>6. CASE ListAgain(s)
    <3>1. pc[s] = "overrides" /\ UNCHANGED <<rows, staged>> /\ ListOpen(s)
      BY <2>6 DEF ListAgain, GoTo, storeVars
    <3> QED
      BY <1>t, <2>q, <3>1, ListedQuantity DEF Seen
  <2>7. CASE StartMarketRun(s)
    <3>1. pc[s] = "start" /\ UNCHANGED local /\ CommitSession(s)
      BY <2>7 DEF StartMarketRun, GoTo, FinishRun, refreshVars
    <3> QED
      BY <1>t, <2>q, <3>1, CommitSeen
  <2>8. ASSUME NEW q \in Positions, QuotePosition(s, q)
        PROVE  /\ Seen(s, p)'["quantity"] = rows'[p]["quantity"]
               /\ pc'[s] \in ListedStages => local'[s][p]["quantity"] = rows'[p]["quantity"]
    <3>1. pc[s] = "select" /\ UNCHANGED <<rows, staged>>
      BY <2>8 DEF QuotePosition, GoTo
    <3> QED
      BY <1>t, <2>2, <2>8, <3>1, QuotedQuantity
  <2>9. CASE WritePosition(s)
    <3>1. PICK q \in Positions :
            /\ UNCHANGED rows /\ local[s][q] \in Row
            /\ Seen(s, q)' = Upserted(local[s][q])
            /\ q # p => Seen(s, p)' = Seen(s, p)
      BY <2>9, WriteSeen
    <3>2. pc[s] = "write" /\ UNCHANGED local
      BY <2>9 DEF WritePosition, GoTo
    <3>3. Upserted(local[s][q])["quantity"] = local[s][q]["quantity"]
      BY <3>1, UpsertedColumns
    <3>4. CASE q = p
      BY <2>q, <3>1, <3>2, <3>3, <3>4
    <3> QED
      BY <2>q, <3>1, <3>2, <3>4
  <2>10. CASE FlushStep(s)
    <3>1. UNCHANGED <<rows, staged, pc, local>>
      BY <2>10 DEF FlushStep, FlushRow, Flush, jobVars, outsideRefresh, refreshVars
    <3> QED
      BY <2>2, <3>1
  <2>11. CASE CommitMarket(s) \/ RefreshFailure(s) \/ RefreshError(s) \/ Crash(s)
    BY <1>t, <2>11
       DEF CommitMarket, RefreshFailure, RefreshError, RollbackRefresh, RollbackFailed,
           RecordRefreshFailed, RecordFailed, FailsBeforeRun, RefreshRaises, SyncFails,
           StartNotionFails, Crash, GoTo
  <2>12. CASE \/ StartNotionRun(s) \/ SyncReview(s) \/ FinishNotion(s) \/ FinishWithoutNotion(s)
              \/ \E q \in Positions : SyncPage(s, q)
    BY <1>t, <2>12
       DEF StartNotionRun, SyncReview, FinishNotion, FinishWithoutNotion, SyncPage, GoTo
  <2> QED
    BY <1>1, <2>s, <2>3, <2>4, <2>5, <2>6, <2>7, <2>8, <2>9, <2>10, <2>11, <2>12
       DEF Acts, RefreshProgress
<1>2. CASE UNCHANGED <<storeVars, jobVars, importVars, refreshVars>>
  BY <1>2 DEF storeVars, jobVars, refreshVars, QuantitiesInv, Seen
<1> QED
  BY <1>1, <1>2, ActorOfStep

-----------------------------------------------------------------------------
(* Statements.                                                             *)

\* A lot is not a marker of a position without one.
LEMMA MentionedQuantity ==
  ASSUME NEW st \in Statements, NEW p \in Positions, st.lots[p] # Skipped
  PROVE  StatementQuantity(st, p) = IF p \in Mentioned(st) THEN st.lots[p].quantity ELSE 0
<1>1. st.lots[p] \in Lots \cup {NoLot, Skipped}
  BY DEF Statements
<1> QED
  BY <1>1, LotsAssumption DEF StatementQuantity, Mentioned

LEMMA NextStatements ==
  ASSUME MaxConcurrentJobs = 1, JobsInv, OneActive, StatementInv, [Next]_vars
  PROVE  StatementInv'
<1>t. /\ TypeOK /\ StoreTypeOK /\ pc \in [Sessions -> Stages] /\ todo \in [Sessions -> SUBSET Positions]
      /\ statement \in [Importers -> Statements]
  BY DEF JobsInv, TypeOK, JobTypeOK, ImportTypeOK
<1>1. ASSUME NEW s \in Sessions, Acts(s) PROVE StatementInv'
  <2>1. \A t \in Importers : t # s => pc'[t] \notin {"upsert", "commit"}
    BY <1>1, OtherActors DEF Sessions
  <2> SUFFICES ASSUME s \in Importers
               PROVE  /\ pc'[s] = "upsert" =>
                           \A p \in Mentioned(statement'[s]) \ todo'[s] :
                             Seen(s, p)'["quantity"] = statement'[s].lots[p].quantity
                      /\ pc'[s] = "commit" =>
                           \A p \in Positions :
                             AccountOf[p] \in statement'[s].accounts /\ statement'[s].lots[p] # Skipped =>
                               Seen(s, p)'["quantity"] = StatementQuantity(statement'[s], p)
    BY <2>1 DEF StatementInv, StatementQuantity, Mentioned
  <2>s. s \notin Refreshers
    BY StoreAssumption
  <2>2. CASE StartImport(s) \/ CommitImport(s) \/ ImportFailure(s) \/ ImportError(s) \/ Crash(s)
    BY <1>t, <2>2 DEF StartImport, CommitImport, ImportFailure, ImportError, RollbackFailed,
                      RecordFailed, ImportRaises, Crash, GoTo
  <2>3. CASE FetchStatement(s)
    <3>1. PICK st \in Statements :
            /\ statement' = [statement EXCEPT ![s] = [st EXCEPT !.accounts = ImportedAccounts(st)]]
            /\ todo' = [todo EXCEPT ![s] = Mentioned(st)]
      BY <2>3 DEF FetchStatement, Visit
    <3>2. statement'[s].lots = st.lots /\ todo'[s] = Mentioned(st)
      BY <1>t, <3>1 DEF Statements
    <3>3. Mentioned(statement'[s]) = todo'[s]
      BY <3>2 DEF Mentioned
    <3>4. pc'[s] = "upsert"
      BY <1>t, <2>3 DEF FetchStatement, GoTo
    <3> QED
      BY <3>3, <3>4
  <2>4. ASSUME NEW p \in Positions, UpsertLot(s, p)
        PROVE  /\ pc'[s] = "upsert" /\ UNCHANGED statement
               /\ \A q \in Mentioned(statement[s]) \ todo'[s] :
                    Seen(s, q)'["quantity"] = statement[s].lots[q].quantity
    <3>1. /\ pc[s] = "upsert" /\ pc'[s] = "upsert" /\ UNCHANGED statement
          /\ todo'[s] = todo[s] \ {p}
      BY <1>t, <2>4 DEF UpsertLot, Visit, importVars
    <3> DEFINE lot == statement[s].lots[p]
    <3>2. /\ lot.quantity \in Int /\ lot.cost \in Int /\ LotPrice(s, p) \in Int
          /\ Seen(s, p)' = BrokerUpserted(Seen(s, p), lot.quantity, LotPrice(s, p), lot.cost)
          /\ \A q \in Positions \ {p} : Seen(s, q)' = Seen(s, q)
      BY <2>4, UpsertSeen
    <3>3. Seen(s, p) \in Row
      BY <1>t, SeenIsRow
    <3>4. BrokerUpserted(Seen(s, p), lot.quantity, LotPrice(s, p), lot.cost)["quantity"] = lot.quantity
      BY <3>2, <3>3, BrokerUpsertedColumns
    <3>5. Seen(s, p)'["quantity"] = lot.quantity
      BY <3>2, <3>4
    <3>6. ASSUME NEW q \in Mentioned(statement[s]) \ todo'[s], q # p
          PROVE  Seen(s, q)'["quantity"] = statement[s].lots[q].quantity
      <4>1. q \in Positions /\ q \in Mentioned(statement[s]) \ todo[s]
        BY <3>1, <3>6 DEF Mentioned
      <4> QED
        BY <3>1, <3>2, <3>6, <4>1 DEF StatementInv
    <3> QED
      BY <3>1, <3>5, <3>6
  <2>5. CASE CloseMissing(s)
    <3>1. /\ pc[s] = "upsert" /\ pc'[s] = "commit" /\ UNCHANGED statement /\ todo[s] = {}
      BY <1>t, <2>5 DEF CloseMissing, GoTo, importVars
    <3> DEFINE st == statement[s]
               missing == MissingFrom(s, st.accounts, Mentioned(st))
    <3>2. /\ \A p \in missing : Seen(s, p)' = [Seen(s, p) EXCEPT !["quantity"] = 0]
          /\ \A p \in Positions \ missing : Seen(s, p)' = Seen(s, p)
      BY <2>5, CloseSeen
    <3>3. ASSUME NEW p \in Positions, AccountOf[p] \in st.accounts, st.lots[p] # Skipped
          PROVE  Seen(s, p)'["quantity"] = StatementQuantity(st, p)
      <4>1. StatementQuantity(st, p) = IF p \in Mentioned(st) THEN st.lots[p].quantity ELSE 0
        BY <1>t, <3>3, MentionedQuantity
      <4>2. CASE p \in Mentioned(st)
        <5>1. p \notin missing
          BY <4>2 DEF MissingFrom
        <5>2. Seen(s, p)["quantity"] = st.lots[p].quantity
          BY <3>1, <4>2 DEF StatementInv
        <5> QED
          BY <3>2, <4>1, <4>2, <5>1, <5>2
      <4>3. CASE p \in missing
        <5>1. p \notin Mentioned(st)
          BY <4>3 DEF MissingFrom
        <5>2. Seen(s, p) \in Row /\ Seen(s, p)' = [Seen(s, p) EXCEPT !["quantity"] = 0]
          BY <1>t, <3>2, <4>3, SeenIsRow
        <5>3. Seen(s, p)'["quantity"] = 0
          BY <5>2, ClosedColumns
        <5> QED
          BY <4>1, <5>1, <5>3
      <4>4. CASE p \notin Mentioned(st) /\ p \notin missing
        <5>1. Seen(s, p)["quantity"] = 0
          BY <3>3, <4>4 DEF MissingFrom, IsOpen
        <5> QED
          BY <3>2, <4>1, <4>4, <5>1
      <4> QED
        BY <4>2, <4>3, <4>4
    <3> QED
      BY <3>1, <3>3
  <2>6. CASE FlushStep(s)
    <3>1. UNCHANGED <<rows, staged, pc, todo, statement>>
      BY <2>6 DEF FlushStep, FlushRow, Flush, jobVars, importVars
    <3> QED
      BY <3>1 DEF StatementInv, Seen
  <2> QED
    BY <1>1, <2>s, <2>2, <2>3, <2>4, <2>5, <2>6 DEF Acts, ImportProgress
<1>2. CASE UNCHANGED <<storeVars, jobVars, importVars, refreshVars>>
  BY <1>2 DEF storeVars, jobVars, importVars, StatementInv, Seen
<1> QED
  BY <1>1, <1>2, ActorOfStep

-----------------------------------------------------------------------------
(* Stamps.                                                                 *)

StoreStamps ==
  /\ \A p \in Positions : rows[p]["latest_price"] >= 0
  /\ \A i \in Instruments : prices[i] >= 0
  /\ \A s \in Sessions : \A p \in Positions :
       staged[s][p]["latest_price"] # Keep => staged[s][p]["latest_price"] >= 0

MemoryStamps ==
  /\ now >= 1
  /\ \A s \in Importers : importedAt[s] >= 0
  /\ \A s \in Refreshers :
       /\ \A p \in Positions : local[s][p]["latest_price"] >= 0
       /\ \A i \in Instruments : quotes[s][i] >= 0

LEMMA SeenPriceStamp ==
  ASSUME StoreTypeOK, StampsInv, NEW s \in Sessions, NEW i \in Instruments
  PROVE  SeenPrice(s, i) \in Nat
<1>1. prices[i] \in Int /\ newPrices[s][i] \in Int /\ prices[i] >= 0
  BY DEF StoreTypeOK, StampsInv
<1> QED
  BY <1>1 DEF SeenPrice

\* The quote selected is no older than what the session would read.
LEMMA SelectedQuote ==
  ASSUME NEW candidate \in Nat, NEW persisted \in Nat, NEW carried \in Nat
  PROVE  /\ SelectQuote(candidate, persisted, carried) \in Nat
         /\ SelectQuote(candidate, persisted, carried) >= persisted
         /\ SelectQuote(candidate, persisted, carried) = NoPrice => persisted = NoPrice /\ carried = NoPrice
         /\ persisted # NoPrice => SelectQuote(candidate, persisted, carried) \in {candidate, persisted}
BY DEF SelectQuote, NoPrice

LEMMA NextStoreStamps ==
  ASSUME JobsInv, JobsInv', StampsInv, NEW s \in Sessions, Acts(s)
  PROVE  StoreStamps'
<1>t. StoreTypeOK /\ StoreTypeOK'
  BY DEF JobsInv, TypeOK, JobTypeOK
<1>1. CASE UNCHANGED <<rows, staged, prices>>
  BY <1>1 DEF StampsInv, StoreStamps
<1>2. CASE UNCHANGED <<rows, prices>> /\ \E new : SoundRows(s, new)
  <2>1. PICK new : SoundRows(s, new)
    BY <1>2
  <2>2. ASSUME NEW p \in Positions, staged'[s][p]["latest_price"] # Keep
        PROVE  staged'[s][p]["latest_price"] >= 0
    <3>1. staged'[s][p] = IF p \in DOMAIN new THEN Change(s, p, new[p]) ELSE staged[s][p]
      BY <1>t, <2>1 DEF StoreTypeOK, SoundRows, Assign
    <3>2. p \in DOMAIN new => new[p]["latest_price"] >= 0
      BY <2>1 DEF SoundRows
    <3> QED
      BY <2>2, <3>1, <3>2 DEF StampsInv, Change, Columns
  <2>3. \A t \in Sessions : t # s => staged'[t] = staged[t]
    BY <1>t, <2>1 DEF StoreTypeOK, SoundRows, Assign
  <2> QED
    BY <1>2, <2>2, <2>3 DEF StampsInv, StoreStamps
<1>3. CASE CommitSession(s)
  <2>1. \A p \in Positions : rows'[p]["latest_price"] >= 0
    BY <1>t, <1>3, CommitSeen, SeenStamp
  <2>2. \A i \in Instruments : prices'[i] >= 0
    <3>1. \A i \in Instruments : prices'[i] = SeenPrice(s, i)
      BY <1>3 DEF CommitSession
    <3> QED
      BY <1>t, <3>1, SeenPriceStamp
  <2>3. \A t \in Sessions, p \in Positions : staged'[t][p] = IF t = s THEN NoChange ELSE staged[t][p]
    BY <1>t, <1>3 DEF CommitSession, StoreTypeOK
  <2> QED
    BY <2>1, <2>2, <2>3 DEF StampsInv, StoreStamps, NoChange, Columns
<1>4. CASE RollbackSession(s)
  <2>1. \A t \in Sessions, p \in Positions : staged'[t][p] = IF t = s THEN NoChange ELSE staged[t][p]
    BY <1>t, <1>4 DEF RollbackSession, StoreTypeOK
  <2> QED
    BY <1>4, <2>1 DEF RollbackSession, StampsInv, StoreStamps, NoChange, Columns
<1> QED
  BY <1>1, <1>2, <1>3, <1>4, StoreSteps

LEMMA NextMemoryStamps ==
  ASSUME JobsInv, JobsInv', StampsInv, NEW s \in Sessions, Acts(s)
  PROVE  MemoryStamps'
<1>t. /\ TypeOK /\ StoreTypeOK /\ now \in Nat
      /\ importedAt \in [Importers -> Int]
      /\ local \in [Refreshers -> [Positions -> Row]]
      /\ quotes \in [Refreshers -> [Instruments -> Int]]
  BY DEF JobsInv, TypeOK, JobTypeOK, ImportTypeOK, RefreshTypeOK
<1>m. MemoryStamps
  BY DEF StampsInv, MemoryStamps
<1>f. s \in Refreshers /\ ForgetRefresh(s) =>
        /\ \A p \in Positions : local'[s][p]["latest_price"] = 0
        /\ \A i \in Instruments : quotes'[s][i] = 0
        /\ \A t \in Refreshers : t # s => local'[t] = local[t] /\ quotes'[t] = quotes[t]
  BY <1>t DEF ForgetRefresh, NoPositions, NoRow, NoQuotes, NoPrice, Columns
<1>1. CASE s \in Importers /\ (ImportProgress(s) \/ ImportFailure(s) \/ ImportError(s))
  <2>1. UNCHANGED <<local, quotes>>
    BY <1>1 DEF ImportProgress, ImportFailure, ImportError, outsideRefresh, refreshVars
  <2>2. CASE FetchStatement(s)
    <3>1. now' = now + 1 /\ importedAt' = [importedAt EXCEPT ![s] = now + 1]
      BY <2>2 DEF FetchStatement
    <3> QED
      BY <1>t, <1>m, <2>1, <3>1 DEF MemoryStamps
  <2>3. CASE CommitImport(s) \/ ImportRaises(s)
    <3>1. UNCHANGED now /\ importedAt' = [importedAt EXCEPT ![s] = NoPrice]
      BY <2>3 DEF CommitImport, ImportRaises, Forget
    <3> QED
      BY <1>t, <1>m, <2>1, <3>1 DEF MemoryStamps, NoPrice
  <2>4. CASE StartImport(s) \/ CloseMissing(s) \/ ImportFailure(s) \/ \E p \in Positions : UpsertLot(s, p)
    <3>1. UNCHANGED <<now, importedAt>>
      BY <2>4 DEF StartImport, CloseMissing, ImportFailure, RollbackFailed, RecordFailed,
                  UpsertLot, importVars
    <3> QED
      BY <1>m, <2>1, <3>1 DEF MemoryStamps
  <2> QED
    BY <1>1, <2>2, <2>3, <2>4 DEF ImportProgress, ImportError
<1>2. CASE s \in Refreshers /\ (RefreshProgress(s) \/ RefreshFailure(s) \/ RefreshError(s))
  <2>1. UNCHANGED importedAt
    BY <1>2 DEF RefreshProgress, RefreshFailure, RefreshError, importVars
  <2>2. CASE FetchQuotes(s)
    <3>1. PICK got \in [Instruments -> Candidates] :
            /\ quotes' = [quotes EXCEPT ![s] = got]
            /\ now' = IF \E i \in Instruments : got[i] > now THEN now + 1 ELSE now
      BY <2>2 DEF FetchQuotes
    <3>2. \A i \in Instruments : got[i] >= 0
      BY <1>t, <1>m DEF Candidates, MemoryStamps, NoPrice
    <3>3. now' >= 1 /\ UNCHANGED local
      BY <1>t, <1>m, <2>2, <3>1 DEF FetchQuotes, MemoryStamps
    <3> QED
      BY <1>t, <1>2, <1>m, <2>1, <3>1, <3>2, <3>3 DEF MemoryStamps
  <2>3. CASE BeginRefresh(s) \/ ListAgain(s)
    <3>1. ListOpen(s) /\ UNCHANGED <<now, quotes>>
      BY <2>3 DEF BeginRefresh, ListAgain
    <3>2. \A t \in Refreshers : t # s => local'[t] = local[t]
      BY <1>t, <3>1 DEF ListOpen
    <3>3. ASSUME NEW p \in Positions PROVE local'[s][p]["latest_price"] >= 0
      <4>1. local'[s][p] = IF IsOpen(Seen(s, p)) THEN Seen(s, p) ELSE NoRow
        BY <1>t, <1>2, <3>1 DEF ListOpen, OpenPositions
      <4>2. NoRow["latest_price"] = 0
        BY DEF NoRow, Columns
      <4> QED
        BY <4>1, <4>2, SeenStamp
    <3> QED
      BY <1>m, <2>1, <3>1, <3>2, <3>3 DEF MemoryStamps
  <2>4. ASSUME NEW q \in Positions, QuotePosition(s, q)
        PROVE  MemoryStamps'
    <3>q. PICK persisted \in ValidPersisted(s, InstrumentOf[q]) :
            LET selected == SelectQuote(quotes[s][InstrumentOf[q]], persisted,
                                        local[s][q]["latest_price"])
            IN  UNCHANGED local \/ local' = [local EXCEPT ![s][q]["latest_price"] = selected]
      BY <2>4 DEF QuotePosition
    <3> DEFINE selected == SelectQuote(quotes[s][InstrumentOf[q]], persisted,
                                       local[s][q]["latest_price"])
    <3>1. InstrumentOf[q] \in Instruments
      BY StoreAssumption
    <3>2. /\ quotes[s][InstrumentOf[q]] \in Nat /\ local[s][q]["latest_price"] \in Nat
          /\ persisted \in Nat
      BY <1>t, <1>2, <1>m, <3>1, SeenPriceStamp
         DEF MemoryStamps, ValidPersisted, NoPrice, Row, Columns
    <3>3. selected >= 0
      <4>1. selected \in Nat
        BY <3>2, SelectedQuote
      <4> QED
        BY <4>1 DEF selected
    <3>4. UNCHANGED local \/ local' = [local EXCEPT ![s][q]["latest_price"] = selected]
      BY <3>q
    <3> HIDE DEF selected
    <3>5. \A t \in Refreshers, p \in Positions : local'[t][p]["latest_price"] >= 0
      <4>1. local[s][q] \in [Columns -> Int]
        BY <1>t, <1>2 DEF Row
      <4>2. CASE local' = [local EXCEPT ![s][q]["latest_price"] = selected]
        <5>1. local'[s][q] = [local[s][q] EXCEPT !["latest_price"] = selected]
          BY <1>t, <1>2, <4>2
        <5>2. local'[s][q]["latest_price"] = selected
          BY <4>1, <5>1 DEF Columns
        <5>3. \A t \in Refreshers, p \in Positions : t # s \/ p # q => local'[t][p] = local[t][p]
          BY <1>t, <4>2
        <5> QED
          BY <1>m, <3>3, <5>2, <5>3 DEF MemoryStamps
      <4> QED
        BY <1>m, <3>4, <4>2 DEF MemoryStamps
    <3>6. UNCHANGED <<now, quotes>>
      BY <2>4 DEF QuotePosition
    <3> QED
      BY <1>m, <2>1, <3>5, <3>6 DEF MemoryStamps
  <2>5. CASE PersistReview(s)
    <3>1. UNCHANGED <<now, local>> /\ quotes' = [quotes EXCEPT ![s] = NoQuotes]
      BY <2>5 DEF PersistReview
    <3> QED
      BY <1>t, <1>m, <2>1, <3>1 DEF MemoryStamps, NoQuotes, NoPrice
  <2>6. CASE \/ ReadInputs(s) \/ SkipInputs(s) \/ StartMarketRun(s) \/ WritePosition(s)
             \/ CommitMarket(s) \/ StartNotionRun(s) \/ SyncReview(s) \/ RefreshFailure(s)
             \/ \E p \in Positions : SetManualCost(s, p) \/ SyncPage(s, p)
    <3>1. UNCHANGED <<now, local, quotes>>
      BY <2>6 DEF ReadInputs, SkipInputs, StartMarketRun, WritePosition, CommitMarket,
                  StartNotionRun, SyncReview, RefreshFailure, RollbackRefresh, RollbackFailed,
                  RecordRefreshFailed, RecordFailed, SetManualCost, SyncPage, refreshVars
    <3> QED
      BY <1>m, <2>1, <3>1 DEF MemoryStamps
  <2>7. CASE FinishNotion(s) \/ FinishWithoutNotion(s) \/ RefreshError(s)
    <3>1. UNCHANGED now /\ ForgetRefresh(s)
      BY <2>7 DEF FinishNotion, FinishWithoutNotion, RefreshError, FailsBeforeRun, RefreshRaises,
                  SyncFails, StartNotionFails
    <3> QED
      BY <1>2, <1>f, <1>m, <2>1, <3>1 DEF MemoryStamps
  <2> QED
    BY <1>2, <2>2, <2>3, <2>4, <2>5, <2>6, <2>7 DEF RefreshProgress
<1>3. CASE FlushStep(s)
  BY <1>3, <1>m DEF FlushStep, FlushRow, jobVars, importVars, outsideRefresh, refreshVars, MemoryStamps
<1>4. CASE Crash(s)
  <2>1. CASE s \in Importers
    <3>1. UNCHANGED <<now, local, quotes>> /\ importedAt' = [importedAt EXCEPT ![s] = NoPrice]
      BY <1>4, <2>1 DEF Crash, Forget, refreshVars
    <3> QED
      BY <1>t, <1>m, <3>1 DEF MemoryStamps, NoPrice
  <2>2. CASE s \notin Importers
    <3>1. s \in Refreshers /\ UNCHANGED <<now, importedAt>> /\ ForgetRefresh(s)
      BY <1>4, <2>2 DEF Crash, importVars, Sessions
    <3> QED
      BY <1>f, <1>m, <3>1 DEF MemoryStamps
  <2> QED
    BY <2>1, <2>2
<1> QED
  BY <1>1, <1>2, <1>3, <1>4 DEF Acts

LEMMA NextStamps ==
  ASSUME JobsInv, JobsInv', StampsInv, [Next]_vars
  PROVE  StampsInv'
<1>1. ASSUME NEW s \in Sessions, Acts(s) PROVE StampsInv'
  BY <1>1, NextStoreStamps, NextMemoryStamps DEF StampsInv, StoreStamps, MemoryStamps
<1>2. CASE UNCHANGED <<storeVars, jobVars, importVars, refreshVars>>
  BY <1>2 DEF storeVars, jobVars, importVars, refreshVars, StampsInv
<1> QED
  BY <1>1, <1>2, ActorOfStep

-----------------------------------------------------------------------------
(* Prices.                                                                 *)

\* What the quote of one position leaves in its session and in its object.
LEMMA QuoteIsNewest ==
  ASSUME JobsInv, StampsInv, NEW s \in Refreshers, NEW q \in Positions, QuotePosition(s, q)
  PROVE  /\ pc[s] = "select" /\ UNCHANGED <<rows, staged, prices>>
         /\ \A i \in Instruments \ {InstrumentOf[q]} : SeenPrice(s, i)' = SeenPrice(s, i)
         /\ \/ /\ pc'[s] = "select" /\ UNCHANGED <<newPrices, local>>
               /\ todo'[s] = todo[s] \ {q}
               /\ Quoted(s, q)
            \/ /\ pc'[s] = "write" /\ UNCHANGED todo /\ current'[s] = q
               /\ Quoted(s, q)'
<1>t. /\ StoreTypeOK /\ TypeOK /\ s \in Sessions /\ InstrumentOf[q] \in Instruments
      /\ pc \in [Sessions -> Stages] /\ todo \in [Sessions -> SUBSET Positions]
      /\ current \in [Refreshers -> Positions \cup {NoPosition}]
      /\ local \in [Refreshers -> [Positions -> Row]]
      /\ quotes \in [Refreshers -> [Instruments -> Int]]
      /\ newPrices \in [Sessions -> [Instruments -> Int]] /\ prices \in [Instruments -> Int]
  BY StoreAssumption DEF JobsInv, TypeOK, JobTypeOK, RefreshTypeOK, StoreTypeOK, Sessions
<1>1. PICK i \in Instruments : i = InstrumentOf[q]
  BY <1>t
<1>q. PICK persisted \in ValidPersisted(s, i) :
        LET selected == SelectQuote(quotes[s][i], persisted, local[s][q]["latest_price"])
        IN  IF selected = NoPrice
            THEN /\ pc[s] = "select"
                 /\ Visit(s, todo[s] \ {q})
                 /\ UNCHANGED <<pc, newPrices, local, current>>
            ELSE /\ GoTo(s, "select", "write")
                 /\ PriceUpserted(s, i, selected)
                 /\ local' = [local EXCEPT ![s][q]["latest_price"] = selected]
                 /\ current' = [current EXCEPT ![s] = q]
                 /\ UNCHANGED todo
  BY <1>1 DEF QuotePosition
<1> DEFINE selected == SelectQuote(quotes[s][i], persisted, local[s][q]["latest_price"])
<1>2. /\ quotes[s][i] \in Nat /\ local[s][q]["latest_price"] \in Nat /\ SeenPrice(s, i) \in Nat
      /\ persisted \in Nat /\ Foreign[i] \in Nat
      /\ Foreign[i] < SeenPrice(s, i) => persisted = SeenPrice(s, i)
  BY <1>t, SeenPriceStamp, StoreAssumption DEF StampsInv, ValidPersisted, NoPrice, Row, Columns
<1>3. /\ selected \in Nat
      /\ Foreign[i] < SeenPrice(s, i) => selected # NoPrice /\ selected >= SeenPrice(s, i)
  <2>1. selected \in Nat /\ selected >= persisted
    BY <1>2, SelectedQuote
  <2> HIDE DEF selected
  <2> QED
    BY <1>2, <2>1 DEF NoPrice
<1>4. /\ pc[s] = "select" /\ UNCHANGED <<rows, staged, prices>>
      /\ IF selected = NoPrice
         THEN todo' = [todo EXCEPT ![s] = todo[s] \ {q}] /\ UNCHANGED <<pc, newPrices, local, current>>
         ELSE /\ pc' = [pc EXCEPT ![s] = "write"] /\ UNCHANGED todo
              /\ newPrices' = [newPrices EXCEPT ![s][i] = IF @ < selected THEN selected ELSE @]
              /\ local' = [local EXCEPT ![s][q]["latest_price"] = selected]
              /\ current' = [current EXCEPT ![s] = q]
  BY <1>1, <1>q DEF QuotePosition, GoTo, PriceUpserted, Visit
<1> HIDE DEF selected
<1>5. CASE selected = NoPrice
  <2>1. Quoted(s, q)
    BY <1>1, <1>3, <1>5 DEF Quoted, IsNewest
  <2>2. \A j \in Instruments : SeenPrice(s, j)' = SeenPrice(s, j)
    BY <1>4, <1>5 DEF SeenPrice
  <2> QED
    BY <1>t, <1>1, <1>4, <1>5, <2>1, <2>2
<1>6. CASE selected # NoPrice
  <2>1. local'[s][q]["latest_price"] = selected
    <3>1. local[s][q] \in [Columns -> Int]
      BY <1>t DEF Row
    <3>2. local' = [local EXCEPT ![s][q]["latest_price"] = selected]
      BY <1>4, <1>6
    <3>3. local'[s][q] = [local[s][q] EXCEPT !["latest_price"] = selected]
      BY <1>t, <3>2
    <3> QED
      BY <3>1, <3>3 DEF Columns
  <2>2. /\ newPrices'[s][i] = IF newPrices[s][i] < selected THEN selected ELSE newPrices[s][i]
        /\ \A j \in Instruments \ {i} : newPrices'[s][j] = newPrices[s][j]
    BY <1>t, <1>4, <1>6
  <2>3. Foreign[i] < SeenPrice(s, i)' => SeenPrice(s, i)' = selected
    <3>1. newPrices[s][i] \in Int /\ prices[i] \in Int /\ prices[i] >= 0
      BY <1>t DEF StampsInv
    <3>2. SeenPrice(s, i) = IF newPrices[s][i] > prices[i] THEN newPrices[s][i] ELSE prices[i]
      BY DEF SeenPrice
    <3>3. /\ newPrices'[s][i] = IF newPrices[s][i] < selected THEN selected ELSE newPrices[s][i]
          /\ prices'[i] = prices[i]
      BY <1>4, <2>2
    <3>4. SeenPrice(s, i)' = IF newPrices'[s][i] > prices'[i] THEN newPrices'[s][i] ELSE prices'[i]
      BY DEF SeenPrice
    <3> QED
      BY <1>2, <1>3, <3>1, <3>2, <3>3, <3>4
  <2>4. \A j \in Instruments \ {i} : SeenPrice(s, j)' = SeenPrice(s, j)
    BY <1>4, <2>2 DEF SeenPrice
  <2> QED
    BY <1>t, <1>1, <1>4, <1>6, <2>1, <2>3, <2>4 DEF Quoted, IsNewest
<1> QED
  BY <1>5, <1>6

LEMMA NextPrices ==
  ASSUME MaxConcurrentJobs = 1, OnePositionEach, JobsInv, JobsInv', OneActive, StampsInv,
         PricesInv, [Next]_vars
  PROVE  PricesInv'
<1>t. /\ TypeOK /\ StoreTypeOK /\ StoreTypeOK' /\ pc \in [Sessions -> Stages]
      /\ todo \in [Sessions -> SUBSET Positions]
      /\ current \in [Refreshers -> Positions \cup {NoPosition}]
      /\ local \in [Refreshers -> [Positions -> Row]]
  BY DEF JobsInv, TypeOK, JobTypeOK, RefreshTypeOK
<1>1. ASSUME NEW s \in Sessions, Acts(s) PROVE PricesInv'
  <2>1. \A t \in Refreshers : t # s => pc'[t] \notin ReadingStages
    BY <1>1, OtherActors DEF Sessions
  <2> SUFFICES ASSUME s \in Refreshers, NEW p \in Positions, IsOpen(local'[s][p]),
                      pc'[s] \in ListedStages
               PROVE  Priced(s, p)'
    BY <2>1 DEF PricesInv, Priced, Listed, ReadingStages, ListedStages
  <2>s. s \notin Importers
    BY StoreAssumption
  <2>i. InstrumentOf[p] \in Instruments
    BY StoreAssumption
  <2>q. IsOpen(local[s][p]) => Priced(s, p)
    BY DEF PricesInv, Listed
  <2> USE DEF ListedStages
  <2>2. CASE ListAgain(s)
    <3>1. pc'[s] = "start" /\ UNCHANGED <<rows, staged>> /\ ListOpen(s)
      BY <1>t, <2>2 DEF ListAgain, GoTo, storeVars
    <3>2. local'[s][p] = Seen(s, p)
      BY <1>t, <3>1, ListedQuantity
    <3>3. Seen(s, p)' = Seen(s, p)
      BY <3>1 DEF Seen
    <3> QED
      BY <3>1, <3>2, <3>3 DEF Priced, Carries
  <2>3. CASE StartMarketRun(s)
    <3>1. pc[s] = "start" /\ pc'[s] = "fetch" /\ UNCHANGED local /\ CommitSession(s)
      BY <1>t, <2>3 DEF StartMarketRun, GoTo, FinishRun, refreshVars
    <3>2. Seen(s, p)' = Seen(s, p)
      BY <1>t, <3>1, CommitSeen
    <3> QED
      BY <2>q, <3>1, <3>2 DEF Priced, Carries
  <2>4. CASE FetchQuotes(s)
    <3>1. /\ pc[s] = "fetch" /\ pc'[s] = "select" /\ UNCHANGED <<rows, staged, local>>
          /\ \E byId \in OnePerInstrument(s) : todo'[s] = byId
      BY <1>t, <2>4 DEF FetchQuotes, GoTo, Visit, storeVars
    <3>2. p \in Listed(s)
      BY <3>1 DEF Listed
    <3>3. p \in todo'[s]
      BY <3>1, <3>2 DEF OnePerInstrument, OnePositionEach, Listed
    <3>4. Seen(s, p)' = Seen(s, p)
      BY <3>1 DEF Seen
    <3> QED
      BY <2>q, <3>1, <3>3, <3>4 DEF Priced, Carries
  <2>5. ASSUME NEW q \in Positions, QuotePosition(s, q)
        PROVE  Priced(s, p)'
    <3>1. /\ pc[s] = "select" /\ UNCHANGED <<rows, staged, prices>>
          /\ \A i \in Instruments \ {InstrumentOf[q]} : SeenPrice(s, i)' = SeenPrice(s, i)
      BY <2>5, QuoteIsNewest
    <3>2. \/ /\ pc'[s] = "select" /\ UNCHANGED <<newPrices, local>>
             /\ todo'[s] = todo[s] \ {q}
             /\ Quoted(s, q)
          \/ /\ pc'[s] = "write" /\ UNCHANGED todo /\ current'[s] = q
             /\ Quoted(s, q)'
      BY <2>5, QuoteIsNewest
    <3>3. q \in todo[s] /\ Seen(s, p)' = Seen(s, p)
      BY <2>5, <3>1 DEF QuotePosition, Seen
    <3>4. CASE p = q
      <4>1. CASE pc'[s] = "write"
        BY <3>2, <3>4, <4>1 DEF Priced
      <4>2. CASE pc'[s] = "select"
        <5>1. /\ UNCHANGED <<newPrices, local>> /\ p \notin todo'[s]
              /\ Quoted(s, p)
          BY <3>2, <3>4, <4>2
        <5>2. Carries(s, p)
          BY <2>q, <3>1, <3>3, <3>4, <5>1 DEF Priced
        <5>3. Newest(s, p)'
          BY <3>1, <3>3, <5>1, <5>2 DEF Newest, Quoted, IsNewest, Carries, SeenPrice
        <5> QED
          BY <4>2, <5>1, <5>3 DEF Priced
      <4> QED
        BY <3>2, <4>1, <4>2
    <3>5. CASE p # q
      <4>1. local'[s][p] = local[s][p]
        BY <1>t, <2>5, <3>5, QuotedQuantity
      <4>2. SeenPrice(s, InstrumentOf[p])' = SeenPrice(s, InstrumentOf[p])
        BY <2>i, <3>1, <3>5 DEF OnePositionEach
      <4>3. /\ Carries(s, p)' <=> Carries(s, p)
            /\ Newest(s, p)' <=> Newest(s, p)
        BY <3>3, <4>1, <4>2 DEF Carries, Newest, IsNewest
      <4>4. p \in todo'[s] <=> p \in todo[s]
        BY <3>2, <3>5
      <4>5. IF p \in todo[s] THEN Carries(s, p) ELSE Newest(s, p)
        BY <2>q, <3>1, <4>1 DEF Priced
      <4> QED
        BY <3>2, <3>5, <4>3, <4>4, <4>5 DEF Priced
    <3> QED
      BY <3>4, <3>5
  <2>6. CASE WritePosition(s)
    <3>1. PICK q \in Positions :
            /\ q = current[s] /\ UNCHANGED rows /\ local[s][q] \in Row
            /\ Seen(s, q)' = Upserted(local[s][q])
            /\ \A r \in Positions \ {q} : Seen(s, r)' = Seen(s, r)
      BY <2>6, WriteSeen
    <3>2. /\ pc[s] = "write" /\ pc'[s] = "select" /\ UNCHANGED <<local, prices, newPrices>>
          /\ todo'[s] = todo[s] \ {q}
      BY <1>t, <2>6, <3>1 DEF WritePosition, GoTo, Visit
    <3>3. SeenPrice(s, InstrumentOf[p])' = SeenPrice(s, InstrumentOf[p])
      BY <3>2 DEF SeenPrice
    <3>4. Priced(s, p)
      BY <2>q, <3>2
    <3>5. CASE p = q
      <4>1. Upserted(local[s][q])["latest_price"] = local[s][q]["latest_price"]
        BY <3>1, UpsertedColumns
      <4>2. Newest(s, p)'
        BY <3>1, <3>2, <3>3, <3>4, <3>5, <4>1 DEF Priced, Quoted, Newest, IsNewest
      <4> QED
        BY <3>2, <3>5, <4>2 DEF Priced
    <3>6. CASE p # q
      <4>1. Seen(s, p)' = Seen(s, p)
        BY <3>1, <3>6
      <4> QED
        BY <3>1, <3>2, <3>3, <3>4, <3>6, <4>1 DEF Priced, Carries, Newest, IsNewest
    <3> QED
      BY <3>5, <3>6
  <2>7. CASE PersistReview(s)
    <3>1. /\ pc[s] = "select" /\ pc'[s] = "commit" /\ todo[s] = {}
          /\ UNCHANGED <<rows, staged, prices, newPrices, local>>
      BY <1>t, <2>7 DEF PersistReview, GoTo, storeVars
    <3>2. Newest(s, p)
      BY <2>q, <3>1 DEF Priced
    <3>3. Newest(s, p)'
      BY <3>1, <3>2 DEF Newest, IsNewest, Seen, SeenPrice
    <3> QED
      BY <3>1, <3>3 DEF Priced
  <2>8. CASE FlushStep(s)
    <3>1. UNCHANGED <<rows, staged, prices, newPrices, pc, todo, local, current>>
      BY <2>8 DEF FlushStep, FlushRow, Flush, jobVars, outsideRefresh, refreshVars
    <3> QED
      BY <2>q, <3>1 DEF Priced, Carries, Newest, Quoted, IsNewest, Seen, SeenPrice
  <2>9. CASE \/ BeginRefresh(s) \/ ReadInputs(s) \/ SkipInputs(s)
             \/ \E q \in Positions : SetManualCost(s, q)
    BY <1>t, <2>9 DEF BeginRefresh, ReadInputs, SkipInputs, SetManualCost, GoTo
  <2>10. CASE CommitMarket(s) \/ RefreshFailure(s) \/ RefreshError(s) \/ Crash(s)
    BY <1>t, <2>10
       DEF CommitMarket, RefreshFailure, RefreshError, RollbackRefresh, RollbackFailed,
           RecordRefreshFailed, RecordFailed, FailsBeforeRun, RefreshRaises, SyncFails,
           StartNotionFails, Crash, GoTo
  <2>11. CASE \/ StartNotionRun(s) \/ SyncReview(s) \/ FinishNotion(s) \/ FinishWithoutNotion(s)
              \/ \E q \in Positions : SyncPage(s, q)
    BY <1>t, <2>11
       DEF StartNotionRun, SyncReview, FinishNotion, FinishWithoutNotion, SyncPage, GoTo
  <2> QED
    BY <1>1, <2>s, <2>2, <2>3, <2>4, <2>5, <2>6, <2>7, <2>8, <2>9, <2>10, <2>11
       DEF Acts, RefreshProgress
<1>2. CASE UNCHANGED <<storeVars, jobVars, importVars, refreshVars>>
  BY <1>2 DEF storeVars, jobVars, refreshVars, PricesInv, Priced, Listed, Carries, Newest, Quoted,
              IsNewest, Seen, SeenPrice
<1> QED
  BY <1>1, <1>2, ActorOfStep

-----------------------------------------------------------------------------
(* The invariant, and what follows from it.                                *)

LEMMA InitSerial ==
  ASSUME Init
  PROVE  SerialInv /\ StampsInv /\ PricesInv
<1>1. /\ \A s \in Sessions : pc[s] = "idle"
      /\ \A s \in Importers \cup Refreshers : pc[s] = "idle"
  BY DEF Init, JobInit, Sessions
<1>2. OneActive /\ StatementInv /\ QuantitiesInv /\ PricesInv
  BY <1>1 DEF OneActive, Active, StatementInv, QuantitiesInv, PricesInv, Priced, ReadingStages,
              ListedStages
<1>3. \A p \in Positions : rows[p] \in {NoRow, Held}
  BY DEF Init, JobInit, StoreInit
<1>4. CostsInv
  <2>1. CostIsCurrent(NoRow) /\ CostIsCurrent(Held)
    BY DEF CostIsCurrent, EffectiveCost, NoRow, Held, Columns, NoCost
  <2> QED
    BY <1>1, <1>3, <2>1 DEF CostsInv, EffectiveCostIsCurrent, CostIsCurrent, Active
<1>5. StampsInv
  <2>1. NoRow["latest_price"] = 0 /\ Held["latest_price"] = 1
    BY DEF NoRow, Held, Columns
  <2>2. \A i \in Instruments : prices[i] \in {0, 1, 2}
    BY DEF Init, JobInit, StoreInit, FirstPrice, NoPrice
  <2>3. \A s \in Sessions, p \in Positions : staged[s][p]["latest_price"] = Keep
    BY DEF Init, JobInit, StoreInit, NoChange, Columns
  <2>4. now >= 1 /\ \A s \in Importers : importedAt[s] = 0
    BY StoreAssumption DEF Init, JobInit, ImportInit, NoPrice
  <2>5. \A s \in Refreshers :
          /\ \A p \in Positions : local[s][p] = NoRow
          /\ \A i \in Instruments : quotes[s][i] = 0
    BY DEF Init, RefreshInit, NoPositions, NoQuotes, NoPrice
  <2> QED
    BY <1>3, <2>1, <2>2, <2>3, <2>4, <2>5 DEF StampsInv
<1> QED
  BY <1>2, <1>4, <1>5 DEF SerialInv

LEMMA NextSerial ==
  ASSUME MaxConcurrentJobs = 1, JobsInv, JobsInv', SerialInv, [Next]_vars
  PROVE  SerialInv'
BY StaysAlone, NextCosts, NextStatements, NextQuantities DEF SerialInv

(***************************************************************************)
(* Jobs that do not overlap: one session at a time has anything in hand,   *)
(* every effective cost is current, an import has brought the rows it has  *)
(* visited to its statement, and a refresh works on the quantities of the  *)
(* table.                                                                  *)
(***************************************************************************)
THEOREM SerialInvariance ==
  ASSUME MaxConcurrentJobs = 1
  PROVE  Spec => []SerialInv
<1>1. Init => SerialInv
  BY InitSerial
<1>2. JobsInv /\ JobsInv' /\ SerialInv /\ [Next]_vars => SerialInv'
  BY NextSerial
<1> QED
  BY <1>1, <1>2, JobsInvariance, PTL DEF Spec

(***************************************************************************)
(* Observations are stamped with times from the first import on, however   *)
(* jobs overlap.                                                           *)
(***************************************************************************)
THEOREM StampsInvariance == Spec => []StampsInv
<1>1. Init => StampsInv
  BY InitSerial
<1>2. JobsInv /\ JobsInv' /\ StampsInv /\ [Next]_vars => StampsInv'
  BY NextStamps
<1> QED
  BY <1>1, <1>2, JobsInvariance, PTL DEF Spec

(***************************************************************************)
(* Jobs that do not overlap, one position of each instrument: a refresh    *)
(* leaves each listed position it has visited with the newest price.       *)
(***************************************************************************)
THEOREM SerialPrices ==
  ASSUME MaxConcurrentJobs = 1, OnePositionEach
  PROVE  Spec => []PricesInv
<1>1. Init => PricesInv
  BY InitSerial
<1>2. JobsInv /\ JobsInv' /\ SerialInv /\ StampsInv /\ PricesInv /\ [Next]_vars => PricesInv'
  BY NextPrices DEF SerialInv
<1> QED
  BY <1>1, <1>2, JobsInvariance, SerialInvariance, StampsInvariance, PTL DEF Spec

(***************************************************************************)
(* Jobs that do not overlap keep the effective cost of every position      *)
(* current: no stale `average_cost' is ever written over a newer one.      *)
(***************************************************************************)
THEOREM SerialCostsAreCurrent ==
  ASSUME MaxConcurrentJobs = 1
  PROVE  Spec => []EffectiveCostIsCurrent
<1>1. SerialInv => EffectiveCostIsCurrent
  BY DEF SerialInv, CostsInv
<1> QED
  BY <1>1, SerialInvariance, PTL

\* A run succeeds by the commit of its own job.
LEMMA SuccessIsCommit ==
  ASSUME JobsInv, NEW s \in Sessions, Acts(s), SucceedsNow(s)
  PROVE  pc[s] = "commit" /\ CommitSession(s)
<1>t. runs \in [Sessions -> Statuses]
  BY DEF JobsInv, TypeOK, JobTypeOK
<1> USE DEF SucceedsNow
<1>1. CASE s \in Importers /\ (ImportProgress(s) \/ ImportFailure(s) \/ ImportError(s))
  BY <1>t, <1>1
     DEF ImportProgress, ImportFailure, ImportError, StartImport, FetchStatement, UpsertLot,
         CloseMissing, CommitImport, RollbackFailed, RecordFailed, ImportRaises, FinishRun, GoTo
<1>2. CASE s \in Refreshers /\ (RefreshProgress(s) \/ RefreshFailure(s) \/ RefreshError(s))
  <2>s. s \notin Importers
    BY <1>2, StoreAssumption
  <2>1. CASE StartMarketRun(s) \/ CommitMarket(s) \/ RecordRefreshFailed(s)
    BY <1>t, <2>s, <2>1 DEF StartMarketRun, CommitMarket, RecordRefreshFailed, RecordFailed, FinishRun,
                       GoTo
  <2>2. CASE \/ BeginRefresh(s) \/ ReadInputs(s) \/ SkipInputs(s) \/ ListAgain(s)
             \/ FetchQuotes(s) \/ WritePosition(s) \/ PersistReview(s)
             \/ \E p \in Positions : SetManualCost(s, p) \/ QuotePosition(s, p) \/ SyncPage(s, p)
    BY <2>2 DEF BeginRefresh, ReadInputs, SkipInputs, ListAgain, FetchQuotes, WritePosition,
                PersistReview, SetManualCost, QuotePosition, SyncPage
  <2>3. CASE \/ StartNotionRun(s) \/ SyncReview(s) \/ FinishNotion(s) \/ FinishWithoutNotion(s)
             \/ RollbackRefresh(s) \/ FailsBeforeRun(s) \/ RefreshRaises(s) \/ SyncFails(s)
             \/ StartNotionFails(s)
    BY <2>3 DEF StartNotionRun, SyncReview, FinishNotion, FinishWithoutNotion, RollbackRefresh,
                RollbackFailed, FailsBeforeRun, RefreshRaises, SyncFails, StartNotionFails
  <2> QED
    BY <1>2, <2>1, <2>2, <2>3 DEF RefreshProgress, RefreshFailure, RefreshError
<1>3. CASE FlushStep(s) \/ Crash(s)
  BY <1>3 DEF FlushStep, FlushRow, Crash, jobVars
<1> QED
  BY <1>1, <1>2, <1>3 DEF Acts

\* The job at its commit is the one that acts.
LEMMA SuccessOfTheActive ==
  ASSUME MaxConcurrentJobs = 1, JobsInv, OneActive, [Next]_vars,
         NEW s \in Sessions, pc[s] = "commit", SucceedsNow(s)
  PROVE  Acts(s)
<1>1. Active(s)
  BY DEF Active
<1>2. \A t \in Sessions : Acts(t) => t = s
  BY <1>1, Alone
<1>3. ~UNCHANGED runs
  BY DEF SucceedsNow
<1> QED
  BY <1>2, <1>3, ActorOfStep DEF jobVars

(***************************************************************************)
(* An import that no other job overlaps leaves its accounts as its         *)
(* statement says: the quantities it reports, and nothing else open.       *)
(***************************************************************************)
THEOREM SerialImportsApply ==
  ASSUME MaxConcurrentJobs = 1
  PROVE  Spec => ImportAppliesStatement
<1> DEFINE Applied ==
      \A s \in Importers : ImportsNow(s) =>
        \A p \in Positions :
          /\ AccountOf[p] \in statement[s].accounts
          /\ statement[s].lots[p] # Skipped
          => rows'[p]["quantity"] = StatementQuantity(statement[s], p)
<1>1. ASSUME JobsInv, JobsInv', SerialInv, [Next]_vars PROVE Applied
  <2> SUFFICES ASSUME NEW s \in Importers, ImportsNow(s), NEW p \in Positions,
                      AccountOf[p] \in statement[s].accounts, statement[s].lots[p] # Skipped
               PROVE  rows'[p]["quantity"] = StatementQuantity(statement[s], p)
    OBVIOUS
  <2>1. s \in Sessions /\ pc[s] = "commit" /\ SucceedsNow(s)
    BY DEF Sessions, ImportsNow
  <2>2. CommitSession(s)
    BY <1>1, <2>1, SuccessOfTheActive, SuccessIsCommit DEF SerialInv
  <2>3. rows'[p] = Seen(s, p)
    BY <2>2 DEF CommitSession
  <2> QED
    BY <1>1, <2>1, <2>3 DEF SerialInv, StatementInv
<1>2. JobsInv /\ JobsInv' /\ SerialInv /\ [Next]_vars => [Applied]_vars
  BY <1>1
<1> QED
  BY <1>2, JobsInvariance, SerialInvariance, PTL DEF Spec, ImportAppliesStatement

(***************************************************************************)
(* Without overlap no refresh opens a position again that an import has    *)
(* closed: it writes back the quantities the table holds.                  *)
(***************************************************************************)
THEOREM SerialClosedStays ==
  ASSUME MaxConcurrentJobs = 1
  PROVE  Spec => ClosedStaysClosed
<1> DEFINE Stays == \A p \in Positions : ~IsOpen(rows[p]) /\ IsOpen(rows'[p])
                      => \E s \in Importers : SucceedsNow(s)
<1>1. ASSUME JobsInv, JobsInv', SerialInv, [Next]_vars PROVE Stays
  <2> SUFFICES ASSUME NEW p \in Positions, ~IsOpen(rows[p]), IsOpen(rows'[p])
               PROVE  \E s \in Importers : SucceedsNow(s)
    OBVIOUS
  <2>1. rows'[p]["quantity"] # rows[p]["quantity"] /\ "quantity" \in Columns
    BY DEF IsOpen, Columns
  <2>2. PICK s \in Sessions : CommitStep(s)
    BY <1>1, <2>1, OnlyCommitsChangeRows
  <2>3. pc[s] \notin CleanStages
    BY <1>1, <2>1, <2>2, CleanCommitKeepsRows DEF CommitStep
  <2>4. CASE s \in Importers
    BY <2>2, <2>3, <2>4, StoreAssumption DEF CommitStep
  <2>5. CASE s \in Refreshers
    <3>1. pc[s] \in {"start", "commit"}
      <4>1. Active(s)
        BY <2>3 DEF CleanStages, Active
      <4>2. pc[s] = "start" \/ SucceedsNow(s)
        BY <2>2, <2>3 DEF CommitStep
      <4>3. \A t \in Sessions : Acts(t) => t = s
        BY <1>1, <4>1, Alone DEF SerialInv
      <4>4. CASE SucceedsNow(s)
        BY <1>1, <4>3, <4>4, ActorOfStep, SuccessIsCommit DEF SucceedsNow, jobVars
      <4> QED
        BY <4>2, <4>4
    <3>2. Seen(s, p)["quantity"] = rows[p]["quantity"]
      BY <1>1, <2>5, <3>1 DEF SerialInv, QuantitiesInv, ReadingStages, ListedStages
    <3>3. rows'[p] = Seen(s, p)
      BY <2>2 DEF CommitStep, CommitSession
    <3> QED
      BY <2>1, <3>2, <3>3
  <2> QED
    BY <2>4, <2>5 DEF Sessions
<1>2. JobsInv /\ JobsInv' /\ SerialInv /\ [Next]_vars => [Stays]_vars
  BY <1>1
<1> QED
  BY <1>2, JobsInvariance, SerialInvariance, PTL DEF Spec, ClosedStaysClosed

(***************************************************************************)
(* Without overlap, and with one position of each instrument, a refresh    *)
(* leaves every open position with the newest price persisted for its      *)
(* instrument, whatever the provider answered, unless one left from        *)
(* another currency is as new.                                             *)
(***************************************************************************)
THEOREM SerialRefreshesBringNewest ==
  ASSUME MaxConcurrentJobs = 1, OnePositionEach
  PROVE  Spec => RefreshBringsNewestPrice
<1> DEFINE Brought ==
      \A s \in Refreshers : RefreshesNow(s) =>
        \A p \in Positions :
          IsOpen(rows'[p]) /\ Foreign[InstrumentOf[p]] < prices'[InstrumentOf[p]] =>
            rows'[p]["latest_price"] = prices'[InstrumentOf[p]]
<1>1. ASSUME JobsInv, SerialInv, PricesInv, [Next]_vars PROVE Brought
  <2> SUFFICES ASSUME NEW s \in Refreshers, RefreshesNow(s), NEW p \in Positions, IsOpen(rows'[p]),
                      Foreign[InstrumentOf[p]] < prices'[InstrumentOf[p]]
               PROVE  rows'[p]["latest_price"] = prices'[InstrumentOf[p]]
    OBVIOUS
  <2>1. s \in Sessions /\ pc[s] = "commit" /\ SucceedsNow(s)
    BY DEF Sessions, RefreshesNow
  <2>2. CommitSession(s)
    BY <1>1, <2>1, SuccessOfTheActive, SuccessIsCommit DEF SerialInv
  <2>3. rows'[p] = Seen(s, p) /\ prices'[InstrumentOf[p]] = SeenPrice(s, InstrumentOf[p])
    BY <2>2, StoreAssumption DEF CommitSession
  <2>4. /\ Seen(s, p)["quantity"] = rows[p]["quantity"]
        /\ local[s][p]["quantity"] = rows[p]["quantity"]
    BY <1>1, <2>1 DEF SerialInv, QuantitiesInv, ReadingStages, ListedStages
  <2>5. p \in Listed(s)
    BY <2>3, <2>4 DEF Listed, IsOpen
  <2> QED
    BY <1>1, <2>1, <2>3, <2>5 DEF PricesInv, Priced, Newest, IsNewest
<1>2. JobsInv /\ SerialInv /\ PricesInv /\ [Next]_vars => [Brought]_vars
  BY <1>1
<1> QED
  BY <1>2, JobsInvariance, SerialInvariance, SerialPrices, PTL DEF Spec, RefreshBringsNewestPrice
=============================================================================
