------------------------- MODULE PortfolioJobsSafety -------------------------
(***************************************************************************)
(* Every action of PortfolioJobs keeps TypeOK, with the soundness of the   *)
(* loops it needs: a refresh stages an override only if it read one, an    *)
(* import upserts only what its statement mentions.  JobsInv is inductive, *)
(* and the safety properties follow from it for any number of jobs,        *)
(* positions and overrides.                                                *)
(***************************************************************************)
EXTENDS JobsInvariant, TLAPS

(***************************************************************************)
(* What the statements, commits and rollbacks of a session keep.           *)
(***************************************************************************)

\* The row a session sees is a row.
LEMMA SeenIsRow ==
  ASSUME StoreTypeOK, NEW s \in Sessions, NEW p \in Positions
  PROVE  Seen(s, p) \in Row
BY StoreAssumption DEF StoreTypeOK, Seen, Overlay, Row, Update

\* Assigning rows to some positions stages an update of the session.
LEMMA AssignKeepsType ==
  ASSUME StoreTypeOK, NEW s \in Sessions, NEW new, Assign(s, new),
         \A p \in Positions \cap DOMAIN new : new[p] \in Row
  PROVE  staged' \in [Sessions -> [Positions -> Update]]
<1>1. ASSUME NEW p \in Positions, p \in DOMAIN new
      PROVE  Change(s, p, new[p]) \in Update
  BY <1>1 DEF StoreTypeOK, Change, Row, Update
<1>2. [p \in Positions |-> IF p \in DOMAIN new THEN Change(s, p, new[p]) ELSE staged[s][p]]
        \in [Positions -> Update]
  BY <1>1 DEF StoreTypeOK
<1> QED
  BY <1>2 DEF StoreTypeOK, Assign

LEMMA NoChangeIsUpdate == NoChange \in Update
BY DEF NoChange, Update

LEMMA CommitKeepsType ==
  ASSUME StoreTypeOK, NEW s \in Sessions, CommitSession(s)
  PROVE  StoreTypeOK'
<1>1. rows' \in [Positions -> Row]
  BY SeenIsRow DEF CommitSession
<1>2. prices' \in [Instruments -> Int]
  BY DEF CommitSession, SeenPrice, StoreTypeOK
<1>3. staged' \in [Sessions -> [Positions -> Update]]
  BY NoChangeIsUpdate DEF CommitSession, StoreTypeOK
<1>4. newPrices' \in [Sessions -> [Instruments -> Int]]
  BY DEF CommitSession, StoreTypeOK, NoPrice
<1>5. lock' \in [Positions -> Sessions \cup {Nobody}]
  BY DEF CommitSession, StoreTypeOK, Released
<1> QED
  BY <1>1, <1>2, <1>3, <1>4, <1>5 DEF StoreTypeOK

LEMMA RollbackKeepsType ==
  ASSUME StoreTypeOK, NEW s \in Sessions, RollbackSession(s)
  PROVE  StoreTypeOK'
<1>1. staged' \in [Sessions -> [Positions -> Update]]
  BY NoChangeIsUpdate DEF RollbackSession, StoreTypeOK
<1>2. newPrices' \in [Sessions -> [Instruments -> Int]]
  BY DEF RollbackSession, StoreTypeOK, NoPrice
<1>3. lock' \in [Positions -> Sessions \cup {Nobody}]
  BY DEF RollbackSession, StoreTypeOK, Released
<1> QED
  BY <1>1, <1>2, <1>3 DEF StoreTypeOK, RollbackSession

LEMMA FlushKeepsType ==
  ASSUME StoreTypeOK, NEW s \in Sessions, NEW p \in Positions, Flush(s, p)
  PROVE  StoreTypeOK'
BY DEF Flush, StoreTypeOK

LEMMA EffectiveCostIsRow ==
  ASSUME NEW row \in Row
  PROVE  WithEffectiveCost(row) \in Row
<1>1. EffectiveCost(row) \in Int
  BY DEF Row, Columns, EffectiveCost
<1> QED
  BY <1>1 DEF Row, Columns, WithEffectiveCost

\* The repository operations return rows.
LEMMA OperationsReturnRows ==
  ASSUME NEW row \in Row, NEW q \in Int, NEW v \in Int, NEW c \in Int
  PROVE  /\ Upserted(row) \in Row
         /\ BrokerUpserted(row, q, v, c) \in Row
         /\ ManuallyCosted(row, c) \in Row
         /\ [row EXCEPT !["quantity"] = q] \in Row
         /\ [row EXCEPT !["latest_price"] = v] \in Row
<1> USE 1 \in Int
<1>1. [row EXCEPT !["row_exists"] = 1] \in Row
  BY DEF Row
<1>2. [row EXCEPT !["row_exists"] = 1, !["quantity"] = q,
                  !["latest_price"] = v, !["broker_average_cost"] = c] \in Row
  BY DEF Row
<1>3. [row EXCEPT !["manual_average_cost"] = c] \in Row
  BY DEF Row
<1>4. /\ [row EXCEPT !["quantity"] = q] \in Row
      /\ [row EXCEPT !["latest_price"] = v] \in Row
  BY DEF Row
<1> QED
  BY <1>1, <1>2, <1>3, <1>4, EffectiveCostIsRow DEF Upserted, BrokerUpserted, ManuallyCosted

LEMMA NoRowIsRow == NoRow \in Row
BY DEF NoRow, Row, NoCost

-----------------------------------------------------------------------------
TypeInv == TypeOK /\ LoopsAreSound

LEMMA InitTypes == Init => TypeInv
<1> SUFFICES ASSUME Init PROVE TypeInv
  OBVIOUS
<1> USE DEF Init
<1>1. [p \in Positions |-> NoRow] \in [Positions -> Row]
  BY NoRowIsRow
<1>2. Held \in Row
  BY DEF Held, Row, NoCost
<1>3. StoreTypeOK
  <2>1. \A i \in Instruments : FirstPrice(i) \in Int
    BY DEF FirstPrice
  <2> QED
    BY <1>2, <2>1, NoRowIsRow, NoChangeIsUpdate, 0 \in Int
       DEF JobInit, StoreInit, StoreTypeOK, NoPrice
<1>4. JobTypeOK
  <2>1. now \in Nat
    BY StoreAssumption DEF JobInit
  <2> QED
    BY <1>3, <2>1 DEF JobInit, JobTypeOK, Statuses, Stages
<1>5. ImportTypeOK
  BY 0 \in Int DEF ImportInit, ImportTypeOK, NoStatement, Statements, NoPrice
<1>6. RefreshTypeOK
  BY <1>1, 0 \in Int
     DEF RefreshInit, RefreshTypeOK, NoPositions, NoInputs, NoQuotes, NoPrice,
         OverrideValues, Statuses
<1>7. LoopsAreSound
  BY DEF JobInit, LoopsAreSound, Sessions
<1> QED
  BY <1>4, <1>5, <1>6, <1>7 DEF TypeInv, TypeOK

-----------------------------------------------------------------------------
(* The steps of an import.                                                 *)

\* An import leaves what a refresh keeps, and its own stages are no stage
\* of a refresh's loops.
LEMMA ImportFrame ==
  ASSUME TypeInv, NEW s \in Importers, UNCHANGED outsideRefresh,
         \E stage \in Stages : pc' = [pc EXCEPT ![s] = stage],
         \A t \in Refreshers : todo'[t] = todo[t]
  PROVE  /\ RefreshTypeOK'
         /\ pc' \in [Sessions -> Stages]
         /\ \A t \in Sessions : t # s => pc'[t] = pc[t]
         /\ (\A t \in Refreshers :
              /\ pc[t] \in {"idle", "inputs"} => todo[t] = {}
              /\ pc[t] = "overrides" => \A p \in todo[t] : inputs[t][p] \in Int
              /\ pc[t] = "write" => current[t] \in Positions)'
<1>1. \A t \in Sessions : t # s => pc'[t] = pc[t]
  BY DEF TypeInv, TypeOK, JobTypeOK
<1>2. \A t \in Refreshers : pc'[t] = pc[t]
  BY <1>1, StoreAssumption DEF Sessions
<1>3. RefreshTypeOK'
  BY DEF TypeInv, TypeOK, RefreshTypeOK, outsideRefresh, refreshVars, notionVars
<1>4. pc' \in [Sessions -> Stages]
  BY DEF TypeInv, TypeOK, JobTypeOK
<1> QED
  BY <1>1, <1>2, <1>3, <1>4 DEF TypeInv, LoopsAreSound, outsideRefresh, refreshVars

LEMMA ImportProgressTypes ==
  ASSUME TypeInv, NEW s \in Importers, ImportProgress(s)
  PROVE  TypeInv'
<1> USE DEF TypeInv, TypeOK, JobTypeOK, ImportTypeOK, LoopsAreSound, GoTo, Visit, importVars, storeVars
<1>s. s \in Sessions /\ s \notin Refreshers
  BY StoreAssumption DEF Sessions
<1>0. UNCHANGED outsideRefresh
  BY DEF ImportProgress
<1>1. CASE StartImport(s)
  <2>1. StoreTypeOK'
    BY <1>s, <1>1, CommitKeepsType DEF StartImport, FinishRun
  <2>2. runs' \in [Sessions -> Statuses] /\ UNCHANGED <<todo, now, statement, importedAt>>
    BY <1>1 DEF StartImport, FinishRun, Statuses
  <2>3. pc' = [pc EXCEPT ![s] = "fetch"]
    BY <1>1 DEF StartImport
  <2>4. \A t \in Importers : pc'[t] = "upsert" => todo'[t] \subseteq Mentioned(statement'[t])
    BY <2>2, <2>3 DEF Sessions
  <2> QED
    BY <1>s, <1>0, <2>1, <2>2, <2>3, <2>4, ImportFrame DEF Stages
<1>2. CASE FetchStatement(s)
  <2>1. PICK st \in Statements :
          /\ statement' = [statement EXCEPT ![s] = [st EXCEPT !.accounts = ImportedAccounts(st)]]
          /\ todo' = [todo EXCEPT ![s] = Mentioned(st)]
    BY <1>2 DEF FetchStatement
  <2>2. ImportedAccounts(st) \subseteq Accounts
    BY StoreAssumption DEF ImportedAccounts, Mentioned, Statements
  <2>3. [st EXCEPT !.accounts = ImportedAccounts(st)] \in Statements
    BY <2>2 DEF Statements
  <2>4. Mentioned([st EXCEPT !.accounts = ImportedAccounts(st)]) = Mentioned(st)
    BY DEF Mentioned, Statements
  <2>5. statement' \in [Importers -> Statements] /\ statement'[s] = [st EXCEPT !.accounts = ImportedAccounts(st)]
    BY <2>1, <2>3
  <2>6. todo' \in [Sessions -> SUBSET Positions] /\ todo'[s] = Mentioned(st)
    BY <1>s, <2>1 DEF Mentioned
  <2>7. \A t \in Sessions : t # s => todo'[t] = todo[t]
    BY <2>1
  <2>8. \A t \in Importers : t # s => statement'[t] = statement[t]
    BY <2>1
  <2>9. now' \in Nat /\ importedAt' \in [Importers -> Int]
    BY <1>2 DEF FetchStatement
  <2>10. pc' = [pc EXCEPT ![s] = "upsert"] /\ UNCHANGED <<storeVars, runs>>
    BY <1>2 DEF FetchStatement
  <2>11. StoreTypeOK'
    BY <2>10 DEF StoreTypeOK
  <2>12. \A t \in Importers : pc'[t] = "upsert" => todo'[t] \subseteq Mentioned(statement'[t])
    BY <2>4, <2>5, <2>6, <2>7, <2>8, <2>10 DEF Sessions
  <2>13. \A t \in Refreshers : todo'[t] = todo[t]
    BY <1>s, <2>7 DEF Sessions
  <2> QED
    BY <1>s, <1>0, <2>5, <2>6, <2>9, <2>10, <2>11, <2>12, <2>13, ImportFrame DEF Stages, Mentioned
<1>3. ASSUME NEW p \in Positions, UpsertLot(s, p)
      PROVE  TypeInv'
  <2> DEFINE lot == statement[s].lots[p]
             new == [q \in {p} |-> BrokerUpserted(Seen(s, p), lot.quantity, LotPrice(s, p), lot.cost)]
  <2>1. lot \in Lots
    BY <1>3 DEF UpsertLot, Mentioned
  <2>2. lot.quantity \in Int /\ lot.cost \in Int
    BY <2>1, LotsAssumption
  <2>3. LotPrice(s, p) \in Int
    BY 0 \in Int DEF LotPrice, NoPrice
  <2>4. \A q \in Positions \cap DOMAIN new : new[q] \in Row
    BY <1>s, <2>2, <2>3, SeenIsRow, OperationsReturnRows
  <2>5. Assign(s, new)
    BY <1>3 DEF UpsertLot
  <2>6. staged' \in [Sessions -> [Positions -> Update]]
    BY <1>s, <2>4, <2>5, AssignKeepsType
  <2>7. StoreTypeOK'
    BY <1>3, <2>6 DEF UpsertLot, StoreTypeOK
  <2>8. UNCHANGED <<pc, runs, now, statement, importedAt>> /\ todo' = [todo EXCEPT ![s] = todo[s] \ {p}]
    BY <1>3 DEF UpsertLot
  <2>9. /\ todo' \in [Sessions -> SUBSET Positions]
        /\ \A t \in Sessions : todo'[t] \subseteq todo[t]
        /\ \A t \in Refreshers : todo'[t] = todo[t]
    BY <1>s, <2>8 DEF Sessions
  <2>10. RefreshTypeOK'
    BY <1>0 DEF RefreshTypeOK, outsideRefresh, refreshVars, notionVars
  <2>11. \A t \in Importers : pc'[t] = "upsert" => todo'[t] \subseteq Mentioned(statement'[t])
    BY <2>8, <2>9 DEF Sessions
  <2>12. \A t \in Refreshers : UNCHANGED <<pc, inputs, current>> /\ todo'[t] = todo[t]
    BY <1>0, <2>8, <2>9 DEF outsideRefresh, refreshVars
  <2>13. LoopsAreSound'
    BY <2>11, <2>12
  <2> QED
    BY <2>7, <2>8, <2>9, <2>10, <2>13
<1>4. CASE CloseMissing(s)
  <2> DEFINE missing == MissingFrom(s, statement[s].accounts, Mentioned(statement[s]))
             new == [p \in missing |-> [Seen(s, p) EXCEPT !["quantity"] = 0]]
  <2>1. \A p \in Positions \cap DOMAIN new : new[p] \in Row
    BY <1>s, 0 \in Int, SeenIsRow, OperationsReturnRows
  <2>2. Assign(s, new)
    BY <1>4 DEF CloseMissing
  <2>3. staged' \in [Sessions -> [Positions -> Update]]
    BY <1>s, <2>1, <2>2, AssignKeepsType
  <2>4. newPrices' \in [Sessions -> [Instruments -> Int]]
    BY <1>4, <1>s, 0 \in Int DEF CloseMissing, StoreTypeOK, NoPrice
  <2>5. StoreTypeOK'
    BY <1>4, <2>3, <2>4 DEF CloseMissing, StoreTypeOK
  <2>6. pc' = [pc EXCEPT ![s] = "commit"] /\ UNCHANGED <<todo, runs, now, statement, importedAt>>
    BY <1>4 DEF CloseMissing
  <2>7. \A t \in Importers : pc'[t] = "upsert" => todo'[t] \subseteq Mentioned(statement'[t])
    BY <2>6 DEF Sessions
  <2> QED
    BY <1>s, <1>0, <2>5, <2>6, <2>7, ImportFrame DEF Stages
<1>5. CASE CommitImport(s)
  <2>1. StoreTypeOK'
    BY <1>s, <1>5, CommitKeepsType DEF CommitImport, FinishRun
  <2>2. runs' \in [Sessions -> Statuses] /\ UNCHANGED <<todo, now>>
    BY <1>5 DEF CommitImport, FinishRun, Statuses
  <2>3. NoStatement \in Statements
    BY DEF NoStatement, Statements
  <2>4. /\ statement' \in [Importers -> Statements] /\ importedAt' \in [Importers -> Int]
        /\ \A t \in Importers : t # s => statement'[t] = statement[t]
    BY <1>5, <2>3, 0 \in Int DEF CommitImport, Forget, NoPrice
  <2>5. pc' = [pc EXCEPT ![s] = "done"]
    BY <1>5 DEF CommitImport
  <2>6. \A t \in Importers : pc'[t] = "upsert" => todo'[t] \subseteq Mentioned(statement'[t])
    BY <2>2, <2>4, <2>5 DEF Sessions
  <2> QED
    BY <1>s, <1>0, <2>1, <2>2, <2>4, <2>5, <2>6, ImportFrame DEF Stages
<1> QED
  BY <1>1, <1>2, <1>3, <1>4, <1>5 DEF ImportProgress

\* An import that has failed rolls back and records it.
LEMMA ImportFailureTypes ==
  ASSUME TypeInv, NEW s \in Importers, ImportFailure(s) \/ ImportError(s)
  PROVE  TypeInv'
<1> USE DEF TypeInv, TypeOK, JobTypeOK, ImportTypeOK, LoopsAreSound, GoTo, Visit, importVars, storeVars
<1>s. s \in Sessions /\ s \notin Refreshers
  BY StoreAssumption DEF Sessions
<1>0. UNCHANGED outsideRefresh
  BY DEF ImportFailure, ImportError
<1>1. CASE RollbackFailed(s) /\ UNCHANGED importVars
  <2>1. StoreTypeOK'
    BY <1>s, <1>1, RollbackKeepsType DEF RollbackFailed
  <2>2. pc' = [pc EXCEPT ![s] = "rolled_back"] /\ UNCHANGED <<todo, runs, now>>
    BY <1>1 DEF RollbackFailed
  <2>3. \A t \in Importers : pc'[t] = "upsert" => todo'[t] \subseteq Mentioned(statement'[t])
    BY <1>1, <2>2 DEF Sessions
  <2> QED
    BY <1>s, <1>0, <1>1, <2>1, <2>2, <2>3, ImportFrame DEF Stages
<1>2. CASE RecordFailed(s) /\ UNCHANGED importVars
  <2>1. StoreTypeOK'
    BY <1>s, <1>2, CommitKeepsType DEF RecordFailed, FinishRun
  <2>2. /\ pc' = [pc EXCEPT ![s] = "done"]
        /\ todo' = [todo EXCEPT ![s] = {}]
        /\ runs' \in [Sessions -> Statuses]
        /\ UNCHANGED now
    BY <1>2 DEF RecordFailed, FinishRun, Statuses
  <2>3. \A t \in Importers : pc'[t] = "upsert" => todo'[t] \subseteq Mentioned(statement'[t])
    BY <1>2, <2>2 DEF Sessions
  <2>4. \A t \in Refreshers : todo'[t] = todo[t]
    BY <1>s, <2>2 DEF Sessions
  <2> QED
    BY <1>s, <1>0, <1>2, <2>1, <2>2, <2>3, <2>4, ImportFrame DEF Stages
<1>3. CASE ImportError(s)
  <2>1. pc' = [pc EXCEPT ![s] = "failing"] /\ UNCHANGED <<storeVars, todo, runs, now>>
    BY <1>3 DEF ImportError, ImportRaises
  <2>2. NoStatement \in Statements
    BY DEF NoStatement, Statements
  <2>3. /\ statement' \in [Importers -> Statements] /\ importedAt' \in [Importers -> Int]
        /\ \A t \in Importers : t # s => statement'[t] = statement[t]
    BY <1>3, <2>2, 0 \in Int DEF ImportError, ImportRaises, Forget, NoPrice
  <2>4. \A t \in Importers : pc'[t] = "upsert" => todo'[t] \subseteq Mentioned(statement'[t])
    BY <2>1, <2>3 DEF Sessions
  <2>5. StoreTypeOK'
    BY <2>1 DEF StoreTypeOK
  <2> QED
    BY <1>s, <1>0, <2>1, <2>3, <2>4, <2>5, ImportFrame DEF Stages
<1> QED
  BY <1>1, <1>2, <1>3 DEF ImportFailure

-----------------------------------------------------------------------------
(* The steps of a refresh.                                                 *)

\* A refresh leaves what an import keeps.
LEMMA RefreshFrame ==
  ASSUME TypeInv, NEW s \in Refreshers, UNCHANGED importVars,
         pc' = pc \/ \E stage \in Stages : pc' = [pc EXCEPT ![s] = stage],
         todo' = todo \/ \E set \in SUBSET Positions : todo' = [todo EXCEPT ![s] = set]
  PROVE  /\ ImportTypeOK'
         /\ pc' \in [Sessions -> Stages]
         /\ todo' \in [Sessions -> SUBSET Positions]
         /\ \A t \in Sessions : t # s => pc'[t] = pc[t] /\ todo'[t] = todo[t]
         /\ (\A t \in Importers :
               pc[t] = "upsert" => todo[t] \subseteq Mentioned(statement[t]))'
<1>1. ImportTypeOK' /\ UNCHANGED statement
  BY DEF TypeInv, TypeOK, ImportTypeOK, importVars
<1>2. /\ pc' \in [Sessions -> Stages]
      /\ todo' \in [Sessions -> SUBSET Positions]
      /\ \A t \in Sessions : t # s => pc'[t] = pc[t] /\ todo'[t] = todo[t]
  BY DEF TypeInv, TypeOK, JobTypeOK
<1>3. \A t \in Importers : t \in Sessions /\ t # s
  BY StoreAssumption DEF Sessions
<1> QED
  BY <1>1, <1>2, <1>3 DEF TypeInv, LoopsAreSound

\* The Notion columns and the reviews stay in their types.
NotionTypeOK ==
  /\ reviews \in [Refreshers -> {"none", "staged", "committed"}]
  /\ override \in [Positions -> OverrideValues]
  /\ pages \in [Positions -> Refreshers \cup {Nobody}]
  /\ reviewPage \in Refreshers \cup {Nobody}
  /\ notionRuns \in [Refreshers -> Statuses]

\* What the request keeps in memory does.
MemoryTypeOK ==
  /\ local \in [Refreshers -> [Positions -> Row]]
  /\ inputs \in [Refreshers -> [Positions -> OverrideValues]]
  /\ quotes \in [Refreshers -> [Instruments -> Int]]
  /\ current \in [Refreshers -> Positions \cup {NoPosition}]

LEMMA RefreshTypeSplit == RefreshTypeOK <=> NotionTypeOK /\ MemoryTypeOK
BY DEF RefreshTypeOK, NotionTypeOK, MemoryTypeOK

LEMMA ListingIsTyped ==
  ASSUME StoreTypeOK, NEW s \in Sessions
  PROVE  OpenPositions(s) \in [Positions -> Row]
BY SeenIsRow, NoRowIsRow DEF OpenPositions

LEMMA ForgettingIsTyped ==
  ASSUME MemoryTypeOK, NEW s \in Refreshers, ForgetRefresh(s)
  PROVE  /\ MemoryTypeOK'
         /\ \A t \in Refreshers : t # s => inputs'[t] = inputs[t] /\ current'[t] = current[t]
BY NoRowIsRow, 0 \in Int
   DEF MemoryTypeOK, ForgetRefresh, NoPositions, NoInputs, NoQuotes, NoPrice, OverrideValues

\* A step of refresh s keeps the invariant if what it changes is typed and
\* its own loop is sound.
LEMMA RefreshStep ==
  ASSUME TypeInv, NEW s \in Refreshers, UNCHANGED importVars,
         pc' = pc \/ \E stage \in Stages : pc' = [pc EXCEPT ![s] = stage],
         todo' = todo \/ \E set \in SUBSET Positions : todo' = [todo EXCEPT ![s] = set],
         StoreTypeOK', runs' \in [Sessions -> Statuses], now' \in Nat,
         MemoryTypeOK', NotionTypeOK',
         \A t \in Refreshers : t # s => inputs'[t] = inputs[t] /\ current'[t] = current[t],
         pc'[s] \in {"idle", "inputs"} => todo'[s] = {},
         pc'[s] = "overrides" => \A p \in todo'[s] : inputs'[s][p] \in Int,
         pc'[s] = "write" => current'[s] \in Positions
  PROVE  TypeInv'
<1>1. /\ ImportTypeOK'
      /\ pc' \in [Sessions -> Stages]
      /\ todo' \in [Sessions -> SUBSET Positions]
      /\ \A t \in Sessions : t # s => pc'[t] = pc[t] /\ todo'[t] = todo[t]
  BY RefreshFrame
<1>2. (\A t \in Importers :
               pc[t] = "upsert" => todo[t] \subseteq Mentioned(statement[t]))'
  BY RefreshFrame
<1>3. \A t \in Refreshers : t # s => pc'[t] = pc[t] /\ todo'[t] = todo[t]
  BY <1>1 DEF Sessions
<1>4. LoopsAreSound'
  BY <1>2, <1>3 DEF TypeInv, LoopsAreSound
<1> QED
  BY <1>1, <1>4, RefreshTypeSplit DEF TypeInv, TypeOK, JobTypeOK, RefreshTypeOK, NotionTypeOK, MemoryTypeOK

LEMMA BeforeRunTypes ==
  ASSUME TypeInv, NEW s \in Refreshers, UNCHANGED importVars,
         \/ BeginRefresh(s)
         \/ ReadInputs(s)
         \/ SkipInputs(s)
         \/ \E p \in Positions : SetManualCost(s, p)
         \/ ListAgain(s)
         \/ StartMarketRun(s)
  PROVE  TypeInv'
<1>s. s \in Sessions
  BY DEF Sessions
<1>t. /\ StoreTypeOK /\ MemoryTypeOK /\ NotionTypeOK
      /\ pc \in [Sessions -> Stages] /\ todo \in [Sessions -> SUBSET Positions]
      /\ runs \in [Sessions -> Statuses] /\ now \in Nat
  BY RefreshTypeSplit DEF TypeInv, TypeOK, JobTypeOK
<1> USE DEF GoTo, Visit, storeVars, refreshVars, notionVars
<1>1. CASE BeginRefresh(s)
  <2>1. MemoryTypeOK' /\ NotionTypeOK' /\ StoreTypeOK'
    BY <1>s, <1>t, <1>1, ListingIsTyped
       DEF BeginRefresh, ListOpen, MemoryTypeOK, NotionTypeOK, StoreTypeOK
  <2>2. pc[s] = "idle" /\ todo[s] = {}
    BY <1>1 DEF BeginRefresh, TypeInv, LoopsAreSound
  <2> QED
    BY <1>s, <1>t, <1>1, <2>1, <2>2, RefreshStep DEF BeginRefresh, Stages
<1>2. CASE ReadInputs(s)
  <2>1. MemoryTypeOK' /\ NotionTypeOK' /\ StoreTypeOK'
    BY <1>t, <1>2 DEF ReadInputs, MemoryTypeOK, NotionTypeOK, StoreTypeOK
  <2>2. \A p \in Positions : override[p] # NoOverride => override[p] \in Int
    BY <1>t, RefreshAssumption, -1 \in Int DEF NotionTypeOK, OverrideValues, NoCost
  <2>3. todo' = [todo EXCEPT ![s] = {p \in Listed(s) : override[p] # NoOverride}]
    BY <1>2 DEF ReadInputs
  <2>4. \A p \in todo'[s] : inputs'[s][p] \in Int
    BY <1>s, <1>t, <1>2, <2>2, <2>3 DEF ReadInputs, MemoryTypeOK, Listed
  <2>5. {p \in Listed(s) : override[p] # NoOverride} \in SUBSET Positions
    BY DEF Listed
  <2> HIDE DEF Visit
  <2>6. \A t \in Refreshers : t # s => inputs'[t] = inputs[t] /\ current'[t] = current[t]
    BY <1>t, <1>2 DEF ReadInputs, MemoryTypeOK
  <2>7. pc' = [pc EXCEPT ![s] = "overrides"] /\ UNCHANGED <<runs, now>>
    BY <1>2 DEF ReadInputs
  <2> QED
    BY <1>s, <1>t, <2>1, <2>3, <2>4, <2>5, <2>6, <2>7, RefreshStep DEF Stages
<1>3. CASE SkipInputs(s)
  <2>1. MemoryTypeOK' /\ NotionTypeOK' /\ StoreTypeOK'
    BY <1>t, <1>3 DEF SkipInputs, MemoryTypeOK, NotionTypeOK, StoreTypeOK
  <2>2. pc[s] = "inputs" /\ todo[s] = {}
    BY <1>3 DEF SkipInputs, TypeInv, LoopsAreSound
  <2> QED
    BY <1>s, <1>t, <1>3, <2>1, <2>2, RefreshStep DEF SkipInputs, Stages
<1>4. ASSUME NEW p \in Positions, SetManualCost(s, p)
      PROVE  TypeInv'
  <2> DEFINE new == [q \in {p} |-> ManuallyCosted(Seen(s, p), inputs[s][p])]
  <2>1. inputs[s][p] \in Int
    BY <1>4 DEF SetManualCost, TypeInv, LoopsAreSound
  <2>2. \A q \in Positions \cap DOMAIN new : new[q] \in Row
    BY <1>s, <1>t, <2>1, SeenIsRow, OperationsReturnRows
  <2>3. staged' \in [Sessions -> [Positions -> Update]]
    <3>1. Assign(s, new)
      BY <1>4 DEF SetManualCost
    <3> QED
      BY <1>s, <1>t, <2>2, <3>1, AssignKeepsType
  <2>4. MemoryTypeOK' /\ NotionTypeOK' /\ StoreTypeOK'
    BY <1>t, <1>4, <2>3 DEF SetManualCost, MemoryTypeOK, NotionTypeOK, StoreTypeOK
  <2>5. todo' = [todo EXCEPT ![s] = todo[s] \ {p}] /\ pc[s] = "overrides"
    BY <1>4 DEF SetManualCost
  <2>6. \A q \in todo'[s] : inputs'[s][q] \in Int
    BY <1>s, <1>t, <1>4, <2>5 DEF SetManualCost, TypeInv, LoopsAreSound
  <2>7. UNCHANGED <<pc, runs, now, inputs, current>>
    BY <1>4 DEF SetManualCost
  <2>8. todo[s] \ {p} \in SUBSET Positions
    BY <1>s, <1>t
  <2> QED
    BY <1>s, <1>t, <2>4, <2>5, <2>6, <2>7, <2>8, RefreshStep
<1>5. CASE ListAgain(s)
  <2>1. NoInputs \in [Positions -> OverrideValues]
    BY DEF NoInputs, OverrideValues
  <2>2. MemoryTypeOK' /\ NotionTypeOK' /\ StoreTypeOK'
    BY <1>s, <1>t, <1>5, <2>1, ListingIsTyped
       DEF ListAgain, ListOpen, MemoryTypeOK, NotionTypeOK, StoreTypeOK
  <2> QED
    BY <1>s, <1>t, <1>5, <2>2, RefreshStep DEF ListAgain, Stages, MemoryTypeOK
<1>6. CASE StartMarketRun(s)
  <2>1. MemoryTypeOK' /\ NotionTypeOK'
    BY <1>t, <1>6 DEF StartMarketRun, MemoryTypeOK, NotionTypeOK
  <2>2. StoreTypeOK' /\ runs' \in [Sessions -> Statuses]
    BY <1>s, <1>t, <1>6, CommitKeepsType DEF StartMarketRun, FinishRun, Statuses
  <2> QED
    BY <1>s, <1>t, <1>6, <2>1, <2>2, RefreshStep DEF StartMarketRun, Stages
<1> QED
  BY <1>1, <1>2, <1>3, <1>4, <1>5, <1>6

LEMMA MarketRunTypes ==
  ASSUME TypeInv, NEW s \in Refreshers, UNCHANGED importVars,
         \/ FetchQuotes(s)
         \/ \E p \in Positions : QuotePosition(s, p)
         \/ WritePosition(s)
         \/ PersistReview(s)
         \/ CommitMarket(s)
  PROVE  TypeInv'
<1>s. s \in Sessions
  BY DEF Sessions
<1>t. /\ StoreTypeOK /\ MemoryTypeOK /\ NotionTypeOK
      /\ pc \in [Sessions -> Stages] /\ todo \in [Sessions -> SUBSET Positions]
      /\ runs \in [Sessions -> Statuses] /\ now \in Nat
  BY RefreshTypeSplit DEF TypeInv, TypeOK, JobTypeOK
<1> USE DEF GoTo, Visit, storeVars, refreshVars, notionVars
<1>1. CASE FetchQuotes(s)
  <2>1. PICK answer \in [Instruments -> Candidates] : quotes' = [quotes EXCEPT ![s] = answer]
    BY <1>1 DEF FetchQuotes
  <2>2. Candidates \subseteq Int
    BY <1>t, 0 \in Int DEF Candidates, NoPrice
  <2>3. answer \in [Instruments -> Int]
    BY <2>2
  <2>4. MemoryTypeOK' /\ NotionTypeOK' /\ StoreTypeOK'
    BY <1>t, <1>1, <2>1, <2>3 DEF FetchQuotes, MemoryTypeOK, NotionTypeOK, StoreTypeOK
  <2>5. now' \in Nat
    BY <1>t, <1>1 DEF FetchQuotes
  <2>6. PICK byId \in OnePerInstrument(s) : todo' = [todo EXCEPT ![s] = byId]
    BY <1>1 DEF FetchQuotes
  <2>7. byId \in SUBSET Positions
    BY <2>6 DEF OnePerInstrument, Listed
  <2>8. pc' = [pc EXCEPT ![s] = "select"] /\ UNCHANGED <<runs, inputs, current>>
    BY <1>1 DEF FetchQuotes
  <2> QED
    BY <1>s, <1>t, <2>4, <2>5, <2>6, <2>7, <2>8, RefreshStep DEF Stages
<1>2. ASSUME NEW p \in Positions, QuotePosition(s, p)
      PROVE  TypeInv'
  <2> DEFINE i == InstrumentOf[p]
  <2>q. PICK persisted \in ValidPersisted(s, i) :
          LET selected == SelectQuote(quotes[s][i], persisted, local[s][p]["latest_price"])
          IN  IF selected = NoPrice
              THEN /\ pc[s] = "select"
                   /\ Visit(s, todo[s] \ {p})
                   /\ UNCHANGED <<pc, newPrices, local, current>>
              ELSE /\ GoTo(s, "select", "write")
                   /\ PriceUpserted(s, i, selected)
                   /\ local' = [local EXCEPT ![s][p]["latest_price"] = selected]
                   /\ current' = [current EXCEPT ![s] = p]
                   /\ UNCHANGED todo
    BY <1>2 DEF QuotePosition
  <2> DEFINE selected == SelectQuote(quotes[s][i], persisted, local[s][p]["latest_price"])
  <2>1. i \in Instruments
    BY StoreAssumption
  <2>2. quotes[s][i] \in Int /\ persisted \in Int /\ local[s][p]["latest_price"] \in Int
    BY <1>s, <1>t, <2>1
       DEF MemoryTypeOK, StoreTypeOK, SeenPrice, ValidPersisted, NoPrice, Row, Columns
  <2>3. selected \in Int
    BY <2>2 DEF SelectQuote
  <2>4. CASE selected = NoPrice
    <3>1. /\ UNCHANGED <<rows, staged, lock, prices, newPrices, pc, runs, now, refreshVars, override, notionVars>>
          /\ todo' = [todo EXCEPT ![s] = todo[s] \ {p}]
          /\ pc[s] = "select"
      BY <1>2, <2>q, <2>4 DEF QuotePosition, Visit
    <3>2. MemoryTypeOK' /\ NotionTypeOK' /\ StoreTypeOK'
      BY <1>t, <3>1 DEF MemoryTypeOK, NotionTypeOK, StoreTypeOK
    <3>3. todo[s] \ {p} \in SUBSET Positions
      BY <1>s, <1>t
    <3> QED
      BY <1>s, <1>t, <3>1, <3>2, <3>3, RefreshStep
  <2>5. CASE selected # NoPrice
    <3>1. /\ UNCHANGED <<rows, staged, lock, prices, todo, runs, now, inputs, quotes, reviews, override, notionVars>>
          /\ newPrices' = [newPrices EXCEPT ![s][i] = IF @ < selected THEN selected ELSE @]
          /\ local' = [local EXCEPT ![s][p]["latest_price"] = selected]
          /\ current' = [current EXCEPT ![s] = p]
          /\ pc' = [pc EXCEPT ![s] = "write"]
      BY <1>2, <2>q, <2>5 DEF QuotePosition, PriceUpserted, GoTo
    <3>2. StoreTypeOK'
      BY <1>s, <1>t, <2>1, <2>3, <3>1 DEF StoreTypeOK
    <3>3. [local[s][p] EXCEPT !["latest_price"] = selected] \in Row
      <4>1. local[s][p] \in Row
        BY <1>t DEF MemoryTypeOK
      <4> HIDE DEF selected
      <4> QED
        BY <2>3, <4>1 DEF Row
    <3>4. local' \in [Refreshers -> [Positions -> Row]]
      BY <1>t, <3>1, <3>3 DEF MemoryTypeOK
    <3>5. MemoryTypeOK' /\ NotionTypeOK'
      BY <1>t, <3>1, <3>4 DEF MemoryTypeOK, NotionTypeOK
    <3>6. current'[s] = p /\ \A t \in Refreshers : t # s => current'[t] = current[t]
      BY <1>t, <3>1 DEF MemoryTypeOK
    <3>7. pc'[s] = "write"
      BY <1>s, <1>t, <3>1
    <3> QED
      BY <1>s, <1>t, <3>1, <3>2, <3>5, <3>6, <3>7, RefreshStep DEF Stages
  <2> QED
    BY <2>4, <2>5
<1>3. CASE WritePosition(s)
  <2> DEFINE new == [q \in {current[s]} |-> Upserted(local[s][q])]
  <2>1. current[s] \in Positions
    BY <1>3 DEF WritePosition, TypeInv, LoopsAreSound
  <2>2. \A q \in Positions \cap DOMAIN new : new[q] \in Row
    BY <1>t, 0 \in Int, OperationsReturnRows DEF MemoryTypeOK
  <2>3. Assign(s, new)
    BY <1>3 DEF WritePosition
  <2>4. staged' \in [Sessions -> [Positions -> Update]]
    BY <1>s, <1>t, <2>2, <2>3, AssignKeepsType
  <2>5. MemoryTypeOK' /\ NotionTypeOK' /\ StoreTypeOK'
    BY <1>t, <1>3, <2>4 DEF WritePosition, MemoryTypeOK, NotionTypeOK, StoreTypeOK
  <2>6. /\ pc' = [pc EXCEPT ![s] = "select"]
        /\ todo' = [todo EXCEPT ![s] = todo[s] \ {current[s]}]
        /\ current' = [current EXCEPT ![s] = NoPosition]
        /\ UNCHANGED <<runs, now, inputs>>
    BY <1>3 DEF WritePosition
  <2>7. todo[s] \ {current[s]} \in SUBSET Positions
    BY <1>s, <1>t
  <2> QED
    BY <1>s, <1>t, <2>5, <2>6, <2>7, RefreshStep DEF Stages, MemoryTypeOK
<1>4. CASE PersistReview(s)
  <2>1. MemoryTypeOK' /\ NotionTypeOK' /\ StoreTypeOK'
    BY <1>t, <1>4, 0 \in Int
       DEF PersistReview, MemoryTypeOK, NotionTypeOK, StoreTypeOK, NoQuotes, NoPrice
  <2> QED
    BY <1>s, <1>t, <1>4, <2>1, RefreshStep DEF PersistReview, Stages
<1>5. CASE CommitMarket(s)
  <2>1. StoreTypeOK' /\ runs' \in [Sessions -> Statuses]
    BY <1>s, <1>t, <1>5, CommitKeepsType DEF CommitMarket, FinishRun, Statuses
  <2>2. MemoryTypeOK' /\ NotionTypeOK'
    BY <1>t, <1>5 DEF CommitMarket, CommitReview, MemoryTypeOK, NotionTypeOK
  <2> QED
    BY <1>s, <1>t, <1>5, <2>1, <2>2, RefreshStep DEF CommitMarket, Stages
<1> QED
  BY <1>1, <1>2, <1>3, <1>4, <1>5

LEMMA AfterCommitTypes ==
  ASSUME TypeInv, NEW s \in Refreshers, UNCHANGED importVars,
         \/ StartNotionRun(s)
         \/ \E p \in Positions : SyncPage(s, p)
         \/ SyncReview(s)
         \/ FinishNotion(s)
         \/ FinishWithoutNotion(s)
         \/ StartNotionFails(s)
         \/ SyncFails(s)
  PROVE  TypeInv'
<1>s. s \in Sessions
  BY DEF Sessions
<1>t. /\ StoreTypeOK /\ MemoryTypeOK /\ NotionTypeOK
      /\ pc \in [Sessions -> Stages] /\ todo \in [Sessions -> SUBSET Positions]
      /\ runs \in [Sessions -> Statuses] /\ now \in Nat
  BY RefreshTypeSplit DEF TypeInv, TypeOK, JobTypeOK
<1> USE DEF GoTo, Visit, storeVars, refreshVars, notionVars
<1>1. CASE StartNotionRun(s)
  <2>1. MemoryTypeOK' /\ NotionTypeOK' /\ StoreTypeOK'
    BY <1>t, <1>1 DEF StartNotionRun, NotionRun, MemoryTypeOK, NotionTypeOK, StoreTypeOK, Statuses
  <2>2. Listed(s) \in SUBSET Positions
    BY DEF Listed
  <2> QED
    BY <1>s, <1>t, <1>1, <2>1, <2>2, RefreshStep DEF StartNotionRun, Stages
<1>2. ASSUME NEW p \in Positions, SyncPage(s, p)
      PROVE  TypeInv'
  <2>1. MemoryTypeOK' /\ NotionTypeOK' /\ StoreTypeOK'
    BY <1>t, <1>2 DEF SyncPage, MemoryTypeOK, NotionTypeOK, StoreTypeOK
  <2>2. todo[s] \ {p} \in SUBSET Positions
    BY <1>s, <1>t
  <2> QED
    BY <1>s, <1>t, <1>2, <2>1, <2>2, RefreshStep DEF SyncPage
<1>3. CASE SyncReview(s)
  <2>1. MemoryTypeOK' /\ NotionTypeOK' /\ StoreTypeOK'
    BY <1>t, <1>3 DEF SyncReview, MemoryTypeOK, NotionTypeOK, StoreTypeOK
  <2> QED
    BY <1>s, <1>t, <1>3, <2>1, RefreshStep DEF SyncReview, Stages
<1>4. CASE FinishNotion(s)
  <2>1. MemoryTypeOK' /\ \A t \in Refreshers : t # s => inputs'[t] = inputs[t] /\ current'[t] = current[t]
    BY <1>t, <1>4, ForgettingIsTyped DEF FinishNotion
  <2>2. NotionTypeOK' /\ StoreTypeOK'
    BY <1>t, <1>4 DEF FinishNotion, NotionRun, NotionTypeOK, StoreTypeOK, Statuses
  <2> QED
    BY <1>s, <1>t, <1>4, <2>1, <2>2, RefreshStep DEF FinishNotion, Stages
<1>5. CASE FinishWithoutNotion(s) \/ StartNotionFails(s)
  <2>1. MemoryTypeOK' /\ \A t \in Refreshers : t # s => inputs'[t] = inputs[t] /\ current'[t] = current[t]
    BY <1>t, <1>5, ForgettingIsTyped DEF FinishWithoutNotion, StartNotionFails
  <2>2. NotionTypeOK' /\ StoreTypeOK'
    BY <1>t, <1>5 DEF FinishWithoutNotion, StartNotionFails, NotionTypeOK, StoreTypeOK
  <2>3. pc' = [pc EXCEPT ![s] = "done"] /\ UNCHANGED <<todo, runs, now>>
    BY <1>5 DEF FinishWithoutNotion, StartNotionFails
  <2> QED
    BY <1>s, <1>t, <2>1, <2>2, <2>3, RefreshStep DEF Stages
<1>6. CASE SyncFails(s)
  <2>1. MemoryTypeOK' /\ \A t \in Refreshers : t # s => inputs'[t] = inputs[t] /\ current'[t] = current[t]
    BY <1>t, <1>6, ForgettingIsTyped DEF SyncFails
  <2>2. NotionTypeOK' /\ StoreTypeOK'
    BY <1>t, <1>6 DEF SyncFails, NotionRun, NotionTypeOK, StoreTypeOK, Statuses
  <2>3. pc' = [pc EXCEPT ![s] = "done"] /\ todo' = [todo EXCEPT ![s] = {}] /\ UNCHANGED <<runs, now>>
    BY <1>6 DEF SyncFails
  <2> QED
    BY <1>s, <1>t, <2>1, <2>2, <2>3, RefreshStep DEF Stages
<1> QED
  BY <1>1, <1>2, <1>3, <1>4, <1>5, <1>6

LEMMA RefreshErrorTypes ==
  ASSUME TypeInv, NEW s \in Refreshers, UNCHANGED importVars,
         \/ FailsBeforeRun(s)
         \/ RefreshRaises(s)
         \/ RollbackRefresh(s)
         \/ RecordRefreshFailed(s)
  PROVE  TypeInv'
<1>s. s \in Sessions
  BY DEF Sessions
<1>t. /\ StoreTypeOK /\ MemoryTypeOK /\ NotionTypeOK
      /\ pc \in [Sessions -> Stages] /\ todo \in [Sessions -> SUBSET Positions]
      /\ runs \in [Sessions -> Statuses] /\ now \in Nat
  BY RefreshTypeSplit DEF TypeInv, TypeOK, JobTypeOK
<1> USE DEF GoTo, Visit, storeVars, refreshVars, notionVars
<1>1. CASE FailsBeforeRun(s)
  <2>1. MemoryTypeOK' /\ \A t \in Refreshers : t # s => inputs'[t] = inputs[t] /\ current'[t] = current[t]
    BY <1>t, <1>1, ForgettingIsTyped DEF FailsBeforeRun
  <2>2. StoreTypeOK'
    BY <1>s, <1>t, <1>1, RollbackKeepsType DEF FailsBeforeRun
  <2>3. NotionTypeOK'
    BY <1>t, <1>1 DEF FailsBeforeRun, NotionTypeOK
  <2>4. pc' = [pc EXCEPT ![s] = "done"] /\ todo' = [todo EXCEPT ![s] = {}] /\ UNCHANGED <<runs, now>>
    BY <1>1 DEF FailsBeforeRun
  <2> QED
    BY <1>s, <1>t, <2>1, <2>2, <2>3, <2>4, RefreshStep DEF Stages
<1>2. CASE RefreshRaises(s)
  <2>1. MemoryTypeOK' /\ \A t \in Refreshers : t # s => inputs'[t] = inputs[t] /\ current'[t] = current[t]
    BY <1>t, <1>2, ForgettingIsTyped DEF RefreshRaises
  <2>2. NotionTypeOK' /\ StoreTypeOK'
    BY <1>t, <1>2 DEF RefreshRaises, NotionTypeOK, StoreTypeOK
  <2>3. pc' = [pc EXCEPT ![s] = "failing"] /\ UNCHANGED <<todo, runs, now>>
    BY <1>2 DEF RefreshRaises
  <2> QED
    BY <1>s, <1>t, <2>1, <2>2, <2>3, RefreshStep DEF Stages
<1>3. CASE RollbackRefresh(s)
  <2>1. StoreTypeOK'
    BY <1>s, <1>t, <1>3, RollbackKeepsType DEF RollbackRefresh, RollbackFailed
  <2>2. MemoryTypeOK' /\ NotionTypeOK'
    BY <1>t, <1>3 DEF RollbackRefresh, MemoryTypeOK, NotionTypeOK
  <2>3. pc' = [pc EXCEPT ![s] = "rolled_back"] /\ UNCHANGED <<todo, runs, now, inputs, current>>
    BY <1>3 DEF RollbackRefresh, RollbackFailed
  <2> QED
    BY <1>s, <1>t, <2>1, <2>2, <2>3, RefreshStep DEF Stages
<1>4. CASE RecordRefreshFailed(s)
  <2>1. StoreTypeOK' /\ runs' \in [Sessions -> Statuses]
    BY <1>s, <1>t, <1>4, CommitKeepsType DEF RecordRefreshFailed, RecordFailed, FinishRun, Statuses
  <2>2. MemoryTypeOK' /\ NotionTypeOK'
    BY <1>t, <1>4 DEF RecordRefreshFailed, CommitReview, MemoryTypeOK, NotionTypeOK
  <2>3. /\ pc' = [pc EXCEPT ![s] = "done"] /\ todo' = [todo EXCEPT ![s] = {}]
        /\ UNCHANGED <<now, inputs, current>>
    BY <1>4 DEF RecordRefreshFailed, RecordFailed
  <2> QED
    BY <1>s, <1>t, <2>1, <2>2, <2>3, RefreshStep DEF Stages
<1> QED
  BY <1>1, <1>2, <1>3, <1>4

-----------------------------------------------------------------------------
(* Flushes, crashes and the user.                                          *)

LEMMA FlushTypes ==
  ASSUME TypeInv, NEW s \in Sessions, FlushStep(s)
  PROVE  TypeInv'
<1>1. StoreTypeOK'
  BY FlushKeepsType DEF FlushStep, FlushRow, TypeInv, TypeOK, JobTypeOK
<1>2. UNCHANGED <<jobVars, importVars, outsideRefresh>>
  BY DEF FlushStep, FlushRow
<1> QED
  BY <1>1, <1>2 DEF TypeInv, TypeOK, JobTypeOK, ImportTypeOK, RefreshTypeOK, LoopsAreSound,
                    jobVars, importVars, outsideRefresh, refreshVars, notionVars, Mentioned

LEMMA CrashTypes ==
  ASSUME TypeInv, NEW s \in Sessions, Crash(s)
  PROVE  TypeInv'
<1>1. StoreTypeOK'
  BY RollbackKeepsType DEF Crash, TypeInv, TypeOK, JobTypeOK
<1>2. pc' = [pc EXCEPT ![s] = "crashed"] /\ todo' = [todo EXCEPT ![s] = {}] /\ UNCHANGED <<runs, now>>
  BY DEF Crash, Visit
<1>3. CASE s \in Importers
  <2>0. s \notin Refreshers
    BY <1>3, StoreAssumption
  <2>1. UNCHANGED outsideRefresh
    BY <1>3 DEF Crash, outsideRefresh
  <2>2. NoStatement \in Statements
    BY DEF NoStatement, Statements
  <2>3. /\ statement' \in [Importers -> Statements] /\ importedAt' \in [Importers -> Int]
        /\ \A t \in Importers : t # s => statement'[t] = statement[t]
    BY <1>3, <2>2, 0 \in Int DEF Crash, Forget, NoPrice, TypeInv, TypeOK, ImportTypeOK
  <2>4. \A t \in Importers : pc'[t] = "upsert" => todo'[t] \subseteq Mentioned(statement'[t])
    BY <1>2, <2>3 DEF Sessions, TypeInv, TypeOK, JobTypeOK, LoopsAreSound
  <2>5. \A t \in Refreshers : todo'[t] = todo[t]
    BY <1>2, <2>0 DEF Sessions, TypeInv, TypeOK, JobTypeOK
  <2>6. todo' \in [Sessions -> SUBSET Positions]
    BY <1>2 DEF TypeInv, TypeOK, JobTypeOK
  <2>7. /\ RefreshTypeOK'
        /\ pc' \in [Sessions -> Stages]
        /\ (\A t \in Refreshers :
              /\ pc[t] \in {"idle", "inputs"} => todo[t] = {}
              /\ pc[t] = "overrides" => \A p \in todo[t] : inputs[t][p] \in Int
              /\ pc[t] = "write" => current[t] \in Positions)'
    BY <1>2, <1>3, <2>1, <2>5, ImportFrame DEF Stages
  <2> QED
    BY <1>1, <1>2, <2>3, <2>4, <2>6, <2>7 DEF TypeInv, TypeOK, JobTypeOK, ImportTypeOK, LoopsAreSound
<1>4. CASE s \notin Importers
  <2>1. s \in Refreshers /\ UNCHANGED importVars
    BY <1>4 DEF Crash, Sessions
  <2>2. MemoryTypeOK' /\ \A t \in Refreshers : t # s => inputs'[t] = inputs[t] /\ current'[t] = current[t]
    BY <1>4, <2>1, ForgettingIsTyped, RefreshTypeSplit DEF Crash, TypeInv, TypeOK
  <2>3. NotionTypeOK'
    BY <1>4, <2>1, RefreshTypeSplit DEF Crash, NotionTypeOK, TypeInv, TypeOK, notionVars
  <2> QED
    BY <1>1, <1>2, <2>1, <2>2, <2>3, RefreshStep DEF Stages, TypeInv, TypeOK, JobTypeOK
<1> QED
  BY <1>3, <1>4

LEMMA EditTypes ==
  ASSUME TypeInv, NEW p \in Positions, NEW v \in OverrideValues,
         EditOverride(p, v), UNCHANGED importVars
  PROVE  TypeInv'
<1>1. /\ override' \in [Positions -> OverrideValues]
      /\ UNCHANGED <<storeVars, jobVars, importVars, refreshVars, notionVars>>
  BY DEF EditOverride, TypeInv, TypeOK, RefreshTypeOK
<1> QED
  BY <1>1 DEF TypeInv, TypeOK, JobTypeOK, StoreTypeOK, ImportTypeOK, RefreshTypeOK, LoopsAreSound,
              storeVars, jobVars, importVars, refreshVars, notionVars, Mentioned

-----------------------------------------------------------------------------
LEMMA NextTypes == TypeInv /\ [Next]_vars => TypeInv'
<1> SUFFICES ASSUME TypeInv, [Next]_vars PROVE TypeInv'
  OBVIOUS
<1>1. ASSUME NEW s \in Importers, ImportProgress(s) \/ ImportFailure(s) \/ ImportError(s)
      PROVE  TypeInv'
  BY <1>1, ImportProgressTypes, ImportFailureTypes
<1>2. ASSUME NEW s \in Refreshers, RefreshProgress(s) \/ RefreshFailure(s) \/ RefreshError(s)
      PROVE  TypeInv'
  BY <1>2, BeforeRunTypes, MarketRunTypes, AfterCommitTypes, RefreshErrorTypes
     DEF RefreshProgress, RefreshFailure, RefreshError
<1>3. ASSUME NEW s \in Sessions, FlushStep(s) \/ Crash(s)
      PROVE  TypeInv'
  BY <1>3, FlushTypes, CrashTypes
<1>4. ASSUME NEW p \in Positions, NEW v \in OverrideValues,
             EditOverride(p, v), UNCHANGED importVars
      PROVE  TypeInv'
  BY <1>4, EditTypes
<1>5. CASE UNCHANGED vars
  BY <1>5 DEF TypeInv, TypeOK, JobTypeOK, StoreTypeOK, ImportTypeOK, RefreshTypeOK, LoopsAreSound,
              vars, storeVars, jobVars, importVars, refreshVars, notionVars, Mentioned
<1> QED
  BY <1>1, <1>2, <1>3, <1>4, <1>5 DEF Next

(***************************************************************************)
(* Whatever the jobs, positions, statements and overrides are, no job ever *)
(* stages or commits anything but a row, a price or a known status.        *)
(***************************************************************************)
THEOREM TypeCorrect == Spec => []TypeOK
<1>1. Spec => []TypeInv
  BY InitTypes, NextTypes, PTL DEF Spec
<1> QED
  BY <1>1, PTL DEF TypeInv

-----------------------------------------------------------------------------
(***************************************************************************)
(* What the sessions hold and what the jobs record.                        *)
(***************************************************************************)

\* What the sessions hold.
SessionInv ==
  /\ StagesAreClean
  /\ OnlyCostsBeforeRun
  /\ ImportsLeaveManualCost
  /\ LocksAreHeldByWriters

\* What the jobs record.
OutcomeInv ==
  /\ ImportOutcome
  /\ RefreshOutcome
  /\ ReviewIffSuccess
  /\ NotionAfterCommit

LEMMA JobsInvSplit == JobsInv <=> TypeInv /\ SessionInv /\ OutcomeInv
BY DEF JobsInv, TypeInv, SessionInv, OutcomeInv

-----------------------------------------------------------------------------
(* The four things a step does to the sessions.                            *)

\* A step that stages and locks nothing enters a clean stage only from one.
LEMMA MovingOn ==
  ASSUME TypeInv, SessionInv, NEW s \in Sessions, NEW stage,
         pc' = [pc EXCEPT ![s] = stage], UNCHANGED <<staged, lock>>,
         stage \in CleanStages => pc[s] \in CleanStages,
         stage \in {"overrides", "start"} => pc[s] \in CleanStages \cup {"overrides", "start"}
  PROVE  SessionInv'
<1>1. pc'[s] = stage /\ \A t \in Sessions : t # s => pc'[t] = pc[t]
  BY DEF TypeInv, TypeOK, JobTypeOK
<1>2. StagesAreClean'
  BY <1>1 DEF SessionInv, StagesAreClean, Dirty
<1>3. OnlyCostsBeforeRun'
  <2>1. pc[s] \in CleanStages => \A p \in Positions, c \in BrokerColumns : staged[s][p][c] = Keep
    BY DEF SessionInv, StagesAreClean, Dirty, NoChange, BrokerColumns, Columns
  <2> QED
    BY <1>1, <2>1 DEF SessionInv, OnlyCostsBeforeRun, Sessions
<1>4. ImportsLeaveManualCost'
  BY DEF SessionInv, ImportsLeaveManualCost
<1>5. LocksAreHeldByWriters'
  <2> SUFFICES ASSUME NEW p \in Positions, lock[p] # Nobody
               PROVE  Active(lock[p])' /\ Dirty(lock[p], p)'
    BY DEF LocksAreHeldByWriters
  <2>1. lock[p] \in Sessions
    BY DEF TypeInv, TypeOK, JobTypeOK, StoreTypeOK
  <2>2. Active(lock[p]) /\ Dirty(lock[p], p)
    BY DEF SessionInv, LocksAreHeldByWriters
  <2>3. pc[lock[p]] \notin CleanStages
    BY <2>1, <2>2 DEF SessionInv, StagesAreClean
  <2>4. pc'[lock[p]] \notin {"idle", "done", "crashed"}
    BY <1>1, <2>1, <2>2, <2>3 DEF CleanStages, Active
  <2> QED
    BY <2>2, <2>4 DEF Active, Dirty
<1> QED
  BY <1>2, <1>3, <1>4, <1>5 DEF SessionInv

\* The end of a transaction leaves its session nothing.
LEMMA EndingTransaction ==
  ASSUME TypeInv, SessionInv, NEW s \in Sessions,
         CommitSession(s) \/ RollbackSession(s),
         \E stage \in Stages : pc' = [pc EXCEPT ![s] = stage]
  PROVE  SessionInv'
<1>1. \A t \in Sessions : t # s => pc'[t] = pc[t] /\ staged'[t] = staged[t]
  BY DEF TypeInv, TypeOK, JobTypeOK, StoreTypeOK, CommitSession, RollbackSession
<1>2. \A p \in Positions : staged'[s][p] = NoChange
  BY DEF TypeInv, TypeOK, JobTypeOK, StoreTypeOK, CommitSession, RollbackSession
<1>3. lock' = Released(s)
  BY DEF CommitSession, RollbackSession
<1>4. StagesAreClean'
  BY <1>1, <1>2 DEF SessionInv, StagesAreClean, Dirty
<1>5. OnlyCostsBeforeRun'
  BY <1>1, <1>2 DEF SessionInv, OnlyCostsBeforeRun, NoChange, BrokerColumns, Columns, Sessions
<1>6. ImportsLeaveManualCost'
  BY <1>1, <1>2 DEF SessionInv, ImportsLeaveManualCost, NoChange, Columns, Sessions
<1>7. LocksAreHeldByWriters'
  <2> SUFFICES ASSUME NEW p \in Positions, lock'[p] # Nobody
               PROVE  Active(lock[p])' /\ Dirty(lock[p], p)'
    BY DEF LocksAreHeldByWriters
  <2>1. lock'[p] = lock[p] /\ lock[p] # s /\ lock[p] \in Sessions
    BY <1>3 DEF Released, TypeInv, TypeOK, JobTypeOK, StoreTypeOK
  <2>2. Active(lock[p]) /\ Dirty(lock[p], p)
    BY <2>1 DEF SessionInv, LocksAreHeldByWriters
  <2> QED
    BY <1>1, <2>1, <2>2 DEF Active, Dirty
<1> QED
  BY <1>4, <1>5, <1>6, <1>7 DEF SessionInv

\* Staging keeps a dirty row dirty, and a column whose value is not changed
\* out of the statement.
LEMMA Staging ==
  ASSUME TypeInv, SessionInv, NEW s \in Sessions, NEW new, NEW stage \in Stages \ CleanStages,
         Assign(s, new), UNCHANGED lock,
         pc' = [pc EXCEPT ![s] = stage],
         \A p \in Positions \cap DOMAIN new : new[p] \in Row,
         s \in Refreshers /\ stage \in {"overrides", "start"} =>
           /\ pc[s] \in {"overrides", "start"}
           /\ \A p \in Positions \cap DOMAIN new, c \in BrokerColumns :
                new[p][c] = Seen(s, p)[c],
         s \in Importers =>
           \A p \in Positions \cap DOMAIN new :
             new[p]["manual_average_cost"] = Seen(s, p)["manual_average_cost"]
  PROVE  SessionInv'
<1>1. pc'[s] = stage /\ \A t \in Sessions : t # s => pc'[t] = pc[t] /\ staged'[t] = staged[t]
  BY DEF TypeInv, TypeOK, JobTypeOK, StoreTypeOK, Assign
<1>2. \A p \in Positions : staged'[s][p] = IF p \in DOMAIN new
                                           THEN Change(s, p, new[p]) ELSE staged[s][p]
  BY DEF TypeInv, TypeOK, JobTypeOK, StoreTypeOK, Assign
<1>3. ASSUME NEW p \in Positions, NEW c \in Columns, staged[s][p][c] # Keep
      PROVE  staged'[s][p][c] # Keep
  <2>1. CASE p \in DOMAIN new
    <3>1. new[p] \in Row
      BY <2>1
    <3>2. new[p][c] # Keep
      BY <3>1, StoreAssumption DEF Row
    <3> QED
      BY <1>2, <1>3, <2>1, <3>2 DEF Change
  <2>2. CASE p \notin DOMAIN new
    BY <1>2, <1>3, <2>2
  <2> QED
    BY <2>1, <2>2
<1>4. ASSUME NEW p \in Positions, Dirty(s, p)
      PROVE  Dirty(s, p)'
  <2>1. staged[s][p] \in [Columns -> Int \cup {Keep}]
    BY DEF TypeInv, TypeOK, JobTypeOK, StoreTypeOK, Update
  <2>2. PICK c \in Columns : staged[s][p][c] # Keep
    BY <1>4, <2>1 DEF Dirty, NoChange
  <2>3. staged'[s][p][c] # Keep
    BY <1>3, <2>2
  <2> QED
    BY <2>3 DEF Dirty, NoChange
<1>5. StagesAreClean'
  BY <1>1 DEF SessionInv, StagesAreClean, Dirty
<1>6. OnlyCostsBeforeRun'
  <2> SUFFICES ASSUME NEW t \in Refreshers, pc'[t] \in {"overrides", "start"},
                      NEW p \in Positions, NEW c \in BrokerColumns
               PROVE  staged'[t][p][c] = Keep
    BY DEF OnlyCostsBeforeRun
  <2>1. CASE t = s
    <3>1. pc[s] \in {"overrides", "start"} /\ staged[s][p][c] = Keep
      BY <1>1, <2>1 DEF SessionInv, OnlyCostsBeforeRun
    <3>2. p \in DOMAIN new => new[p][c] = Seen(s, p)[c]
      BY <1>1, <2>1
    <3> QED
      BY <1>2, <2>1, <3>1, <3>2 DEF Change, BrokerColumns, Columns
  <2>2. CASE t # s
    BY <1>1, <2>2 DEF SessionInv, OnlyCostsBeforeRun, Sessions
  <2> QED
    BY <2>1, <2>2
<1>7. ImportsLeaveManualCost'
  <2> SUFFICES ASSUME NEW t \in Importers, NEW p \in Positions
               PROVE  staged'[t][p]["manual_average_cost"] = Keep
    BY DEF ImportsLeaveManualCost
  <2>1. staged[t][p]["manual_average_cost"] = Keep
    BY DEF SessionInv, ImportsLeaveManualCost
  <2>2. CASE t = s
    BY <1>2, <2>1, <2>2 DEF Change, Columns
  <2>3. CASE t # s
    BY <1>1, <2>1, <2>3 DEF Sessions
  <2> QED
    BY <2>2, <2>3
<1>8. LocksAreHeldByWriters'
  <2> SUFFICES ASSUME NEW p \in Positions, lock[p] # Nobody
               PROVE  Active(lock[p])' /\ Dirty(lock[p], p)'
    BY DEF LocksAreHeldByWriters
  <2>1. lock[p] \in Sessions /\ Active(lock[p]) /\ Dirty(lock[p], p)
    BY DEF SessionInv, LocksAreHeldByWriters, TypeInv, TypeOK, JobTypeOK, StoreTypeOK
  <2>2. CASE lock[p] = s
    BY <1>1, <1>4, <2>1, <2>2 DEF Active, CleanStages
  <2>3. CASE lock[p] # s
    BY <1>1, <2>1, <2>3 DEF Active, Dirty
  <2> QED
    BY <2>2, <2>3
<1> QED
  BY <1>5, <1>6, <1>7, <1>8 DEF SessionInv

LEMMA Flushing ==
  ASSUME TypeInv, SessionInv, NEW s \in Sessions, FlushStep(s)
  PROVE  SessionInv'
<1>1. PICK p \in Positions : Flush(s, p)
  BY DEF FlushStep, FlushRow
<1>2. UNCHANGED <<staged, pc>> /\ Active(s)
  BY <1>1 DEF FlushStep, FlushRow, Flush, jobVars
<1>3. lock' = [lock EXCEPT ![p] = s] /\ Dirty(s, p)
  BY <1>1 DEF Flush
<1>4. LocksAreHeldByWriters'
  BY <1>2, <1>3 DEF SessionInv, LocksAreHeldByWriters, Active, Dirty, TypeInv, TypeOK, JobTypeOK, StoreTypeOK
<1> QED
  BY <1>2, <1>4 DEF SessionInv, StagesAreClean, OnlyCostsBeforeRun, ImportsLeaveManualCost, Dirty

-----------------------------------------------------------------------------
(* What the statements of each job stage.                                  *)

\* Setting a manual cost changes no other column than the costs.
LEMMA ManualCostLeavesBrokerColumns ==
  ASSUME NEW row \in Row, NEW v \in Int, NEW c \in BrokerColumns
  PROVE  ManuallyCosted(row, v)[c] = row[c]
BY DEF ManuallyCosted, WithEffectiveCost, Row, Columns, BrokerColumns

\* The broker's upsert does not touch the manual cost.
LEMMA BrokerUpsertLeavesManualCost ==
  ASSUME NEW row \in Row, NEW q \in Int, NEW v \in Int, NEW c \in Int
  PROVE  BrokerUpserted(row, q, v, c)["manual_average_cost"] = row["manual_average_cost"]
BY 1 \in Int DEF BrokerUpserted, WithEffectiveCost, Row, Columns

LEMMA ImportSessions ==
  ASSUME TypeInv, SessionInv, NEW s \in Importers,
         ImportProgress(s) \/ ImportFailure(s) \/ ImportError(s)
  PROVE  SessionInv'
<1>s. s \in Sessions /\ s \notin Refreshers
  BY StoreAssumption DEF Sessions
<1>t. /\ StoreTypeOK /\ pc \in [Sessions -> Stages]
      /\ statement \in [Importers -> Statements] /\ importedAt \in [Importers -> Int]
  BY DEF TypeInv, TypeOK, JobTypeOK, ImportTypeOK
<1> USE DEF GoTo
<1>1. CASE StartImport(s)
  BY <1>s, <1>1, EndingTransaction DEF StartImport, FinishRun, Stages
<1>2. CASE FetchStatement(s)
  BY <1>s, <1>2, MovingOn DEF FetchStatement, storeVars, CleanStages
<1>3. ASSUME NEW p \in Positions, UpsertLot(s, p)
      PROVE  SessionInv'
  <2> DEFINE lot == statement[s].lots[p]
             new == [q \in {p} |-> BrokerUpserted(Seen(s, p), lot.quantity, LotPrice(s, p), lot.cost)]
  <2>1. lot.quantity \in Int /\ lot.cost \in Int /\ LotPrice(s, p) \in Int
    BY <1>t, <1>3, LotsAssumption, 0 \in Int
       DEF UpsertLot, Mentioned, TypeInv, LoopsAreSound, LotPrice, NoPrice
  <2>2. Seen(s, p) \in Row
    BY <1>s, <1>t, SeenIsRow
  <2>3. ASSUME NEW q \in Positions \cap DOMAIN new
        PROVE  /\ new[q] \in Row
               /\ new[q]["manual_average_cost"] = Seen(s, q)["manual_average_cost"]
    <3>1. q = p /\ new[q] = BrokerUpserted(Seen(s, p), lot.quantity, LotPrice(s, p), lot.cost)
      BY <2>3
    <3> HIDE DEF new, lot
    <3>2. BrokerUpserted(Seen(s, p), lot.quantity, LotPrice(s, p), lot.cost) \in Row
      BY <2>1, <2>2, OperationsReturnRows
    <3>3. BrokerUpserted(Seen(s, p), lot.quantity, LotPrice(s, p), lot.cost)["manual_average_cost"]
            = Seen(s, p)["manual_average_cost"]
      BY <2>1, <2>2, BrokerUpsertLeavesManualCost
    <3> QED
      BY <3>1, <3>2, <3>3
  <2>4. Assign(s, new) /\ UNCHANGED <<pc, lock>> /\ pc[s] = "upsert"
    BY <1>3 DEF UpsertLot
  <2>5. pc' = [pc EXCEPT ![s] = "upsert"]
    BY <1>s, <1>t, <2>4
  <2>6. "upsert" \in Stages \ CleanStages
    BY DEF Stages, CleanStages
  <2> HIDE DEF new
  <2> QED
    BY <1>s, <2>3, <2>4, <2>5, <2>6, Staging
<1>4. CASE CloseMissing(s)
  <2> DEFINE missing == MissingFrom(s, statement[s].accounts, Mentioned(statement[s]))
             new == [p \in missing |-> [Seen(s, p) EXCEPT !["quantity"] = 0]]
  <2>1. \A q \in Positions \cap DOMAIN new : new[q] \in Row
    BY <1>s, <1>t, 0 \in Int, SeenIsRow, OperationsReturnRows
  <2>2. ASSUME NEW q \in Positions \cap DOMAIN new
        PROVE  new[q]["manual_average_cost"] = Seen(s, q)["manual_average_cost"]
    <3>1. Seen(s, q) \in Row
      BY <1>s, <1>t, SeenIsRow
    <3>2. new[q] = [Seen(s, q) EXCEPT !["quantity"] = 0]
      BY <2>2
    <3> QED
      BY <3>1, <3>2 DEF Row, Columns
  <2>3. Assign(s, new) /\ UNCHANGED lock /\ pc' = [pc EXCEPT ![s] = "commit"]
    BY <1>4 DEF CloseMissing
  <2>4. "commit" \in Stages \ CleanStages
    BY DEF Stages, CleanStages
  <2> HIDE DEF new
  <2> QED
    BY <1>s, <2>1, <2>2, <2>3, <2>4, Staging
<1>5. CASE CommitImport(s)
  BY <1>s, <1>5, EndingTransaction DEF CommitImport, FinishRun, Stages
<1>6. CASE RollbackFailed(s)
  BY <1>s, <1>6, EndingTransaction DEF RollbackFailed, Stages
<1>7. CASE RecordFailed(s)
  BY <1>s, <1>7, EndingTransaction DEF RecordFailed, FinishRun, Stages
<1>8. CASE ImportRaises(s)
  BY <1>s, <1>8, MovingOn DEF ImportRaises, storeVars, CleanStages
<1> QED
  BY <1>1, <1>2, <1>3, <1>4, <1>5, <1>6, <1>7, <1>8
     DEF ImportProgress, ImportFailure, ImportError

LEMMA RefreshSessions ==
  ASSUME TypeInv, SessionInv, NEW s \in Refreshers,
         RefreshProgress(s) \/ RefreshFailure(s) \/ RefreshError(s)
  PROVE  SessionInv'
<1>s. s \in Sessions /\ s \notin Importers
  BY StoreAssumption DEF Sessions
<1>t. StoreTypeOK /\ MemoryTypeOK /\ pc \in [Sessions -> Stages]
  BY RefreshTypeSplit DEF TypeInv, TypeOK, JobTypeOK
<1> USE DEF GoTo, storeVars, CleanStages
<1>1. CASE BeginRefresh(s)
  BY <1>s, <1>1, MovingOn DEF BeginRefresh
<1>2. CASE ReadInputs(s)
  BY <1>s, <1>2, MovingOn DEF ReadInputs
<1>3. CASE SkipInputs(s)
  BY <1>s, <1>3, MovingOn DEF SkipInputs
<1>4. ASSUME NEW p \in Positions, SetManualCost(s, p)
      PROVE  SessionInv'
  <2> DEFINE new == [q \in {p} |-> ManuallyCosted(Seen(s, p), inputs[s][p])]
  <2>1. inputs[s][p] \in Int /\ Seen(s, p) \in Row
    BY <1>s, <1>t, <1>4, SeenIsRow DEF SetManualCost, TypeInv, LoopsAreSound
  <2>2. \A q \in Positions \cap DOMAIN new : new[q] \in Row
    BY <2>1, OperationsReturnRows
  <2>3. \A q \in Positions \cap DOMAIN new, c \in BrokerColumns : new[q][c] = Seen(s, q)[c]
    BY <2>1, ManualCostLeavesBrokerColumns
  <2>4. Assign(s, new) /\ UNCHANGED <<pc, lock>> /\ pc[s] = "overrides"
    BY <1>4 DEF SetManualCost
  <2>5. pc' = [pc EXCEPT ![s] = "overrides"]
    BY <1>s, <1>t, <2>4
  <2>6. "overrides" \in Stages \ CleanStages
    BY DEF Stages
  <2> HIDE DEF new
  <2> QED
    BY <1>s, <2>2, <2>3, <2>4, <2>5, <2>6, Staging
<1>5. CASE ListAgain(s)
  BY <1>s, <1>5, MovingOn DEF ListAgain
<1>6. CASE StartMarketRun(s)
  BY <1>s, <1>6, EndingTransaction DEF StartMarketRun, FinishRun, Stages
<1>7. CASE FetchQuotes(s)
  BY <1>s, <1>7, MovingOn DEF FetchQuotes
<1>8. ASSUME NEW p \in Positions, QuotePosition(s, p)
      PROVE  SessionInv'
  <2>1. UNCHANGED <<staged, lock>> /\ pc[s] = "select"
    BY <1>8 DEF QuotePosition
  <2>2. pc' = pc \/ pc' = [pc EXCEPT ![s] = "write"]
    BY <1>8 DEF QuotePosition
  <2>3. pc' = [pc EXCEPT ![s] = "select"] \/ pc' = [pc EXCEPT ![s] = "write"]
    BY <1>s, <1>t, <2>1, <2>2
  <2> QED
    BY <1>s, <2>1, <2>3, MovingOn
<1>9. CASE WritePosition(s)
  <2> DEFINE new == [q \in {current[s]} |-> Upserted(local[s][q])]
  <2>1. \A q \in Positions \cap DOMAIN new : new[q] \in Row
    BY <1>t, 0 \in Int, OperationsReturnRows DEF MemoryTypeOK
  <2>2. Assign(s, new) /\ UNCHANGED lock /\ pc' = [pc EXCEPT ![s] = "select"]
    BY <1>9 DEF WritePosition
  <2>3. "select" \in Stages \ CleanStages
    BY DEF Stages
  <2> HIDE DEF new
  <2> QED
    BY <1>s, <2>1, <2>2, <2>3, Staging
<1>10. CASE PersistReview(s)
  BY <1>s, <1>10, MovingOn DEF PersistReview
<1>11. CASE CommitMarket(s)
  BY <1>s, <1>11, EndingTransaction DEF CommitMarket, FinishRun, Stages
<1>12. CASE StartNotionRun(s) \/ SyncReview(s) \/ FinishNotion(s) \/ FinishWithoutNotion(s)
            \/ StartNotionFails(s) \/ SyncFails(s)
  <2>1. UNCHANGED <<staged, lock>> /\ pc[s] \in CleanStages
    BY <1>12 DEF StartNotionRun, SyncReview, FinishNotion, FinishWithoutNotion,
                 StartNotionFails, SyncFails
  <2>2. \E stage \in {"sync", "synced", "done"} : pc' = [pc EXCEPT ![s] = stage]
    BY <1>12 DEF StartNotionRun, SyncReview, FinishNotion, FinishWithoutNotion,
                 StartNotionFails, SyncFails
  <2> QED
    BY <1>s, <2>1, <2>2, MovingOn
<1>13. ASSUME NEW p \in Positions, SyncPage(s, p)
       PROVE  SessionInv'
  <2>1. pc' = [pc EXCEPT ![s] = "sync"] /\ pc[s] = "sync" /\ UNCHANGED <<staged, lock>>
    BY <1>s, <1>t, <1>13 DEF SyncPage
  <2> QED
    BY <1>s, <2>1, MovingOn
<1>14. CASE FailsBeforeRun(s)
  BY <1>s, <1>14, EndingTransaction DEF FailsBeforeRun, Stages
<1>15. CASE RefreshRaises(s)
  BY <1>s, <1>15, MovingOn DEF RefreshRaises
<1>16. CASE RollbackRefresh(s)
  BY <1>s, <1>16, EndingTransaction DEF RollbackRefresh, RollbackFailed, Stages
<1>17. CASE RecordRefreshFailed(s)
  BY <1>s, <1>17, EndingTransaction DEF RecordRefreshFailed, RecordFailed, FinishRun, Stages
<1> QED
  BY <1>1, <1>2, <1>3, <1>4, <1>5, <1>6, <1>7, <1>8, <1>9, <1>10, <1>11, <1>12, <1>13,
     <1>14, <1>15, <1>16, <1>17
     DEF RefreshProgress, RefreshFailure, RefreshError

LEMMA NextSessions == TypeInv /\ SessionInv /\ [Next]_vars => SessionInv'
<1> SUFFICES ASSUME TypeInv, SessionInv, [Next]_vars PROVE SessionInv'
  OBVIOUS
<1>1. ASSUME NEW s \in Sessions, Crash(s)
      PROVE  SessionInv'
  BY <1>1, EndingTransaction DEF Crash, Stages
<1>2. CASE UNCHANGED <<staged, lock, pc>>
  BY <1>2 DEF SessionInv, StagesAreClean, OnlyCostsBeforeRun, ImportsLeaveManualCost,
              LocksAreHeldByWriters, Dirty, Active
<1>3. ASSUME NEW p \in Positions, NEW v \in OverrideValues, EditOverride(p, v)
      PROVE  SessionInv'
  BY <1>2, <1>3 DEF EditOverride, storeVars, jobVars
<1>4. CASE UNCHANGED vars
  BY <1>2, <1>4 DEF vars, storeVars, jobVars
<1> QED
  BY <1>1, <1>3, <1>4, ImportSessions, RefreshSessions, Flushing DEF Next

-----------------------------------------------------------------------------
(* What a step may record.                                                 *)

\* The records of one refresh fit its stage.
Recorded(stage, status, review) ==
  /\ stage \in {"enrich", "sync", "synced"} => status = "success"
  /\ status = "success" => stage \in {"enrich", "sync", "synced", "done", "crashed"}
  /\ review = "staged" => stage \in {"commit", "failing"}
  /\ stage = "commit" => review = "staged"
  /\ review = "committed" <=> status = "success"

LEMMA RecordedOf ==
  OutcomeInv => \A t \in Refreshers : Recorded(pc[t], runs[t], reviews[t])
BY DEF OutcomeInv, RefreshOutcome, ReviewIffSuccess, Recorded

\* An import records nothing in Notion, and success only when done.
LEMMA ImportRecords ==
  ASSUME TypeInv, OutcomeInv, NEW s \in Importers, NEW stage, NEW status,
         pc' = [pc EXCEPT ![s] = stage], runs' = [runs EXCEPT ![s] = status],
         UNCHANGED outsideRefresh,
         status = "success" => stage = "done"
  PROVE  OutcomeInv'
<1>1. /\ pc'[s] = stage /\ runs'[s] = status
      /\ \A t \in Sessions : t # s => pc'[t] = pc[t] /\ runs'[t] = runs[t]
  BY DEF TypeInv, TypeOK, JobTypeOK, Sessions
<1>2. \A t \in Refreshers : pc'[t] = pc[t] /\ runs'[t] = runs[t]
  BY <1>1, StoreAssumption DEF Sessions
<1>3. ImportOutcome'
  BY <1>1 DEF OutcomeInv, ImportOutcome, Sessions
<1>4. UNCHANGED <<reviews, pages, reviewPage, notionRuns>>
  BY DEF outsideRefresh, refreshVars, notionVars
<1>5. RefreshOutcome' /\ ReviewIffSuccess'
  BY <1>2, <1>4 DEF OutcomeInv, RefreshOutcome, ReviewIffSuccess
<1>6. NotionAfterCommit'
  BY <1>2, <1>4 DEF OutcomeInv, NotionAfterCommit
<1> QED
  BY <1>3, <1>5, <1>6 DEF OutcomeInv

\* A refresh that writes to Notion has succeeded, and no success is undone.
LEMMA RefreshRecords ==
  ASSUME TypeInv, OutcomeInv, NEW s \in Refreshers, NEW stage, NEW status,
         pc' = [pc EXCEPT ![s] = stage], runs' = [runs EXCEPT ![s] = status],
         Recorded(stage, status, reviews'[s]),
         \A t \in Refreshers : t # s => reviews'[t] = reviews[t] /\ notionRuns'[t] = notionRuns[t],
         reviewPage' \in {reviewPage, s},
         \A p \in Positions : pages'[p] \in {pages[p], s},
         runs[s] = "success" => status = "success",
         reviewPage' # reviewPage \/ notionRuns'[s] # notionRuns[s] \/ pages' # pages
           => status = "success"
  PROVE  OutcomeInv'
<1>1. /\ pc'[s] = stage /\ runs'[s] = status
      /\ \A t \in Sessions : t # s => pc'[t] = pc[t] /\ runs'[t] = runs[t]
  BY DEF TypeInv, TypeOK, JobTypeOK, Sessions
<1>2. \A t \in Refreshers : t # s => pc'[t] = pc[t] /\ runs'[t] = runs[t]
  BY <1>1 DEF Sessions
<1>3. ImportOutcome'
  <2>1. \A t \in Importers : t \in Sessions /\ t # s
    BY StoreAssumption DEF Sessions
  <2> QED
    BY <1>1, <2>1 DEF OutcomeInv, ImportOutcome
<1>4. RefreshOutcome' /\ ReviewIffSuccess'
  <2>1. ASSUME NEW t \in Refreshers
        PROVE  Recorded(pc'[t], runs'[t], reviews'[t])
    BY <1>1, <1>2, RecordedOf
  <2> QED
    BY <2>1 DEF RefreshOutcome, ReviewIffSuccess, Recorded
<1>5. NotionAfterCommit'
  <2> SUFFICES ASSUME NEW t \in Refreshers,
                      reviewPage' = t \/ notionRuns'[t] # "none"
                        \/ \E p \in Positions : pages'[p] = t
               PROVE  runs'[t] = "success" /\ reviews'[t] = "committed"
    BY DEF NotionAfterCommit
  <2>1. CASE t # s
    BY <1>2, <2>1 DEF OutcomeInv, NotionAfterCommit
  <2>2. CASE t = s
    <3>1. status = "success"
      BY <2>2 DEF OutcomeInv, NotionAfterCommit
    <3> QED
      BY <1>1, <2>2, <3>1 DEF Recorded
  <2> QED
    BY <2>1, <2>2
<1> QED
  BY <1>3, <1>4, <1>5 DEF OutcomeInv

LEMMA ImportOutcomes ==
  ASSUME TypeInv, OutcomeInv, NEW s \in Importers,
         ImportProgress(s) \/ ImportFailure(s) \/ ImportError(s)
  PROVE  OutcomeInv'
<1>s. s \in Sessions
  BY DEF Sessions
<1>t. pc \in [Sessions -> Stages] /\ runs \in [Sessions -> Statuses]
  BY DEF TypeInv, TypeOK, JobTypeOK
<1>u. UNCHANGED outsideRefresh
  BY DEF ImportProgress, ImportFailure, ImportError
<1>r. runs[s] = "success" => pc[s] = "done"
  BY DEF OutcomeInv, ImportOutcome
<1> USE DEF GoTo, FinishRun
<1>1. CASE StartImport(s)
  <2>1. pc' = [pc EXCEPT ![s] = "fetch"] /\ runs' = [runs EXCEPT ![s] = "running"]
    BY <1>1 DEF StartImport
  <2> QED
    BY <1>u, <2>1, ImportRecords
<1>2. CASE CommitImport(s)
  <2>1. pc' = [pc EXCEPT ![s] = "done"] /\ runs' = [runs EXCEPT ![s] = "success"]
    BY <1>2 DEF CommitImport
  <2> QED
    BY <1>u, <2>1, ImportRecords
<1>3. CASE RecordFailed(s)
  <2>1. pc' = [pc EXCEPT ![s] = "done"] /\ runs' = [runs EXCEPT ![s] = "failed"]
    BY <1>3 DEF RecordFailed
  <2> QED
    BY <1>u, <2>1, ImportRecords
<1>4. CASE FetchStatement(s) \/ CloseMissing(s) \/ RollbackFailed(s) \/ ImportRaises(s)
           \/ \E p \in Positions : UpsertLot(s, p)
  <2>1. UNCHANGED runs /\ pc[s] # "done"
    BY <1>4 DEF FetchStatement, CloseMissing, RollbackFailed, ImportRaises, UpsertLot
  <2>2. \E stage : pc' = [pc EXCEPT ![s] = stage]
    <3>1. pc = [pc EXCEPT ![s] = pc[s]]
      BY <1>s, <1>t
    <3> QED
      BY <1>4, <3>1 DEF FetchStatement, CloseMissing, RollbackFailed, ImportRaises, UpsertLot
  <2>3. runs' = [runs EXCEPT ![s] = runs[s]]
    BY <1>s, <1>t, <2>1
  <2>4. runs[s] # "success"
    BY <1>r, <2>1
  <2>5. PICK stage : pc' = [pc EXCEPT ![s] = stage]
    BY <2>2
  <2> QED
    BY <1>u, <2>3, <2>4, <2>5, ImportRecords
<1> QED
  BY <1>1, <1>2, <1>3, <1>4 DEF ImportProgress, ImportFailure, ImportError

\* Steps between the stages that record nothing: they leave the records as
\* they are and move to a stage the records fit.
LEMMA RefreshMoves ==
  ASSUME TypeInv, OutcomeInv, NEW s \in Refreshers, NEW stage,
         pc' = [pc EXCEPT ![s] = stage],
         UNCHANGED <<runs, reviews, pages, reviewPage, notionRuns>>,
         Recorded(stage, runs[s], reviews[s])
  PROVE  OutcomeInv'
<1>1. runs' = [runs EXCEPT ![s] = runs[s]]
  BY DEF TypeInv, TypeOK, JobTypeOK
<1> QED
  BY <1>1, RefreshRecords

LEMMA RefreshOutcomes ==
  ASSUME TypeInv, OutcomeInv, NEW s \in Refreshers,
         RefreshProgress(s) \/ RefreshFailure(s) \/ RefreshError(s)
  PROVE  OutcomeInv'
<1>s. s \in Sessions
  BY DEF Sessions
<1>t. /\ pc \in [Sessions -> Stages] /\ runs \in [Sessions -> Statuses]
      /\ reviews \in [Refreshers -> {"none", "staged", "committed"}]
      /\ notionRuns \in [Refreshers -> Statuses]
      /\ pages \in [Positions -> Refreshers \cup {Nobody}]
  BY DEF TypeInv, TypeOK, JobTypeOK, RefreshTypeOK
<1>r. Recorded(pc[s], runs[s], reviews[s])
  BY RecordedOf
<1> USE DEF GoTo, FinishRun, refreshVars, notionVars
<1>1. CASE \/ BeginRefresh(s) \/ ReadInputs(s) \/ SkipInputs(s) \/ ListAgain(s)
           \/ FetchQuotes(s) \/ WritePosition(s) \/ RefreshRaises(s) \/ FailsBeforeRun(s)
           \/ FinishWithoutNotion(s) \/ StartNotionFails(s)
  <2>1. UNCHANGED <<runs, reviews, pages, reviewPage, notionRuns>>
    BY <1>1 DEF BeginRefresh, ReadInputs, SkipInputs, ListAgain, FetchQuotes, WritePosition,
                RefreshRaises, FailsBeforeRun, FinishWithoutNotion, StartNotionFails
  <2>2. \E stage \in {"inputs", "overrides", "start", "select", "failing", "done"} :
          /\ pc' = [pc EXCEPT ![s] = stage]
          /\ pc[s] = "enrich" => stage = "done"
          /\ pc[s] = "commit" => stage = "failing"
          /\ pc[s] \in {"idle", "inputs", "overrides", "start", "fetch", "select", "write",
                       "commit", "enrich"}
    BY <1>1 DEF BeginRefresh, ReadInputs, SkipInputs, ListAgain, FetchQuotes, WritePosition,
                RefreshRaises, FailsBeforeRun, FinishWithoutNotion, StartNotionFails
  <2>3. ASSUME NEW stage \in {"inputs", "overrides", "start", "select", "failing", "done"},
               pc[s] = "enrich" => stage = "done",
               pc[s] = "commit" => stage = "failing",
               pc[s] \in {"idle", "inputs", "overrides", "start", "fetch", "select", "write",
                         "commit", "enrich"}
        PROVE  Recorded(stage, runs[s], reviews[s])
    BY <1>r, <2>3 DEF Recorded
  <2> QED
    BY <2>1, <2>2, <2>3, RefreshMoves
<1>2. CASE \E p \in Positions : SetManualCost(s, p) \/ QuotePosition(s, p)
  <2>1. UNCHANGED <<runs, reviews, pages, reviewPage, notionRuns>>
    BY <1>2 DEF SetManualCost, QuotePosition
  <2>2. \E stage \in {"overrides", "select", "write"} : pc' = [pc EXCEPT ![s] = stage]
    <3>1. pc = [pc EXCEPT ![s] = pc[s]]
      BY <1>s, <1>t
    <3>2. pc[s] \in {"overrides", "select"} /\ (pc' = pc \/ pc' = [pc EXCEPT ![s] = "write"])
      BY <1>2 DEF SetManualCost, QuotePosition
    <3> QED
      BY <3>1, <3>2
  <2>3. pc[s] \in {"overrides", "select"}
    BY <1>2 DEF SetManualCost, QuotePosition
  <2>4. \A stage \in {"overrides", "select", "write"} : Recorded(stage, runs[s], reviews[s])
    BY <1>r, <2>3 DEF Recorded
  <2> QED
    BY <2>1, <2>2, <2>4, RefreshMoves
<1>3. CASE StartMarketRun(s)
  <2>1. /\ pc[s] = "start" /\ pc' = [pc EXCEPT ![s] = "fetch"]
        /\ runs' = [runs EXCEPT ![s] = "running"]
        /\ UNCHANGED <<reviews, pages, reviewPage, notionRuns>>
    BY <1>3 DEF StartMarketRun
  <2>2. Recorded("fetch", "running", reviews[s]) /\ runs[s] # "success"
    BY <1>r, <2>1 DEF Recorded
  <2> QED
    BY <2>1, <2>2, RefreshRecords
<1>4. CASE PersistReview(s)
  <2>1. /\ pc[s] = "select" /\ pc' = [pc EXCEPT ![s] = "commit"]
        /\ reviews' = [reviews EXCEPT ![s] = "staged"]
        /\ UNCHANGED <<runs, pages, reviewPage, notionRuns>>
    BY <1>4 DEF PersistReview
  <2>2. runs' = [runs EXCEPT ![s] = runs[s]]
    BY <1>s, <1>t, <2>1
  <2>3. reviews'[s] = "staged" /\ \A t \in Refreshers : t # s => reviews'[t] = reviews[t]
    BY <1>t, <2>1
  <2>4. Recorded("commit", runs[s], reviews'[s])
    BY <1>r, <2>1, <2>3 DEF Recorded
  <2> QED
    BY <2>1, <2>2, <2>3, <2>4, RefreshRecords
<1>5. CASE CommitMarket(s)
  <2>1. /\ pc[s] = "commit" /\ pc' = [pc EXCEPT ![s] = "enrich"]
        /\ runs' = [runs EXCEPT ![s] = "success"]
        /\ reviews' = [reviews EXCEPT ![s] = IF @ = "staged" THEN "committed" ELSE @]
        /\ UNCHANGED <<pages, reviewPage, notionRuns>>
    BY <1>5 DEF CommitMarket, CommitReview
  <2>2. reviews[s] = "staged"
    BY <1>r, <2>1 DEF Recorded
  <2>3. reviews'[s] = "committed" /\ \A t \in Refreshers : t # s => reviews'[t] = reviews[t]
    BY <1>t, <2>1, <2>2
  <2>4. Recorded("enrich", "success", reviews'[s])
    BY <2>3 DEF Recorded
  <2> QED
    BY <2>1, <2>3, <2>4, RefreshRecords
<1>6. CASE StartNotionRun(s) \/ SyncReview(s) \/ FinishNotion(s) \/ SyncFails(s)
           \/ \E p \in Positions : SyncPage(s, p)
  <2>1. UNCHANGED <<runs, reviews>> /\ pc[s] \in {"enrich", "sync", "synced"}
    BY <1>6 DEF StartNotionRun, SyncReview, FinishNotion, SyncFails, SyncPage
  <2>2. \E stage \in {"sync", "synced", "done"} : pc' = [pc EXCEPT ![s] = stage]
    <3>1. CASE \E p \in Positions : SyncPage(s, p)
      <4>1. pc[s] = "sync" /\ pc' = pc
        BY <3>1 DEF SyncPage
      <4>2. pc' = [pc EXCEPT ![s] = "sync"]
        BY <1>s, <1>t, <4>1
      <4> QED
        BY <4>2
    <3> QED
      BY <1>6, <3>1 DEF StartNotionRun, SyncReview, FinishNotion, SyncFails
  <2>3. /\ reviewPage' \in {reviewPage, s}
        /\ \A p \in Positions : pages'[p] \in {pages[p], s}
        /\ \A t \in Refreshers : t # s => notionRuns'[t] = notionRuns[t]
    BY <1>6, <1>t DEF StartNotionRun, SyncReview, FinishNotion, SyncFails, SyncPage, NotionRun
  <2>4. runs[s] = "success"
    BY <1>r, <2>1 DEF Recorded
  <2>5. runs' = [runs EXCEPT ![s] = runs[s]]
    BY <1>s, <1>t, <2>1
  <2>6. \A stage \in {"sync", "synced", "done"} : Recorded(stage, runs[s], reviews'[s])
    BY <1>r, <2>1, <2>4 DEF Recorded
  <2> QED
    BY <2>1, <2>2, <2>3, <2>4, <2>5, <2>6, RefreshRecords
<1>7. CASE RollbackRefresh(s)
  <2>1. /\ pc[s] = "failing" /\ pc' = [pc EXCEPT ![s] = "rolled_back"]
        /\ reviews' = [reviews EXCEPT ![s] = "none"]
        /\ UNCHANGED <<runs, pages, reviewPage, notionRuns>>
    BY <1>7 DEF RollbackRefresh, RollbackFailed
  <2>2. runs' = [runs EXCEPT ![s] = runs[s]]
    BY <1>s, <1>t, <2>1
  <2>3. reviews'[s] = "none" /\ \A t \in Refreshers : t # s => reviews'[t] = reviews[t]
    BY <1>t, <2>1
  <2>4. Recorded("rolled_back", runs[s], reviews'[s])
    BY <1>r, <2>1, <2>3 DEF Recorded
  <2> QED
    BY <2>1, <2>2, <2>3, <2>4, RefreshRecords
<1>8. CASE RecordRefreshFailed(s)
  <2>1. /\ pc[s] = "rolled_back" /\ pc' = [pc EXCEPT ![s] = "done"]
        /\ runs' = [runs EXCEPT ![s] = "failed"]
        /\ reviews' = [reviews EXCEPT ![s] = IF @ = "staged" THEN "committed" ELSE @]
        /\ UNCHANGED <<pages, reviewPage, notionRuns>>
    BY <1>8 DEF RecordRefreshFailed, RecordFailed, CommitReview
  <2>2. runs[s] # "success" /\ reviews[s] = "none"
    BY <1>r, <1>t, <2>1 DEF Recorded
  <2>3. reviews'[s] = "none" /\ \A t \in Refreshers : t # s => reviews'[t] = reviews[t]
    BY <1>t, <2>1, <2>2
  <2>4. Recorded("done", "failed", reviews'[s])
    BY <2>3 DEF Recorded
  <2> QED
    BY <2>1, <2>2, <2>3, <2>4, RefreshRecords
<1> QED
  BY <1>1, <1>2, <1>3, <1>4, <1>5, <1>6, <1>7, <1>8
     DEF RefreshProgress, RefreshFailure, RefreshError

LEMMA CrashOutcomes ==
  ASSUME TypeInv, OutcomeInv, NEW s \in Sessions, Crash(s)
  PROVE  OutcomeInv'
<1>t. /\ pc \in [Sessions -> Stages] /\ runs \in [Sessions -> Statuses]
      /\ reviews \in [Refreshers -> {"none", "staged", "committed"}]
  BY DEF TypeInv, TypeOK, JobTypeOK, RefreshTypeOK
<1>1. /\ pc' = [pc EXCEPT ![s] = "crashed"] /\ UNCHANGED <<runs, pages, reviewPage, notionRuns>>
      /\ Active(s)
  BY DEF Crash, notionVars
<1>2. runs' = [runs EXCEPT ![s] = runs[s]]
  BY <1>t, <1>1
<1>3. CASE s \in Importers
  <2>1. UNCHANGED outsideRefresh
    BY <1>3 DEF Crash, outsideRefresh
  <2>2. runs[s] # "success"
    BY <1>1, <1>3 DEF OutcomeInv, ImportOutcome, Active
  <2> QED
    BY <1>1, <1>2, <1>3, <2>1, <2>2, ImportRecords
<1>4. CASE s \notin Importers
  <2>1. s \in Refreshers
    BY <1>4 DEF Sessions
  <2>2. reviews' = [reviews EXCEPT ![s] = IF @ = "staged" THEN "none" ELSE @]
    BY <1>4 DEF Crash
  <2>3. /\ reviews'[s] = IF reviews[s] = "staged" THEN "none" ELSE reviews[s]
        /\ \A t \in Refreshers : t # s => reviews'[t] = reviews[t]
    BY <1>t, <2>1, <2>2
  <2>4. Recorded("crashed", runs[s], reviews'[s])
    BY <2>1, <2>3, RecordedOf DEF Recorded
  <2> QED
    BY <1>1, <1>2, <2>1, <2>3, <2>4, RefreshRecords
<1> QED
  BY <1>3, <1>4

LEMMA NextOutcomes == TypeInv /\ OutcomeInv /\ [Next]_vars => OutcomeInv'
<1> SUFFICES ASSUME TypeInv, OutcomeInv, [Next]_vars PROVE OutcomeInv'
  OBVIOUS
<1>1. CASE UNCHANGED <<pc, runs, reviews, pages, reviewPage, notionRuns>>
  BY <1>1 DEF OutcomeInv, ImportOutcome, RefreshOutcome, ReviewIffSuccess, NotionAfterCommit
<1>2. ASSUME NEW s \in Sessions, FlushStep(s)
      PROVE  OutcomeInv'
  BY <1>1, <1>2 DEF FlushStep, FlushRow, jobVars, outsideRefresh, refreshVars, notionVars
<1>3. ASSUME NEW p \in Positions, NEW v \in OverrideValues, EditOverride(p, v)
      PROVE  OutcomeInv'
  BY <1>1, <1>3 DEF EditOverride, jobVars, refreshVars, notionVars
<1>4. CASE UNCHANGED vars
  BY <1>1, <1>4 DEF vars, jobVars, refreshVars, notionVars
<1> QED
  BY <1>2, <1>3, <1>4, ImportOutcomes, RefreshOutcomes, CrashOutcomes DEF Next

-----------------------------------------------------------------------------
LEMMA InitJobsInv == Init => JobsInv
<1> SUFFICES ASSUME Init PROVE JobsInv
  OBVIOUS
<1>1. SessionInv
  BY DEF Init, JobInit, StoreInit, SessionInv, StagesAreClean, OnlyCostsBeforeRun,
         ImportsLeaveManualCost, LocksAreHeldByWriters, Dirty, NoChange, Columns,
         BrokerColumns, Sessions
<1>2. OutcomeInv
  <2>1. Nobody \notin Refreshers
    BY StoreAssumption DEF Sessions
  <2> QED
    BY <2>1 DEF Init, JobInit, RefreshInit, OutcomeInv, ImportOutcome, RefreshOutcome,
                ReviewIffSuccess, NotionAfterCommit, Sessions
<1> QED
  BY <1>1, <1>2, InitTypes, JobsInvSplit

LEMMA NextJobsInv == JobsInv /\ [Next]_vars => JobsInv'
<1> SUFFICES ASSUME JobsInv, [Next]_vars PROVE JobsInv'
  OBVIOUS
<1>1. TypeInv' /\ SessionInv' /\ OutcomeInv'
  BY JobsInvSplit, NextTypes, NextSessions, NextOutcomes
<1> QED
  BY <1>1 DEF JobsInv, TypeInv, SessionInv, OutcomeInv

(***************************************************************************)
(* JobsInv holds of every behaviour.                                       *)
(***************************************************************************)
THEOREM JobsInvariance == Spec => []JobsInv
BY InitJobsInv, NextJobsInv, PTL DEF Spec

(***************************************************************************)
(* No job that has ended keeps a row locked, and every lock is held by a   *)
(* session with a change to that row still to commit.                      *)
(***************************************************************************)
THEOREM LocksHeldByWriters == Spec => []LocksAreHeldByWriters
<1>1. JobsInv => LocksAreHeldByWriters
  BY DEF JobsInv
<1> QED
  BY <1>1, JobsInvariance, PTL

(***************************************************************************)
(* The review of a refresh is committed if and only if its market run is a *)
(* success.                                                                *)
(***************************************************************************)
THEOREM ReviewWithSuccess == Spec => []ReviewIffSuccess
<1>1. JobsInv => ReviewIffSuccess
  BY DEF JobsInv
<1> QED
  BY <1>1, JobsInvariance, PTL

(***************************************************************************)
(* No refresh writes to Notion before its portfolio transaction commits.   *)
(***************************************************************************)
THEOREM NotionFollowsCommit == Spec => []NotionAfterCommit
<1>1. JobsInv => NotionAfterCommit
  BY DEF JobsInv
<1> QED
  BY <1>1, JobsInvariance, PTL

-----------------------------------------------------------------------------
(* Rows change only by commits.                                            *)

\* The commits that make a run a success, and the others: of a session with
\* nothing staged, or with costs only.
CommitStep(s) ==
  /\ CommitSession(s)
  /\ \A t \in Sessions : t # s => pc'[t] = pc[t]
  /\ \/ SucceedsNow(s)
     \/ pc[s] \in CleanStages
     \/ s \in Refreshers /\ pc[s] = "start"

LEMMA OnlyCommitsChangeRows ==
  ASSUME JobsInv, [Next]_vars
  PROVE  UNCHANGED rows \/ \E s \in Sessions : CommitStep(s)
<1>t. pc \in [Sessions -> Stages] /\ runs \in [Sessions -> Statuses]
  BY DEF JobsInv, TypeOK, JobTypeOK
<1> USE DEF GoTo, FinishRun, storeVars
<1>1. ASSUME NEW s \in Importers, ImportProgress(s) \/ ImportFailure(s) \/ ImportError(s)
      PROVE  UNCHANGED rows \/ CommitStep(s)
  <2>s. s \in Sessions
    BY DEF Sessions
  <2>1. CASE StartImport(s) \/ RecordFailed(s)
    <3>1. /\ CommitSession(s) /\ pc[s] \in CleanStages
          /\ \E stage : pc' = [pc EXCEPT ![s] = stage]
      BY <2>1 DEF StartImport, RecordFailed, CleanStages
    <3> QED
      BY <1>t, <3>1 DEF CommitStep
  <2>2. CASE CommitImport(s)
    <3>1. /\ CommitSession(s) /\ pc[s] = "commit" /\ pc' = [pc EXCEPT ![s] = "done"]
          /\ runs' = [runs EXCEPT ![s] = "success"]
      BY <2>2 DEF CommitImport
    <3>2. runs[s] # "success"
      BY <1>1, <3>1 DEF JobsInv, ImportOutcome
    <3> QED
      BY <1>t, <2>s, <3>1, <3>2 DEF CommitStep, SucceedsNow
  <2>3. CASE FetchStatement(s) \/ CloseMissing(s) \/ RollbackFailed(s) \/ ImportRaises(s)
             \/ \E p \in Positions : UpsertLot(s, p)
    BY <2>3 DEF FetchStatement, CloseMissing, RollbackFailed, RollbackSession, ImportRaises, UpsertLot
  <2> QED
    BY <1>1, <2>1, <2>2, <2>3 DEF ImportProgress, ImportFailure, ImportError
<1>2. ASSUME NEW s \in Refreshers, RefreshProgress(s) \/ RefreshFailure(s) \/ RefreshError(s)
      PROVE  UNCHANGED rows \/ CommitStep(s)
  <2>s. s \in Sessions
    BY DEF Sessions
  <2>1. CASE StartMarketRun(s)
    <3>1. /\ CommitSession(s) /\ pc[s] = "start" /\ pc' = [pc EXCEPT ![s] = "fetch"]
      BY <2>1 DEF StartMarketRun
    <3> QED
      BY <1>t, <1>2, <3>1 DEF CommitStep
  <2>2. CASE CommitMarket(s)
    <3>1. /\ CommitSession(s) /\ pc[s] = "commit" /\ pc' = [pc EXCEPT ![s] = "enrich"]
          /\ runs' = [runs EXCEPT ![s] = "success"]
      BY <2>2 DEF CommitMarket
    <3>2. runs[s] # "success"
      BY <1>2, <3>1 DEF JobsInv, RefreshOutcome
    <3> QED
      BY <1>t, <2>s, <3>1, <3>2 DEF CommitStep, SucceedsNow
  <2>3. CASE RecordRefreshFailed(s)
    <3>1. CommitSession(s) /\ pc[s] \in CleanStages /\ pc' = [pc EXCEPT ![s] = "done"]
      BY <2>3 DEF RecordRefreshFailed, RecordFailed, CleanStages
    <3> QED
      BY <1>t, <3>1 DEF CommitStep
  <2>4. CASE \/ BeginRefresh(s) \/ ReadInputs(s) \/ SkipInputs(s) \/ ListAgain(s)
             \/ \E p \in Positions : SetManualCost(s, p) \/ QuotePosition(s, p) \/ SyncPage(s, p)
             \/ FetchQuotes(s) \/ WritePosition(s) \/ PersistReview(s)
    BY <2>4 DEF BeginRefresh, ReadInputs, SkipInputs, ListAgain, SetManualCost, QuotePosition,
                SyncPage, FetchQuotes, WritePosition, PersistReview
  <2>5. CASE \/ StartNotionRun(s) \/ SyncReview(s) \/ FinishNotion(s) \/ FinishWithoutNotion(s)
             \/ FailsBeforeRun(s) \/ RefreshRaises(s) \/ SyncFails(s) \/ StartNotionFails(s)
             \/ RollbackRefresh(s)
    BY <2>5 DEF StartNotionRun, SyncReview, FinishNotion, FinishWithoutNotion, FailsBeforeRun,
                RefreshRaises, SyncFails, StartNotionFails, RollbackRefresh, RollbackFailed,
                RollbackSession
  <2> QED
    BY <1>2, <2>1, <2>2, <2>3, <2>4, <2>5 DEF RefreshProgress, RefreshFailure, RefreshError
<1>3. ASSUME NEW s \in Sessions, FlushStep(s) \/ Crash(s)
      PROVE  UNCHANGED rows
  BY <1>3 DEF FlushStep, FlushRow, Flush, Crash, RollbackSession
<1>4. ASSUME NEW p \in Positions, NEW v \in OverrideValues, EditOverride(p, v)
      PROVE  UNCHANGED rows
  BY <1>4 DEF EditOverride
<1>5. CASE UNCHANGED vars
  BY <1>5 DEF vars
<1> QED
  BY <1>1, <1>2, <1>3, <1>4, <1>5 DEF Next, Sessions

\* A column nothing is staged for keeps its committed value.
LEMMA CommitKeepsColumn ==
  ASSUME JobsInv, NEW s \in Sessions, CommitSession(s),
         NEW p \in Positions, NEW c \in Columns, staged[s][p][c] = Keep
  PROVE  rows'[p][c] = rows[p][c]
BY DEF CommitSession, Seen, Overlay

LEMMA CleanCommitKeepsRows ==
  ASSUME JobsInv, NEW s \in Sessions, CommitSession(s), pc[s] \in CleanStages,
         NEW p \in Positions, NEW c \in Columns
  PROVE  rows'[p][c] = rows[p][c]
<1>1. staged[s][p] = NoChange
  BY DEF JobsInv, StagesAreClean, Dirty
<1>2. staged[s][p][c] = Keep
  BY <1>1 DEF NoChange
<1> QED
  BY <1>2, CommitKeepsColumn

(***************************************************************************)
(* Quantities, prices and broker costs change only with the success of a   *)
(* run.                                                                    *)
(***************************************************************************)
THEOREM RowsChangeOnlyWithSuccess == Spec => RowsChangeWithSuccess
<1> DEFINE Changed == \E p \in Positions, c \in BrokerColumns : rows'[p][c] # rows[p][c]
           Success == \E s \in Sessions : SucceedsNow(s)
<1>1. ASSUME JobsInv, [Next]_vars, Changed
      PROVE  Success
  <2>1. PICK p \in Positions, c \in BrokerColumns : rows'[p][c] # rows[p][c]
    BY <1>1
  <2>2. c \in Columns
    BY DEF BrokerColumns, Columns
  <2>3. PICK s \in Sessions : CommitStep(s)
    BY <1>1, <2>1, OnlyCommitsChangeRows
  <2>4. pc[s] \notin CleanStages
    BY <1>1, <2>1, <2>2, <2>3, CleanCommitKeepsRows DEF CommitStep
  <2>5. ~(s \in Refreshers /\ pc[s] = "start")
    BY <1>1, <2>1, <2>2, <2>3, CommitKeepsColumn DEF CommitStep, JobsInv, OnlyCostsBeforeRun
  <2> QED
    BY <2>3, <2>4, <2>5 DEF CommitStep
<1>2. JobsInv /\ [Next]_vars => [Changed => Success]_vars
  BY <1>1
<1> QED
  BY <1>2, JobsInvariance, PTL DEF Spec, RowsChangeWithSuccess

(***************************************************************************)
(* No import ever changes a manual cost.                                   *)
(***************************************************************************)
THEOREM ImportsKeepOverrides == Spec => ImportKeepsOverride
<1> DEFINE Kept == \A s \in Importers : pc'[s] # pc[s] =>
                     \A p \in Positions :
                       rows'[p]["manual_average_cost"] = rows[p]["manual_average_cost"]
<1>1. ASSUME JobsInv, [Next]_vars PROVE Kept
  <2> SUFFICES ASSUME NEW s \in Importers, pc'[s] # pc[s], NEW p \in Positions
               PROVE  rows'[p]["manual_average_cost"] = rows[p]["manual_average_cost"]
    OBVIOUS
  <2>1. CASE UNCHANGED rows
    BY <2>1
  <2>2. CASE \E t \in Sessions : CommitStep(t)
    <3>1. PICK t \in Sessions : CommitStep(t)
      BY <2>2
    <3>2. t = s
      BY <3>1 DEF CommitStep, Sessions
    <3>3. staged[s][p]["manual_average_cost"] = Keep
      BY <1>1 DEF JobsInv, ImportsLeaveManualCost
    <3> QED
      BY <1>1, <3>1, <3>2, <3>3, CommitKeepsColumn DEF CommitStep, Columns
  <2> QED
    BY <1>1, <2>1, <2>2, OnlyCommitsChangeRows
<1>2. JobsInv /\ [Next]_vars => [Kept]_vars
  BY <1>1
<1> QED
  BY <1>2, JobsInvariance, PTL DEF Spec, ImportKeepsOverride
=============================================================================
