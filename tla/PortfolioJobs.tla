---------------------------- MODULE PortfolioJobs ----------------------------
(***************************************************************************)
(* Broker imports and refreshes over one database and one Notion           *)
(* workspace.  Each job runs in a session of its own: the API answers its  *)
(* requests from a thread pool, and the import commands run in processes   *)
(* of their own.                                                           *)
(***************************************************************************)
EXTENDS BrokerImport, RefreshAndSync

vars == <<storeVars, jobVars, importVars, refreshVars, override, notionVars>>

outsideRefresh == <<refreshVars, override, notionVars>>

Init ==
  /\ JobInit
  /\ ImportInit
  /\ RefreshInit

\* The process dies: PostgreSQL rolls its transaction back, and nobody
\* finishes its provider run.
Crash(s) ==
  /\ Active(s)
  /\ pc' = [pc EXCEPT ![s] = "crashed"]
  /\ RollbackSession(s)
  /\ Visit(s, {})
  /\ UNCHANGED <<runs, now, override, notionVars>>
  /\ IF s \in Importers
     THEN Forget(s) /\ UNCHANGED refreshVars
     ELSE /\ ForgetRefresh(s)
          /\ reviews' = [reviews EXCEPT ![s] = IF @ = "staged" THEN "none" ELSE @]
          /\ UNCHANGED importVars

ImportProgress(s) ==
  /\ \/ StartImport(s)
     \/ FetchStatement(s)
     \/ \E p \in Positions : UpsertLot(s, p)
     \/ CloseMissing(s)
     \/ CommitImport(s)
  /\ UNCHANGED outsideRefresh

ImportFailure(s) ==
  /\ \/ RollbackFailed(s)
     \/ RecordFailed(s)
  /\ UNCHANGED <<importVars, outsideRefresh>>

ImportError(s) == ImportRaises(s) /\ UNCHANGED outsideRefresh

RefreshProgress(s) ==
  /\ \/ BeginRefresh(s)
     \/ ReadInputs(s)
     \/ SkipInputs(s)
     \/ \E p \in Positions : SetManualCost(s, p)
     \/ ListAgain(s)
     \/ StartMarketRun(s)
     \/ FetchQuotes(s)
     \/ \E p \in Positions : QuotePosition(s, p)
     \/ WritePosition(s)
     \/ PersistReview(s)
     \/ CommitMarket(s)
     \/ StartNotionRun(s)
     \/ \E p \in Positions : SyncPage(s, p)
     \/ SyncReview(s)
     \/ FinishNotion(s)
     \/ FinishWithoutNotion(s)
  /\ UNCHANGED importVars

RefreshFailure(s) ==
  /\ RollbackRefresh(s) \/ RecordRefreshFailed(s)
  /\ UNCHANGED importVars

RefreshError(s) ==
  /\ FailsBeforeRun(s) \/ RefreshRaises(s) \/ SyncFails(s) \/ StartNotionFails(s)
  /\ UNCHANGED importVars

\* One autoflushed statement of any job.
FlushStep(s) == FlushRow(s) /\ UNCHANGED <<importVars, outsideRefresh>>

Next ==
  \/ \E s \in Importers : ImportProgress(s) \/ ImportFailure(s) \/ ImportError(s)
  \/ \E s \in Refreshers : RefreshProgress(s) \/ RefreshFailure(s) \/ RefreshError(s)
  \/ \E s \in Sessions : FlushStep(s) \/ Crash(s)
  \/ \E p \in Positions, v \in OverrideValues :
       EditOverride(p, v) /\ UNCHANGED importVars

Spec == Init /\ [][Next]_vars

(***************************************************************************)
(* A job that has begun keeps running, unless its process dies; a          *)
(* statement the database refuses raises.  Nothing obliges a job to begin, *)
(* a call to fail, or the user to edit.                                    *)
(***************************************************************************)
RunsOn(s) ==
  \/ FlushStep(s)
  \/ /\ Active(s)
     /\ \/ s \in Importers /\ (ImportProgress(s) \/ ImportFailure(s))
        \/ s \in Refreshers /\ (RefreshProgress(s) \/ RefreshFailure(s))
  \/ /\ Refused(s)
     /\ \/ s \in Importers /\ ImportError(s)
        \/ s \in Refreshers /\ RefreshError(s)

FairSpec == Spec /\ \A s \in Sessions : WF_vars(RunsOn(s))

-----------------------------------------------------------------------------
TypeOK == JobTypeOK /\ ImportTypeOK /\ RefreshTypeOK

(***************************************************************************)
(* A row's lock is held by the one session that has flushed a change of it *)
(* and not ended its transaction: no finished job leaves a row locked      *)
(* (except paths of both workflows, db/session.py).                        *)
(***************************************************************************)
LocksAreHeldByWriters ==
  \A p \in Positions :
    lock[p] # Nobody => Active(lock[p]) /\ Dirty(lock[p], p)

(***************************************************************************)
(* The review rows of a refresh are committed exactly when its market run  *)
(* is a success: a failed, crashed or unfinished refresh leaves none       *)
(* (refresh_and_sync.py:83-118).                                           *)
(***************************************************************************)
ReviewIffSuccess ==
  \A s \in Refreshers : reviews[s] = "committed" <=> runs[s] = "success"

(***************************************************************************)
(* A Notion page is only ever written by a refresh whose portfolio         *)
(* transaction is committed (backend/README.md:388-391).                   *)
(***************************************************************************)
NotionAfterCommit ==
  \A s \in Refreshers :
    (reviewPage = s \/ notionRuns[s] # "none" \/ \E p \in Positions : pages[p] = s)
      => runs[s] = "success" /\ reviews[s] = "committed"

(***************************************************************************)
(* Quantities, prices and broker costs reach the table only with the       *)
(* success of the run that wrote them; everything else of a failed job is  *)
(* rolled back.  Manual costs are the exception: they are committed with   *)
(* the RUNNING row (refresh_and_sync.py:77-85).                            *)
(***************************************************************************)
SucceedsNow(s) == runs[s] # "success" /\ runs'[s] = "success"

BrokerColumns == {"row_exists", "quantity", "latest_price", "broker_average_cost"}

RowsChangeWithSuccess ==
  [][ (\E p \in Positions, c \in BrokerColumns : rows'[p][c] # rows[p][c])
        => \E s \in Sessions : SucceedsNow(s) ]_vars

(***************************************************************************)
(* An import never touches a manual cost: only a refresh that read it in   *)
(* Notion sets or clears one, or one that writes back what it had read.    *)
(* "Re-importing IBKR data updates the broker value without clearing the   *)
(* override" (backend/README.md:228-229).                                  *)
(***************************************************************************)
ImportKeepsOverride ==
  [][ \A s \in Importers : pc'[s] # pc[s] =>
        \A p \in Positions :
          rows'[p]["manual_average_cost"] = rows[p]["manual_average_cost"] ]_vars

(***************************************************************************)
(* The effective cost of every position is its manual cost if it has one   *)
(* and the broker's otherwise (repositories.py:674-681,                    *)
(* backend/README.md:227-230).                                             *)
(***************************************************************************)
EffectiveCostIsCurrent ==
  \A p \in Positions : rows[p]["average_cost"] = EffectiveCost(rows[p])

(***************************************************************************)
(* Once an import has closed a position only an import opens it again      *)
(* (backend/README.md:215-216).                                            *)
(***************************************************************************)
ClosedStaysClosed ==
  [][ \A p \in Positions : ~IsOpen(rows[p]) /\ IsOpen(rows'[p])
        => \E s \in Importers : SucceedsNow(s) ]_vars

(***************************************************************************)
(* A committed import leaves in its accounts the quantities of its         *)
(* statement, and closes the positions the statement does not mention      *)
(* (broker_import.py:97-246, backend/README.md:215-216).                   *)
(***************************************************************************)
StatementQuantity(st, p) == IF st.lots[p] = NoLot THEN 0 ELSE st.lots[p].quantity

ImportsNow(s) == pc[s] = "commit" /\ SucceedsNow(s)

ImportAppliesStatement ==
  [][ \A s \in Importers : ImportsNow(s) =>
        \A p \in Positions :
          /\ AccountOf[p] \in statement[s].accounts
          /\ statement[s].lots[p] # Skipped
          => rows'[p]["quantity"] = StatementQuantity(statement[s], p) ]_vars

(***************************************************************************)
(* A position the broker's report holds is not closed because the importer *)
(* could not map its row: "An incomplete Flex response cannot close        *)
(* positions absent from that response"                                    *)
(* (docs/2026-07-15-real-portfolio-mvp-design-and-plan.md).                *)
(***************************************************************************)
SkippedStaysOpen ==
  [][ \A s \in Importers : ImportsNow(s) =>
        \A p \in Positions :
          statement[s].lots[p] = Skipped /\ IsOpen(rows[p]) => IsOpen(rows'[p]) ]_vars

(***************************************************************************)
(* A committed refresh leaves every open position with the newest price    *)
(* persisted for its instrument, whatever the provider answered, unless    *)
(* one left from another currency is as new: "Select the best valid quote, *)
(* falling back to the timestamped IBKR EOD mark"                          *)
(* (docs/2026-07-15-real-portfolio-mvp-design-and-plan.md:167,             *)
(* refresh_and_sync.py:245-276, selection.py:8-87).                        *)
(***************************************************************************)
RefreshesNow(s) == pc[s] = "commit" /\ SucceedsNow(s)

RefreshBringsNewestPrice ==
  [][ \A s \in Refreshers : RefreshesNow(s) =>
        \A p \in Positions :
          IsOpen(rows'[p]) /\ Foreign[InstrumentOf[p]] < prices'[InstrumentOf[p]] =>
            rows'[p]["latest_price"] = prices'[InstrumentOf[p]] ]_vars

(***************************************************************************)
(* Every job that has begun ends, whoever it waits for and whatever fails, *)
(* and one that ends in order leaves its import or market run not RUNNING. *)
(***************************************************************************)
JobsEnd ==
  \A s \in Sessions : Active(s) ~> (~Active(s) /\ (runs[s] = "running" => pc[s] = "crashed"))
=============================================================================
