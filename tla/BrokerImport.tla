----------------------------- MODULE BrokerImport -----------------------------
(***************************************************************************)
(* BrokerImportWorkflow (workflows/broker_import.py): a broker statement   *)
(* is fetched, every position of it is upserted, the open positions of the *)
(* imported accounts that it does not mention are closed, and all of it is *)
(* committed at once together with the run's success.                      *)
(*                                                                         *)
(* Ledger rows (transactions, reconciliations, default mappings) are       *)
(* written in the same transaction between the last close and the commit;  *)
(* they touch no row of this model and are part of the commit step.        *)
(***************************************************************************)
EXTENDS ProviderRuns

CONSTANTS
  Lots,   \* what a statement may say of a position:
          \* [quantity |-> Int, priced |-> BOOLEAN, cost |-> Int]
  NoLot,  \* the statement does not mention the position
  Skipped \* it does, in a row the connector cannot map and leaves out

ASSUME LotsAssumption ==
  /\ \A lot \in Lots : /\ lot.quantity \in Int
                       /\ lot.priced \in BOOLEAN
                       /\ lot.cost \in Int
  /\ {NoLot, Skipped} \cap Lots = {}
  /\ NoLot # Skipped

VARIABLES
  statement,  \* the statement an import holds, with accounts_by_id
  importedAt  \* the time it stamps its prices with

importVars == <<statement, importedAt>>

Statements == [accounts : SUBSET Accounts, lots : [Positions -> Lots \cup {NoLot, Skipped}]]

NoStatement == [accounts |-> {}, lots |-> [p \in Positions |-> NoLot]]

\* The positions the connector returns: skipped rows are only counted.
Mentioned(st) == {p \in Positions : st.lots[p] \in Lots}

\* accounts_by_id: those the connector lists and those of its positions.
ImportedAccounts(st) == st.accounts \cup {AccountOf[p] : p \in Mentioned(st)}

\* The RUNNING row is committed before the connector is called.
StartImport(s) ==
  /\ MayBegin(s)
  /\ GoTo(s, "idle", "fetch")
  /\ FinishRun(s, "running")
  /\ UNCHANGED <<todo, now, importVars>>

FetchStatement(s) ==
  /\ GoTo(s, "fetch", "upsert")
  /\ \E st \in Statements :
       /\ Mentioned(st) # {} \/ st.accounts # {}
       /\ statement' = [statement EXCEPT ![s] =
                          [st EXCEPT !.accounts = ImportedAccounts(st)]]
       /\ Visit(s, Mentioned(st))
  /\ now' = now + 1
  /\ importedAt' = [importedAt EXCEPT ![s] = now + 1]
  /\ UNCHANGED <<storeVars, runs>>

\* upsert_broker_position of one lot; the SELECT that loads the row flushes
\* the row before it.
LotPrice(s, p) == IF statement[s].lots[p].priced THEN importedAt[s] ELSE NoPrice

UpsertLot(s, p) ==
  /\ pc[s] = "upsert"
  /\ p \in todo[s]
  /\ Flushed(s)
  /\ LET lot == statement[s].lots[p] IN
       Assign(s, [q \in {p} |->
                    BrokerUpserted(Seen(s, p), lot.quantity, LotPrice(s, p), lot.cost)])
  /\ Visit(s, todo[s] \ {p})
  /\ UNCHANGED <<rows, lock, prices, newPrices, pc, runs, now, importVars>>

\* Price points of the priced lots, then the close of what is missing: one
\* SELECT of the open rows and no query until the next table.
PricedInstruments(s) ==
  {InstrumentOf[p] : p \in {q \in Mentioned(statement[s]) : statement[s].lots[q].priced}}

CloseMissing(s) ==
  /\ GoTo(s, "upsert", "commit")
  /\ todo[s] = {}
  /\ Flushed(s)
  /\ newPrices' = [newPrices EXCEPT ![s] =
                     [i \in Instruments |-> IF i \in PricedInstruments(s)
                                            THEN importedAt[s] ELSE NoPrice]]
  /\ LET st      == statement[s]
         missing == MissingFrom(s, st.accounts, Mentioned(st))
     IN  Assign(s, [p \in missing |-> [Seen(s, p) EXCEPT !["quantity"] = 0]])
  /\ UNCHANGED <<rows, lock, prices, todo, runs, now, importVars>>

\* The session ends with the job and its objects with it.
Forget(s) ==
  /\ statement' = [statement EXCEPT ![s] = NoStatement]
  /\ importedAt' = [importedAt EXCEPT ![s] = NoPrice]

CommitImport(s) ==
  /\ GoTo(s, "commit", "done")
  /\ FinishRun(s, "success")
  /\ Forget(s)
  /\ UNCHANGED <<todo, now>>

\* Mutant: a failed import ends without recording its failure.
ImportRaises_Unrecorded(s) ==
  /\ pc[s] \in {"fetch", "upsert", "commit"}
  /\ pc' = [pc EXCEPT ![s] = "done"]
  /\ Forget(s)
  /\ RollbackSession(s)
  /\ UNCHANGED <<todo, runs, now>>

\* The connector raises, returns nothing, or a statement or the commit fails.
ImportRaises(s) ==
  /\ pc[s] \in {"fetch", "upsert", "commit"}
  /\ pc' = [pc EXCEPT ![s] = "failing"]
  /\ Forget(s)
  /\ UNCHANGED <<storeVars, todo, runs, now>>

ImportTypeOK ==
  /\ statement \in [Importers -> Statements]
  /\ importedAt \in [Importers -> Int]

ImportInit ==
  /\ statement = [s \in Importers |-> NoStatement]
  /\ importedAt = [s \in Importers |-> NoPrice]
=============================================================================
