---------------------------- MODULE JobsInvariant ----------------------------
(***************************************************************************)
(* The inductive invariant of PortfolioJobs from which its safety          *)
(* properties follow: what a job still has to visit, what its session may  *)
(* have staged and what its runs and reviews say, at each of its stages.   *)
(***************************************************************************)
EXTENDS PortfolioJobs

\* A loop visits only rows its stage can handle.
LoopsAreSound ==
  /\ \A s \in Importers :
       pc[s] = "upsert" => todo[s] \subseteq Mentioned(statement[s])
  /\ \A s \in Refreshers :
       /\ pc[s] \in {"idle", "inputs"} => todo[s] = {}
       /\ pc[s] = "overrides" => \A p \in todo[s] : inputs[s][p] \in Int
       /\ pc[s] = "write" => current[s] \in Positions

\* Stages entered with nothing staged and in which nothing is.
CleanStages == {"idle", "inputs", "fetch", "enrich", "sync", "synced",
                "rolled_back", "done", "crashed"}

StagesAreClean ==
  \A s \in Sessions : pc[s] \in CleanStages => \A p \in Positions : ~Dirty(s, p)

\* Before its provider run a refresh stages costs and nothing else, and an
\* import never stages a manual cost.
OnlyCostsBeforeRun ==
  \A s \in Refreshers : pc[s] \in {"overrides", "start"} =>
    \A p \in Positions, c \in BrokerColumns : staged[s][p][c] = Keep

ImportsLeaveManualCost ==
  \A s \in Importers, p \in Positions : staged[s][p]["manual_average_cost"] = Keep

\* A run succeeds with the commit that ends the job, or the stages that
\* need it.
ImportOutcome ==
  \A s \in Importers : runs[s] = "success" => pc[s] = "done"

RefreshOutcome ==
  \A s \in Refreshers :
    /\ pc[s] \in {"enrich", "sync", "synced"} => runs[s] = "success"
    /\ runs[s] = "success" => pc[s] \in {"enrich", "sync", "synced", "done", "crashed"}
    /\ reviews[s] = "staged" => pc[s] \in {"commit", "failing"}
    /\ pc[s] = "commit" => reviews[s] = "staged"

(***************************************************************************)
(* What every job keeps, whatever the others do: its loops, its staged     *)
(* columns and its records fit its stage (refresh_and_sync.py:74-154,      *)
(* broker_import.py:67-246).                                               *)
(***************************************************************************)
JobsInv ==
  /\ TypeOK
  /\ LoopsAreSound
  /\ StagesAreClean
  /\ OnlyCostsBeforeRun
  /\ ImportsLeaveManualCost
  /\ ImportOutcome
  /\ RefreshOutcome
  /\ LocksAreHeldByWriters
  /\ ReviewIffSuccess
  /\ NotionAfterCommit
=============================================================================
