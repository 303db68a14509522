----------------------------- MODULE ProviderRuns -----------------------------
(***************************************************************************)
(* A job over the position store: the session it owns, where its program   *)
(* stands, and the `provider_runs' row that records its outcome.  The row  *)
(* is inserted as RUNNING and committed before the job's first remote      *)
(* call, and finished in the transaction that ends the job.  Broker        *)
(* imports and refreshes share these steps.                                *)
(***************************************************************************)
EXTENDS PositionStore

CONSTANT MaxConcurrentJobs  \* jobs the deployment lets overlap

ASSUME JobsAssumption == MaxConcurrentJobs \in Nat \ {0}

VARIABLES
  runs,  \* status of each job's provider run
  now    \* the clock, advanced when an observation is stamped

jobVars == <<pc, todo, runs, now>>

\* Where a job stands: an import fetches, upserts and commits; a refresh
\* goes through the stages of its `run' method.
Stages == {"idle", "inputs", "overrides", "start", "fetch", "upsert", "select",
           "write", "commit", "enrich", "sync", "synced", "failing",
           "rolled_back", "done", "crashed"}

Statuses == {"none", "running", "success", "failed"}

\* A job between its first statement and its last.
Active(s) == pc[s] \notin {"idle", "done", "crashed"}

MayBegin(s) ==
  /\ pc[s] = "idle"
  /\ Cardinality({t \in Sessions : Active(t)}) < MaxConcurrentJobs

GoTo(s, from, to) ==
  /\ pc[s] = from
  /\ pc' = [pc EXCEPT ![s] = to]

Visit(s, set) == todo' = [todo EXCEPT ![s] = set]

\* The rows a commit of session s leaves are the run's result.
FinishRun(s, status) ==
  /\ runs' = [runs EXCEPT ![s] = status]
  /\ CommitSession(s)

\* Mutant: the except branch does not roll back.
RollbackFailed_Skipped(s) ==
  /\ GoTo(s, "failing", "rolled_back")
  /\ UNCHANGED <<storeVars, todo, runs, now>>

\* The except branch: what the job staged is rolled back ...
RollbackFailed(s) ==
  /\ GoTo(s, "failing", "rolled_back")
  /\ RollbackSession(s)
  /\ UNCHANGED <<todo, runs, now>>

\* ... and the run is recorded as failed by a transaction of its own.
RecordFailed(s) ==
  /\ GoTo(s, "rolled_back", "done")
  /\ FinishRun(s, "failed")
  /\ Visit(s, {})
  /\ UNCHANGED now

\* A statement the database refuses: a colliding INSERT, or the victim of
\* a deadlock.
Refused(s) ==
  \/ Deadlocked(s)
  \/ \E p \in Positions : /\ Dirty(s, p)
                          /\ lock[p] = Nobody
                          /\ InsertCollides(s, p)

FlushRow(s) ==
  /\ Active(s)
  /\ \E p \in Positions : Flush(s, p)
  /\ UNCHANGED jobVars

JobTypeOK ==
  /\ StoreTypeOK
  /\ pc \in [Sessions -> Stages]
  /\ runs \in [Sessions -> Statuses]
  /\ todo \in [Sessions -> SUBSET Positions]
  /\ now \in Nat

\* The clock starts at the newest observation on file.
JobInit ==
  /\ StoreInit
  /\ pc = [s \in Sessions |-> "idle"]
  /\ todo = [s \in Sessions |-> {}]
  /\ runs = [s \in Sessions |-> "none"]
  /\ now \in {1} \cup {Foreign[i] : i \in Instruments}
  /\ \A i \in Instruments : now >= 1 /\ now >= Foreign[i]
=============================================================================
