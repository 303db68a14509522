----------------------------- MODULE FullRefresh -----------------------------
(***************************************************************************)
(* FullRefreshWorkflow (workflows/full_refresh.py): the two refresh        *)
(* buttons and the full refresh behind /analysis/refresh.  A request is    *)
(* admitted if the last attempt is old enough, records itself as the last  *)
(* attempt, runs its stages in order and, if all succeed, moves the labels *)
(* of the templates it queried.  The cooldown row and the labels are rows  *)
(* of `app_settings', each read and written in sessions of their own.      *)
(*                                                                         *)
(* A stage is the outcome of the import or refresh it calls, whose steps   *)
(* PortfolioJobs models.                                                   *)
(***************************************************************************)
EXTENDS Integers, FiniteSets

CONSTANTS
  Requests,       \* browser requests, each sent once
  MaxConcurrent,  \* requests the thread pool lets overlap
  Cooldown,       \* ibkr_flex_refresh_cooldown_seconds, in clock ticks
  MaxClock        \* bound of the clock

ASSUME RefreshConstants ==
  /\ MaxConcurrent \in Nat \ {0}
  /\ Cooldown \in Int
  /\ MaxClock \in Nat \ {0}
  /\ IsFiniteSet(Requests)

VARIABLES
  clock,
  settings,    \* app_settings: the timestamp of each key, NoTime if no row
  pc,          \* where each request stands
  kind,        \* which of the three buttons sent it
  now,         \* the time it read before its cooldown check
  seen,        \* the attempt row it read
  completedAt, \* the time it read after its last stage
  missing,     \* the label rows it did not find
  admitted,    \* history: requests whose attempt row was committed
  passed,      \* history: the stages of each request that succeeded
  overlapped   \* history: some request began while another ran

checkVars   == <<now, seen>>
successVars == <<completedAt, missing>>
historyVars == <<admitted, passed, overlapped>>
vars == <<clock, settings, pc, kind, checkVars, successVars, historyVars>>

NoTime    == 0
Times     == 0 .. MaxClock
Templates == {"positions", "history"}
Keys      == Templates \cup {"attempted", "completed"}
Kinds     == {"full"} \cup Templates

StagesOf(k) ==
  CASE k = "full"      -> {"positions", "history", "dashboard"}
    [] k = "positions" -> {"positions", "dashboard"}
    [] k = "history"   -> {"history"}

\* The stages run in this order.
Position(stage) ==
  CASE stage = "positions" -> 1 [] stage = "history" -> 2 [] stage = "dashboard" -> 3

FirstOf(stages) ==
  IF stages = {} THEN "record"
  ELSE CHOOSE x \in stages : \A y \in stages : Position(x) <= Position(y)

Running(r) == pc[r] \notin {"idle", "refused", "raised", "done", "crashed"}

GoTo(r, from, to) ==
  /\ pc[r] = from
  /\ pc' = [pc EXCEPT ![r] = to]

(***************************************************************************)
(* The cooldown                                                            *)
(***************************************************************************)
Begin(r, k) ==
  /\ Cardinality({q \in Requests : Running(q)}) < MaxConcurrent
  /\ kind' = [kind EXCEPT ![r] = k]
  /\ now' = [now EXCEPT ![r] = clock]
  /\ IF Cooldown <= 0
     THEN GoTo(r, "idle", FirstOf(StagesOf(k))) /\ admitted' = admitted \cup {r}
     ELSE GoTo(r, "idle", "check") /\ UNCHANGED admitted
  /\ overlapped' = (overlapped \/ \E q \in Requests : Running(q))
  /\ UNCHANGED <<clock, settings, seen, successVars, passed>>

\* Mutants: the comparison is off by one, either way.
TooSoon_Early(attempted, time) == attempted # NoTime /\ time - attempted < Cooldown - 1

TooSoon_Inclusive(attempted, time) == attempted # NoTime /\ time - attempted <= Cooldown

TooSoon(attempted, time) == attempted # NoTime /\ time - attempted < Cooldown

CheckCooldown(r) ==
  /\ seen' = [seen EXCEPT ![r] = settings["attempted"]]
  /\ GoTo(r, "check", IF TooSoon(settings["attempted"], now[r])
                      THEN "refused" ELSE "attempt")
  /\ UNCHANGED <<clock, settings, kind, now, successVars, historyVars>>

\* An INSERT fails if another request has inserted the row since.
RecordAttempt(r) ==
  /\ pc[r] = "attempt"
  /\ IF seen[r] = NoTime /\ settings["attempted"] # NoTime
     THEN /\ pc' = [pc EXCEPT ![r] = "raised"]
          /\ UNCHANGED <<settings, admitted>>
     ELSE /\ pc' = [pc EXCEPT ![r] = FirstOf(StagesOf(kind[r]))]
          /\ settings' = [settings EXCEPT !["attempted"] = now[r]]
          /\ admitted' = admitted \cup {r}
  /\ UNCHANGED <<clock, kind, checkVars, successVars, passed, overlapped>>

(***************************************************************************)
(* The stages: _import_positions, _import_history, _refresh_dashboard      *)
(***************************************************************************)
StageSucceeds(r, stage) ==
  /\ stage \in StagesOf(kind[r])
  /\ passed' = [passed EXCEPT ![r] = @ \cup {stage}]
  /\ GoTo(r, stage, FirstOf(StagesOf(kind[r]) \ passed'[r]))
  /\ UNCHANGED <<clock, settings, kind, checkVars, successVars, admitted, overlapped>>

\* FullRefreshError: no later stage runs.
StageRaises(r, stage) ==
  /\ GoTo(r, stage, "raised")
  /\ UNCHANGED <<clock, settings, kind, checkVars, successVars, historyVars>>

(***************************************************************************)
(* The labels                                                              *)
(***************************************************************************)
\* Mutant: every label moves.
Labels_Every(r) == Keys \ {"attempted"}

Labels(r) == {"completed"} \cup (StagesOf(kind[r]) \cap Templates)

ReadLabels(r) ==
  /\ GoTo(r, "record", IF Cooldown <= 0 THEN "done" ELSE "label")
  /\ completedAt' = [completedAt EXCEPT ![r] = clock]
  /\ missing' = [missing EXCEPT ![r] = {key \in Labels(r) : settings[key] = NoTime}]
  /\ UNCHANGED <<clock, settings, kind, checkVars, historyVars>>

RecordSuccess(r) ==
  /\ pc[r] = "label"
  /\ IF \E key \in missing[r] : settings[key] # NoTime
     THEN /\ pc' = [pc EXCEPT ![r] = "raised"]
          /\ UNCHANGED settings
     ELSE /\ pc' = [pc EXCEPT ![r] = "done"]
          /\ settings' = [key \in Keys |-> IF key \in Labels(r)
                                           THEN completedAt[r] ELSE settings[key]]
  /\ UNCHANGED <<clock, kind, checkVars, successVars, historyVars>>

\* The process dies, and every transaction it has not committed with it.
Crash(r) ==
  /\ Running(r)
  /\ pc' = [pc EXCEPT ![r] = "crashed"]
  /\ UNCHANGED <<clock, settings, kind, checkVars, successVars, historyVars>>

Tick ==
  /\ clock < MaxClock
  /\ clock' = clock + 1
  /\ UNCHANGED <<settings, pc, kind, checkVars, successVars, historyVars>>

Init ==
  /\ clock = 1
  /\ settings = [key \in Keys |-> NoTime]
  /\ pc = [r \in Requests |-> "idle"]
  /\ kind \in [Requests -> {"full"}]
  /\ now = [r \in Requests |-> NoTime]
  /\ seen = [r \in Requests |-> NoTime]
  /\ completedAt = [r \in Requests |-> NoTime]
  /\ missing = [r \in Requests |-> {}]
  /\ admitted = {}
  /\ passed = [r \in Requests |-> {}]
  /\ overlapped = FALSE

Next ==
  \/ \E r \in Requests :
       \/ \E k \in Kinds : Begin(r, k)
       \/ CheckCooldown(r)
       \/ RecordAttempt(r)
       \/ \E stage \in StagesOf("full") : StageSucceeds(r, stage) \/ StageRaises(r, stage)
       \/ ReadLabels(r)
       \/ RecordSuccess(r)
       \/ Crash(r)
  \/ Tick

Spec == Init /\ [][Next]_vars

-----------------------------------------------------------------------------
TypeOK ==
  /\ clock \in Times
  /\ settings \in [Keys -> Times]
  /\ pc \in [Requests -> {"idle", "check", "attempt", "positions", "history", "dashboard",
                          "record", "label", "refused", "raised", "done", "crashed"}]
  /\ kind \in [Requests -> Kinds]
  /\ now \in [Requests -> Times]
  /\ seen \in [Requests -> Times]
  /\ completedAt \in [Requests -> Times]
  /\ missing \in [Requests -> SUBSET Keys]
  /\ admitted \in SUBSET Requests
  /\ passed \in [Requests -> SUBSET StagesOf("full")]
  /\ overlapped \in BOOLEAN

(***************************************************************************)
(* Unless requests overlapped, any two let through to IBKR are at least    *)
(* the cooldown apart, whatever stage failed or crashed in between: the    *)
(* cooldown "blocks repeated ibkr calls"                                   *)
(* (tests/unit/test_full_refresh_workflow.py:267).                         *)
(***************************************************************************)
AttemptsAreSpaced ==
  \A q, r \in admitted :
    ~overlapped /\ q # r => now[q] - now[r] >= Cooldown \/ now[r] - now[q] >= Cooldown

(***************************************************************************)
(* A request is refused only for an attempt that was let through less than *)
(* the cooldown before it: a crashed or refused request, or one that lost  *)
(* the race for the row, holds nobody back (full_refresh.py:142-158).      *)
(***************************************************************************)
RefusedForAnAttempt ==
  \A r \in Requests : pc[r] = "refused" =>
    \E q \in admitted : now[r] - now[q] < Cooldown

(***************************************************************************)
(* A label is the completion time of a request all of whose stages         *)
(* succeeded and that queried the label's template, even when other        *)
(* requests fail, crash or write labels meanwhile (full_refresh.py:83-114, *)
(* 160-169).                                                               *)
(***************************************************************************)
LabelsAreEarned ==
  \A t \in Templates : settings[t] # NoTime =>
    \E r \in Requests : /\ completedAt[r] = settings[t]
                        /\ t \in passed[r]
                        /\ passed[r] = StagesOf(kind[r])
=============================================================================
