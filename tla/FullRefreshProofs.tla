-------------------------- MODULE FullRefreshProofs --------------------------
(***************************************************************************)
(* What the refresh buttons keep for any number of requests: labels are    *)
(* earned and refusals justified however requests overlap, and the         *)
(* cooldown spaces the queries when they do not.                           *)
(***************************************************************************)
EXTENDS FullRefresh, FiniteSetTheorems, TLAPS

Stages3 == {"positions", "history", "dashboard"}

LEMMA StagesOfKinds ==
  /\ StagesOf("full") = Stages3
  /\ \A k \in Kinds : StagesOf(k) \subseteq Stages3 /\ StagesOf(k) # {}
BY DEF StagesOf, Stages3, Kinds, Templates

\* FirstOf goes to recording exactly when no stage is left.
LEMMA FirstOfIsAStage ==
  ASSUME NEW S \in SUBSET Stages3, S # {}
  PROVE  FirstOf(S) \in S
<1>1. \E x \in S : \A y \in S : Position(x) <= Position(y)
  <2> USE DEF Position, Stages3
  <2>1. CASE "positions" \in S
    BY <2>1
  <2>2. CASE "positions" \notin S /\ "history" \in S
    BY <2>2
  <2>3. CASE "positions" \notin S /\ "history" \notin S
    BY <2>3
  <2> QED
    BY <2>1, <2>2, <2>3
<1> QED
  BY <1>1 DEF FirstOf

-----------------------------------------------------------------------------
(* The inductive invariant.                                                *)

\* What a request has passed fits its stage.
ProgressInv ==
  \A r \in Requests :
    /\ passed[r] \subseteq StagesOf(kind[r])
    /\ pc[r] \in {"idle", "check", "attempt", "refused"} => passed[r] = {}
    /\ pc[r] \in {"record", "label", "done"} => passed[r] = StagesOf(kind[r])

\* A label is that of a request that is done, and so stays what it is.
LabelInv ==
  \A t \in Templates : settings[t] # NoTime =>
    \E r \in Requests : /\ pc[r] = "done"
                        /\ completedAt[r] = settings[t]
                        /\ t \in passed[r]

\* The attempt row is the time of a request that was admitted.
AttemptInv ==
  /\ \A q \in admitted : pc[q] \notin {"idle", "check", "attempt", "refused"}
  /\ settings["attempted"] # NoTime => \E q \in admitted : now[q] = settings["attempted"]
  /\ RefusedForAnAttempt

RefreshInv == TypeOK /\ ProgressInv /\ LabelInv /\ AttemptInv

LEMMA InitRefreshInv == Init => RefreshInv
<1> SUFFICES ASSUME Init PROVE RefreshInv
  OBVIOUS
<1>1. 0 \in Times /\ 1 \in Times
  BY RefreshConstants DEF Times
<1>2. TypeOK
  BY <1>1 DEF Init, TypeOK, NoTime, Kinds
<1> QED
  BY <1>2 DEF Init, RefreshInv, ProgressInv, LabelInv, AttemptInv, RefusedForAnAttempt,
              Keys, Templates

\* A step of request r keeps the labels' and the attempts' witnesses if it
\* moves nobody else, and r only from a stage no witness is in.
LEMMA Moves ==
  ASSUME RefreshInv, NEW r \in Requests, Running(r) \/ pc[r] = "idle", NEW stage,
         pc' = [pc EXCEPT ![r] = stage], stage \notin {"idle", "refused"},
         UNCHANGED <<settings, admitted>>,
         \A q \in Requests : q # r =>
           now'[q] = now[q] /\ kind'[q] = kind[q] /\ completedAt'[q] = completedAt[q]
             /\ passed'[q] = passed[q],
         pc[r] # "idle" => now'[r] = now[r],
         r \in admitted => stage \notin {"check", "attempt"}
  PROVE  LabelInv' /\ AttemptInv'
<1>1. pc'[r] = stage /\ \A q \in Requests : q # r => pc'[q] = pc[q]
  BY DEF RefreshInv, TypeOK
<1>2. pc[r] # "done"
  BY DEF Running
<1>3. LabelInv'
  <2> SUFFICES ASSUME NEW t \in Templates, settings[t] # NoTime
               PROVE  \E q \in Requests : /\ pc'[q] = "done"
                                          /\ completedAt'[q] = settings[t]
                                          /\ t \in passed'[q]
    BY DEF LabelInv
  <2>1. PICK q \in Requests : pc[q] = "done" /\ completedAt[q] = settings[t] /\ t \in passed[q]
    BY DEF RefreshInv, LabelInv
  <2> QED
    BY <1>1, <1>2, <2>1
<1>4. \A q \in admitted : q \in Requests /\ now'[q] = now[q]
  BY DEF RefreshInv, AttemptInv, TypeOK
<1>5. \A q \in admitted' : pc'[q] \notin {"idle", "check", "attempt", "refused"}
  BY <1>1, <1>4 DEF RefreshInv, AttemptInv
<1>6. (settings["attempted"] # NoTime => \E q \in admitted : now[q] = settings["attempted"])'
  BY <1>4 DEF RefreshInv, AttemptInv
<1>7. RefusedForAnAttempt'
  BY <1>1, <1>4 DEF RefreshInv, AttemptInv, RefusedForAnAttempt
<1> QED
  BY <1>3, <1>5, <1>6, <1>7 DEF AttemptInv

LEMMA BeginKeeps ==
  ASSUME RefreshInv, NEW r \in Requests, NEW k \in Kinds, Begin(r, k)
  PROVE  RefreshInv'
<1>0. pc[r] = "idle" /\ passed[r] = {}
  BY DEF Begin, GoTo, RefreshInv, ProgressInv
<1>1. FirstOf(StagesOf(k)) \in Stages3
  BY StagesOfKinds, FirstOfIsAStage
<1>2. TypeOK'
  BY <1>1 DEF RefreshInv, TypeOK, Begin, GoTo, successVars, Stages3
<1>3. ProgressInv'
  BY <1>0, <1>1 DEF RefreshInv, TypeOK, ProgressInv, Begin, GoTo, Stages3
<1>4. CASE Cooldown > 0
  <2>1. /\ pc' = [pc EXCEPT ![r] = "check"]
        /\ UNCHANGED <<settings, admitted, passed, completedAt>>
        /\ r \notin admitted
    BY <1>0, <1>4, RefreshConstants DEF Begin, GoTo, successVars, RefreshInv, AttemptInv
  <2>2. \A q \in Requests : q # r => now'[q] = now[q] /\ kind'[q] = kind[q]
    BY DEF Begin, RefreshInv, TypeOK
  <2> QED
    BY <1>0, <1>2, <1>3, <2>1, <2>2, Moves DEF RefreshInv
<1>5. CASE Cooldown <= 0
  <2>1. /\ pc' = [pc EXCEPT ![r] = FirstOf(StagesOf(k))]
        /\ admitted' = admitted \cup {r}
        /\ now' = [now EXCEPT ![r] = clock]
        /\ UNCHANGED <<settings, passed, completedAt>>
    BY <1>5 DEF Begin, GoTo, successVars
  <2>2. r \notin admitted /\ \A q \in admitted : q \in Requests /\ now'[q] = now[q]
    BY <1>0, <2>1 DEF RefreshInv, AttemptInv, TypeOK
  <2>3. pc'[r] \in Stages3 /\ \A q \in Requests : q # r => pc'[q] = pc[q] /\ now'[q] = now[q]
    BY <1>1, <2>1 DEF RefreshInv, TypeOK
  <2>4. LabelInv'
    BY <1>0, <2>1, <2>3 DEF RefreshInv, LabelInv
  <2>5. AttemptInv'
    <3>1. \A q \in admitted' : pc'[q] \notin {"idle", "check", "attempt", "refused"}
      BY <2>1, <2>2, <2>3 DEF RefreshInv, AttemptInv, Stages3
    <3>2. (settings["attempted"] # NoTime => \E q \in admitted : now[q] = settings["attempted"])'
      BY <2>1, <2>2 DEF RefreshInv, AttemptInv
    <3>3. RefusedForAnAttempt'
      BY <2>1, <2>2, <2>3 DEF RefreshInv, AttemptInv, RefusedForAnAttempt, Stages3
    <3> QED
      BY <3>1, <3>2, <3>3 DEF AttemptInv
  <2> QED
    BY <1>2, <1>3, <2>4, <2>5 DEF RefreshInv
<1> QED
  BY <1>4, <1>5, RefreshConstants

LEMMA CheckKeeps ==
  ASSUME RefreshInv, NEW r \in Requests, CheckCooldown(r)
  PROVE  RefreshInv'
<1>0. /\ pc[r] = "check" /\ r \notin admitted
      /\ UNCHANGED <<settings, admitted, now, kind, completedAt, passed>>
  BY DEF CheckCooldown, GoTo, RefreshInv, AttemptInv, successVars, historyVars
<1>1. settings["attempted"] \in Times
  BY DEF RefreshInv, TypeOK, Keys
<1>2. TypeOK'
  BY <1>1 DEF RefreshInv, TypeOK, CheckCooldown, GoTo, successVars, historyVars
<1>3. ProgressInv'
  BY <1>0 DEF RefreshInv, TypeOK, ProgressInv, CheckCooldown, GoTo
<1>4. CASE ~TooSoon(settings["attempted"], now[r])
  <2>1. pc' = [pc EXCEPT ![r] = "attempt"]
    BY <1>4 DEF CheckCooldown, GoTo
  <2> QED
    BY <1>0, <1>2, <1>3, <2>1, Moves DEF RefreshInv, Running
<1>5. CASE TooSoon(settings["attempted"], now[r])
  <2>1. pc' = [pc EXCEPT ![r] = "refused"]
    BY <1>5 DEF CheckCooldown, GoTo
  <2>2. pc'[r] = "refused" /\ \A q \in Requests : q # r => pc'[q] = pc[q]
    BY <2>1 DEF RefreshInv, TypeOK
  <2>3. LabelInv'
    BY <1>0, <2>2 DEF RefreshInv, LabelInv
  <2>4. \E q \in admitted : now[r] - now[q] < Cooldown
    BY <1>5 DEF TooSoon, RefreshInv, AttemptInv
  <2>5. AttemptInv'
    BY <1>0, <2>2, <2>4 DEF RefreshInv, AttemptInv, RefusedForAnAttempt, TypeOK
  <2> QED
    BY <1>2, <1>3, <2>3, <2>5 DEF RefreshInv
<1> QED
  BY <1>4, <1>5

LEMMA RecordAttemptKeeps ==
  ASSUME RefreshInv, NEW r \in Requests, RecordAttempt(r)
  PROVE  RefreshInv'
<1>0. /\ pc[r] = "attempt" /\ r \notin admitted /\ passed[r] = {} /\ kind[r] \in Kinds
      /\ UNCHANGED <<clock, now, seen, kind, completedAt, missing, passed>>
  BY DEF RecordAttempt, RefreshInv, AttemptInv, ProgressInv, TypeOK, checkVars, successVars
<1>1. FirstOf(StagesOf(kind[r])) \in Stages3
  BY <1>0, StagesOfKinds, FirstOfIsAStage
<1>2. TypeOK'
  BY <1>0, <1>1 DEF RefreshInv, TypeOK, RecordAttempt, Stages3
<1>3. CASE seen[r] = NoTime /\ settings["attempted"] # NoTime
  <2>1. pc' = [pc EXCEPT ![r] = "raised"] /\ UNCHANGED <<settings, admitted>>
    BY <1>3 DEF RecordAttempt
  <2>2. ProgressInv'
    BY <1>0, <2>1 DEF RefreshInv, TypeOK, ProgressInv
  <2> QED
    BY <1>0, <1>2, <2>1, <2>2, Moves DEF RefreshInv, Running
<1>4. CASE ~(seen[r] = NoTime /\ settings["attempted"] # NoTime)
  <2>1. /\ pc' = [pc EXCEPT ![r] = FirstOf(StagesOf(kind[r]))]
        /\ settings' = [settings EXCEPT !["attempted"] = now[r]]
        /\ admitted' = admitted \cup {r}
    BY <1>4 DEF RecordAttempt
  <2>2. pc'[r] \in Stages3 /\ \A q \in Requests : q # r => pc'[q] = pc[q]
    BY <1>1, <2>1 DEF RefreshInv, TypeOK
  <2>3. \A t \in Templates : settings'[t] = settings[t]
    BY <2>1 DEF RefreshInv, TypeOK, Templates, Keys
  <2>4. settings'["attempted"] = now[r]
    BY <2>1 DEF RefreshInv, TypeOK, Keys
  <2>5. ProgressInv'
    BY <1>0, <2>2 DEF RefreshInv, ProgressInv, Stages3
  <2>6. LabelInv'
    BY <1>0, <2>2, <2>3 DEF RefreshInv, LabelInv
  <2>7. AttemptInv'
    <3>1. \A q \in admitted' : pc'[q] \notin {"idle", "check", "attempt", "refused"}
      BY <2>1, <2>2 DEF RefreshInv, AttemptInv, Stages3, TypeOK
    <3>2. (settings["attempted"] # NoTime => \E q \in admitted : now[q] = settings["attempted"])'
      BY <1>0, <2>1, <2>4
    <3>3. RefusedForAnAttempt'
      BY <1>0, <2>1, <2>2 DEF RefreshInv, AttemptInv, RefusedForAnAttempt, Stages3
    <3> QED
      BY <3>1, <3>2, <3>3 DEF AttemptInv
  <2> QED
    BY <1>2, <2>5, <2>6, <2>7 DEF RefreshInv
<1> QED
  BY <1>3, <1>4

LEMMA StageKeeps ==
  ASSUME RefreshInv, NEW r \in Requests, NEW stage \in Stages3,
         StageSucceeds(r, stage) \/ StageRaises(r, stage)
  PROVE  RefreshInv'
<1>0. pc[r] = stage /\ Running(r) /\ kind[r] \in Kinds
  BY DEF StageSucceeds, StageRaises, GoTo, Running, Stages3, RefreshInv, TypeOK
<1>1. CASE StageRaises(r, stage)
  <2>1. pc' = [pc EXCEPT ![r] = "raised"]
        /\ UNCHANGED <<clock, settings, kind, now, seen, completedAt, missing, admitted, passed, overlapped>>
    BY <1>1 DEF StageRaises, GoTo, checkVars, successVars, historyVars
  <2>2. TypeOK' /\ ProgressInv'
    BY <2>1 DEF RefreshInv, TypeOK, ProgressInv
  <2> QED
    BY <1>0, <2>1, <2>2, Moves DEF RefreshInv
<1>2. CASE StageSucceeds(r, stage)
  <2> DEFINE left == StagesOf(kind[r]) \ (passed[r] \cup {stage})
  <2>1. passed'[r] = passed[r] \cup {stage} /\ \A q \in Requests : q # r => passed'[q] = passed[q]
    BY <1>2 DEF StageSucceeds, RefreshInv, TypeOK
  <2>2. /\ pc' = [pc EXCEPT ![r] = FirstOf(left)]
        /\ UNCHANGED <<clock, settings, kind, now, seen, completedAt, missing, admitted, overlapped>>
        /\ stage \in StagesOf(kind[r])
    BY <1>2, <2>1 DEF StageSucceeds, GoTo, checkVars, successVars
  <2>3. left \in SUBSET Stages3
    BY <1>0, StagesOfKinds
  <2>4. \/ left = {} /\ FirstOf(left) = "record"
        \/ FirstOf(left) \in Stages3
    BY <2>3, FirstOfIsAStage DEF FirstOf
  <2>5. passed' \in [Requests -> SUBSET StagesOf("full")]
    BY <1>2, StagesOfKinds DEF StageSucceeds, RefreshInv, TypeOK
  <2> HIDE DEF left
  <2>7. TypeOK'
    BY <2>2, <2>4, <2>5 DEF RefreshInv, TypeOK, Stages3
  <2>8. ProgressInv'
    <3>1. pc'[r] = FirstOf(left) /\ \A q \in Requests : q # r => pc'[q] = pc[q]
      BY <2>2 DEF RefreshInv, TypeOK
    <3>2. passed[r] \subseteq Stages3
      BY StagesOfKinds DEF RefreshInv, TypeOK
    <3>3. FirstOf(left) = "record" => StagesOf(kind[r]) \subseteq passed'[r]
      BY <2>1, <2>4 DEF left, Stages3
    <3>4. passed'[r] \subseteq StagesOf(kind[r])
      BY <2>1, <2>2 DEF RefreshInv, ProgressInv
    <3> QED
      BY <2>1, <2>2, <2>4, <3>1, <3>3, <3>4 DEF RefreshInv, ProgressInv, Stages3
  <2> QED
    BY <1>0, <2>1, <2>2, <2>4, <2>7, <2>8, Moves DEF RefreshInv, Stages3
<1> QED
  BY <1>1, <1>2

LEMMA LabelsKeep ==
  ASSUME RefreshInv, NEW r \in Requests, ReadLabels(r) \/ RecordSuccess(r)
  PROVE  RefreshInv'
<1>0. Running(r) /\ passed[r] = StagesOf(kind[r])
  BY DEF ReadLabels, RecordSuccess, GoTo, Running, RefreshInv, ProgressInv
<1>1. CASE ReadLabels(r)
  <2>1. /\ pc[r] = "record" /\ \E stage \in {"done", "label"} : pc' = [pc EXCEPT ![r] = stage]
        /\ completedAt' = [completedAt EXCEPT ![r] = clock]
        /\ UNCHANGED <<clock, settings, kind, now, seen, admitted, passed, overlapped>>
    BY <1>1 DEF ReadLabels, GoTo, checkVars, historyVars
  <2>2. Labels(r) \subseteq Keys
    BY DEF Labels, Keys
  <2>3. missing' \in [Requests -> SUBSET Keys]
    BY <1>1, <2>2 DEF ReadLabels, RefreshInv, TypeOK
  <2>4. TypeOK' /\ ProgressInv'
    BY <1>0, <2>1, <2>3 DEF RefreshInv, TypeOK, ProgressInv
  <2>5. \A q \in Requests : q # r => completedAt'[q] = completedAt[q]
    BY <2>1 DEF RefreshInv, TypeOK
  <2> QED
    BY <1>0, <2>1, <2>4, <2>5, Moves DEF RefreshInv
<1>2. CASE RecordSuccess(r)
  <2>0. pc[r] = "label" /\ UNCHANGED <<clock, kind, now, seen, completedAt, missing, admitted, passed, overlapped>>
    BY <1>2 DEF RecordSuccess, checkVars, successVars, historyVars
  <2>1. CASE \E key \in missing[r] : settings[key] # NoTime
    <3>1. pc' = [pc EXCEPT ![r] = "raised"] /\ UNCHANGED settings
      BY <1>2, <2>1 DEF RecordSuccess
    <3>2. TypeOK' /\ ProgressInv'
      BY <2>0, <3>1 DEF RefreshInv, TypeOK, ProgressInv
    <3> QED
      BY <1>0, <2>0, <3>1, <3>2, Moves DEF RefreshInv
  <2>2. CASE ~\E key \in missing[r] : settings[key] # NoTime
    <3>1. /\ pc' = [pc EXCEPT ![r] = "done"]
          /\ settings' = [key \in Keys |-> IF key \in Labels(r) THEN completedAt[r] ELSE settings[key]]
      BY <1>2, <2>2 DEF RecordSuccess
    <3>2. pc'[r] = "done" /\ \A q \in Requests : q # r => pc'[q] = pc[q]
      BY <3>1 DEF RefreshInv, TypeOK
    <3>3. TypeOK' /\ ProgressInv'
      BY <1>0, <2>0, <3>1 DEF RefreshInv, TypeOK, ProgressInv
    <3>4. LabelInv'
      <4> SUFFICES ASSUME NEW t \in Templates, settings'[t] # NoTime
                   PROVE  \E q \in Requests : /\ pc'[q] = "done"
                                              /\ completedAt'[q] = settings'[t]
                                              /\ t \in passed'[q]
        BY DEF LabelInv
      <4>1. CASE t \in Labels(r)
        <5>1. t \in StagesOf(kind[r])
          BY <4>1 DEF Labels, Templates
        <5>2. settings'[t] = completedAt[r]
          BY <3>1, <4>1 DEF Keys
        <5> QED
          BY <1>0, <2>0, <3>2, <5>1, <5>2
      <4>2. CASE t \notin Labels(r)
        <5>1. settings'[t] = settings[t]
          BY <3>1, <4>2 DEF Keys
        <5> QED
          BY <2>0, <3>2, <5>1 DEF RefreshInv, LabelInv
      <4> QED
        BY <4>1, <4>2
    <3>5. AttemptInv'
      <4>1. settings'["attempted"] = settings["attempted"]
        BY <3>1 DEF Labels, Keys, Templates
      <4> QED
        BY <2>0, <3>2, <4>1 DEF RefreshInv, AttemptInv, RefusedForAnAttempt, TypeOK
    <3> QED
      BY <3>3, <3>4, <3>5 DEF RefreshInv
  <2> QED
    BY <2>1, <2>2
<1> QED
  BY <1>1, <1>2

LEMMA NextRefreshInv == RefreshInv /\ [Next]_vars => RefreshInv'
<1> SUFFICES ASSUME RefreshInv, [Next]_vars PROVE RefreshInv'
  OBVIOUS
<1>1. ASSUME NEW r \in Requests, Crash(r)
      PROVE  RefreshInv'
  <2>1. /\ Running(r) /\ pc' = [pc EXCEPT ![r] = "crashed"]
        /\ UNCHANGED <<clock, settings, kind, now, seen, completedAt, missing, admitted, passed, overlapped>>
    BY <1>1 DEF Crash, checkVars, successVars, historyVars
  <2>2. TypeOK' /\ ProgressInv'
    BY <2>1 DEF RefreshInv, TypeOK, ProgressInv
  <2> QED
    BY <2>1, <2>2, Moves DEF RefreshInv
<1>2. CASE Tick
  <2>1. clock' \in Times /\ UNCHANGED <<settings, pc, kind, now, seen, completedAt, missing, admitted, passed, overlapped>>
    BY <1>2, RefreshConstants DEF Tick, checkVars, successVars, historyVars, RefreshInv, TypeOK, Times
  <2> QED
    BY <2>1 DEF RefreshInv, TypeOK, ProgressInv, LabelInv, AttemptInv, RefusedForAnAttempt
<1>3. CASE UNCHANGED vars
  BY <1>3 DEF vars, checkVars, successVars, historyVars, RefreshInv, TypeOK, ProgressInv,
              LabelInv, AttemptInv, RefusedForAnAttempt
<1> QED
  BY <1>1, <1>2, <1>3, BeginKeeps, CheckKeeps, RecordAttemptKeeps, StageKeeps, LabelsKeep,
     StagesOfKinds DEF Next

(***************************************************************************)
(* Every setting, stage and timestamp stays in its type.                   *)
(***************************************************************************)
THEOREM ButtonsTypeCorrect == Spec => []TypeOK
<1>1. RefreshInv => TypeOK
  BY DEF RefreshInv
<1> QED
  BY <1>1, InitRefreshInv, NextRefreshInv, PTL DEF Spec

(***************************************************************************)
(* A label is always the completion time of a request that queried its     *)
(* template and whose every stage succeeded, whatever else fails, crashes  *)
(* or overlaps.                                                            *)
(***************************************************************************)
THEOREM LabelsEarned == Spec => []LabelsAreEarned
<1>1. RefreshInv => LabelsAreEarned
  BY DEF RefreshInv, LabelInv, ProgressInv, LabelsAreEarned
<1> QED
  BY <1>1, InitRefreshInv, NextRefreshInv, PTL DEF Spec

(***************************************************************************)
(* A request is only ever refused for one that was let through less than   *)
(* the cooldown before.                                                    *)
(***************************************************************************)
THEOREM RefusalsJustified == Spec => []RefusedForAnAttempt
<1>1. RefreshInv => RefusedForAnAttempt
  BY DEF RefreshInv, AttemptInv
<1> QED
  BY <1>1, InitRefreshInv, NextRefreshInv, PTL DEF Spec

-----------------------------------------------------------------------------
(* One request at a time.                                                  *)

OneRuns == \A q, r \in Requests : Running(q) /\ Running(r) => q = r

SpacingInv ==
  /\ clock >= 1
  /\ \A r \in Requests : pc[r] # "idle" => now[r] >= 1
  /\ OneRuns
  /\ \A q \in admitted : now[q] <= settings["attempted"] /\ settings["attempted"] # NoTime
  /\ \A r \in Requests :
       pc[r] = "attempt" /\ settings["attempted"] # NoTime
         => now[r] - settings["attempted"] >= Cooldown
  /\ AttemptsAreSpaced

LEMMA InitSpacing == Init => SpacingInv
BY DEF Init, SpacingInv, OneRuns, Running, AttemptsAreSpaced, NoTime, Keys, Templates

LEMMA NextSpacing ==
  ASSUME Cooldown > 0, RefreshInv, ~overlapped => SpacingInv, [Next]_vars, ~overlapped'
  PROVE  SpacingInv'
<1>o. ~overlapped
  BY DEF Next, Begin, CheckCooldown, RecordAttempt, StageSucceeds, StageRaises, ReadLabels,
         RecordSuccess, Crash, Tick, vars, historyVars, RefreshInv, TypeOK
<1>s. SpacingInv
  BY <1>o
<1> USE <1>o, <1>s
<1>t. /\ clock \in Nat /\ settings["attempted"] \in Nat /\ now \in [Requests -> Nat]
      /\ pc \in [Requests -> {"idle", "check", "attempt", "positions", "history", "dashboard",
                              "record", "label", "refused", "raised", "done", "crashed"}]
      /\ settings \in [Keys -> Times] /\ admitted \subseteq Requests /\ Cooldown \in Int
  BY RefreshConstants DEF RefreshInv, TypeOK, Times, Keys
<1>f. ASSUME NEW r \in Requests, NEW stage, pc[r] # "idle",
             pc' = [pc EXCEPT ![r] = stage], stage # "idle", Running(r),
             UNCHANGED <<clock, now, admitted>>, settings'["attempted"] = settings["attempted"],
             stage = "attempt" /\ settings["attempted"] # NoTime
               => now[r] - settings["attempted"] >= Cooldown
      PROVE  SpacingInv'
  <2>1. pc'[r] = stage /\ \A q \in Requests : q # r => pc'[q] = pc[q]
    BY <1>t, <1>f
  <2>2. OneRuns'
    BY <1>f, <2>1 DEF SpacingInv, OneRuns, Running
  <2> QED
    BY <1>f, <2>1, <2>2 DEF SpacingInv, AttemptsAreSpaced
<1>1. ASSUME NEW r \in Requests, NEW k \in Kinds, Begin(r, k)
      PROVE  SpacingInv'
  <2>1. /\ pc[r] = "idle" /\ pc' = [pc EXCEPT ![r] = "check"] /\ now' = [now EXCEPT ![r] = clock]
        /\ UNCHANGED <<clock, settings, admitted>>
    BY <1>1, <1>t DEF Begin, GoTo
  <2>2. \A q \in Requests : ~Running(q)
    BY <1>1 DEF Begin
  <2>3. /\ pc'[r] = "check" /\ now'[r] = clock
        /\ \A q \in Requests : q # r => pc'[q] = pc[q] /\ now'[q] = now[q]
    BY <1>t, <2>1
  <2>4. OneRuns'
    BY <2>2, <2>3 DEF OneRuns, Running
  <2>5. r \notin admitted
    BY <2>1 DEF RefreshInv, AttemptInv
  <2> QED
    BY <1>t, <2>1, <2>3, <2>4, <2>5 DEF SpacingInv, AttemptsAreSpaced
<1>2. ASSUME NEW r \in Requests, CheckCooldown(r)
      PROVE  SpacingInv'
  <2>1. /\ pc[r] = "check" /\ UNCHANGED <<clock, now, admitted, settings>>
        /\ pc' = [pc EXCEPT ![r] = IF TooSoon(settings["attempted"], now[r])
                                    THEN "refused" ELSE "attempt"]
    BY <1>2 DEF CheckCooldown, GoTo, historyVars
  <2>2. ~TooSoon(settings["attempted"], now[r]) /\ settings["attempted"] # NoTime
          => now[r] - settings["attempted"] >= Cooldown
    BY <1>t DEF TooSoon
  <2>3. Running(r)
    BY <2>1 DEF Running
  <2>4. CASE TooSoon(settings["attempted"], now[r])
    BY <1>f, <2>1, <2>3, <2>4
  <2>5. CASE ~TooSoon(settings["attempted"], now[r])
    BY <1>f, <2>1, <2>2, <2>3, <2>5
  <2> QED
    BY <2>4, <2>5
<1>3. ASSUME NEW r \in Requests, RecordAttempt(r)
      PROVE  SpacingInv'
  <2>0. pc[r] = "attempt" /\ Running(r) /\ UNCHANGED <<clock, now>> /\ kind[r] \in Kinds
    BY <1>3 DEF RecordAttempt, Running, checkVars, RefreshInv, TypeOK
  <2>1. CASE seen[r] = NoTime /\ settings["attempted"] # NoTime
    <3>1. pc' = [pc EXCEPT ![r] = "raised"] /\ UNCHANGED <<settings, admitted>>
      BY <1>3, <2>1 DEF RecordAttempt
    <3> QED
      BY <1>f, <2>0, <3>1
  <2>2. CASE ~(seen[r] = NoTime /\ settings["attempted"] # NoTime)
    <3>1. /\ pc' = [pc EXCEPT ![r] = FirstOf(StagesOf(kind[r]))]
          /\ settings' = [settings EXCEPT !["attempted"] = now[r]]
          /\ admitted' = admitted \cup {r}
      BY <1>3, <2>2 DEF RecordAttempt
    <3>2. FirstOf(StagesOf(kind[r])) \in Stages3
      BY <2>0, StagesOfKinds, FirstOfIsAStage
    <3>3. pc'[r] \in Stages3 /\ \A q \in Requests : q # r => pc'[q] = pc[q]
      BY <1>t, <3>1, <3>2
    <3>4. settings'["attempted"] = now[r]
      BY <1>t, <3>1 DEF Keys
    <3>5. OneRuns'
      BY <2>0, <3>3 DEF SpacingInv, OneRuns, Running
    <3>6. \A q \in Requests : pc'[q] # "attempt"
      BY <2>0, <3>3 DEF SpacingInv, OneRuns, Running, Stages3
    <3>7. \A q \in admitted : now[r] - now[q] >= Cooldown /\ now[q] \in Nat
      BY <1>t, <2>0 DEF SpacingInv
    <3>8. now[r] >= 1 /\ now[r] \in Nat
      BY <1>t, <2>0 DEF SpacingInv
    <3>9. AttemptsAreSpaced'
      BY <2>0, <3>1, <3>7 DEF SpacingInv, AttemptsAreSpaced
    <3>10. \A q \in admitted' : now'[q] <= settings'["attempted"] /\ settings'["attempted"] # NoTime
      <4>1. \A q \in admitted : now[q] <= now[r]
        BY <1>t, <3>7, <3>8
      <4> QED
        BY <2>0, <3>1, <3>4, <3>8, <4>1 DEF NoTime
    <3>11. clock' >= 1 /\ \A q \in Requests : pc'[q] # "idle" => now'[q] >= 1
      BY <2>0, <3>3, <3>8 DEF SpacingInv
    <3> QED
      BY <3>5, <3>6, <3>9, <3>10, <3>11 DEF SpacingInv
  <2> QED
    BY <2>1, <2>2
<1>4. ASSUME NEW r \in Requests, NEW stage \in StagesOf("full"),
             StageSucceeds(r, stage) \/ StageRaises(r, stage)
      PROVE  SpacingInv'
  <2>1. stage \in Stages3 /\ pc[r] = stage /\ UNCHANGED <<clock, now, admitted, settings>>
    BY <1>4, StagesOfKinds DEF StageSucceeds, StageRaises, GoTo, checkVars, historyVars
  <2>2. PICK to : to \in Stages3 \cup {"record", "raised"} /\ pc' = [pc EXCEPT ![r] = to]
    <3>1. CASE StageRaises(r, stage)
      BY <3>1 DEF StageRaises, GoTo
    <3>2. CASE StageSucceeds(r, stage)
      <4>1. StagesOf(kind[r]) \ passed'[r] \in SUBSET Stages3
        BY StagesOfKinds DEF RefreshInv, TypeOK
      <4>2. FirstOf(StagesOf(kind[r]) \ passed'[r]) \in Stages3 \cup {"record"}
        BY <4>1, FirstOfIsAStage DEF FirstOf
      <4> QED
        BY <3>2, <4>2 DEF StageSucceeds, GoTo
    <3> QED
      BY <1>4, <3>1, <3>2
  <2>3. Running(r) /\ to # "idle" /\ to # "attempt" /\ pc[r] # "idle"
    BY <2>1, <2>2 DEF Running, Stages3
  <2> QED
    BY <1>f, <2>1, <2>2, <2>3
<1>5. ASSUME NEW r \in Requests, ReadLabels(r) \/ RecordSuccess(r) \/ Crash(r)
      PROVE  SpacingInv'
  <2>1. /\ Running(r) /\ pc[r] # "idle" /\ UNCHANGED <<clock, now, admitted>>
        /\ \E to \in {"done", "label", "raised", "crashed"} : pc' = [pc EXCEPT ![r] = to]
    BY <1>5, <1>t DEF ReadLabels, RecordSuccess, Crash, GoTo, Running, checkVars, historyVars
  <2>2. settings'["attempted"] = settings["attempted"]
    BY <1>5 DEF ReadLabels, RecordSuccess, Crash, Labels, Keys, Templates
  <2> QED
    BY <1>f, <2>1, <2>2
<1>6. CASE Tick
  <2>1. clock' >= 1 /\ UNCHANGED <<settings, pc, now, admitted>>
    BY <1>6, <1>t DEF Tick, checkVars, historyVars, SpacingInv
  <2> QED
    BY <2>1 DEF SpacingInv, OneRuns, Running, AttemptsAreSpaced
<1>7. CASE UNCHANGED vars
  BY <1>7 DEF vars, checkVars, historyVars, SpacingInv, OneRuns, Running, AttemptsAreSpaced
<1> QED
  BY <1>1, <1>2, <1>3, <1>4, <1>5, <1>6, <1>7 DEF Next

(***************************************************************************)
(* When requests do not overlap, the requests that reach IBKR are at least *)
(* the cooldown apart, whatever failed or crashed between them.            *)
(***************************************************************************)
THEOREM SerialAttemptsSpaced ==
  Spec => []AttemptsAreSpaced
<1>1. CASE Cooldown > 0
  <2> DEFINE Inv == RefreshInv /\ (~overlapped => SpacingInv)
  <2>1. Init => Inv
    BY InitRefreshInv, InitSpacing
  <2>2. Inv /\ [Next]_vars => Inv'
    BY <1>1, NextRefreshInv, NextSpacing
  <2>3. Inv => AttemptsAreSpaced
    BY DEF SpacingInv, AttemptsAreSpaced
  <2> QED
    BY <2>1, <2>2, <2>3, PTL DEF Spec
<1>2. CASE Cooldown <= 0
  <2>1. RefreshInv => AttemptsAreSpaced
    BY <1>2, RefreshConstants DEF RefreshInv, TypeOK, Times, AttemptsAreSpaced
  <2> QED
    BY <2>1, InitRefreshInv, NextRefreshInv, PTL DEF Spec
<1> QED
  BY <1>1, <1>2, RefreshConstants
=============================================================================
