--------------------------- MODULE BrokerConnectors ---------------------------
(***************************************************************************)
(* The two connectors of brokers/: how an import gets its answers.         *)
(*                                                                         *)
(* IbkrFlexConnector requests a report, polls for it a bounded number of   *)
(* times and answers every question of the import from the one it then     *)
(* keeps.  IbkrClientPortalConnector reads the accounts and then every     *)
(* page of their positions until an empty one, while the market goes on.   *)
(* A report is named by the time it was made at: `executed' tells what it  *)
(* says.                                                                   *)
(***************************************************************************)
EXTENDS Broker, Sequences

CONSTANTS
  Retries,     \* statement_retries
  Period,      \* the days a report goes back
  MaxImports   \* bound: imports

ASSUME ConnectorAssumption == {Retries, Period, MaxImports} \subseteq Nat /\ Retries > 0

\* The questions an import asks, in order; accounts are answered like the
\* positions and reconciliations like the executions.
Questions(kind) ==
  IF kind = "activity" THEN <<"positions", "transactions">>
  ELSE IF kind = "history" THEN <<"statements">> ELSE <<>>

VARIABLES
  kind,        \* the import that runs: of a report, of its history, or paged
  since,       \* when it began
  reference,   \* when the report it asked for was made, 0 if none
  root,        \* the report it holds, 0 if none
  polls,
  answers,     \* the reports its questions were answered from
  account, page, rows, \* the paging: where it is and the quantities read
  imports

flex       == <<reference, root, polls, answers>>
paging     == <<account, page, rows>>
connectors == <<kind, since, flex, paging, imports>>

NoRows == [key \in {} |-> 0]

ConnectorInit ==
  /\ kind = "idle" /\ since = 0
  /\ reference = 0 /\ root = 0 /\ polls = 0 /\ answers = <<>>
  /\ account = 1 /\ page = 0 /\ rows = NoRows
  /\ imports = 0

\* A connector is built for one import.
EndJob ==
  /\ kind' = "idle" /\ since' = 0
  /\ reference' = 0 /\ root' = 0 /\ polls' = 0 /\ answers' = <<>>
  /\ account' = 1 /\ page' = 0 /\ rows' = NoRows
  /\ UNCHANGED imports

\* A report is requested at once: its reference code is that of the report.
BeginJob(k) ==
  /\ kind = "idle" /\ imports < MaxImports
  /\ kind' = k /\ since' = now /\ imports' = imports + 1
  /\ reference' = (IF k = "portal" THEN 0 ELSE now)
  /\ UNCHANGED <<root, polls, answers, paging>>

Asks == Len(answers) < Len(Questions(kind))

\* The report, or a failure that says it is not ready: the last one raises.
ReportReady ==
  /\ Asks /\ root = 0
  /\ root' = reference
  /\ UNCHANGED <<kind, since, reference, polls, answers, paging, imports>>

\* Mutant: a report that is not ready is polled for without a bound.
NotReady_Unbounded ==
  /\ Asks /\ root = 0
  /\ polls' = (polls + 1) % Retries
  /\ UNCHANGED <<kind, since, reference, root, answers, paging, imports>>

NotReady ==
  /\ Asks /\ root = 0
  /\ IF polls + 1 = Retries
       THEN EndJob
       ELSE /\ polls' = polls + 1
            /\ UNCHANGED <<kind, since, reference, root, answers, paging, imports>>

Answer ==
  /\ Asks /\ root # 0
  /\ answers' = Append(answers, root)
  /\ UNCHANGED <<kind, since, reference, root, polls, paging, imports>>

\* One page, of one row: an account's rows come in the order of their
\* instruments, as they are when the page is asked for.
RowAt(a, p, t) ==
  CHOOSE key \in HoldingsOf(a, t) :
    Cardinality({k \in HoldingsOf(a, t) : k[2] < key[2]}) = p

\* Mutant: the first empty page ends the fetch of every account.
ReadPage_FirstAccount ==
  /\ kind = "portal" /\ account \in Accounts
  /\ IF page < Cardinality(HoldingsOf(account, now))
       THEN LET key == RowAt(account, page, now) IN
            /\ rows' = [k \in DOMAIN rows \cup {key} |->
                          IF k = key THEN Held(key, now) ELSE rows[k]]
            /\ page' = page + 1 /\ UNCHANGED account
       ELSE account' = Cardinality(Accounts) + 1 /\ page' = 0 /\ UNCHANGED rows
  /\ UNCHANGED <<kind, since, flex, imports>>

ReadPage ==
  /\ kind = "portal" /\ account \in Accounts
  /\ IF page < Cardinality(HoldingsOf(account, now))
       THEN LET key == RowAt(account, page, now) IN
            /\ rows' = [k \in DOMAIN rows \cup {key} |->
                          IF k = key THEN Held(key, now) ELSE rows[k]]
            /\ page' = page + 1 /\ UNCHANGED account
       ELSE account' = account + 1 /\ page' = 0 /\ UNCHANGED rows
  /\ UNCHANGED <<kind, since, flex, imports>>

\* Transport errors, invalid answers and a session that a second try does not
\* revive raise at once, as does a report that lacks what was asked.
RequestRaises == kind # "idle" /\ EndJob

ConnectorStep == ReportReady \/ NotReady \/ Answer \/ ReadPage

Fetched ==
  IF kind = "portal" THEN account \notin Accounts ELSE kind # "idle" /\ ~Asks
===============================================================================
