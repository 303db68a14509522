---------------------------- MODULE PositionStore ----------------------------
(***************************************************************************)
(* The `positions' and `prices' tables of db/models.py and the             *)
(* repositories of db/repositories.py that write them, seen through the    *)
(* SQLAlchemy sessions of db/session.py over PostgreSQL READ COMMITTED.    *)
(*                                                                         *)
(* A session stages attribute changes on the rows it loaded and emits one  *)
(* UPDATE (or INSERT) per changed row when it next queries (autoflush) or  *)
(* commits.  The statement sets only the columns whose value differs from  *)
(* the one loaded, and takes the row's lock until the end of the           *)
(* transaction.  A SELECT sees the committed rows and the session's own    *)
(* flushed ones, so two sessions can load the same row, change different   *)
(* columns of it and both commit.                                          *)
(*                                                                         *)
(* Costs, prices and quantities are integers; a price is identified with   *)
(* the time it was observed at, so "newer" can be stated.                  *)
(***************************************************************************)
EXTENDS Integers, FiniteSets

CONSTANTS
  Importers,    \* sessions that run a broker import, one job each
  Refreshers,   \* sessions that run refresh-and-sync, one job each
  Positions,    \* (account, instrument) pairs: the unique key of a row
  Accounts,
  Instruments,
  AccountOf,    \* [Positions -> Accounts]
  InstrumentOf, \* [Positions -> Instruments]
  Foreign,      \* [Instruments -> Nat]: newest price on file in a currency the
                \* instrument was quoted in before it was relisted, 0 if none
  Nobody,       \* the holder of a free row lock
  Keep          \* a column the staged statement does not set

Sessions == Importers \cup Refreshers

ASSUME StoreAssumption ==
  /\ Importers \cap Refreshers = {}
  /\ AccountOf \in [Positions -> Accounts]
  /\ InstrumentOf \in [Positions -> Instruments]
  /\ Foreign \in [Instruments -> Nat]
  /\ Nobody \notin Sessions
  /\ Keep \notin Int

VARIABLES
  rows,      \* committed row of every position
  staged,    \* columns each session has changed and not committed
  lock,      \* session holding the lock of each position's row
  prices,    \* newest committed observation time of each instrument in its
             \* own currency, 0 if none
  newPrices, \* newest observation each session has staged, 0 if none
  pc,        \* where each job stands
  todo       \* rows the loop a job is in has still to visit

storeVars == <<rows, staged, lock, prices, newPrices>>

(***************************************************************************)
(* Rows                                                                    *)
(***************************************************************************)

\* `row_exists' stands for the presence of the row; `average_cost' stands
\* for the pair of effective cost and status, `broker_average_cost' for the
\* pair of broker cost and status.
Columns == {"row_exists", "quantity", "latest_price",
            "broker_average_cost", "manual_average_cost", "average_cost"}

NoCost  == -1   \* NULL: distinct from the valid cost 0
NoPrice == 0

NoRow == [c \in Columns |->
            IF c \in {"broker_average_cost", "manual_average_cost", "average_cost"}
            THEN NoCost ELSE 0]

NoChange == [c \in Columns |-> Keep]

\* A manual cost takes the place of the broker's.
EffectiveCost(row) ==
  IF row["manual_average_cost"] # NoCost
  THEN row["manual_average_cost"]
  ELSE row["broker_average_cost"]

WithEffectiveCost(row) == [row EXCEPT !["average_cost"] = EffectiveCost(row)]

Overlay(row, change) ==
  [c \in Columns |-> IF change[c] = Keep THEN row[c] ELSE change[c]]

\* The row a SELECT of session s returns.
Seen(s, p) == Overlay(rows[p], staged[s][p])

IsOpen(row) == row["quantity"] # 0

SeenPrice(s, i) ==
  IF newPrices[s][i] > prices[i] THEN newPrices[s][i] ELSE prices[i]

(***************************************************************************)
(* The statements of a session                                             *)
(***************************************************************************)

Dirty(s, p)   == staged[s][p] # NoChange
Flushed(s)    == \A p \in Positions : Dirty(s, p) => lock[p] = s

\* What assigning the attributes of `new' to the loaded row stages: only
\* the columns whose value changes.
Change(s, p, new) ==
  [c \in Columns |-> IF new[c] = Seen(s, p)[c] THEN staged[s][p][c] ELSE new[c]]

\* Assigning rows: `new' maps some positions to the row they should hold.
Assign(s, new) ==
  staged' = [staged EXCEPT ![s] =
               [p \in Positions |-> IF p \in DOMAIN new
                                    THEN Change(s, p, new[p])
                                    ELSE staged[s][p]]]

\* The row appeared after the session had looked for it: the INSERT
\* violates uq_position_account_instrument.
InsertCollides(s, p) ==
  staged[s][p]["row_exists"] # Keep /\ rows[p]["row_exists"] = 1

\* The UPDATE or INSERT of one dirty row: waits for the row's lock.
Flush(s, p) ==
  /\ Dirty(s, p)
  /\ lock[p] = Nobody
  /\ ~InsertCollides(s, p)
  /\ lock' = [lock EXCEPT ![p] = s]
  /\ UNCHANGED <<rows, staged, prices, newPrices>>

WaitsFor(s, t) == \E p \in Positions : Dirty(s, p) /\ lock[p] = t /\ s # t

\* s is on a cycle of waiting sessions: PostgreSQL aborts one of them.
Deadlocked(s) ==
  \E W \in SUBSET Sessions :
    /\ s \in W
    /\ \A t \in W : /\ \E u \in W : WaitsFor(t, u)
                    /\ \E u \in W : WaitsFor(u, t)

Released(s) == [p \in Positions |-> IF lock[p] = s THEN Nobody ELSE lock[p]]

\* The session's transaction becomes visible as a whole.
CommitSession(s) ==
  /\ Flushed(s)
  /\ rows' = [p \in Positions |-> Seen(s, p)]
  /\ prices' = [i \in Instruments |-> SeenPrice(s, i)]
  /\ staged' = [staged EXCEPT ![s] = [p \in Positions |-> NoChange]]
  /\ newPrices' = [newPrices EXCEPT ![s] = [i \in Instruments |-> NoPrice]]
  /\ lock' = Released(s)

RollbackSession(s) ==
  /\ staged' = [staged EXCEPT ![s] = [p \in Positions |-> NoChange]]
  /\ newPrices' = [newPrices EXCEPT ![s] = [i \in Instruments |-> NoPrice]]
  /\ lock' = Released(s)
  /\ UNCHANGED <<rows, prices>>

(***************************************************************************)
(* The repository operations: the row each leaves, from the row it loads   *)
(***************************************************************************)

\* upsert: every column from the Position object in the caller's hands.
Upserted(position) ==
  WithEffectiveCost([position EXCEPT !["row_exists"] = 1])

\* upsert_broker_position: everything but the manual cost.
BrokerUpserted(row, quantity, price, cost) ==
  WithEffectiveCost([row EXCEPT !["row_exists"] = 1,
                                !["quantity"] = quantity,
                                !["latest_price"] = price,
                                !["broker_average_cost"] = cost])

\* Mutant: the effective cost is not refreshed.
ManuallyCosted_Raw(row, value) == [row EXCEPT !["manual_average_cost"] = value]

\* set_manual_average_cost: the manual cost, or NoCost to clear it.
ManuallyCosted(row, value) ==
  WithEffectiveCost([row EXCEPT !["manual_average_cost"] = value])

\* Mutant: only accounts the import mentions nothing of are closed.
MissingFrom_EmptyAccounts(s, accounts, imported) ==
  {p \in Positions : /\ AccountOf[p] \in accounts
                     /\ IsOpen(Seen(s, p))
                     /\ AccountOf[p] \notin {AccountOf[q] : q \in imported}}

\* close_positions_missing_from_snapshot: the open rows of the accounts
\* that the import did not mention.
MissingFrom(s, accounts, imported) ==
  {p \in Positions : /\ AccountOf[p] \in accounts
                     /\ IsOpen(Seen(s, p))
                     /\ p \notin imported}

\* list_open_positions: the rows with a quantity, the others left out.
OpenPositions(s) ==
  [p \in Positions |-> IF IsOpen(Seen(s, p)) THEN Seen(s, p) ELSE NoRow]

\* PriceRepository.upsert of an observation of instrument i.
PriceUpserted(s, i, stamp) ==
  newPrices' = [newPrices EXCEPT ![s][i] = IF @ < stamp THEN stamp ELSE @]

(***************************************************************************)
(* Types and initial state                                                 *)
(***************************************************************************)

Row    == [Columns -> Int]
Update == [Columns -> Int \cup {Keep}]

StoreTypeOK ==
  /\ rows \in [Positions -> Row]
  /\ staged \in [Sessions -> [Positions -> Update]]
  /\ lock \in [Positions -> Sessions \cup {Nobody}]
  /\ prices \in [Instruments -> Int]
  /\ newPrices \in [Sessions -> [Instruments -> Int]]

\* A position the last import opened: priced and costed by the broker.
Held == [c \in Columns |-> IF c = "manual_average_cost" THEN NoCost ELSE 1]

\* Every instrument of a held position was priced when it was imported, and
\* a relisted one since then, through a position of another account: a
\* refresh writes one position of each instrument.
FirstPrice(i) == IF Foreign[i] = NoPrice THEN 1 ELSE 2

StoreInit ==
  /\ rows \in [Positions -> {NoRow, Held}]
  /\ prices = [i \in Instruments |->
                 IF \E p \in Positions : InstrumentOf[p] = i /\ IsOpen(rows[p])
                 THEN FirstPrice(i) ELSE NoPrice]
  /\ staged = [s \in Sessions |-> [p \in Positions |-> NoChange]]
  /\ newPrices = [s \in Sessions |-> [i \in Instruments |-> NoPrice]]
  /\ lock = [p \in Positions |-> Nobody]
=============================================================================
