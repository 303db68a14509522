-------------------------------- MODULE Broker --------------------------------
(***************************************************************************)
(* What the reports of a broker are about: trades that execute as time     *)
(* passes, and the holdings, values and daily profits they add up to.      *)
(* External: the program only reads it (BrokerConnectors).                 *)
(*                                                                         *)
(* A day has three times: midnight, which only the program's dates use,    *)
(* and two at which trades, requests and refreshes happen.                 *)
(***************************************************************************)
EXTENDS Integers, FiniteSets, FiniteSetsExt

CONSTANTS
  Accounts,    \* 1..n, in the order every list of accounts has
  Instruments, \* numbers, in the order of a page of positions
  Schedules,   \* sets of trades, [fill, at]: a fill is [account, id,
               \* instrument, quantity, cost], its id unique in its account
  AccountCurrency, InstrumentCurrency,
  Price,       \* the market price of every instrument, by time
  Start,       \* the time the program is first used at
  LastDay      \* bound: the last day

Keys     == Accounts \X Instruments
KeyOf(f) == <<f.account, f.instrument>>
Day(t)   == t \div 3
Midnight(d) == 3 * d
Close(d)    == 3 * d + 2
Times    == {t \in 1..Close(LastDay) : t # Midnight(Day(t))}

ASSUME BrokerAssumption ==
  /\ IsFiniteSet(Accounts) /\ Accounts = 1..Cardinality(Accounts)
  /\ IsFiniteSet(Instruments) /\ Instruments \subseteq Nat
  /\ LastDay \in Nat /\ Start \in Times
  /\ \A es \in Schedules : IsFiniteSet(es) /\ \A e, o \in es :
       /\ KeyOf(e.fill) \in Keys /\ e.fill.quantity \in Int \ {0} /\ e.fill.cost \in Int
       /\ e.at \in Times
       /\ e.fill.account = o.fill.account /\ e.fill.id = o.fill.id => e = o
  /\ Price \in [Times -> Nat \ {0}]

VARIABLES
  now,
  executed     \* the trades, those to come included: nothing reads these

market == <<now, executed>>

MarketInit == now = Start /\ executed \in Schedules

Advance ==
  /\ now < Close(LastDay)
  /\ now' = IF now + 1 \in Times THEN now + 1 ELSE now + 2
  /\ UNCHANGED executed

ExecutedBy(t)       == {e \in executed : e.at <= t}
TradesOf(key, es)   == {e \in es : KeyOf(e.fill) = key}
QuantityOf(es)      == SumFunction([e \in es |-> e.fill.quantity])
CostOf(es)          == SumFunction([e \in es |-> e.fill.cost])

\* A fill changes the cost of its position: once nothing is held, none is left.
ASSUME FlatAssumption ==
  \A es \in Schedules : \A key \in Keys, t \in 0..Close(LastDay) :
    LET earlier == TradesOf(key, {e \in es : e.at < t}) IN
    QuantityOf(earlier) = 0 => CostOf(earlier) = 0

Held(key, t)        == QuantityOf(TradesOf(key, ExecutedBy(t)))
Holdings(t)         == {key \in Keys : Held(key, t) # 0}
HoldingsOf(a, t)    == {key \in Holdings(t) : key[1] = a}
ValueAt(a, t)       == SumFunction([key \in HoldingsOf(a, t) |-> Held(key, t) * Price[t]])

\* What a trade earned on a day it was held or made.
Earned(e, d) ==
  e.fill.quantity * (Price[Close(d)] - Price[Max({e.at, Close(d - 1)})])

EarnedOn(key, d) ==
  SumFunction([e \in TradesOf(key, ExecutedBy(Close(d))) |-> Earned(e, d)])
===============================================================================
