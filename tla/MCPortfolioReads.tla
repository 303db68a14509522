--------------------------- MODULE MCPortfolioReads ---------------------------
(***************************************************************************)
(* Two accounts of different currencies hold two instruments over three    *)
(* days.  The broker numbers trades by account; a report goes back one     *)
(* day, so an older trade is missed unless an import came in between.      *)
(***************************************************************************)
EXTENDS PortfolioReads

GBP == 1
USD == 2

MCAccounts == 1..2
MCInstruments == 1..2
Trade(t, a, id, i, q) ==
  [at |-> t, fill |-> [account |-> a, id |-> id, instrument |-> i, quantity |-> q,
                       cost |-> 10 * q]]
MCSchedules ==
  {{Trade(1, 1, 1, 1, 2), Trade(2, 1, 2, 2, 1), Trade(4, 1, 3, 1, -1), Trade(5, 2, 1, 1, 3),
    Trade(7, 2, 2, 1, -3), Trade(8, 1, 4, 1, -7)}}
MCAccountCurrency == [a \in Accounts |-> IF a = 1 THEN USD ELSE GBP]
MCInstrumentCurrency == [i \in Instruments |-> IF i = 1 THEN USD ELSE GBP]
MCCurrencies == {GBP, USD}
MCPrice == [t \in Times |-> <<3, 5, 4, 2, 6, 1, 4, 3>>[t]]
MCFx == [t \in Times |-> 1 + (t % 2)]
MCStopPrice == [i \in Instruments |-> 4]
MCRateAges == {0, 3}
MCSessions == {{2, 4, 5}}
MCQueries == {Accounts}
MCBase == USD
MCWindows == {None, 1}
===============================================================================
