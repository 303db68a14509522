------------------------- MODULE MCInstrumentIdentity -------------------------
EXTENDS InstrumentIdentity

CONSTANTS a1, a2

L(symbol, venue) == [symbol |-> symbol, venue |-> venue]
N(kind, value)   == [kind |-> kind, value |-> value]
Lot(account, listing, names, of) ==
  [account |-> account, listing |-> listing, names |-> names, of |-> {of}]
Report(accounts, held, trades) == [accounts |-> accounts, held |-> held, trades |-> trades]

Bare1 == L("X", "")
Lse   == L("X", "LSE")
Bare2 == L("Y", "")
Con1  == N("conid", "1")
Con2  == N("conid", "2")
Con3  == N("conid", "3")
Isin  == N("isin", "1")

MCListings == {Bare1, Lse, Bare2}
MCPlain    == {Bare1, Bare2}

First(account, listing, names)  == Lot(account, listing, names, "first")
Second(account, listing, names) == Lot(account, listing, names, "second")

MCLegacy == {First(a1, Bare1, {}), Second(a1, Bare2, {})}

\* A security listed, renamed, relisted and held twice, with more or fewer
\* identifiers; another that has its own listing or takes the first one's.
MCStatements == {
  Report({a1}, <<First(a1, Bare1, {Con1})>>, <<>>),
  Report({a1}, <<First(a1, Lse, {Con1, Isin})>>, <<First(a1, Lse, {Con1})>>),
  Report({a1}, <<First(a1, Bare2, {Con1})>>, <<>>),
  Report({a1, a2}, <<First(a1, Bare1, {Con1}), First(a2, Bare1, {Isin})>>, <<>>),
  Report({a1}, <<Second(a1, Bare1, {Con2})>>, <<First(a1, Bare1, {Con1})>>),
  Report({a1}, <<Second(a1, Bare2, {Con2})>>, <<Second(a1, Bare2, {})>>),
  Report({a1}, <<First(a1, Lse, {Con1}), Second(a1, Bare1, {Con2})>>, <<>>),
  Report({a1}, <<First(a1, Lse, {Con1, Isin}), First(a1, Bare1, {Con3, Isin})>>, <<>>),
  Report({a1}, <<>>, <<First(a1, Bare1, {})>>)}
=============================================================================
