--------------------------- MODULE MCHistoricalData ---------------------------
(* Constants of the model-checking runs of HistoricalData.  Day 0 is a        *)
(* Monday, days 5 and 6 a weekend, and day 8 is today.                        *)
EXTENDS HistoricalData, TLC

CONSTANTS i1, i2, l1, l2, x1

Span(a, b) == [first |-> a, last |-> b]

Market(currency, venue) == [currency |-> currency, venue |-> venue]

OneListing == l1 :> Market("USD", "NYSE")
TwoVenues  == OneListing @@ l2 :> Market("USD", "LSE")
OpenVenue  == OneListing @@ l2 :> Market("USD", "")

\* What a research caller's id names.
NamesFirst  == x1 :> i1
NamesSecond == x1 :> i2

\* Two windows of one week, and two cut short by a weekend.
Weekdays == {Span(0, 4), Span(3, 4)}
Edges    == {Span(3, 6), Span(5, 7)}

Bars     == {Span(0, 4), Span(3, 4), Span(3, 7), Span(7, 8), Span(2, 3)}
EdgeBars == {Span(3, 4), Span(3, 7)}

Symmetry == Permutations(Requests)
=============================================================================
