--------------------------- MODULE MCPortfolioJobs ---------------------------
(* Constants of the model-checking runs of PortfolioJobs.                    *)
EXTENDS JobsInvariant, TLC

CONSTANTS i1, i2, r1, r2, p1, p2, a1, a2, x1, x2

\* Two positions of one account in two instruments.
OneAccount     == p1 :> a1 @@ p2 :> a1
TwoInstruments == p1 :> x1 @@ p2 :> x2

\* A single position.
SoleAccount    == p1 :> a1
SoleInstrument == p1 :> x1

\* One instrument was relisted: the newest price on file when the jobs
\* start is in its former currency.
OneRelisted == x1 :> 0 @@ x2 :> 3
Relisted    == x1 :> 3
NoForeign   == [i \in Instruments |-> 0]

\* A statement repeats the held position or reports another quantity and
\* cost; a lot may come without a mark price.
OneLot     == {[quantity |-> 2, priced |-> TRUE, cost |-> 2]}
PricedLots == {[quantity |-> 1, priced |-> TRUE, cost |-> 1],
               [quantity |-> 2, priced |-> TRUE, cost |-> 2]}
AllLots    == PricedLots \cup {[quantity |-> 1, priced |-> FALSE, cost |-> 0]}
=============================================================================
