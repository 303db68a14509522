------------------------- MODULE HistoricalCoverage -------------------------
(***************************************************************************)
(* When the daily bars of a dataset cover a requested window: the test of  *)
(* the cache (HistoricalDataRepository._covers) and the test of the        *)
(* validator (validation.py), which the code states apart.  A day is a     *)
(* number, day 0 a Monday; a span of days, of a window or of the bars of a *)
(* dataset, is a record of its first and last day.                         *)
(***************************************************************************)
EXTENDS Integers

Spans == [first : Int, last : Int]

Session(day) == day % 7 < 5

NextSession(day) ==
  IF day % 7 = 5 THEN day + 2 ELSE IF day % 7 = 6 THEN day + 1 ELSE day

\* Mutant: the end of a window is taken as it is.
PreviousSession_Untrimmed(day) == day

PreviousSession(day) ==
  IF day % 7 = 5 THEN day - 1 ELSE IF day % 7 = 6 THEN day - 2 ELSE day

\* Mutant: only the first day of the window is looked at.
Covers_Start(span, window) == span.first <= NextSession(window.first)

Covers(span, window) ==
  /\ NextSession(window.first) <= PreviousSession(window.last)
  /\ span.first <= NextSession(window.first)
  /\ span.last >= PreviousSession(window.last)

SessionsOf(window) == {day \in window.first .. window.last : Session(day)}

\* The bars of a provider pass validation; missing sessions are warnings.
Accepts(span, window, today) ==
  /\ span.last <= today
  /\ IF SessionsOf(window) = {}
     THEN span.first <= window.first /\ window.last <= span.last
     ELSE \A day \in SessionsOf(window) : span.first <= day /\ day <= span.last

\* What both tests are for: no session of the window is outside the bars.
Holds(span, window) ==
  \A day \in SessionsOf(window) : span.first <= day /\ day <= span.last
=============================================================================
