---------------------------- MODULE FinanceSkills ----------------------------
(***************************************************************************)
(* The deterministic skills of finance/skills/: what each says of a        *)
(* sequence of daily bars, oldest first.  A finding has a code, a          *)
(* severity, a direction and the day it was observed on, 0 if it names     *)
(* none.  Averages are fractions of integers: a rounding to eight digits   *)
(* and metrics no finding depends on (the ADX among them) are left out.    *)
(***************************************************************************)
EXTENDS Integers, Sequences, SequencesExt

CONSTANTS
  MinBars,         \* of each skill, the bars it needs
  Thresholds,      \* the default thresholds, in percent
  ShortSpan, LongSpan, AverageDays, RsiDays, VolumeDays, VolatilityDays,
  RecentBars,      \* the sessions whose candles are reported
  SessionsInYear,
  NoVolume         \* the volume of a bar that has none

Skills == {"technical_snapshot", "candlestick_events", "market_risk_snapshot"}

\* build_default_finance_registry: the skills of daily_market_review, in order.
Bundle == <<"technical_snapshot", "candlestick_events", "market_risk_snapshot">>

\* HistoricalBar
DailyBars ==
  [day : Nat, open : Nat, high : Nat, low : Nat, close : Nat, volume : Nat \cup {NoVolume}]

ASSUME SkillsAssumption ==
  /\ MinBars \in [Skills -> Nat \ {0}]
  /\ MinBars["candlestick_events"] >= 2
  /\ MinBars["market_risk_snapshot"] > VolatilityDays /\ VolatilityDays >= 2
  /\ MinBars["technical_snapshot"] >= AverageDays
  /\ MinBars["technical_snapshot"] > RsiDays
  /\ LongSpan \in Nat /\ ShortSpan \in 1..LongSpan /\ NoVolume \notin Nat
  /\ {AverageDays, RsiDays, VolumeDays, RecentBars} \subseteq Nat \ {0} /\ VolatilityDays \in Nat

\* What the skills require of their thresholds, in percent.
ASSUME ThresholdsAssumption ==
  /\ Thresholds.rsi_overbought \in 1..100
  /\ Thresholds.rsi_oversold \in 0..Thresholds.rsi_overbought - 1
  /\ Thresholds.drawdown_watch \in -99..0
  /\ Thresholds.drawdown_attention \in -100..Thresholds.drawdown_watch - 1
  /\ Thresholds.doji_body_ratio \in 0..100
  /\ {Thresholds.volume_ratio_watch, Thresholds.daily_move_watch} \subseteq Nat \ {0}
  /\ Thresholds.volatility_attention \in Nat
  /\ Thresholds.volatility_watch \in 0..Thresholds.volatility_attention - 1

Finding(code, severity, direction, day) ==
  [code |-> code, severity |-> severity, direction |-> direction, day |-> day]

Abs(x) == IF x < 0 THEN -x ELSE x

Total(s) ==
  LET upTo[i \in 0..Len(s)] == IF i = 0 THEN 0 ELSE upTo[i - 1] + s[i] IN upTo[Len(s)]

Product(s) == FoldLeft(LAMBDA p, x : p * x, 1, s)

LastOf(s, n) == SubSeq(s, IF Len(s) > n THEN Len(s) - n + 1 ELSE 1, Len(s))

Closes(bars) == [i \in DOMAIN bars |-> bars[i].close]

Changes(s) == [i \in 1 .. Len(s) - 1 |-> s[i + 1] - s[i]]

\* ewm(alpha = n / m, adjust = False).mean(), its last value over its scale.
Smoothed(s, n, m) ==
  LET upTo[i \in 1..Len(s)] ==
        IF i = 1 THEN [value |-> s[1], scale |-> 1]
        ELSE [value |-> (m - n) * upTo[i - 1].value + n * s[i] * upTo[i - 1].scale,
              scale |-> m * upTo[i - 1].scale] IN
  upTo[Len(s)]

Exceeds(e, f) == e.value * f.scale > f.value * e.scale

----------------------------------------------------------------------------
(* technical.py                                                            *)

Ema(bars, span) == Smoothed(Closes(bars), 2, span + 1)

Average(bars) == [value |-> Total(LastOf(Closes(bars), AverageDays)), scale |-> AverageDays]

Trend(bars) ==
  LET latest == [value |-> Last(bars).close, scale |-> 1]
      fast   == Ema(bars, ShortSpan)
      slow   == Ema(bars, LongSpan) IN
  {Finding("trend_confirmed", "watch", direction, 0) : direction \in
     {d \in {"bullish", "bearish"} :
        \/ d = "bullish" /\ Exceeds(latest, Average(bars)) /\ Exceeds(fast, slow)
        \/ d = "bearish" /\ Exceeds(Average(bars), latest) /\ Exceeds(slow, fast)}}

Gains(changes)  == [i \in DOMAIN changes |-> IF changes[i] > 0 THEN changes[i] ELSE 0]
Losses(changes) == [i \in DOMAIN changes |-> IF changes[i] < 0 THEN -changes[i] ELSE 0]

\* Mutant: a market that only falls divides by no gain and stays neutral.
Rsi_NeutralAtZero(bars) ==
  LET gain == Smoothed(Gains(Changes(Closes(bars))), 1, RsiDays).value
      loss == Smoothed(Losses(Changes(Closes(bars))), 1, RsiDays).value IN
  IF gain = 0 THEN [value |-> 50, scale |-> 1]
  ELSE [value |-> 100 * gain, scale |-> gain + loss]

\* 100 if there is no loss, 50 if the price never moved.
Rsi(bars) ==
  LET gain == Smoothed(Gains(Changes(Closes(bars))), 1, RsiDays).value
      loss == Smoothed(Losses(Changes(Closes(bars))), 1, RsiDays).value IN
  IF gain = 0 /\ loss = 0 THEN [value |-> 50, scale |-> 1]
  ELSE [value |-> 100 * gain, scale |-> gain + loss]

Momentum(bars) ==
  LET rsi == Rsi(bars) IN
  IF rsi.value >= Thresholds.rsi_overbought * rsi.scale
  THEN {Finding("rsi_overbought", "watch", "bearish", 0)}
  ELSE IF rsi.value <= Thresholds.rsi_oversold * rsi.scale
  THEN {Finding("rsi_oversold", "watch", "bullish", 0)}
  ELSE {}

Volumes(bars) == [i \in DOMAIN bars |-> bars[i].volume]

Known(volumes) == SelectSeq(volumes, LAMBDA v : v # NoVolume)

\* No ratio without a volume today, an earlier one, or one above zero.
Volume(bars) ==
  LET earlier == Known(LastOf(Front(Volumes(bars)), VolumeDays))
      latest  == Last(bars).volume IN
  {f \in {Finding("unusual_volume", "watch", "neutral", 0)} :
     /\ latest # NoVolume
     /\ Total(earlier) > 0
     /\ 100 * latest * Len(earlier) >= Thresholds.volume_ratio_watch * Total(earlier)}

Technical(bars) == Trend(bars) \cup Momentum(bars) \cup Volume(bars)

----------------------------------------------------------------------------
(* candlestick.py                                                          *)

Bullish(bar) == bar.close > bar.open
Bearish(bar) == bar.close < bar.open

Doji(bar) ==
  /\ bar.high > bar.low
  /\ 100 * Abs(bar.close - bar.open) <= Thresholds.doji_body_ratio * (bar.high - bar.low)

EngulfsUp(bar, next) ==
  Bearish(bar) /\ Bullish(next) /\ next.open <= bar.close /\ next.close >= bar.open

EngulfsDown(bar, next) ==
  Bullish(bar) /\ Bearish(next) /\ next.open >= bar.close /\ next.close <= bar.open

Patterns(bars) ==
  {Finding("doji", "info", "neutral", bars[i].day) : i \in {j \in DOMAIN bars : Doji(bars[j])}}
  \cup {Finding("bullish_engulfing", "info", "bullish", bars[i].day) :
          i \in {j \in 2 .. Len(bars) : EngulfsUp(bars[j - 1], bars[j])}}
  \cup {Finding("bearish_engulfing", "info", "bearish", bars[i].day) :
          i \in {j \in 2 .. Len(bars) : EngulfsDown(bars[j - 1], bars[j])}}

\* Mutant: the window of recent candles is cut from the front.
Recent_FromFront(bars) ==
  {p \in Patterns(bars) : p.day <= (IF Len(bars) >= RecentBars THEN bars[RecentBars].day
                                    ELSE Last(bars).day)}

Recent(bars) ==
  {p \in Patterns(bars) : p.day >= Head(LastOf(bars, RecentBars)).day}

----------------------------------------------------------------------------
(* market_risk.py                                                          *)

Drawdown(bars) ==
  LET closes == Closes(bars)
      peak   == CHOOSE p \in Range(closes) : \A q \in Range(closes) : q <= p
      fall   == 100 * (Last(closes) - peak) IN
  IF fall <= Thresholds.drawdown_attention * peak
  THEN {Finding("material_drawdown", "attention", "bearish", 0)}
  ELSE IF fall <= Thresholds.drawdown_watch * peak
  THEN {Finding("developing_drawdown", "watch", "bearish", 0)}
  ELSE {}

\* The variance of the last returns, each a change over the close before it:
\* over one denominator, the product of those closes.
Variance(bars) ==
  LET closes == LastOf(Closes(bars), VolatilityDays + 1)
      before == Front(closes)
      whole  == Product(before)
      parts  == [i \in DOMAIN before |-> Changes(closes)[i] * (whole \div before[i])]
      n      == Len(before) IN
  [value |-> n * Total([i \in DOMAIN parts |-> parts[i] * parts[i]]) - Total(parts) * Total(parts),
   scale |-> n * (n - 1) * whole * whole]

\* annualized_volatility reaches a threshold.
VolatilityReaches(bars, percent) ==
  10000 * SessionsInYear * Variance(bars).value >= percent * percent * Variance(bars).scale

Volatility(bars) ==
  IF VolatilityReaches(bars, Thresholds.volatility_attention)
  THEN {Finding("elevated_volatility", "attention", "neutral", 0)}
  ELSE IF VolatilityReaches(bars, Thresholds.volatility_watch)
  THEN {Finding("elevated_volatility", "watch", "neutral", 0)}
  ELSE {}

DailyMove(bars) ==
  LET close == bars[Len(bars) - 1].close
      move  == Last(bars).close - close IN
  {Finding("abnormal_daily_move", "attention", IF move > 0 THEN "bullish" ELSE "bearish", 0) :
     x \in {y \in {move} : 100 * Abs(y) >= Thresholds.daily_move_watch * close}}

MarketRisk(bars) == Drawdown(bars) \cup Volatility(bars) \cup DailyMove(bars)

----------------------------------------------------------------------------
(* orchestrator.py, registry.py                                            *)

\* A skill that is not registered fails; one with too few bars is partial.
SkillStatus(skill, bars) ==
  IF skill \notin Skills THEN "failed"
  ELSE IF Len(bars) < MinBars[skill] THEN "partial" ELSE "success"

SkillFindings(skill, bars) ==
  IF SkillStatus(skill, bars) # "success" THEN {}
  ELSE CASE skill = "technical_snapshot"   -> Technical(bars)
         [] skill = "candlestick_events"   -> Recent(bars)
         [] skill = "market_risk_snapshot" -> MarketRisk(bars)

\* Of no skill at all, and of a mix, the analysis is partial.
Overall(statuses) ==
  IF statuses = {"success"} THEN "success"
  ELSE IF statuses = {"failed"} THEN "failed" ELSE "partial"

Analysis(skills, bars) ==
  [status   |-> Overall({SkillStatus(s, bars) : s \in Range(skills)}),
   findings |-> [s \in Range(skills) |-> SkillFindings(s, bars)],
   through  |-> IF bars = <<>> THEN 0 ELSE Last(bars).day]

----------------------------------------------------------------------------
(* What must be true of the skills together.                               *)

\* Prices turned upside down; a volume stays.
Mirrored(bars, around) ==
  [i \in DOMAIN bars |-> [bars[i] EXCEPT !.open = around - @, !.close = around - @,
                                         !.high = around - bars[i].low,
                                         !.low  = around - bars[i].high]]

MirroredCode(code) ==
  CASE code = "bullish_engulfing" -> "bearish_engulfing"
    [] code = "bearish_engulfing" -> "bullish_engulfing"
    [] code = "rsi_overbought"    -> "rsi_oversold"
    [] code = "rsi_oversold"      -> "rsi_overbought"
    [] OTHER                      -> code

MirroredFinding(f) ==
  [f EXCEPT !.code = MirroredCode(@),
            !.direction = CASE @ = "bullish" -> "bearish" [] @ = "bearish" -> "bullish"
                            [] OTHER -> @]

\* Whether a finding g says at least what a finding f does, of the same fact.
NoWeaker(f, g) ==
  \/ g = f
  \/ f.code = "developing_drawdown" /\ g.code = "material_drawdown"
=============================================================================
