-------------------------- MODULE MCFinanceAnalysis --------------------------
(***************************************************************************)
(* Spans of two to four sessions stand for those of 12 to 50.  One of     *)
(* three instruments has no row and one is no equity; the skills are       *)
(* compared on every sequence of five bars of four shapes, and a symbol is *)
(* searched for among its listings on four venues.                         *)
(***************************************************************************)
EXTENDS FinanceAnalysis

MCMinBars == [technical_snapshot |-> 4, candlestick_events |-> 2, market_risk_snapshot |-> 3]

MCThresholds ==
  [rsi_overbought |-> 70, rsi_oversold |-> 30, volume_ratio_watch |-> 150,
   doji_body_ratio |-> 10, drawdown_watch |-> -20, drawdown_attention |-> -40,
   volatility_watch |-> 25, volatility_attention |-> 120, daily_move_watch |-> 34]

OHLC(open, high, low, close, volume) ==
  [open |-> open, high |-> high, low |-> low, close |-> close, volume |-> volume]

\* A rise, a fall, their mirror images, an undecided day and one without volume.
Rise == OHLC(2, 4, 2, 4, 1)
Fall == OHLC(4, 4, 1, 2, 2)
Jump == OHLC(2, 5, 1, 5, 4)
Calm == OHLC(3, 4, 2, 3, NoVolume)
Shapes == {Rise, Fall, Jump, Calm}

Dated(bars) ==
  [n \in DOMAIN bars |-> [day |-> n, open |-> bars[n].open, high |-> bars[n].high,
     low |-> bars[n].low, close |-> bars[n].close, volume |-> bars[n].volume]]

MCHistories == {Dated(bars) : bars \in [1 .. 5 -> Shapes]}
MCAround == 6

MCInstruments == 1 .. 3
MCMissing == {2}
MCUnsupported == {3}
MCMarkets ==
  {[i \in Instruments |-> Dated(bars)] :
     bars \in {<<Fall, Rise, Calm, Fall, Jump, Fall>>}}

Held(i, analysed) == [instrument |-> i, analysed |-> analysed]
MCHoldings == {<<Held(2, TRUE), Held(3, FALSE), Held(1, TRUE), Held(2, TRUE)>>}
MCDates == {3, 6}
MCLookbacks == {1, 4}
MCZones == {0, 1}
MCRequested == {<<>>, <<"market_risk_snapshot", "unknown">>}

\* One symbol on four venues, two of them of one market and three of one
\* currency.  Yahoo's exchanges of Xetra and Frankfurt are in no table.
Listed(venue, currency) ==
  [symbol |-> "ABC", venue |-> venue, currency |-> currency, class |-> "equity"]

MCListings == {Listed("NASDAQ", "USD"), Listed("London", "EUR"), Listed("Xetra", "EUR"),
               Listed("Frankfurt", "EUR")}

MCMic == [NASDAQ |-> "XNGS", London |-> "XLON", Xetra |-> "XETR", Frankfurt |-> "XFRA"]
MCYahooExchange == [NASDAQ |-> "NASDAQ", London |-> "LSE", Xetra |-> "GER", Frankfurt |-> "FRA"]
MCTwelveExchange ==
  [NASDAQ |-> "NASDAQ", London |-> "LONDON", Xetra |-> "XETRA", Frankfurt |-> "FRANKFURT"]
MCYahooSuffix == [NASDAQ |-> NoName, London |-> ".L", Xetra |-> ".DE", Frankfurt |-> ".F"]
MCSuffixMarkets == [suffix \in {".L", ".DE", ".F"} |-> IF suffix = ".L" THEN "LN" ELSE "GY"]

MCMarketAliases == [US |-> "US", LN |-> "LN", LONDON |-> "LN", GY |-> "GY", XETRA |-> "GY"]
MCMarketExchanges ==
  [NASDAQ |-> "US", LSE |-> "LN", XLON |-> "LN", LONDON |-> "LN",
   XETRA |-> "GY", XETR |-> "GY", FRANKFURT |-> "GY"]
MCVenueAliases ==
  [NASDAQ |-> "XNAS", XNGS |-> "XNAS", LSE |-> "XLON", XLON |-> "XLON",
   XETRA |-> "XETR", XETR |-> "XETR"]

MCQueries == {[symbol |-> "ABC", exchange |-> x] : x \in {NoName, "US", "LN", "GY", "FRA"}}
=============================================================================
