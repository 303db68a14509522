--------------------------- MODULE InstrumentSearch ---------------------------
(***************************************************************************)
(* InstrumentResolutionService.search and its two searchers: what Yahoo    *)
(* and Twelve Data say of the listings of one symbol becomes a set of      *)
(* candidates, one of which a command may analyse.  The tables of          *)
(* market_codes.py and searchers.py are constants.  A name is the symbol   *)
(* and the market of the suffix left on it.                                *)
(***************************************************************************)
EXTENDS FiniteSets

CONSTANTS
  Listings,        \* symbol, venue, currency and class
  MarketAliases,   \* the registry's market of an alias,
  MarketExchanges, \* and of an exchange or MIC
  VenueAliases,    \* CANONICAL_VENUE_ALIASES
  SuffixMarkets,   \* YAHOO_MARKET_SUFFIXES: the market of a suffix in the table
  YahooSuffix,     \* of each venue, what Yahoo adds to its symbols, if anything
  YahooExchange,   \* of each venue, through YAHOO_EXCHANGE_ALIASES
  TwelveExchange,  \* of each venue
  Mic,             \* of each venue
  Queries,         \* a symbol, and the exchange or market it is looked for on
  NoName           \* no exchange, market, MIC, suffix or filter

At(table, name) == IF name \in DOMAIN table THEN table[name] ELSE NoName

\* MarketCodeRegistry.normalize and market_for_exchange
Normalized(name) == At(MarketAliases, name)
Market(name) ==
  IF name \in DOMAIN MarketExchanges THEN MarketExchanges[name] ELSE Normalized(name)

Canonical(name) == IF name \in DOMAIN VenueAliases THEN VenueAliases[name] ELSE name

\* What the searchers call a venue.
VenueNames(venue) == {YahooExchange[venue], TwelveExchange[venue], Mic[venue]}

\* A symbol is one listing without a suffix to Yahoo, and one in a currency and
\* class on the venues of one name.
ASSUME SearchAssumption ==
  /\ NoName \notin DOMAIN MarketAliases \cup DOMAIN MarketExchanges
  /\ \A suffix \in DOMAIN SuffixMarkets : SuffixMarkets[suffix] # NoName
  /\ \A l \in Listings : \A name \in VenueNames(l.venue) :
       name # NoName /\ Canonical(name) # NoName
  /\ \A l, m \in Listings :
       /\ <<l.symbol, l.currency, l.class>> = <<m.symbol, m.currency, m.class>>
       /\ \/ YahooSuffix[l.venue] = NoName /\ YahooSuffix[m.venue] = NoName
          \/ \E name \in VenueNames(l.venue), other \in VenueNames(m.venue) :
               Canonical(name) = Canonical(other)
       => l = m

MarketOf(c) == IF Market(c.exchange) # NoName THEN Market(c.exchange) ELSE Market(c.mic)

\* Mutant: venues of one market are one venue.
Identity_OfTheMarket(c) == MarketOf(c)

\* listing_identity
Identity(c) ==
  IF c.mic # NoName THEN Canonical(c.mic)
  ELSE IF c.exchange # NoName THEN Canonical(c.exchange) ELSE NoName

Candidate(l, suffix, exchange, mic) ==
  [symbol |-> l.symbol, suffix |-> suffix, exchange |-> exchange, mic |-> mic,
   currency |-> l.currency, class |-> l.class, listing |-> l]

\* A searcher says of a listing the exchange, the MIC, both or neither.
Reports == [listing : Listings, says : SUBSET {"exchange", "mic"}]

Reported(r, what, names) == IF what \in r.says THEN names[r.listing.venue] ELSE NoName

\* A suffix is taken off only if the table has it for the exchange's market.
FromYahoo(r) ==
  LET exchange == Reported(r, "exchange", YahooExchange)
      suffix   == YahooSuffix[r.listing.venue]
      stripped == suffix \in DOMAIN SuffixMarkets /\ SuffixMarkets[suffix] = Market(exchange) IN
  Candidate(r.listing, IF stripped THEN NoName ELSE suffix, exchange, NoName)

\* YahooInstrumentSearcher.search: a failed search or one without a currency
\* reports nothing; a market that is asked for excludes the others it can tell.
YahooSearch(query, reports) ==
  {FromYahoo(r) : r \in {s \in reports :
     /\ s.listing.symbol = query.symbol
     /\ s.listing.class \in {"equity", "etf", "crypto"}
     /\ \A market \in {At(SuffixMarkets, YahooSuffix[s.listing.venue]),
                       Market(FromYahoo(s).exchange)} :
          NoName \in {market, Normalized(query.exchange)}
            \/ market = Normalized(query.exchange)}}

\* TwelveDataInstrumentSearcher.search
FromTwelve(r) ==
  Candidate(r.listing, NoName, Reported(r, "exchange", TwelveExchange), Reported(r, "mic", Mic))

TwelveSearch(reports) == {FromTwelve(r) : r \in reports}

Matches(c, query) ==
  /\ c.symbol = query.symbol /\ c.suffix = NoName
  /\ \/ query.exchange = NoName
     \/ /\ Normalized(query.exchange) # NoName
        /\ MarketOf(c) = Normalized(query.exchange)
     \/ Normalized(query.exchange) = NoName /\ c.exchange = query.exchange

Key(c) == <<c.symbol, Identity(c), c.currency, c.class>>

\* Candidates of one key are merged into one.
Search(query, yahoo, twelve) ==
  LET found == {c \in YahooSearch(query, yahoo) \cup TwelveSearch(twelve) : Matches(c, query)} IN
  {{c \in found : Key(c) = key} : key \in {Key(c) : c \in found}}

Unambiguous(merged) == Cardinality(merged) = 1

\* One report of each listing a searcher mentions.
Answers == {A \in SUBSET Reports : \A r, s \in A : r.listing = s.listing => r = s}

YahooAnswers == {A \in Answers : \A r \in A : "mic" \notin r.says}

\* However little the searchers say of an exchange, symbols of two listings are
\* never merged into a candidate whose bars would then be those of either,
\* unless Twelve Data says nothing at all of a venue and the candidate is one
\* without; and a candidate is of a venue the tables know by the exchange or
\* market that was asked for (resolution.py:144-187, searchers.py:218-229).
CandidatesAreListings ==
  \A query \in Queries, yahoo \in YahooAnswers, twelve \in Answers :
    \A merged \in Search(query, yahoo, twelve) :
      /\ (\E c \in merged : Identity(c) # NoName) \/ (\A r \in twelve : r.says # {})
           => Cardinality({c.listing : c \in merged}) = 1
      /\ \A c \in merged :
           \/ query.exchange = NoName
           \/ \E name \in VenueNames(c.listing.venue) :
                name = query.exchange \/ Market(name) = Normalized(query.exchange)
=============================================================================
