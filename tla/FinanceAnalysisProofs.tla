------------------------ MODULE FinanceAnalysisProofs ------------------------
(***************************************************************************)
(* What searches, skills and analyses promise, for any tables, listings,   *)
(* bars, thresholds, markets and commands.                                 *)
(***************************************************************************)
EXTENDS FinanceAnalysis, FiniteSetTheorems, NaturalsInduction, SequenceTheorems, TLAPS

-----------------------------------------------------------------------------
(* Searches.                                                               *)

\* A candidate that matches a query is of one of the listings, what it calls the
\* venue is a name of it, and its identity is one of those names, or it has none
\* and the listing no suffix.
IsCalled(c, l) ==
  /\ c.listing = l
  /\ <<c.symbol, c.currency, c.class>> = <<l.symbol, l.currency, l.class>>
  /\ c.exchange \in {NoName} \cup VenueNames(l.venue)
  /\ c.mic \in {NoName} \cup VenueNames(l.venue)

IsOf(c, l) ==
  \/ Identity(c) = NoName /\ YahooSuffix[l.venue] = NoName
  \/ \E name \in VenueNames(l.venue) : Identity(c) = Canonical(name)

LEMMA NoNameHasNoMarket == Market(NoName) = NoName
BY SearchAssumption DEF Market, Normalized, At

LEMMA VenuesAreCalled ==
  ASSUME NEW r \in Reports
  PROVE  /\ r.listing \in Listings
         /\ \A what \in {"exchange", "mic"} :
              /\ Reported(r, what, YahooExchange) \in {NoName, YahooExchange[r.listing.venue]}
              /\ Reported(r, what, TwelveExchange) \in {NoName, TwelveExchange[r.listing.venue]}
              /\ Reported(r, what, Mic) \in {NoName, Mic[r.listing.venue]}
         /\ IsCalled(FromYahoo(r), r.listing) /\ IsCalled(FromTwelve(r), r.listing)
<1>1. r.listing \in Listings
  BY DEF Reports
<1>2. \A what \in {"exchange", "mic"} :
        /\ Reported(r, what, YahooExchange) \in {NoName, YahooExchange[r.listing.venue]}
        /\ Reported(r, what, TwelveExchange) \in {NoName, TwelveExchange[r.listing.venue]}
        /\ Reported(r, what, Mic) \in {NoName, Mic[r.listing.venue]}
  BY DEF Reported
<1>3. IsCalled(FromYahoo(r), r.listing)
  BY <1>2 DEF IsCalled, FromYahoo, Candidate, VenueNames
<1>4. IsCalled(FromTwelve(r), r.listing)
  BY <1>2 DEF IsCalled, FromTwelve, Candidate, VenueNames
<1> QED
  BY <1>1, <1>2, <1>3, <1>4

\* A candidate with an identity is of a venue of that name.
LEMMA IdentitiesAreNames ==
  ASSUME NEW l \in Listings, NEW c, IsCalled(c, l), Identity(c) # NoName
  PROVE  \E name \in VenueNames(l.venue) : Identity(c) = Canonical(name)
<1>1. CASE c.mic # NoName
  BY <1>1 DEF Identity, IsCalled
<1>2. CASE c.mic = NoName
  <2>1. c.exchange # NoName
    BY <1>2 DEF Identity
  <2> QED
    BY <1>2, <2>1 DEF Identity, IsCalled
<1> QED
  BY <1>1, <1>2

\* Yahoo says nothing of a venue: a suffix stays on the symbol.
LEMMA YahooCandidates ==
  ASSUME NEW r \in Reports, FromYahoo(r).suffix = NoName
  PROVE  IsOf(FromYahoo(r), r.listing)
<1> DEFINE c == FromYahoo(r)
<1>1. r.listing \in Listings /\ IsCalled(c, r.listing)
  BY VenuesAreCalled
<1>2. CASE Identity(c) # NoName
  BY <1>1, <1>2, IdentitiesAreNames DEF IsOf
<1>3. CASE Identity(c) = NoName
  <2>1. Reported(r, "exchange", YahooExchange) \in {NoName, YahooExchange[r.listing.venue]}
    BY VenuesAreCalled
  <2>2. c.exchange = Reported(r, "exchange", YahooExchange) /\ c.mic = NoName
    BY DEF FromYahoo, Candidate
  <2>3. \A name \in VenueNames(r.listing.venue) : name # NoName /\ Canonical(name) # NoName
    BY <1>1, SearchAssumption
  <2>4. c.exchange = NoName
    BY <1>3, <2>1, <2>2, <2>3 DEF Identity, VenueNames
  <2>5. Market(c.exchange) = NoName
    BY <2>4, NoNameHasNoMarket
  <2>6. \/ YahooSuffix[r.listing.venue] = NoName
        \/ /\ YahooSuffix[r.listing.venue] \in DOMAIN SuffixMarkets
           /\ SuffixMarkets[YahooSuffix[r.listing.venue]] = NoName
    BY <2>2, <2>5 DEF FromYahoo, Candidate
  <2> QED
    BY <1>3, <2>6, SearchAssumption DEF IsOf
<1> QED
  BY <1>2, <1>3

LEMMA TwelveCandidates ==
  ASSUME NEW r \in Reports, r.says # {} \/ Identity(FromTwelve(r)) # NoName
  PROVE  IsOf(FromTwelve(r), r.listing)
<1> DEFINE c == FromTwelve(r)
<1>1. r.listing \in Listings /\ IsCalled(c, r.listing)
  BY VenuesAreCalled
<1>2. CASE Identity(c) # NoName
  BY <1>1, <1>2, IdentitiesAreNames DEF IsOf
<1>3. CASE r.says # {}
  <2>1. "exchange" \in r.says \/ "mic" \in r.says
    BY <1>3 DEF Reports
  <2>2. \A name \in VenueNames(r.listing.venue) : name # NoName /\ Canonical(name) # NoName
    BY <1>1, SearchAssumption
  <2>3. c.exchange # NoName \/ c.mic # NoName
    BY <2>1, <2>2 DEF FromTwelve, Candidate, Reported, VenueNames
  <2>4. Identity(c) # NoName
    BY <1>1, <2>2, <2>3 DEF Identity, IsCalled
  <2> QED
    BY <1>1, <2>4, IdentitiesAreNames DEF IsOf
<1> QED
  BY <1>2, <1>3

\* Two candidates of one key are of one listing.
LEMMA SameKeySameListing ==
  ASSUME NEW l \in Listings, NEW m \in Listings, NEW c, NEW e,
         IsCalled(c, l), IsCalled(e, m), IsOf(c, l), IsOf(e, m), Key(c) = Key(e)
  PROVE  l = m
<1>1. /\ <<l.symbol, l.currency, l.class>> = <<m.symbol, m.currency, m.class>>
      /\ Identity(c) = Identity(e)
  BY DEF IsCalled, Key
<1>2. \A name \in VenueNames(l.venue) \cup VenueNames(m.venue) : Canonical(name) # NoName
  BY SearchAssumption
<1>3. CASE Identity(c) = NoName
  <2>1. YahooSuffix[l.venue] = NoName /\ YahooSuffix[m.venue] = NoName
    BY <1>1, <1>2, <1>3 DEF IsOf
  <2> QED
    BY <1>1, <2>1, SearchAssumption
<1>4. CASE Identity(c) # NoName
  <2>1. PICK name \in VenueNames(l.venue) : Identity(c) = Canonical(name)
    BY <1>4 DEF IsOf
  <2>2. PICK other \in VenueNames(m.venue) : Identity(e) = Canonical(other)
    BY <1>1, <1>4 DEF IsOf
  <2>3. Canonical(name) = Canonical(other)
    BY <1>1, <2>1, <2>2
  <2> QED
    BY <1>1, <2>3, SearchAssumption
<1> QED
  BY <1>3, <1>4

\* For any listings and tables: what a search merges is one listing, unless it
\* has no identity and Twelve Data said nothing of a venue; and it is of a venue
\* known by what was asked for.
LEMMA CandidatesMerge == CandidatesAreListings
<1> SUFFICES ASSUME NEW query \in Queries, NEW yahoo \in YahooAnswers, NEW twelve \in Answers,
                    NEW merged \in Search(query, yahoo, twelve)
             PROVE  /\ (\E c \in merged : Identity(c) # NoName) \/ (\A r \in twelve : r.says # {})
                         => Cardinality({c.listing : c \in merged}) = 1
                    /\ \A c \in merged :
                         \/ query.exchange = NoName
                         \/ \E name \in VenueNames(c.listing.venue) :
                              name = query.exchange \/ Market(name) = Normalized(query.exchange)
  BY DEF CandidatesAreListings
<1> DEFINE found == {c \in YahooSearch(query, yahoo) \cup TwelveSearch(twelve) : Matches(c, query)}
<1>1. PICK key \in {Key(c) : c \in found} : merged = {c \in found : Key(c) = key}
  BY DEF Search
<1>2. yahoo \subseteq Reports /\ twelve \subseteq Reports
  BY DEF Answers, YahooAnswers
<1>3. ASSUME NEW c \in found
      PROVE  /\ c.listing \in Listings /\ IsCalled(c, c.listing)
             /\ Identity(c) # NoName \/ (\A r \in twelve : r.says # {}) => IsOf(c, c.listing)
  <2>1. Matches(c, query) /\ c.suffix = NoName
    BY <1>3 DEF Matches
  <2>2. CASE c \in YahooSearch(query, yahoo)
    <3>1. PICK r \in yahoo : c = FromYahoo(r)
      BY <2>2 DEF YahooSearch
    <3>2. r \in Reports /\ r.listing \in Listings /\ IsCalled(c, r.listing)
      BY <1>2, <3>1, VenuesAreCalled
    <3>3. IsOf(c, r.listing)
      BY <2>1, <3>1, <3>2, YahooCandidates
    <3> QED
      BY <3>2, <3>3 DEF IsCalled
  <2>3. CASE c \in TwelveSearch(twelve)
    <3>1. PICK r \in twelve : c = FromTwelve(r)
      BY <2>3 DEF TwelveSearch
    <3>2. r \in Reports /\ r.listing \in Listings /\ IsCalled(c, r.listing)
      BY <1>2, <3>1, VenuesAreCalled
    <3>3. Identity(c) # NoName \/ r.says # {} => IsOf(c, r.listing)
      BY <3>1, <3>2, TwelveCandidates
    <3> QED
      BY <3>2, <3>3 DEF IsCalled
  <2> QED
    BY <1>3, <2>2, <2>3
<1> HIDE DEF found
<1>4. ASSUME (\E c \in merged : Identity(c) # NoName) \/ (\A r \in twelve : r.says # {})
      PROVE  Cardinality({c.listing : c \in merged}) = 1
  <2>1. PICK first \in merged : TRUE
    BY <1>1
  <2>2. ASSUME NEW c \in merged PROVE c.listing = first.listing
    <3>1. c \in found /\ first \in found /\ Key(c) = Key(first)
      BY <1>1
    <3>2. (Identity(c) # NoName /\ Identity(first) # NoName) \/ (\A r \in twelve : r.says # {})
      <4>1. \A e \in merged : Key(e) = Key(c)
        BY <1>1
      <4>2. \A e \in merged : Identity(e) = Identity(c)
        BY <4>1 DEF Key
      <4> QED
        BY <1>4, <4>2
    <3>3. /\ c.listing \in Listings /\ first.listing \in Listings
          /\ IsCalled(c, c.listing) /\ IsCalled(first, first.listing)
          /\ IsOf(c, c.listing) /\ IsOf(first, first.listing)
      BY <1>3, <3>1, <3>2
    <3> QED
      BY <3>1, <3>3, SameKeySameListing
  <2>3. {c.listing : c \in merged} = {first.listing}
    BY <2>1, <2>2
  <2> QED
    BY <2>3, FS_Singleton
<1>5. ASSUME NEW c \in merged, query.exchange # NoName
      PROVE  \E name \in VenueNames(c.listing.venue) :
               name = query.exchange \/ Market(name) = Normalized(query.exchange)
  <2>1. c \in found /\ IsCalled(c, c.listing)
    BY <1>1, <1>3
  <2>2. Matches(c, query)
    BY <2>1 DEF found
  <2>3. CASE Normalized(query.exchange) = NoName
    BY <1>5, <2>1, <2>2, <2>3 DEF Matches, IsCalled
  <2>4. CASE Normalized(query.exchange) # NoName
    <3>1. MarketOf(c) = Normalized(query.exchange) /\ MarketOf(c) # NoName
      BY <1>5, <2>2, <2>4 DEF Matches
    <3>2. \/ Market(c.exchange) = MarketOf(c) /\ c.exchange # NoName
          \/ Market(c.mic) = MarketOf(c) /\ c.mic # NoName
      BY <3>1, NoNameHasNoMarket DEF MarketOf
    <3> QED
      BY <2>1, <3>1, <3>2 DEF IsCalled
  <2> QED
    BY <2>3, <2>4
<1> QED
  BY <1>4, <1>5

\* A command that finds one candidate analyses one listing, whatever searchers
\* leave out, for any listings and tables, unless the candidate has no identity
\* and Twelve Data named a listing without an exchange or a MIC.
THEOREM SearchesAlwaysNameOneListing == Spec => []SearchesNameOneListing
<1>1. SearchesNameOneListing
  BY CandidatesMerge DEF SearchesNameOneListing
<1> QED
  BY <1>1, PTL

-----------------------------------------------------------------------------
(* Recursive functions over the first numbers.                             *)

\* A set of numbers that holds zero and every successor holds every number.
LEMMA CountUp ==
  ASSUME NEW N, 0 \in N, \A n \in Nat : n \in N => n + 1 \in N
  PROVE  Nat \subseteq N
<1> SUFFICES ASSUME Nat \ N # {} PROVE FALSE
  OBVIOUS
<1>1. PICK n \in Nat \ N : \A m \in Nat \ N : ~(<<m, n>> \in OpToRel(<, Nat))
  BY NatLessThanWellFounded, WFMin
<1>2. \A m \in Nat \ N : ~(m < n)
  BY <1>1 DEF OpToRel
<1>3. n # 0 /\ n - 1 \in Nat /\ n - 1 \in N
  BY <1>2
<1> QED
  BY <1>3

\* A function that takes a step of G at every number up to n.
StepsTo(f, a, N, x, S, G, n) ==
  /\ f \in [a..N -> S] /\ f[a] = x
  /\ \A i \in a + 1 .. N : i <= n => f[i] = G[i][f[i - 1]]

Staying(a, N, S, G) == \A n \in a..N, y \in S : n # a => G[n][y] \in S

Steps(f, a, N, x, S, G) ==
  /\ f \in [a..N -> S] /\ f[a] = x
  /\ \A i \in a..N : i # a => f[i] = G[i][f[i - 1]]

LEMMA StepsExist ==
  ASSUME NEW a \in Nat, NEW N \in Nat, a <= N, NEW S, NEW x \in S, NEW G, Staying(a, N, S, G)
  PROVE  \E f : Steps(f, a, N, x, S, G)
<1>0. \A n \in a + 1 .. N, y \in S : G[n][y] \in S
  BY DEF Staying
<1> DEFINE M == {n \in Nat : \E f : StepsTo(f, a, N, x, S, G, n)}
<1>1. 0 \in M
  <2> DEFINE f == [i \in a..N |-> x]
  <2>1. f \in [a..N -> S] /\ f[a] = x
    OBVIOUS
  <2>2. \A i \in a + 1 .. N : ~(i <= 0)
    OBVIOUS
  <2> HIDE DEF f
  <2>3. StepsTo(f, a, N, x, S, G, 0)
    BY <2>1, <2>2 DEF StepsTo
  <2> QED
    BY <2>3
<1>2. ASSUME NEW n \in Nat, n \in M PROVE n + 1 \in M
  <2>1. PICK f : StepsTo(f, a, N, x, S, G, n)
    BY <1>2
  <2> DEFINE g == [i \in a..N |-> IF i = n + 1 /\ i # a THEN G[i][f[n]] ELSE f[i]]
  <2>2. f \in [a..N -> S] /\ f[a] = x
    BY <2>1 DEF StepsTo
  <2>3. \A i \in a..N : g[i] \in S
    <3> SUFFICES ASSUME NEW i \in a..N PROVE g[i] \in S
      OBVIOUS
    <3>1. CASE i = n + 1 /\ i # a
      <4>1. n \in a..N /\ f[n] \in S /\ i \in a + 1 .. N
        BY <2>2, <3>1
      <4> QED
        BY <1>0, <3>1, <4>1
    <3>2. CASE ~(i = n + 1 /\ i # a)
      BY <2>2, <3>2
    <3> QED
      BY <3>1, <3>2
  <2>4. g \in [a..N -> S] /\ g[a] = x
    <3>1. g = [i \in a..N |-> g[i]]
      OBVIOUS
    <3>2. a \in a..N /\ g[a] = f[a]
      OBVIOUS
    <3> HIDE DEF g
    <3> QED
      BY <2>2, <2>3, <3>1, <3>2
  <2>5. ASSUME NEW i \in a + 1 .. N, i <= n + 1 PROVE g[i] = G[i][g[i - 1]]
    <3>1. i \in a..N /\ i # a /\ i - 1 \in a..N /\ i - 1 # n + 1
      BY <2>5
    <3>2. g[i - 1] = f[i - 1]
      BY <3>1
    <3>3. CASE i = n + 1
      <4>1. i - 1 = n /\ g[i] = G[i][f[n]]
        BY <3>1, <3>3
      <4> HIDE DEF g
      <4> QED
        BY <3>2, <4>1
    <3>4. CASE i # n + 1
      <4>1. i <= n /\ g[i] = f[i]
        BY <2>5, <3>1, <3>4
      <4>2. f[i] = G[i][f[i - 1]]
        BY <2>1, <4>1 DEF StepsTo
      <4> HIDE DEF g
      <4> QED
        BY <3>2, <4>1, <4>2
    <3> QED
      BY <3>3, <3>4
  <2> HIDE DEF g
  <2>6. StepsTo(g, a, N, x, S, G, n + 1)
    BY <2>4, <2>5 DEF StepsTo
  <2> QED
    BY <2>6
<1> HIDE DEF M
<1>3. N \in M
  BY <1>1, <1>2, CountUp
<1>4. PICK f : StepsTo(f, a, N, x, S, G, N)
  BY <1>3 DEF M
<1>5. \A i \in a + 1 .. N : i <= N
  OBVIOUS
<1>6. \A i \in a..N : i # a => f[i] = G[i][f[i - 1]]
  <2>1. \A i \in a..N : i # a => i \in a + 1 .. N
    OBVIOUS
  <2> QED
    BY <1>4, <1>5, <2>1 DEF StepsTo
<1> QED
  BY <1>4, <1>6 DEF StepsTo, Steps

-----------------------------------------------------------------------------
(* Reviews.                                                                *)

LEMMA Appended ==
  ASSUME NEW S, NEW s \in Seq(S), NEW x \in S
  PROVE  /\ Append(s, x) \in Seq(S)
         /\ Range(Append(s, x)) = Range(s) \cup {x}
         /\ IsInjective(s) /\ x \notin Range(s) => IsInjective(Append(s, x))
<1> DEFINE t == Append(s, x)
<1>1. Len(s) \in Nat /\ DOMAIN s = 1..Len(s)
  OBVIOUS
<1>2. /\ t \in Seq(S) /\ DOMAIN t = 1 .. Len(s) + 1
      /\ \A i \in 1..Len(s) : t[i] = s[i]
      /\ t[Len(s) + 1] = x
  OBVIOUS
<1> HIDE DEF t
<1>3. Range(t) = Range(s) \cup {x}
  <2>1. \A i \in DOMAIN t : i \in DOMAIN s \/ i = Len(s) + 1
    BY <1>1, <1>2
  <2>2. Len(s) + 1 \in DOMAIN t /\ \A i \in DOMAIN s : i \in DOMAIN t /\ t[i] = s[i]
    BY <1>1, <1>2
  <2> QED
    BY <1>2, <2>1, <2>2 DEF Range
<1>4. ASSUME IsInjective(s), x \notin Range(s), NEW i \in DOMAIN t, NEW j \in DOMAIN t, t[i] = t[j]
      PROVE  i = j
  <2>1. i \in DOMAIN s \/ i = Len(s) + 1
    BY <1>1, <1>2
  <2>2. j \in DOMAIN s \/ j = Len(s) + 1
    BY <1>1, <1>2
  <2>3. \A k \in DOMAIN s : t[k] = s[k] /\ t[k] # x
    BY <1>1, <1>2, <1>4 DEF Range
  <2>4. CASE i \in DOMAIN s /\ j \in DOMAIN s
    BY <1>4, <2>3, <2>4 DEF IsInjective
  <2> QED
    BY <1>2, <1>4, <2>1, <2>2, <2>3, <2>4
<1> QED
  BY <1>2, <1>3, <1>4 DEF IsInjective, t

Lots == [instrument : Instruments, analysed : BOOLEAN]

\* The instruments a review covers, holding by holding.
Covers(g, h) ==
  g = [n \in 0 .. Len(h) |->
         IF n = 0 THEN <<>>
         ELSE IF h[n].analysed /\ h[n].instrument \notin Range(g[n - 1])
         THEN Append(g[n - 1], h[n].instrument) ELSE g[n - 1]]

Covering(h) == CHOOSE g : Covers(g, h)

LEMMA CoveredIsCovering ==
  ASSUME NEW h
  PROVE  Covered(h) = Covering(h)[Len(h)]
BY Zenon DEF Covered, Covering, Covers

LEMMA CoveringExists ==
  ASSUME NEW h \in Seq(Lots)
  PROVE  Covers(Covering(h), h)
<1> DEFINE S == Seq(Instruments)
           G == [n \in 1 .. Len(h) |-> [y \in S |->
                  IF h[n].analysed /\ h[n].instrument \notin Range(y)
                  THEN Append(y, h[n].instrument) ELSE y]]
<1>1. Len(h) \in Nat /\ \A n \in 1 .. Len(h) : h[n].instrument \in Instruments
  <2>1. Len(h) \in Nat /\ \A n \in 1 .. Len(h) : h[n] \in Lots
    OBVIOUS
  <2> QED
    BY <2>1 DEF Lots
<1>2. \A n \in 1 .. Len(h), y \in S : G[n][y] \in S
  BY <1>1
<1>3. <<>> \in S
  OBVIOUS
<1>4. \A n \in 1 .. Len(h), y \in S :
        G[n][y] = IF h[n].analysed /\ h[n].instrument \notin Range(y)
                  THEN Append(y, h[n].instrument) ELSE y
  OBVIOUS
<1> HIDE DEF S, G
<1>5. Staying(0, Len(h), S, G)
  BY <1>1, <1>2 DEF Staying
<1>6. PICK f : Steps(f, 0, Len(h), <<>>, S, G)
  BY <1>1, <1>3, <1>5, StepsExist
<1>7. f \in [0 .. Len(h) -> S] /\ f[0] = <<>> /\ \A i \in 1 .. Len(h) : f[i] = G[i][f[i - 1]]
  BY <1>1, <1>6 DEF Steps
<1>8. Covers(f, h)
  <2>1. ASSUME NEW n \in 0 .. Len(h)
        PROVE  f[n] = IF n = 0 THEN <<>>
                      ELSE IF h[n].analysed /\ h[n].instrument \notin Range(f[n - 1])
                      THEN Append(f[n - 1], h[n].instrument) ELSE f[n - 1]
    <3>1. CASE n = 0
      BY <1>7, <3>1
    <3>2. CASE n # 0
      <4>1. n \in 1 .. Len(h) /\ n - 1 \in 0 .. Len(h)
        BY <1>1, <3>2
      <4>2. f[n] = G[n][f[n - 1]] /\ f[n - 1] \in S
        BY <1>7, <4>1
      <4> QED
        BY <1>4, <3>2, <4>1, <4>2
    <3> QED
      BY <3>1, <3>2
  <2>2. f = [n \in 0 .. Len(h) |-> f[n]]
    BY <1>7
  <2> QED
    BY <2>1, <2>2 DEF Covers
<1> QED
  BY <1>8 DEF Covering

\* What a review covers: each analysed instrument of its holdings, once.
LEMMA CoveredOnce ==
  ASSUME NEW h \in Seq(Lots)
  PROVE  /\ Covered(h) \in Seq(Instruments) /\ IsInjective(Covered(h))
         /\ Range(Covered(h)) = {lot.instrument : lot \in {k \in Range(h) : k.analysed}}
<1> DEFINE g == Covering(h)
           Said(n) == {h[m].instrument : m \in {k \in 1..n : h[k].analysed}}
           M == {n \in Nat : n <= Len(h) => /\ g[n] \in Seq(Instruments) /\ IsInjective(g[n])
                                           /\ Range(g[n]) = Said(n)}
<1>1. Len(h) \in Nat /\ DOMAIN h = 1 .. Len(h) /\ \A n \in 1 .. Len(h) : h[n] \in Lots
  OBVIOUS
<1>2. \A n \in 1 .. Len(h) : h[n].instrument \in Instruments
  BY <1>1 DEF Lots
<1>3. \A n \in 0 .. Len(h) :
        g[n] = IF n = 0 THEN <<>>
               ELSE IF h[n].analysed /\ h[n].instrument \notin Range(g[n - 1])
               THEN Append(g[n - 1], h[n].instrument) ELSE g[n - 1]
  <2>1. Covers(g, h)
    BY CoveringExists
  <2>2. g = [n \in 0 .. Len(h) |->
               IF n = 0 THEN <<>>
               ELSE IF h[n].analysed /\ h[n].instrument \notin Range(g[n - 1])
               THEN Append(g[n - 1], h[n].instrument) ELSE g[n - 1]]
    BY <2>1, Zenon DEF Covers
  <2> HIDE DEF g
  <2> QED
    BY <2>1, <2>2
<1> HIDE DEF g
<1>4. 0 \in M
  <2>1. g[0] = <<>>
    BY <1>1, <1>3
  <2>2. Range(<<>>) = {} /\ IsInjective(<<>>)
    BY DEF Range, IsInjective
  <2>3. Said(0) = {} /\ <<>> \in Seq(Instruments)
    OBVIOUS
  <2> HIDE DEF Said
  <2> QED
    BY <2>1, <2>2, <2>3
<1>5. ASSUME NEW n \in Nat, n \in M PROVE n + 1 \in M
  <2> SUFFICES ASSUME n + 1 <= Len(h)
               PROVE  /\ g[n + 1] \in Seq(Instruments) /\ IsInjective(g[n + 1])
                      /\ Range(g[n + 1]) = Said(n + 1)
    OBVIOUS
  <2> DEFINE i == h[n + 1].instrument
             old == g[n]
             new == g[n + 1]
  <2>1. n \in 0 .. Len(h) /\ n + 1 \in 0 .. Len(h) /\ n + 1 \in 1 .. Len(h) /\ n + 1 # 0
        /\ (n + 1) - 1 = n
    BY <1>1
  <2>2. /\ old \in Seq(Instruments) /\ i \in Instruments
        /\ IsInjective(old) /\ Range(old) = Said(n)
    BY <1>1, <1>2, <1>3, <1>5, <2>1
  <2>3. new = IF h[n + 1].analysed /\ i \notin Range(old) THEN Append(old, i) ELSE old
    BY <1>3, <2>1
  <2>4. Said(n + 1) = IF h[n + 1].analysed THEN Said(n) \cup {i} ELSE Said(n)
    <3>1. \A m : m \in 1 .. n + 1 <=> m \in 1..n \/ m = n + 1
      BY <1>1
    <3> QED
      BY <3>1
  <2> HIDE DEF i, old, new, Said
  <2>5. CASE h[n + 1].analysed /\ i \notin Range(old)
    <3>1. new \in Seq(Instruments) /\ IsInjective(new) /\ Range(new) = Range(old) \cup {i}
      BY <2>2, <2>3, <2>5, Appended
    <3> QED
      BY <2>2, <2>4, <2>5, <3>1 DEF new
  <2>6. CASE ~(h[n + 1].analysed /\ i \notin Range(old))
    BY <2>2, <2>3, <2>4, <2>6 DEF new
  <2> QED
    BY <2>5, <2>6
<1> HIDE DEF M
<1>6. Len(h) \in M
  BY <1>1, <1>4, <1>5, CountUp
<1>7. IsInjective(g[Len(h)]) /\ Range(g[Len(h)]) = Said(Len(h)) /\ g[Len(h)] \in Seq(Instruments)
  BY <1>1, <1>3, <1>6 DEF M
<1>8. Said(Len(h)) = {lot.instrument : lot \in {k \in Range(h) : k.analysed}}
  BY <1>1 DEF Range
<1>9. Covered(h) = g[Len(h)]
  BY CoveredIsCovering DEF g
<1> QED
  BY <1>7, <1>8, <1>9

-----------------------------------------------------------------------------
(* Windows.                                                                *)

\* The bars of a window, bar by bar.
Trims(g, bars, first, last) ==
  g = [n \in 0 .. Len(bars) |->
         IF n = 0 THEN <<>>
         ELSE IF first <= bars[n].day /\ bars[n].day <= last
         THEN Append(g[n - 1], bars[n]) ELSE g[n - 1]]

Trimming(bars, first, last) == CHOOSE g : Trims(g, bars, first, last)

LEMMA TrimmedIsTrimming ==
  ASSUME NEW bars, NEW first, NEW last
  PROVE  Trimmed(bars, first, last) = Trimming(bars, first, last)[Len(bars)]
BY Zenon DEF Trimmed, Trimming, Trims

LEMMA TrimmingExists ==
  ASSUME NEW B, NEW bars \in Seq(B), NEW first, NEW last
  PROVE  Trims(Trimming(bars, first, last), bars, first, last)
<1> DEFINE S == Seq(B)
           In(n) == first <= bars[n].day /\ bars[n].day <= last
           G == [n \in 1 .. Len(bars) |-> [y \in S |-> IF In(n) THEN Append(y, bars[n]) ELSE y]]
<1>1. Len(bars) \in Nat /\ \A n \in 1 .. Len(bars) : bars[n] \in B
  OBVIOUS
<1>2. \A n \in 1 .. Len(bars), y \in S : G[n][y] \in S
  BY <1>1
<1>3. <<>> \in S
  OBVIOUS
<1>4. \A n \in 1 .. Len(bars), y \in S : G[n][y] = IF In(n) THEN Append(y, bars[n]) ELSE y
  OBVIOUS
<1> HIDE DEF S, G, In
<1>5. Staying(0, Len(bars), S, G)
  BY <1>1, <1>2 DEF Staying
<1>6. PICK f : Steps(f, 0, Len(bars), <<>>, S, G)
  BY <1>1, <1>3, <1>5, StepsExist
<1>7. /\ f \in [0 .. Len(bars) -> S] /\ f[0] = <<>>
      /\ \A i \in 1 .. Len(bars) : f[i] = G[i][f[i - 1]]
  BY <1>1, <1>6 DEF Steps
<1>8. ASSUME NEW n \in 0 .. Len(bars)
      PROVE  f[n] = IF n = 0 THEN <<>>
                    ELSE IF In(n) THEN Append(f[n - 1], bars[n]) ELSE f[n - 1]
  <2>1. CASE n = 0
    BY <1>7, <2>1
  <2>2. CASE n # 0
    <3>1. n \in 1 .. Len(bars) /\ n - 1 \in 0 .. Len(bars)
      BY <1>1, <2>2
    <3>2. f[n] = G[n][f[n - 1]] /\ f[n - 1] \in S
      BY <1>7, <3>1
    <3> QED
      BY <1>4, <2>2, <3>1, <3>2
  <2> QED
    BY <2>1, <2>2
<1>9. f = [n \in 0 .. Len(bars) |-> f[n]]
  BY <1>7
<1>10. Trims(f, bars, first, last)
  BY <1>8, <1>9 DEF Trims, In
<1> QED
  BY <1>10 DEF Trimming

\* From the a-th bar to the z-th.
Span(bars, a, z) == [k \in 1 .. z - a + 1 |-> bars[a - 1 + k]]

LEMMA LongerSpan ==
  ASSUME NEW B, NEW bars \in Seq(B), NEW a \in Nat \ {0}, NEW n \in Nat, n + 1 <= Len(bars)
  PROVE  /\ a <= n + 1 => Append(Span(bars, a, n), bars[n + 1]) = Span(bars, a, n + 1)
         /\ n + 1 < a => Span(bars, a, n + 1) = <<>>
         /\ n < a => Span(bars, a, n) = <<>>
<1>1. ASSUME a <= n + 1
      PROVE  Append(Span(bars, a, n), bars[n + 1]) = Span(bars, a, n + 1)
  <2> DEFINE s == Span(bars, a, n)
             t == Span(bars, a, n + 1)
             L == n - a + 1
  <2>1. L \in Nat /\ n + 1 - a + 1 = L + 1 /\ a - 1 + (L + 1) = n + 1
    BY <1>1
  <2>2. \A k \in 1..L : a - 1 + k \in 1 .. Len(bars)
    BY <1>1
  <2>3. s \in Seq(B) /\ Len(s) = L /\ \A k \in 1..L : s[k] = bars[a - 1 + k]
    BY <2>1, <2>2 DEF Span
  <2>4. t = [k \in 1 .. L + 1 |-> bars[a - 1 + k]]
    BY <2>1 DEF Span
  <2> HIDE DEF s, t, L
  <2>5. Append(s, bars[n + 1]) = [k \in 1 .. L + 1 |-> IF k = L + 1 THEN bars[n + 1] ELSE s[k]]
    BY <2>1, <2>3
  <2>6. \A k \in 1 .. L + 1 : (IF k = L + 1 THEN bars[n + 1] ELSE s[k]) = bars[a - 1 + k]
    BY <2>1, <2>3
  <2> QED
    BY <2>4, <2>5, <2>6 DEF s, t
<1>2. \A z \in Int : z < a => Span(bars, a, z) = <<>>
  <2> SUFFICES ASSUME NEW z \in Int, z < a PROVE Span(bars, a, z) = <<>>
    OBVIOUS
  <2>1. 1 .. z - a + 1 = {}
    OBVIOUS
  <2> QED
    BY <2>1 DEF Span
<1> QED
  BY <1>1, <1>2

Consecutive(bars, lo) == \A n \in 1 .. Len(bars) : bars[n].day = lo + n - 1

FirstIn(lo, first) == IF first <= lo THEN 1 ELSE first - lo + 1

LastIn(lo, length, last) == IF length <= last - lo + 1 THEN length ELSE last - lo + 1

\* Of bars of consecutive days, those of a window are the days of both.
LEMMA TrimmedIsSpan ==
  ASSUME NEW B, NEW bars \in Seq(B), NEW lo \in Int, NEW first \in Int, NEW last \in Int,
         Consecutive(bars, lo)
  PROVE  Trimmed(bars, first, last)
           = Span(bars, FirstIn(lo, first), LastIn(lo, Len(bars), last))
<1> DEFINE a == FirstIn(lo, first)
           z == LastIn(lo, Len(bars), last)
<1>0. /\ a \in Nat \ {0} /\ z \in Int
      /\ a = IF first <= lo THEN 1 ELSE first - lo + 1
      /\ z = IF Len(bars) <= last - lo + 1 THEN Len(bars) ELSE last - lo + 1
      /\ \A n \in 1 .. Len(bars) : bars[n].day = lo + n - 1
  BY DEF FirstIn, LastIn, Consecutive
<1> HIDE DEF a, z
<1> DEFINE g == Trimming(bars, first, last)
           UpTo(n) == IF n <= z THEN n ELSE z
           M == {n \in Nat : n <= Len(bars) => g[n] = Span(bars, a, UpTo(n))}
<1>1. Len(bars) \in Nat /\ z <= Len(bars)
  BY <1>0 DEF UpTo
<1>2. \A n \in 0 .. Len(bars) :
        g[n] = IF n = 0 THEN <<>>
               ELSE IF first <= bars[n].day /\ bars[n].day <= last
               THEN Append(g[n - 1], bars[n]) ELSE g[n - 1]
  <2>1. Trims(g, bars, first, last)
    BY TrimmingExists
  <2>2. g = [n \in 0 .. Len(bars) |->
               IF n = 0 THEN <<>>
               ELSE IF first <= bars[n].day /\ bars[n].day <= last
               THEN Append(g[n - 1], bars[n]) ELSE g[n - 1]]
    BY <2>1, Zenon DEF Trims
  <2> HIDE DEF g
  <2> QED
    BY <2>2
<1> HIDE DEF g
<1>3. \A y \in Int : y < a => Span(bars, a, y) = <<>>
  <2> SUFFICES ASSUME NEW y \in Int, y < a PROVE Span(bars, a, y) = <<>>
    OBVIOUS
  <2>1. 1 .. y - a + 1 = {}
    BY <1>0
  <2> QED
    BY <2>1 DEF Span
<1>4. 0 \in M
  <2>1. g[0] = <<>>
    BY <1>1, <1>2
  <2>2. UpTo(0) \in Int /\ UpTo(0) < a
    BY <1>0
  <2> QED
    BY <1>3, <2>1, <2>2
<1>5. ASSUME NEW n \in Nat, n \in M PROVE n + 1 \in M
  <2> SUFFICES ASSUME n + 1 <= Len(bars) PROVE g[n + 1] = Span(bars, a, UpTo(n + 1))
    OBVIOUS
  <2>1. n + 1 \in 0 .. Len(bars) /\ n + 1 # 0 /\ (n + 1) - 1 = n /\ n + 1 \in 1 .. Len(bars)
    BY <1>1
  <2>2. g[n] = Span(bars, a, UpTo(n))
    BY <1>1, <1>5
  <2>3. bars[n + 1].day = lo + n
    BY <1>0, <2>1
  <2>4. g[n + 1] = IF first <= lo + n /\ lo + n <= last
                   THEN Append(g[n], bars[n + 1]) ELSE g[n]
    BY <1>2, <2>1, <2>3
  <2>5. first <= lo + n <=> a <= n + 1
    BY <1>0, <2>1
  <2>6. lo + n <= last <=> n + 1 <= z
    BY <1>0, <1>1
  <2>7. CASE a <= n + 1 /\ n + 1 <= z
    <3>1. UpTo(n) = n /\ UpTo(n + 1) = n + 1
      BY <1>0, <2>7
    <3>2. Append(Span(bars, a, n), bars[n + 1]) = Span(bars, a, n + 1)
      BY <1>0, <2>7, LongerSpan
    <3> QED
      BY <2>2, <2>4, <2>5, <2>6, <2>7, <3>1, <3>2
  <2>8. CASE n + 1 < a
    <3>1. UpTo(n) \in Int /\ UpTo(n + 1) \in Int /\ UpTo(n) < a /\ UpTo(n + 1) < a
      BY <1>0, <2>8
    <3> HIDE DEF UpTo
    <3>2. Span(bars, a, UpTo(n)) = <<>> /\ Span(bars, a, UpTo(n + 1)) = <<>>
      BY <1>3, <3>1
    <3>3. ~(a <= n + 1)
      BY <1>0, <2>8
    <3> QED
      BY <2>2, <2>4, <2>5, <3>2, <3>3
  <2>9. CASE z < n + 1
    <3>1. UpTo(n) = z /\ UpTo(n + 1) = z
      <4>1. n <= z => n = z
        BY <1>0, <2>9
      <4>2. ~(n + 1 <= z)
        BY <1>0, <2>9
      <4> QED
        BY <4>1, <4>2
    <3>2. ~(n + 1 <= z)
      BY <1>0, <2>9
    <3> QED
      BY <2>2, <2>4, <2>6, <3>1, <3>2
  <2> QED
    BY <1>0, <2>7, <2>8, <2>9
<1>6. UpTo(Len(bars)) = z
  BY <1>0, <1>1
<1> HIDE DEF M, UpTo
<1>7. Len(bars) \in M
  BY <1>1, <1>4, <1>5, CountUp
<1>8. g[Len(bars)] = Span(bars, a, z)
  BY <1>1, <1>6, <1>7 DEF M
<1> QED
  BY <1>8, TrimmedIsTrimming DEF g, a, z

-----------------------------------------------------------------------------
(* What an analysis may say.                                               *)

\* A finding names no day or that of a bar.
Dated(f, bars) == f.day = 0 \/ \E k \in 1 .. Len(bars) : f.day = bars[k].day

LEMMA FindingsAreDated ==
  ASSUME NEW s, NEW bars, DOMAIN bars = 1 .. Len(bars), Len(bars) \in Nat,
         NEW f \in SkillFindings(s, bars)
  PROVE  Dated(f, bars) /\ s \in Skills /\ SkillStatus(s, bars) = "success"
<1>1. SkillStatus(s, bars) = "success" /\ s \in Skills
  BY DEF SkillFindings, SkillStatus
<1>2. CASE s = "technical_snapshot"
  <2>1. f \in Trend(bars) \/ f \in Momentum(bars) \/ f \in Volume(bars)
    BY <1>1, <1>2 DEF SkillFindings, Technical
  <2>2. f \in Trend(bars) => f.day = 0
    BY DEF Trend, Finding
  <2>3. f \in Momentum(bars) => f.day = 0
    BY DEF Momentum, Finding
  <2>4. f \in Volume(bars) => f.day = 0
    BY DEF Volume, Finding
  <2> QED
    BY <1>1, <2>1, <2>2, <2>3, <2>4 DEF Dated
<1>3. CASE s = "candlestick_events"
  <2>1. f \in Patterns(bars)
    BY <1>1, <1>3 DEF SkillFindings, Recent
  <2>2. PICK i \in DOMAIN bars \cup (2 .. Len(bars)) : f.day = bars[i].day
    <3>1. \/ \E i \in {j \in DOMAIN bars : Doji(bars[j])} :
               f = Finding("doji", "info", "neutral", bars[i].day)
          \/ \E i \in {j \in 2 .. Len(bars) : EngulfsUp(bars[j - 1], bars[j])} :
               f = Finding("bullish_engulfing", "info", "bullish", bars[i].day)
          \/ \E i \in {j \in 2 .. Len(bars) : EngulfsDown(bars[j - 1], bars[j])} :
               f = Finding("bearish_engulfing", "info", "bearish", bars[i].day)
      BY <2>1 DEF Patterns
    <3>2. \A code, severity, direction, day : Finding(code, severity, direction, day).day = day
      BY DEF Finding
    <3> QED
      BY <3>1, <3>2
  <2>3. i \in 1 .. Len(bars)
    OBVIOUS
  <2> QED
    BY <1>1, <2>2, <2>3 DEF Dated
<1>4. CASE s = "market_risk_snapshot"
  <2>1. f \in Drawdown(bars) \/ f \in Volatility(bars) \/ f \in DailyMove(bars)
    BY <1>1, <1>4 DEF SkillFindings, MarketRisk
  <2>2. f \in Drawdown(bars) => f.day = 0
    BY DEF Drawdown, Finding
  <2>3. f \in Volatility(bars) => f.day = 0
    BY DEF Volatility, Finding
  <2>4. f \in DailyMove(bars) => f.day = 0
    BY DEF DailyMove, Finding
  <2> QED
    BY <1>1, <2>1, <2>2, <2>3, <2>4 DEF Dated
<1> QED
  BY <1>1, <1>2, <1>3, <1>4 DEF Skills

\* A result has findings only of the skills it ran.
LEMMA ResultsAreTyped ==
  ASSUME NEW skills, NEW bars, DOMAIN bars = 1 .. Len(bars), Len(bars) \in Nat
  PROVE  LET r == Analysis(skills, bars) IN
         /\ r.status \in {"success", "partial", "failed"}
         /\ \A s \in DOMAIN r.findings : r.findings[s] # {} => s \in Skills /\ r.status # "failed"
<1> DEFINE r == Analysis(skills, bars)
           statuses == {SkillStatus(s, bars) : s \in Range(skills)}
<1>1. /\ r.status = Overall(statuses)
      /\ r.findings = [s \in Range(skills) |-> SkillFindings(s, bars)]
  BY DEF Analysis
<1>2. r.status \in {"success", "partial", "failed"}
  BY <1>1 DEF Overall
<1>3. ASSUME NEW s \in DOMAIN r.findings, r.findings[s] # {}
      PROVE  s \in Skills /\ r.status # "failed"
  <2>1. s \in Range(skills) /\ SkillFindings(s, bars) # {}
    BY <1>1, <1>3
  <2>2. s \in Skills /\ SkillStatus(s, bars) = "success"
    BY <2>1, FindingsAreDated
  <2>3. "success" \in statuses
    BY <2>1, <2>2
  <2>4. statuses # {"failed"}
    BY <2>3
  <2> HIDE DEF statuses
  <2> QED
    BY <1>1, <2>2, <2>4 DEF Overall
<1> QED
  BY <1>2, <1>3

-----------------------------------------------------------------------------
(* The inductive invariant.                                                *)

\* What a task may have noted.
OutcomesOf(skills) == {Analysis(skills, bars) : bars \in Seq(DailyBars)}

Outcomes == UNION {OutcomesOf(skills) : skills \in Requested \cup {Bundle}}

Entries ==
  [instrument : Instruments, kind : {"error"}]
  \cup [instrument : Instruments, kind : {"analysis"}, task : Tasks, asked : Windows,
        dataset : GivenBars, on : Days, result : Outcomes]

\* An analysis is of its window of a market m.
OfWindow(e, m) ==
  /\ ~e.dataset.stale /\ e.dataset.on > e.result.through =>
       /\ e.result.through >= e.asked.last
       /\ e.result = Analysis(e.task.skills,
                              [n \in 1 .. e.result.through - First(e.task) + 1 |->
                                 m[e.instrument][First(e.task) + n - 1]])
  /\ e.result.through <= e.task.asOf /\ e.result.through < e.on
  /\ \A s \in DOMAIN e.result.findings : \A f \in e.result.findings[s] :
       f.day <= e.task.asOf

CalendarInv == market \in Markets /\ today \in Start .. LastDay

CacheInv ==
  /\ history \in [Instruments -> Datasets \cup {NoData}]
  /\ \A i \in Instruments : history[i] # NoData => history[i].last <= history[i].on

\* What the task that runs has asked for ends before today, and what it was
\* given has it all, unless it is stale.
TaskInv ==
  /\ task \in Tasks \cup {NoTask}
  /\ todo \in Seq(Instruments) /\ (Idle => todo = <<>>)
  /\ asked \in Windows \cup {NoData} /\ got \in GivenBars \cup {NoData}
  /\ asked # NoData => /\ todo # <<>> /\ asked.first = First(task)
                       /\ asked.first <= asked.last /\ asked.last <= Completed(task.asOf)
  /\ got # NoData => /\ asked # NoData
                     /\ ~got.stale => got.first <= asked.first /\ asked.last <= got.last

EvidenceInv ==
  /\ evidence \in Seq(Entries)
  /\ \A n \in DOMAIN evidence : evidence[n].kind = "analysis" => OfWindow(evidence[n], market)

Answered == [n \in DOMAIN evidence |-> evidence[n].instrument]

\* What a review has answered and what it has to do are what it covers.
ReviewInv ==
  task # NoTask /\ task.kind = "review" =>
    /\ Len(Answered) + Len(todo) = Len(Covered(task.holdings))
    /\ \A n \in DOMAIN evidence : Answered[n] = Covered(task.holdings)[n]
    /\ \A n \in DOMAIN todo : todo[n] = Covered(task.holdings)[Len(evidence) + n]

CountInv == tasks \in 0 .. MaxTasks /\ fetches \in 0 .. MaxFetches

AnalysisInv ==
  CalendarInv /\ CacheInv /\ TaskInv /\ EvidenceInv /\ ReviewInv /\ CountInv

LEMMA DaysAre ==
  /\ Days \subseteq Nat \ {0} /\ Start \in Nat \ {0} /\ LastDay \in Nat
  /\ Start .. LastDay \subseteq Days
BY AnalysisAssumption DEF Days

LEMMA TasksAre ==
  ASSUME NEW t \in Tasks
  PROVE  /\ t.asOf \in Nat /\ t.lookback \in Nat \ {0} /\ First(t) \in Int
         /\ t.skills \in Requested \cup {Bundle}
         /\ t.kind = "review" => t.holdings \in Holdings
         /\ t # NoTask
<1>1. t # NoTask
  BY AnalysisAssumption
<1>2. CASE t \in [kind : {"review"}, holdings : Holdings, asOf : Nat, lookback : Nat \ {0},
                  skills : {Bundle}, stale : {FALSE}]
  BY <1>1, <1>2 DEF First
<1>3. CASE t \in [kind : {"command"}, asOf : Nat, lookback : Nat \ {0},
                  skills : Requested \cup {Bundle}, stale : BOOLEAN]
  BY <1>1, <1>3 DEF First
<1> QED
  BY <1>2, <1>3 DEF Tasks

\* The bars of a dataset are of its days.
LEMMA BarsAre ==
  ASSUME CalendarInv, NEW i \in Instruments, NEW d, d.first \in Days, d.last \in Days, d.on \in Days
  PROVE  /\ BarsOf(i, d) \in Seq(DailyBars)
         /\ Len(BarsOf(i, d)) = IF d.first <= d.last THEN d.last - d.first + 1 ELSE 0
         /\ \A n \in 1 .. Len(BarsOf(i, d)) :
              /\ BarsOf(i, d)[n] = Bar(i, d.first + n - 1, d.on)
              /\ BarsOf(i, d)[n].day = d.first + n - 1
<1> DEFINE L == IF d.first <= d.last THEN d.last - d.first + 1 ELSE 0
           bars == BarsOf(i, d)
<1>1. d.first \in Nat \ {0} /\ d.last \in Nat \ {0} /\ L \in Nat /\ LastDay \in Nat
  <2>1. d.first \in Nat \ {0} /\ d.last \in Nat \ {0} /\ LastDay \in Nat
    BY DaysAre
  <2> QED
    BY <2>1
<1>2. 1 .. d.last - d.first + 1 = 1..L
  BY <1>1
<1>3. bars = [n \in 1..L |-> Bar(i, d.first + n - 1, d.on)]
  BY <1>2 DEF BarsOf
<1>4. ASSUME NEW day \in Days PROVE Bar(i, day, d.on) \in DailyBars /\ Bar(i, day, d.on).day = day
  <2>1. market[i][day] \in DailyBars /\ market[i][day].day = day
    BY AnalysisAssumption DEF CalendarInv
  <2>2. Unfinished(market[i][day]) \in DailyBars /\ Unfinished(market[i][day]).day = day
    BY <2>1 DEF Unfinished, DailyBars
  <2> QED
    BY <2>1, <2>2 DEF Bar
<1>5. \A n \in 1..L : d.first + n - 1 \in Days
  BY <1>1, AnalysisAssumption DEF Days
<1> HIDE DEF L, bars
<1>6. bars \in Seq(DailyBars) /\ Len(bars) = L
  BY <1>1, <1>3, <1>4, <1>5
<1> QED
  BY <1>3, <1>4, <1>5, <1>6 DEF L, bars

\* What the task that waits for nothing more has read: the bars of its window
\* up to the day they end or the last that was completed.
LEMMA AnalysisReadsItsWindow ==
  ASSUME CalendarInv, TaskInv, got # NoData,
         NEW i \in Instruments, NEW bars,
         bars = Trimmed(BarsOf(i, got), First(task), Completed(task.asOf)),
         NEW e, e = [instrument |-> i, kind |-> "analysis", task |-> task, asked |-> asked,
                     dataset |-> got, on |-> today, result |-> Analysis(task.skills, bars)]
  PROVE  e \in Entries /\ OfWindow(e, market)
<1> DEFINE F == First(task)
           C == Completed(task.asOf)
           lo == got.first
           whole == BarsOf(i, got)
           L == IF lo <= got.last THEN got.last - lo + 1 ELSE 0
           a == IF F <= lo THEN 1 ELSE F - lo + 1
           z == IF L <= C - lo + 1 THEN L ELSE C - lo + 1
           t == task
           through == IF bars = <<>> THEN 0 ELSE Last(bars).day
<1>1. /\ t \in Tasks /\ t.asOf \in Nat /\ F \in Int /\ t.skills \in Requested \cup {Bundle}
      /\ asked \in Windows /\ asked.first \in Int /\ asked.last \in Int
      /\ asked.first = F /\ F <= asked.last /\ asked.last <= C
      /\ got \in GivenBars /\ lo \in Days /\ got.last \in Days /\ got.on \in Days
      /\ got.stale \in BOOLEAN
      /\ ~got.stale => lo <= F /\ asked.last <= got.last
  <2>1. task # NoTask /\ asked # NoData
    BY DEF TaskInv, Idle
  <2>2. t \in Tasks /\ asked \in Windows /\ got \in GivenBars
    BY <2>1 DEF TaskInv
  <2>3. t.asOf \in Nat /\ F \in Int /\ t.skills \in Requested \cup {Bundle}
    BY <2>2, TasksAre
  <2>4. asked.first \in Int /\ asked.last \in Int
    BY <2>2 DEF Windows
  <2>5. lo \in Days /\ got.last \in Days /\ got.on \in Days /\ got.stale \in BOOLEAN
    BY <2>2 DEF GivenBars
  <2>6. /\ asked.first = F /\ F <= asked.last /\ asked.last <= C
        /\ ~got.stale => lo <= F /\ asked.last <= got.last
    BY <2>1 DEF TaskInv
  <2> QED
    BY <2>2, <2>3, <2>4, <2>5, <2>6
<1>2. /\ today \in Days /\ today \in Nat \ {0} /\ lo \in Nat \ {0} /\ got.last \in Nat \ {0}
      /\ got.on \in Nat \ {0}
  BY <1>1, DaysAre DEF CalendarInv
<1>3. C \in Int /\ C <= t.asOf /\ C < today
  BY <1>1, <1>2 DEF Completed
<1>4. /\ whole \in Seq(DailyBars) /\ Len(whole) = L /\ L \in Nat
      /\ \A n \in 1..L : whole[n] = Bar(i, lo + n - 1, got.on) /\ whole[n].day = lo + n - 1
  <2>1. L \in Nat
    BY <1>2
  <2> HIDE DEF whole
  <2>2. /\ whole \in Seq(DailyBars) /\ Len(whole) = L
        /\ \A n \in 1 .. Len(whole) : /\ whole[n] = Bar(i, lo + n - 1, got.on)
                                      /\ whole[n].day = lo + n - 1
    BY <1>1, BarsAre DEF whole
  <2> HIDE DEF L
  <2> QED
    BY <2>1, <2>2
<1>5. a \in Nat \ {0} /\ z \in Int /\ z <= L /\ z <= C - lo + 1
  <2>1. F \in Int /\ lo \in Int /\ C \in Int /\ L \in Nat
    BY <1>1, <1>2, <1>3, <1>4
  <2> HIDE DEF C, F, lo, L
  <2> QED
    BY <2>1
<1> HIDE DEF C, F, whole, lo, t
<1>6. bars = Span(whole, a, z)
  <2>1. a = FirstIn(lo, F) /\ z = LastIn(lo, Len(whole), C)
    BY <1>4 DEF FirstIn, LastIn
  <2> HIDE DEF a, z, L
  <2>2. Consecutive(whole, lo)
    BY <1>4 DEF Consecutive
  <2>3. whole \in Seq(DailyBars) /\ F \in Int /\ C \in Int /\ lo \in Int
    BY <1>1, <1>2, <1>3, <1>4
  <2>4. bars = Trimmed(whole, F, C)
    BY DEF F, C, whole
  <2> QED
    BY <2>1, <2>2, <2>3, <2>4, TrimmedIsSpan
<1>7. /\ bars \in Seq(DailyBars) /\ Len(bars) = IF a <= z THEN z - a + 1 ELSE 0
      /\ \A k \in 1 .. Len(bars) : a - 1 + k \in 1..L /\ bars[k] = whole[a - 1 + k]
  <2> DEFINE M == IF a <= z THEN z - a + 1 ELSE 0
  <2> HIDE DEF a, z, L
  <2>1. 1 .. z - a + 1 = 1..M /\ M \in Nat
    BY <1>5
  <2>2. \A k \in 1..M : a - 1 + k \in 1..L
    BY <1>4, <1>5
  <2>3. bars = [k \in 1..M |-> whole[a - 1 + k]]
    BY <1>6, <2>1 DEF Span
  <2>4. \A k \in 1..M : whole[a - 1 + k] \in DailyBars
    BY <1>4, <2>2
  <2> HIDE DEF M
  <2>5. bars \in Seq(DailyBars) /\ Len(bars) = M
    BY <2>1, <2>3, <2>4
  <2> QED
    BY <2>2, <2>3, <2>5 DEF M
<1>8. \A k \in 1 .. Len(bars) : bars[k].day = lo + (a - 1 + k) - 1 /\ bars[k].day <= C
  <2> SUFFICES ASSUME NEW k \in 1 .. Len(bars)
               PROVE  bars[k].day = lo + (a - 1 + k) - 1 /\ bars[k].day <= C
    OBVIOUS
  <2>1. a - 1 + k \in 1..L /\ bars[k] = whole[a - 1 + k]
    BY <1>7
  <2>2. bars[k].day = lo + (a - 1 + k) - 1
    BY <1>4, <2>1
  <2> HIDE DEF a, z, L
  <2>3. k <= z - a + 1
    BY <1>5, <1>7
  <2> QED
    BY <1>2, <1>3, <1>5, <2>2, <2>3, SMTT(30)
<1>9. /\ through \in Int /\ through <= t.asOf /\ through < today
      /\ bars # <<>> => Len(bars) \in 1 .. Len(bars) /\ through = bars[Len(bars)].day
  <2>1. CASE bars = <<>>
    BY <1>1, <1>2, <2>1
  <2>2. CASE bars # <<>>
    <3>1. Len(bars) \in 1 .. Len(bars) /\ through = bars[Len(bars)].day
      BY <1>7, <2>2 DEF Last
    <3>2. bars[Len(bars)] \in DailyBars /\ bars[Len(bars)].day <= C
      BY <1>7, <1>8, <3>1
    <3>3. bars[Len(bars)].day \in Nat
      BY <3>2 DEF DailyBars
    <3> HIDE DEF through
    <3> QED
      BY <1>1, <1>2, <1>3, <3>1, <3>2, <3>3, SMTT(30)
  <2> QED
    BY <2>1, <2>2
<1>10. /\ e.result = Analysis(t.skills, bars) /\ e.result.through = through
       /\ e.instrument = i /\ e.task = t /\ e.asked = asked /\ e.dataset = got /\ e.on = today
       /\ e.kind = "analysis"
  BY DEF Analysis, t
<1>11. e \in Entries
  <2>1. Analysis(t.skills, bars) \in Outcomes
    <3>1. t.skills \in Requested \cup {Bundle} /\ bars \in Seq(DailyBars)
      BY <1>1, <1>7
    <3>2. Analysis(t.skills, bars) \in OutcomesOf(t.skills)
      BY <3>1 DEF OutcomesOf
    <3> QED
      BY <3>1, <3>2 DEF Outcomes
  <2>2. e = [instrument |-> i, kind |-> "analysis", task |-> t, asked |-> asked, dataset |-> got,
             on |-> today, result |-> Analysis(t.skills, bars)]
    BY DEF t
  <2>3. e \in [instrument : Instruments, kind : {"analysis"}, task : Tasks, asked : Windows,
               dataset : GivenBars, on : Days, result : Outcomes]
    BY <1>1, <1>2, <2>1, <2>2
  <2> QED
    BY <2>3 DEF Entries
<1>12. ASSUME ~got.stale, got.on > through
       PROVE  /\ through >= asked.last
              /\ Analysis(t.skills, bars) = Analysis(t.skills, FinalBars(i, F, through))
  <2>1. lo <= F /\ asked.last <= got.last
    BY <1>1, <1>12
  <2>2. a = F - lo + 1 /\ a <= z /\ lo + z - 1 >= asked.last
    BY <1>1, <1>2, <1>3, <2>1
  <2>3. Len(bars) = z - a + 1 /\ bars # <<>>
    BY <1>5, <1>7, <2>2
  <2>4. through = lo + z - 1
    <3>1. Len(bars) \in 1 .. Len(bars) /\ through = bars[Len(bars)].day
      BY <1>9, <2>3
    <3>2. through = lo + (a - 1 + Len(bars)) - 1
      BY <1>8, <3>1
    <3> HIDE DEF through, a, z, L
    <3> QED
      BY <1>2, <1>5, <2>3, <3>2
  <2> HIDE DEF through
  <2>5. z - a + 1 = through - F + 1
    BY <1>1, <1>2, <1>5, <2>2, <2>4
  <2>6. ASSUME NEW k \in 1 .. through - F + 1
        PROVE  bars[k] = market[i][F + k - 1]
    <3>1. k \in 1 .. Len(bars) /\ k \in Int
      BY <2>3, <2>5
    <3> HIDE DEF a, z, L
    <3>2. a - 1 + k \in 1..L /\ bars[k] = whole[a - 1 + k]
      BY <1>7, <3>1
    <3>3. whole[a - 1 + k] = Bar(i, lo + (a - 1 + k) - 1, got.on)
      BY <1>4, <3>2
    <3>4. lo + (a - 1 + k) - 1 = F + k - 1 /\ F + k - 1 <= through
      <4>1. lo \in Int /\ F \in Int /\ through \in Int /\ k \in Int /\ k <= through - F + 1
        BY <1>1, <1>2, <1>9, <3>1
      <4>2. a = F - lo + 1
        BY <2>2
      <4> QED
        BY <4>1, <4>2
    <3>5. F + k - 1 < got.on
      BY <1>1, <1>2, <1>9, <1>12, <3>1, <3>4
    <3> QED
      BY <3>2, <3>3, <3>4, <3>5 DEF Bar
  <2>7. bars = [k \in 1 .. through - F + 1 |-> bars[k]]
    BY <1>7, <2>3, <2>5
  <2>8. bars = FinalBars(i, F, through)
    BY <2>6, <2>7 DEF FinalBars
  <2> QED
    BY <2>2, <2>4, <2>8
<1>13. ASSUME NEW s \in DOMAIN e.result.findings, NEW f \in e.result.findings[s]
       PROVE  f.day <= t.asOf
  <2>1. f \in SkillFindings(s, bars)
    BY <1>10, <1>13 DEF Analysis
  <2>2. DOMAIN bars = 1 .. Len(bars) /\ Len(bars) \in Nat
    BY <1>7
  <2>3. Dated(f, bars)
    BY <2>1, <2>2, FindingsAreDated
  <2>4. \A k \in 1 .. Len(bars) : bars[k].day \in Nat /\ bars[k].day <= C
    <3>1. \A k \in 1 .. Len(bars) : bars[k] \in DailyBars
      BY <1>7
    <3> QED
      BY <1>8, <3>1 DEF DailyBars
  <2> QED
    BY <1>1, <1>3, <2>3, <2>4 DEF Dated
<1> HIDE DEF through
<1>14. OfWindow(e, market)
  <2>1. ~e.dataset.stale /\ e.dataset.on > e.result.through =>
          /\ e.result.through >= e.asked.last
          /\ e.result = Analysis(e.task.skills,
                                 [n \in 1 .. e.result.through - First(e.task) + 1 |->
                                    market[e.instrument][First(e.task) + n - 1]])
    BY <1>10, <1>12 DEF F, t, FinalBars
  <2>2. e.result.through <= e.task.asOf /\ e.result.through < e.on
    BY <1>9, <1>10
  <2>3. \A s \in DOMAIN e.result.findings : \A f \in e.result.findings[s] : f.day <= e.task.asOf
    BY <1>10, <1>13
  <2> QED
    BY <2>1, <2>2, <2>3 DEF OfWindow
<1> QED
  BY <1>11, <1>14

LEMMA InitIsSound == Init => AnalysisInv
<1> SUFFICES ASSUME Init PROVE AnalysisInv
  OBVIOUS
<1>1. Start \in Start .. LastDay
  BY DaysAre, AnalysisAssumption DEF Days
<1>2. CalendarInv
  BY <1>1 DEF Init, CalendarInv
<1>3. CacheInv
  BY DEF Init, CacheInv
<1>4. TaskInv
  BY DEF Init, TaskInv, Idle
<1>5. EvidenceInv
  BY DEF Init, EvidenceInv
<1>6. ReviewInv
  BY DEF Init, ReviewInv
<1>7. CountInv
  BY AnalysisAssumption DEF Init, CountInv
<1> QED
  BY <1>2, <1>3, <1>4, <1>5, <1>6, <1>7 DEF AnalysisInv

\* The next answer of a review is of the next instrument it covers.
LEMMA AnsweringKeepsReview ==
  ASSUME TaskInv, EvidenceInv, ReviewInv, todo # <<>>, NEW e,
         e.instrument = Head(todo), e \in Entries,
         evidence' = Append(evidence, e), todo' = Tail(todo), task' = task
  PROVE  ReviewInv'
<1> SUFFICES ASSUME task # NoTask, task.kind = "review"
             PROVE  LET c == Covered(task.holdings) IN
                    /\ Len(Answered') + Len(todo') = Len(c)
                    /\ \A n \in DOMAIN evidence' : Answered'[n] = c[n]
                    /\ \A n \in DOMAIN todo' : todo'[n] = c[Len(evidence') + n]
  BY DEF ReviewInv
<1> DEFINE c == Covered(task.holdings)
<1>1. /\ todo \in Seq(Instruments) /\ evidence \in Seq(Entries)
      /\ Len(todo) \in Nat \ {0} /\ Len(evidence) \in Nat /\ Len(Answered) = Len(evidence)
      /\ DOMAIN evidence = 1 .. Len(evidence) /\ DOMAIN todo = 1 .. Len(todo)
  <2>1. todo \in Seq(Instruments) /\ evidence \in Seq(Entries)
    BY DEF TaskInv, EvidenceInv
  <2> QED
    BY <2>1 DEF Answered
<1>2. /\ Len(Answered) + Len(todo) = Len(c)
      /\ \A n \in DOMAIN evidence : evidence[n].instrument = c[n]
      /\ \A n \in DOMAIN todo : todo[n] = c[Len(evidence) + n]
  BY DEF ReviewInv, Answered
<1>3. /\ DOMAIN evidence' = 1 .. Len(evidence) + 1 /\ Len(evidence') = Len(evidence) + 1
      /\ \A n \in 1 .. Len(evidence) : evidence'[n] = evidence[n]
      /\ evidence'[Len(evidence) + 1] = e
  BY <1>1
<1>4. /\ Len(todo') = Len(todo) - 1 /\ DOMAIN todo' = 1 .. Len(todo) - 1
      /\ \A n \in 1 .. Len(todo) - 1 : todo'[n] = todo[n + 1]
  BY <1>1
<1>5. Len(Answered') = Len(evidence) + 1
        /\ \A n \in DOMAIN evidence' : Answered'[n] = evidence'[n].instrument
  BY <1>1, <1>3 DEF Answered
<1> HIDE DEF c
<1>6. Len(Answered') + Len(todo') = Len(c)
  BY <1>1, <1>2, <1>4, <1>5
<1>7. \A n \in DOMAIN evidence' : Answered'[n] = c[n]
  <2>1. Head(todo) = c[Len(evidence) + 1]
    BY <1>1, <1>2
  <2>2. \A n \in DOMAIN evidence' : n \in 1 .. Len(evidence) \/ n = Len(evidence) + 1
    BY <1>1, <1>3
  <2> QED
    BY <1>1, <1>2, <1>3, <1>5, <2>1, <2>2
<1>8. \A n \in DOMAIN todo' : todo'[n] = c[Len(evidence') + n]
  <2> SUFFICES ASSUME NEW n \in 1 .. Len(todo) - 1 PROVE todo'[n] = c[Len(evidence) + 1 + n]
    BY <1>3, <1>4
  <2>1. n + 1 \in DOMAIN todo /\ Len(evidence) + (n + 1) = Len(evidence) + 1 + n
    BY <1>1
  <2>2. todo'[n] = todo[n + 1] /\ todo[n + 1] = c[Len(evidence) + (n + 1)]
    BY <1>2, <1>4, <2>1
  <2> QED
    BY <2>1, <2>2
<1> QED
  BY <1>6, <1>7, <1>8 DEF c

LEMMA AnsweringKeepsEvidence ==
  ASSUME EvidenceInv, NEW e \in Entries, e.kind = "analysis" => OfWindow(e, market),
         evidence' = Append(evidence, e), market' = market
  PROVE  EvidenceInv'
<1>1. evidence \in Seq(Entries)
  BY DEF EvidenceInv
<1>2. /\ evidence' \in Seq(Entries) /\ DOMAIN evidence' = 1 .. Len(evidence) + 1
      /\ \A n \in 1 .. Len(evidence) : evidence'[n] = evidence[n]
      /\ evidence'[Len(evidence) + 1] = e
  BY <1>1
<1>3. ASSUME NEW n \in DOMAIN evidence', evidence'[n].kind = "analysis"
      PROVE  OfWindow(evidence'[n], market')
  <2>1. CASE n = Len(evidence) + 1
    BY <1>2, <1>3, <2>1
  <2>2. CASE n # Len(evidence) + 1
    <3>1. n \in DOMAIN evidence /\ evidence'[n] = evidence[n]
      BY <1>1, <1>2, <2>2
    <3>2. OfWindow(evidence[n], market)
      BY <1>3, <3>1 DEF EvidenceInv
    <3> QED
      BY <3>1, <3>2
  <2> QED
    BY <2>1, <2>2
<1> QED
  BY <1>2, <1>3 DEF EvidenceInv

\* After an answer the task waits for nothing.
LEMMA AnsweringKeepsTask ==
  ASSUME TaskInv, todo # <<>>, todo' = Tail(todo), task' = task, asked' = NoData, got' = NoData
  PROVE  TaskInv'
<1>1. todo' \in Seq(Instruments) /\ (Idle' => todo' = <<>>)
  BY DEF TaskInv, Idle
<1> QED
  BY <1>1 DEF TaskInv, Idle

LEMMA CacheIsKept ==
  ASSUME CacheInv, history' = history
  PROVE  CacheInv'
BY DEF CacheInv

LEMMA RaisingIsSound ==
  ASSUME AnalysisInv, Raise, todo # <<>>,
         UNCHANGED <<market, today, history, task, tasks, fetches>>
  PROVE  AnalysisInv'
<1> DEFINE e == [instrument |-> Head(todo), kind |-> "error"]
<1>1. e \in Entries /\ e.kind # "analysis" /\ e.instrument = Head(todo)
  <2>1. Head(todo) \in Instruments
    BY DEF AnalysisInv, TaskInv
  <2>2. e \in [instrument : Instruments, kind : {"error"}]
    BY <2>1
  <2> QED
    BY <2>2 DEF Entries
<1>2. /\ evidence' = Append(evidence, e) /\ todo' = Tail(todo)
      /\ asked' = NoData /\ got' = NoData /\ market' = market /\ task' = task
      /\ history' = history
  BY DEF Raise
<1> HIDE DEF e
<1>3. CalendarInv' /\ CountInv'
  BY DEF AnalysisInv, CalendarInv, CountInv
<1>4. CacheInv'
  BY <1>2, CacheIsKept DEF AnalysisInv
<1>5. TaskInv'
  BY <1>2, AnsweringKeepsTask DEF AnalysisInv
<1>6. EvidenceInv'
  BY <1>1, <1>2, AnsweringKeepsEvidence DEF AnalysisInv
<1>7. ReviewInv'
  BY <1>1, <1>2, AnsweringKeepsReview DEF AnalysisInv
<1> QED
  BY <1>3, <1>4, <1>5, <1>6, <1>7 DEF AnalysisInv

\* A task that waits has an instrument to analyse, and waits for its window.
LEMMA WaitingIsForAnInstrument ==
  ASSUME TaskInv, asked # NoData
  PROVE  /\ task \in Tasks /\ todo # <<>> /\ Head(todo) \in Instruments
         /\ asked \in Windows /\ asked.first <= asked.last /\ got \in GivenBars \cup {NoData}
<1>1. todo # <<>> /\ todo \in Seq(Instruments) /\ task \in Tasks
  BY DEF TaskInv, Idle
<1>2. Head(todo) \in Instruments
  BY <1>1
<1> QED
  BY <1>1, <1>2 DEF TaskInv

\* A dataset that can be fetched is one of days, to the day it is fetched.
LEMMA FetchedIsADataset ==
  ASSUME CalendarInv, NEW window \in Windows, window.first <= window.last, CanFetch(window)
  PROVE  /\ Fetched(window) \in Datasets /\ Fetched(window).last <= Fetched(window).on
         /\ Fetched(window).first = window.first /\ Fetched(window).last = window.last
<1>1. today \in Days /\ today \in Nat /\ LastDay \in Nat
  BY DaysAre DEF CalendarInv, Days
<1>2. window.first \in Int /\ window.last \in Int
  BY DEF Windows
<1>3. window.first \in Days /\ window.last \in Days /\ window.last <= today
  <2>1. 1 <= window.first /\ window.last <= today /\ today <= LastDay
    BY <1>1, <1>2 DEF CanFetch, Days
  <2> QED
    BY <1>1, <1>2, <2>1 DEF Days
<1> QED
  BY <1>1, <1>3 DEF Fetched, Datasets

\* A dataset of the cache that serves has the window.
LEMMA ServingHasTheWindow ==
  ASSUME CacheInv, NEW i \in Instruments, history[i] # NoData, NEW stale \in BOOLEAN
  PROVE  /\ Given(history[i], stale) \in GivenBars /\ Given(history[i], stale).stale = stale
         /\ Given(history[i], stale).first = history[i].first
         /\ Given(history[i], stale).last = history[i].last
<1>1. history[i] \in Datasets
  BY DEF CacheInv
<1> QED
  BY <1>1 DEF Given, Datasets, GivenBars

LEMMA FetchingKeepsTheCache ==
  ASSUME CacheInv, NEW i \in Instruments, NEW d \in Datasets, d.last <= d.on,
         history' = [history EXCEPT ![i] = d]
  PROVE  CacheInv'
<1>1. history' \in [Instruments -> Datasets \cup {NoData}]
  BY DEF CacheInv
<1>2. ASSUME NEW j \in Instruments, history'[j] # NoData PROVE history'[j].last <= history'[j].on
  <2>1. history'[j] = IF j = i THEN d ELSE history[j]
    BY DEF CacheInv
  <2> QED
    BY <1>2, <2>1 DEF CacheInv
<1> QED
  BY <1>1, <1>2 DEF CacheInv

LEMMA EvidenceStays ==
  ASSUME EvidenceInv, evidence' = evidence, market' = market
  PROVE  EvidenceInv'
BY DEF EvidenceInv

LEMMA ReviewStays ==
  ASSUME ReviewInv, evidence' = evidence, todo' = todo, task' = task
  PROVE  ReviewInv'
BY DEF ReviewInv, Answered

LEMMA AskIsSound ==
  ASSUME AnalysisInv, Ask
  PROVE  AnalysisInv'
<1>1. /\ market' = market /\ today' = today /\ history' = history /\ task' = task
      /\ todo' = todo /\ got' = got /\ evidence' = evidence
      /\ tasks' = tasks /\ fetches' = fetches
  BY DEF Ask
<1>2. CalendarInv' /\ CountInv'
  BY <1>1 DEF AnalysisInv, CalendarInv, CountInv
<1>3. CacheInv' /\ EvidenceInv' /\ ReviewInv'
  BY <1>1, CacheIsKept, EvidenceStays, ReviewStays DEF AnalysisInv
<1>4. TaskInv'
  <2>1. task \in Tasks /\ todo # <<>> /\ asked = NoData /\ got = NoData
    BY DEF AnalysisInv, TaskInv, Ask, Asking, Idle
  <2>2. today \in Nat /\ task.asOf \in Nat /\ First(task) \in Int
    BY <2>1, TasksAre, DaysAre DEF AnalysisInv, CalendarInv, Days
  <2>3. Completed(task.asOf) \in Int /\ First(task) <= Completed(task.asOf)
    BY <2>2 DEF Completed, Ask
  <2>4. asked' = [first |-> First(task), last |-> Completed(task.asOf)]
    BY DEF Ask, Window
  <2>5. asked' \in Windows /\ asked'.first = First(task) /\ asked'.last = Completed(task.asOf)
    BY <2>2, <2>3, <2>4 DEF Windows
  <2>6. First(task)' = First(task) /\ Completed(task.asOf)' = Completed(task.asOf)
    BY <1>1 DEF First, Completed
  <2>7. asked'.last <= Completed(task.asOf)
    BY <2>3, <2>5
  <2>8. /\ task' \in Tasks \cup {NoTask} /\ todo' \in Seq(Instruments) /\ (Idle' => todo' = <<>>)
        /\ got' \in GivenBars \cup {NoData} /\ got' = NoData
    BY <1>1, <2>1 DEF AnalysisInv, TaskInv, Idle
  <2>9. task' = task /\ todo' # <<>>
    BY <1>1, <2>1
  <2> QED
    BY <2>3, <2>5, <2>6, <2>7, <2>8, <2>9 DEF TaskInv
<1> QED
  BY <1>2, <1>3, <1>4 DEF AnalysisInv

\* The task is given bars: all of its window, unless they are stale.
LEMMA GivingKeepsTask ==
  ASSUME TaskInv, asked # NoData, got' \in GivenBars,
         ~got'.stale => got'.first <= asked.first /\ asked.last <= got'.last,
         UNCHANGED <<task, todo, asked, today>>
  PROVE  TaskInv'
<1>1. First(task)' = First(task) /\ Completed(task.asOf)' = Completed(task.asOf)
  BY DEF First, Completed
<1> QED
  BY <1>1 DEF TaskInv, Idle

LEMMA ReuseIsSound ==
  ASSUME AnalysisInv, Reuse
  PROVE  AnalysisInv'
<1> DEFINE i == Head(todo)
<1>1. /\ market' = market /\ today' = today /\ history' = history /\ task' = task
      /\ todo' = todo /\ asked' = asked /\ evidence' = evidence
      /\ tasks' = tasks /\ fetches' = fetches
  BY DEF Reuse
<1>2. asked # NoData /\ history[i] # NoData /\ got' = Given(history[i], FALSE)
      /\ history[i].first <= asked.first /\ asked.last <= history[i].last
  BY DEF Reuse, Waiting, Serves
<1>3. i \in Instruments
  BY <1>2, WaitingIsForAnInstrument DEF AnalysisInv
<1> HIDE DEF i
<1>4. got' \in GivenBars /\ got'.first = history[i].first /\ got'.last = history[i].last
  BY <1>2, <1>3, ServingHasTheWindow DEF AnalysisInv
<1>5. TaskInv'
  BY <1>1, <1>2, <1>4, GivingKeepsTask DEF AnalysisInv
<1>6. CalendarInv' /\ CountInv'
  BY <1>1 DEF AnalysisInv, CalendarInv, CountInv
<1>7. CacheInv' /\ EvidenceInv' /\ ReviewInv'
  BY <1>1, CacheIsKept, EvidenceStays, ReviewStays DEF AnalysisInv
<1> QED
  BY <1>5, <1>6, <1>7 DEF AnalysisInv

LEMMA FallBackIsSound ==
  ASSUME AnalysisInv, FallBack
  PROVE  AnalysisInv'
<1> DEFINE i == Head(todo)
<1>1. /\ market' = market /\ today' = today /\ history' = history /\ task' = task
      /\ todo' = todo /\ asked' = asked /\ evidence' = evidence
      /\ tasks' = tasks /\ fetches' = fetches
  BY DEF FallBack
<1>2. asked # NoData /\ history[i] # NoData /\ got' = Given(history[i], TRUE)
  BY DEF FallBack, Waiting
<1>3. i \in Instruments
  BY <1>2, WaitingIsForAnInstrument DEF AnalysisInv
<1> HIDE DEF i
<1>4. got' \in GivenBars /\ got'.stale = TRUE
  BY <1>2, <1>3, ServingHasTheWindow DEF AnalysisInv
<1>5. TaskInv'
  BY <1>1, <1>2, <1>4, GivingKeepsTask DEF AnalysisInv
<1>6. CalendarInv' /\ CountInv'
  BY <1>1 DEF AnalysisInv, CalendarInv, CountInv
<1>7. CacheInv' /\ EvidenceInv' /\ ReviewInv'
  BY <1>1, CacheIsKept, EvidenceStays, ReviewStays DEF AnalysisInv
<1> QED
  BY <1>5, <1>6, <1>7 DEF AnalysisInv

LEMMA CountsStepUp ==
  ASSUME NEW n \in Nat, NEW m \in Nat, n < m
  PROVE  n + 1 \in 0 .. m
OBVIOUS

LEMMA FetchIsSound ==
  ASSUME AnalysisInv, Fetch
  PROVE  AnalysisInv'
<1> DEFINE i == Head(todo)
           d == Fetched(asked)
<1>1. /\ market' = market /\ today' = today /\ task' = task
      /\ todo' = todo /\ asked' = asked /\ evidence' = evidence
      /\ tasks' = tasks /\ fetches' = fetches + 1
      /\ history' = [history EXCEPT ![i] = d] /\ got' = Given(d, FALSE)
  BY DEF Fetch
<1>2. asked # NoData /\ CanFetch(asked)
  BY DEF Fetch, Waiting
<1>3. i \in Instruments /\ asked \in Windows /\ asked.first <= asked.last
  BY <1>2, WaitingIsForAnInstrument DEF AnalysisInv
<1>4. d \in Datasets /\ d.last <= d.on /\ d.first = asked.first /\ d.last = asked.last
  BY <1>2, <1>3, FetchedIsADataset DEF AnalysisInv
<1> HIDE DEF i, d
<1>5. got' \in GivenBars /\ got'.first = asked.first /\ got'.last = asked.last
  BY <1>1, <1>4 DEF Given, Datasets, GivenBars
<1>6. got'.first <= asked.first /\ asked.last <= got'.last
  BY <1>3, <1>5 DEF Windows
<1>7. TaskInv'
  BY <1>1, <1>2, <1>5, <1>6, GivingKeepsTask DEF AnalysisInv
<1>8. CacheInv'
  BY <1>1, <1>3, <1>4, FetchingKeepsTheCache DEF AnalysisInv
<1>9. CalendarInv'
  BY <1>1 DEF AnalysisInv, CalendarInv
<1>10. CountInv'
  <2>1. tasks \in 0 .. MaxTasks /\ fetches \in Nat /\ fetches < MaxFetches /\ MaxFetches \in Nat
    BY <1>2, AnalysisAssumption DEF AnalysisInv, CountInv, CanFetch
  <2>2. fetches' \in 0 .. MaxFetches
    BY <1>1, <2>1, CountsStepUp
  <2> QED
    BY <1>1, <2>1, <2>2 DEF CountInv
<1>11. EvidenceInv' /\ ReviewInv'
  BY <1>1, EvidenceStays, ReviewStays DEF AnalysisInv
<1> QED
  BY <1>7, <1>8, <1>9, <1>10, <1>11 DEF AnalysisInv

LEMMA TaskStays ==
  ASSUME TaskInv, UNCHANGED <<task, todo, asked, got, today>>
  PROVE  TaskInv'
<1>1. First(task)' = First(task) /\ Completed(task.asOf)' = Completed(task.asOf)
  BY DEF First, Completed
<1> QED
  BY <1>1 DEF TaskInv, Idle

LEMMA BrowseIsSound ==
  ASSUME AnalysisInv, NEW i \in Instruments, NEW window \in Windows, Browse(i, window)
  PROVE  AnalysisInv'
<1> DEFINE d == Fetched(window)
<1>1. /\ market' = market /\ today' = today /\ task' = task
      /\ todo' = todo /\ asked' = asked /\ evidence' = evidence /\ got' = got
      /\ tasks' = tasks /\ fetches' = fetches + 1
      /\ history' = [history EXCEPT ![i] = d]
  BY DEF Browse
<1>2. window.first <= window.last /\ CanFetch(window)
  BY DEF Browse
<1>3. d \in Datasets /\ d.last <= d.on
  BY <1>2, FetchedIsADataset DEF AnalysisInv
<1> HIDE DEF d
<1>4. TaskInv'
  BY <1>1, TaskStays DEF AnalysisInv
<1>5. CacheInv'
  BY <1>1, <1>3, FetchingKeepsTheCache DEF AnalysisInv
<1>6. CalendarInv'
  BY <1>1 DEF AnalysisInv, CalendarInv
<1>7. CountInv'
  <2>1. tasks \in 0 .. MaxTasks /\ fetches \in Nat /\ fetches < MaxFetches /\ MaxFetches \in Nat
    BY <1>2, AnalysisAssumption DEF AnalysisInv, CountInv, CanFetch
  <2>2. fetches' \in 0 .. MaxFetches
    BY <1>1, <2>1, CountsStepUp
  <2> QED
    BY <1>1, <2>1, <2>2 DEF CountInv
<1>8. EvidenceInv' /\ ReviewInv'
  BY <1>1, EvidenceStays, ReviewStays DEF AnalysisInv
<1> QED
  BY <1>4, <1>5, <1>6, <1>7, <1>8 DEF AnalysisInv

\* The day ends: what was completed stays so.
LEMMA TickIsSound ==
  ASSUME AnalysisInv, Tick
  PROVE  AnalysisInv'
<1>1. /\ market' = market /\ today' = today + 1 /\ history' = history /\ task' = task
      /\ todo' = todo /\ asked' = asked /\ evidence' = evidence /\ got' = got
      /\ tasks' = tasks /\ fetches' = fetches
  BY DEF Tick
<1>2. today \in Start .. LastDay /\ Start \in Nat /\ LastDay \in Nat
  BY DaysAre DEF AnalysisInv, CalendarInv
<1>3. CalendarInv'
  BY <1>1, <1>2 DEF AnalysisInv, CalendarInv, Tick
<1>4. CacheInv' /\ EvidenceInv' /\ ReviewInv'
  BY <1>1, CacheIsKept, EvidenceStays, ReviewStays DEF AnalysisInv
<1>5. TaskInv'
  <2>1. First(task)' = First(task)
    BY <1>1 DEF First
  <2>2. ASSUME asked # NoData PROVE asked.last <= Completed(task.asOf)'
    <3>1. task \in Tasks /\ asked \in Windows
      BY <2>2, WaitingIsForAnInstrument DEF AnalysisInv
    <3>2. task.asOf \in Nat /\ asked.last \in Int
      BY <3>1, TasksAre DEF Windows
    <3>3. asked.last <= Completed(task.asOf)
      BY <2>2 DEF AnalysisInv, TaskInv
    <3>4. Completed(task.asOf)'
            = IF task.asOf < (today + 1) - 1 THEN task.asOf ELSE (today + 1) - 1
      BY <1>1 DEF Completed
    <3> QED
      BY <1>2, <3>2, <3>3, <3>4 DEF Completed
  <2>3. TaskInv
    BY DEF AnalysisInv
  <2> QED
    BY <1>1, <2>1, <2>2, <2>3 DEF TaskInv, Idle
<1>6. CountInv'
  BY <1>1 DEF AnalysisInv, CountInv
<1> QED
  BY <1>3, <1>4, <1>5, <1>6 DEF AnalysisInv

LEMMA AnalyseIsSound ==
  ASSUME AnalysisInv, Analyse
  PROVE  AnalysisInv'
<1> DEFINE i    == Head(todo)
           bars == Trimmed(BarsOf(i, got), First(task), Completed(task.asOf))
           e    == [instrument |-> i, kind |-> "analysis", task |-> task, asked |-> asked,
                    dataset |-> got, on |-> today, result |-> Analysis(task.skills, bars)]
<1>1. /\ market' = market /\ today' = today /\ history' = history /\ task' = task
      /\ evidence' = Append(evidence, e) /\ todo' = Tail(todo)
      /\ asked' = NoData /\ got' = NoData /\ tasks' = tasks /\ fetches' = fetches
  BY DEF Analyse
<1>2. got # NoData /\ asked # NoData
  BY DEF Analyse, AnalysisInv, TaskInv
<1>3. i \in Instruments /\ todo # <<>>
  BY <1>2, WaitingIsForAnInstrument DEF AnalysisInv
<1>4. e.instrument = i
  OBVIOUS
<1> HIDE DEF i
<1>5. e \in Entries /\ OfWindow(e, market)
  <2> HIDE DEF e, bars
  <2>1. bars = Trimmed(BarsOf(i, got), First(task), Completed(task.asOf))
    BY DEF bars
  <2>2. e = [instrument |-> i, kind |-> "analysis", task |-> task, asked |-> asked,
             dataset |-> got, on |-> today, result |-> Analysis(task.skills, bars)]
    BY DEF e
  <2> QED
    BY <1>2, <1>3, <2>1, <2>2, AnalysisReadsItsWindow DEF AnalysisInv
<1> HIDE DEF e
<1>6. CalendarInv' /\ CountInv'
  BY <1>1 DEF AnalysisInv, CalendarInv, CountInv
<1>7. CacheInv'
  BY <1>1, CacheIsKept DEF AnalysisInv
<1>8. TaskInv'
  BY <1>1, <1>3, AnsweringKeepsTask DEF AnalysisInv
<1>9. EvidenceInv'
  BY <1>1, <1>5, AnsweringKeepsEvidence DEF AnalysisInv
<1>10. ReviewInv'
  BY <1>1, <1>3, <1>4, <1>5, AnsweringKeepsReview DEF AnalysisInv, i
<1> QED
  BY <1>6, <1>7, <1>8, <1>9, <1>10 DEF AnalysisInv

LEMMA FinishIsSound ==
  ASSUME AnalysisInv, Finish
  PROVE  AnalysisInv'
<1>1. /\ market' = market /\ today' = today /\ history' = history /\ task' = NoTask
      /\ todo' = todo /\ asked' = asked /\ evidence' = evidence /\ got' = got
      /\ tasks' = tasks /\ fetches' = fetches /\ todo = <<>>
  BY DEF Finish
<1>2. CalendarInv' /\ CountInv' /\ CacheInv' /\ EvidenceInv'
  BY <1>1, CacheIsKept, EvidenceStays DEF AnalysisInv, CalendarInv, CountInv
<1>3. asked = NoData /\ got = NoData
  BY <1>1 DEF AnalysisInv, TaskInv
<1>4. TaskInv'
  BY <1>1, <1>3 DEF AnalysisInv, TaskInv, Idle
<1>5. ReviewInv'
  BY <1>1 DEF ReviewInv
<1> QED
  BY <1>2, <1>4, <1>5 DEF AnalysisInv

\* A task begins with nothing noted and all of it to do.
LEMMA BeginIsSound ==
  ASSUME AnalysisInv, NEW t \in Tasks, NEW instruments \in Seq(Instruments),
         t.kind = "review" => instruments = Covered(t.holdings),
         Begin(t, instruments)
  PROVE  AnalysisInv'
<1>1. /\ market' = market /\ today' = today /\ history' = history /\ task' = t
      /\ todo' = instruments /\ asked' = asked /\ evidence' = <<>> /\ got' = got
      /\ tasks' = tasks + 1 /\ fetches' = fetches /\ Idle /\ tasks < MaxTasks
  BY DEF Begin
<1>2. t # NoTask
  BY TasksAre
<1>3. asked = NoData /\ got = NoData
  BY <1>1 DEF AnalysisInv, TaskInv
<1>4. CalendarInv' /\ CacheInv'
  BY <1>1, CacheIsKept DEF AnalysisInv, CalendarInv
<1>5. CountInv'
  <2>1. tasks \in Nat /\ fetches \in 0 .. MaxFetches /\ MaxTasks \in Nat
    BY AnalysisAssumption DEF AnalysisInv, CountInv
  <2>2. tasks' \in 0 .. MaxTasks
    BY <1>1, <2>1, CountsStepUp
  <2> QED
    BY <1>1, <2>1, <2>2 DEF CountInv
<1>6. TaskInv'
  BY <1>1, <1>2, <1>3 DEF TaskInv, Idle
<1>7. EvidenceInv'
  BY <1>1 DEF EvidenceInv
<1>8. ReviewInv'
  <2> SUFFICES ASSUME t.kind = "review"
               PROVE  /\ Len(Answered') + Len(instruments) = Len(Covered(t.holdings))
                      /\ \A n \in DOMAIN evidence' : Answered'[n] = Covered(t.holdings)[n]
                      /\ \A n \in DOMAIN instruments :
                           instruments[n] = Covered(t.holdings)[Len(evidence') + n]
    BY <1>1 DEF ReviewInv
  <2>1. instruments = Covered(t.holdings)
    OBVIOUS
  <2>2. DOMAIN evidence' = {} /\ Len(evidence') = 0
    BY <1>1
  <2>3. Answered' = <<>>
    BY <1>1, <2>2 DEF Answered
  <2>4. \A n \in DOMAIN instruments : Len(evidence') + n = n
    BY <2>2
  <2>5. Len(Answered') + Len(instruments) = Len(instruments)
    BY <2>3
  <2> QED
    BY <2>1, <2>2, <2>4, <2>5
<1> QED
  BY <1>4, <1>5, <1>6, <1>7, <1>8 DEF AnalysisInv

LEMMA ReviewIsSound ==
  ASSUME AnalysisInv, NEW holdings \in Holdings, NEW zone \in Zones, Review(holdings, zone)
  PROVE  AnalysisInv'
<1> DEFINE t == [kind |-> "review", holdings |-> holdings, asOf |-> today + zone,
                 lookback |-> ReviewLookback, skills |-> Bundle, stale |-> FALSE]
<1>1. today + zone \in Nat
  <2>1. today \in Nat \ {0}
    BY DaysAre DEF AnalysisInv, CalendarInv
  <2>2. zone \in -1 .. 1
    BY AnalysisAssumption
  <2> QED
    BY <2>1, <2>2
<1>2. t \in Tasks
  BY <1>1, AnalysisAssumption DEF Tasks
<1>3. t.kind = "review" /\ t.holdings = holdings
  OBVIOUS
<1>4. Begin(t, Covered(holdings))
  BY DEF Review
<1>5. Covered(holdings) \in Seq(Instruments)
  BY AnalysisAssumption, CoveredOnce DEF Lots
<1> HIDE DEF t
<1> QED
  BY <1>2, <1>3, <1>4, <1>5, BeginIsSound

LEMMA CommandIsSound ==
  ASSUME AnalysisInv, NEW i \in Instruments, NEW asOf \in Dates, NEW lookback \in Lookbacks,
         NEW skills \in Requested, NEW stale \in BOOLEAN,
         Command(i, asOf, lookback, skills, stale)
  PROVE  AnalysisInv'
<1> DEFINE t == [kind |-> "command", asOf |-> asOf, lookback |-> lookback,
                 skills |-> IF skills = <<>> THEN Bundle ELSE skills, stale |-> stale]
<1>1. t \in Tasks
  BY AnalysisAssumption DEF Tasks
<1>2. t.kind # "review"
  OBVIOUS
<1>3. Begin(t, <<i>>)
  BY DEF Command
<1>4. <<i>> \in Seq(Instruments)
  OBVIOUS
<1> HIDE DEF t
<1> QED
  BY <1>1, <1>2, <1>3, <1>4, BeginIsSound

LEMMA NextIsSound == AnalysisInv /\ [Next]_vars => AnalysisInv'
<1> SUFFICES ASSUME AnalysisInv, [Next]_vars PROVE AnalysisInv'
  OBVIOUS
<1> USE AnalysisInv
<1>1. CASE AskRaises
  <2>1. Raise /\ todo # <<>> /\ UNCHANGED <<market, today, history, task, tasks, fetches>>
    BY <1>1 DEF AskRaises, Asking
  <2> QED
    BY <2>1, RaisingIsSound
<1>2. CASE Ask
  BY <1>2, AskIsSound
<1>3. CASE Reuse
  BY <1>3, ReuseIsSound
<1>4. CASE Fetch
  BY <1>4, FetchIsSound
<1>5. CASE FallBack
  BY <1>5, FallBackIsSound
<1>6. CASE Unavailable
  <2>1. Raise /\ asked # NoData /\ UNCHANGED <<market, today, history, task, tasks, fetches>>
    BY <1>6 DEF Unavailable, Waiting
  <2>2. todo # <<>>
    BY <2>1 DEF AnalysisInv, TaskInv
  <2> QED
    BY <2>1, <2>2, RaisingIsSound
<1>7. CASE Analyse
  BY <1>7, AnalyseIsSound
<1>8. CASE AnalyseRaises
  <2>1. Raise /\ got # NoData /\ UNCHANGED <<market, today, history, task, tasks, fetches>>
    BY <1>8 DEF AnalyseRaises
  <2>2. todo # <<>>
    BY <2>1 DEF AnalysisInv, TaskInv
  <2> QED
    BY <2>1, <2>2, RaisingIsSound
<1>9. CASE Finish
  BY <1>9, FinishIsSound
<1>10. CASE Tick
  BY <1>10, TickIsSound
<1>11. ASSUME NEW i \in Instruments, NEW first \in Days, NEW last \in Days,
              Browse(i, Window(first, last))
       PROVE  AnalysisInv'
  <2>1. first \in Int /\ last \in Int
    BY DaysAre
  <2>2. Window(first, last) \in Windows
    BY <2>1 DEF Window, Windows
  <2> QED
    BY <1>11, <2>2, BrowseIsSound
<1>12. ASSUME NEW holdings \in Holdings, NEW zone \in Zones, Review(holdings, zone)
       PROVE  AnalysisInv'
  BY <1>12, ReviewIsSound
<1>13. ASSUME NEW i \in Instruments, NEW asOf \in Dates, NEW lookback \in Lookbacks,
              NEW skills \in Requested, NEW stale \in BOOLEAN,
              Command(i, asOf, lookback, skills, stale)
       PROVE  AnalysisInv'
  BY <1>13, CommandIsSound
<1>14. CASE UNCHANGED vars
  <2>1. /\ market' = market /\ today' = today /\ history' = history /\ task' = task
        /\ todo' = todo /\ asked' = asked /\ evidence' = evidence /\ got' = got
        /\ tasks' = tasks /\ fetches' = fetches
    BY <1>14 DEF vars
  <2>2. CalendarInv' /\ CountInv'
    BY <2>1 DEF AnalysisInv, CalendarInv, CountInv
  <2>3. CacheInv' /\ EvidenceInv' /\ ReviewInv' /\ TaskInv'
    BY <2>1, CacheIsKept, EvidenceStays, ReviewStays, TaskStays DEF AnalysisInv
  <2> QED
    BY <2>2, <2>3 DEF AnalysisInv
<1> QED
  BY <1>1, <1>2, <1>3, <1>4, <1>5, <1>6, <1>7, <1>8, <1>9, <1>10, <1>11, <1>12, <1>13, <1>14
  DEF Next, Work

\* The cache keeps datasets that end on the day they were fetched or before, a
\* task waits for the window it asked for, is given all of it unless the bars
\* are stale, what is noted is of its window, and what a review has noted and
\* has still to do are what it covers, in order (service.py, daily_review.py).
THEOREM AnalysisInvariance == Spec => []AnalysisInv
<1>1. Init => AnalysisInv
  BY InitIsSound
<1>2. AnalysisInv /\ [Next]_vars => AnalysisInv'
  BY NextIsSound
<1> QED
  BY <1>1, <1>2, PTL DEF Spec

\* The state of the cache, of the task that runs and of its evidence has its
\* type: bars are given only while a task waits for them, and a result has
\* findings only of skills that ran (finance/orchestrator.py).
THEOREM AnalysisIsTyped == Spec => []TypeOK
<1>1. AnalysisInv => TypeOK
  <2> SUFFICES ASSUME AnalysisInv PROVE TypeOK
    OBVIOUS
  <2>1. /\ market \in Markets /\ today \in Start .. LastDay
        /\ tasks \in 0 .. MaxTasks /\ fetches \in 0 .. MaxFetches
    BY DEF AnalysisInv, CalendarInv, CountInv
  <2>2. \A i \in Instruments :
          history[i] # NoData => history[i] \in Datasets /\ history[i].last <= history[i].on
    BY DEF AnalysisInv, CacheInv
  <2>3. /\ task \in Tasks \cup {NoTask}
        /\ todo \in Seq(Instruments) /\ (Idle => todo = <<>>)
        /\ asked \in Windows \cup {NoData} /\ (asked # NoData => todo # <<>>)
        /\ got \in GivenBars \cup {NoData} /\ (got # NoData => asked # NoData)
    BY DEF AnalysisInv, TaskInv
  <2>4. ASSUME NEW r \in Results
        PROVE  /\ r.status \in {"success", "partial", "failed"}
               /\ \A s \in DOMAIN r.findings :
                    r.findings[s] # {} => s \in Skills /\ r.status # "failed"
    <3>1. PICK n \in DOMAIN evidence : evidence[n].kind = "analysis" /\ r = evidence[n].result
      BY DEF Results, Range
    <3>2. evidence[n] \in Entries
      BY <3>1 DEF AnalysisInv, EvidenceInv
    <3>3. r \in Outcomes
      BY <3>1, <3>2 DEF Entries
    <3>4. PICK skills \in Requested \cup {Bundle}, bars \in Seq(DailyBars) :
            r = Analysis(skills, bars)
      BY <3>3 DEF Outcomes, OutcomesOf
    <3> QED
      BY <3>4, ResultsAreTyped
  <2> QED
    BY <2>1, <2>2, <2>3, <2>4 DEF TypeOK
<1> QED
  BY <1>1, AnalysisInvariance, PTL

\* An analysis of fresh bars is that of the closed sessions of its window,
\* whatever windows others had fetched into the cache before, and no analysis
\* looks ahead of the date asked about or at the day that still runs
\* (service.py:124, service.py:147).
THEOREM AnalysesAlwaysOfTheirWindow == Spec => []AnalysesAreOfTheirWindow
<1>1. AnalysisInv => AnalysesAreOfTheirWindow
  <2> SUFFICES ASSUME AnalysisInv, NEW e \in Analyses
               PROVE  /\ ~e.dataset.stale /\ e.dataset.on > e.result.through =>
                           /\ e.result.through >= e.asked.last
                           /\ e.result = Analysis(e.task.skills,
                                FinalBars(e.instrument, First(e.task), e.result.through))
                      /\ e.result.through <= e.task.asOf /\ e.result.through < e.on
                      /\ \A s \in DOMAIN e.result.findings : \A f \in e.result.findings[s] :
                           f.day <= e.task.asOf
    BY DEF AnalysesAreOfTheirWindow
  <2>1. PICK n \in DOMAIN evidence : e = evidence[n] /\ e.kind = "analysis"
    BY DEF Analyses, Range
  <2>2. OfWindow(e, market)
    BY <2>1 DEF AnalysisInv, EvidenceInv
  <2>3. FinalBars(e.instrument, First(e.task), e.result.through)
          = [k \in 1 .. e.result.through - First(e.task) + 1 |->
               market[e.instrument][First(e.task) + k - 1]]
    BY DEF FinalBars
  <2> QED
    BY <2>2, <2>3 DEF OfWindow
<1> QED
  BY <1>1, AnalysisInvariance, PTL

\* A review ends with one analysis or error for every equity and ETF it holds,
\* though rows are missing, providers fail and a position is held in several
\* accounts (daily_review.py:102).
THEOREM ReviewsAlwaysAnswer == Spec => ReviewsAnswerEveryHolding
<1> DEFINE AnswersHoldings ==
             task # NoTask /\ task' = NoTask /\ task.kind = "review" =>
               /\ {e.instrument : e \in Range(evidence)}
                    = {h.instrument : h \in {g \in Range(task.holdings) : g.analysed}}
               /\ IsInjective([n \in DOMAIN evidence |-> evidence[n].instrument])
<1>1. AnalysisInv /\ [Next]_vars => [AnswersHoldings]_vars
  <2> SUFFICES ASSUME AnalysisInv, Next, task # NoTask, task' = NoTask, task.kind = "review"
               PROVE  /\ {e.instrument : e \in Range(evidence)}
                           = {h.instrument : h \in {g \in Range(task.holdings) : g.analysed}}
                      /\ IsInjective(Answered)
    BY DEF Answered
  <2> DEFINE c == Covered(task.holdings)
  <2>1. todo = <<>>
    BY AnalysisAssumption DEF Next, Work, AskRaises, Ask, Reuse, Fetch, FallBack, Unavailable,
       Analyse, AnalyseRaises, Finish, Tick, Browse, Review, Command, Begin, Idle
  <2>2. task \in Tasks /\ evidence \in Seq(Entries)
    BY DEF AnalysisInv, TaskInv, EvidenceInv
  <2>3. task.holdings \in Seq(Lots)
    BY <2>2, TasksAre, AnalysisAssumption DEF Lots
  <2>4. /\ c \in Seq(Instruments) /\ IsInjective(c)
        /\ Range(c) = {h.instrument : h \in {g \in Range(task.holdings) : g.analysed}}
    BY <2>3, CoveredOnce
  <2>5. Len(Answered) = Len(c) /\ \A n \in DOMAIN evidence : Answered[n] = c[n]
    <3>1. DOMAIN Answered = DOMAIN evidence /\ DOMAIN evidence = 1 .. Len(evidence)
          /\ Len(evidence) \in Nat
      BY <2>2 DEF Answered
    <3>2. Len(Answered) + Len(todo) = Len(c) /\ \A n \in DOMAIN evidence : Answered[n] = c[n]
      BY DEF AnalysisInv, ReviewInv
    <3>3. Len(todo) = 0 /\ Len(c) \in Nat /\ Len(Answered) = Len(evidence)
      BY <2>1, <2>4, <3>1 DEF Answered
    <3> QED
      BY <3>1, <3>2, <3>3
  <2> HIDE DEF c
  <2>6. Answered = c
    <3>1. c = [n \in 1 .. Len(c) |-> c[n]]
      BY <2>4
    <3>2. DOMAIN evidence = 1 .. Len(evidence) /\ Len(Answered) = Len(evidence)
      BY <2>2 DEF Answered
    <3>3. Answered = [n \in DOMAIN evidence |-> Answered[n]]
      BY DEF Answered
    <3> QED
      BY <2>5, <3>1, <3>2, <3>3
  <2>7. {e.instrument : e \in Range(evidence)} = Range(Answered)
    BY DEF Range, Answered
  <2> QED
    BY <2>4, <2>6, <2>7
<1> QED
  BY <1>1, AnalysisInvariance, PTL DEF Spec, ReviewsAnswerEveryHolding

-----------------------------------------------------------------------------
(* A longer look back.                                                     *)

\* The bars of the last days.
Tailed(bars, n) == SubSeq(bars, n, Len(bars))

LEMMA TailedAre ==
  ASSUME NEW S, NEW bars \in Seq(S), NEW n \in 1 .. Len(bars)
  PROVE  /\ Tailed(bars, n) \in Seq(S) /\ Len(Tailed(bars, n)) = Len(bars) - n + 1
         /\ Len(bars) \in Nat
         /\ \A k \in 1 .. Len(bars) - n + 1 : Tailed(bars, n)[k] = bars[n - 1 + k]
<1>1. Len(bars) \in Nat /\ Tailed(bars, n) = SubSeq(bars, n, Len(bars))
  BY DEF Tailed
<1>2. \A k \in 1 .. Len(bars) - n + 1 : n - 1 + k = n + k - 1
  BY <1>1
<1> QED
  BY <1>1, <1>2

LEMMA ClosesAre ==
  ASSUME NEW bars \in Seq(DailyBars)
  PROVE  /\ Closes(bars) \in Seq(Nat) /\ Len(Closes(bars)) = Len(bars)
         /\ \A k \in 1 .. Len(bars) : Closes(bars)[k] = bars[k].close
<1>1. Len(bars) \in Nat /\ DOMAIN bars = 1 .. Len(bars)
  OBVIOUS
<1>2. \A k \in 1 .. Len(bars) : bars[k].close \in Nat
  <2>1. \A k \in 1 .. Len(bars) : bars[k] \in DailyBars
    BY <1>1
  <2> QED
    BY <2>1 DEF DailyBars
<1> QED
  BY <1>1, <1>2 DEF Closes

LEMMA Between ==
  ASSUME NEW a \in Nat, NEW b \in Nat, NEW c \in Nat, a <= b, b < c
  PROVE  a <= c
OBVIOUS

LEMMA Above ==
  ASSUME NEW a \in Nat, NEW b \in Nat, NEW c \in Nat, a <= b, ~(c <= b)
  PROVE  a <= c
OBVIOUS

\* Days go up.
Ascends(bars) == \A n \in 2 .. Len(bars) : bars[n - 1].day < bars[n].day

LEMMA LaterIsNoEarlier ==
  ASSUME NEW bars \in Seq(DailyBars), Ascends(bars),
         NEW i \in 1 .. Len(bars), NEW j \in 1 .. Len(bars), i <= j
  PROVE  bars[i].day <= bars[j].day
<1> DEFINE M == {m \in Nat : i + m <= Len(bars) => bars[i].day <= bars[i + m].day}
<1>1. Len(bars) \in Nat /\ i \in Nat \ {0} /\ j \in Nat
  OBVIOUS
<1>2. \A k \in 1 .. Len(bars) : bars[k].day \in Nat
  <2>1. \A k \in 1 .. Len(bars) : bars[k] \in DailyBars
    BY <1>1
  <2> QED
    BY <2>1 DEF DailyBars
<1>3. 0 \in M
  <2>1. i + 0 = i
    BY <1>1
  <2> QED
    BY <1>2, <2>1
<1>4. ASSUME NEW m \in Nat, m \in M PROVE m + 1 \in M
  <2> SUFFICES ASSUME i + (m + 1) <= Len(bars) PROVE bars[i].day <= bars[i + (m + 1)].day
    OBVIOUS
  <2>1. i + (m + 1) \in 2 .. Len(bars) /\ i + (m + 1) - 1 = i + m
        /\ i + m \in 1 .. Len(bars) /\ i + m <= Len(bars)
    BY <1>1
  <2>2. bars[i + m].day < bars[i + (m + 1)].day
    BY <2>1 DEF Ascends
  <2>3. bars[i].day <= bars[i + m].day
    BY <1>4, <2>1
  <2>4. bars[i].day \in Nat /\ bars[i + m].day \in Nat /\ bars[i + (m + 1)].day \in Nat
    <3>1. i + (m + 1) \in 1 .. Len(bars)
      BY <1>1, <2>1
    <3> QED
      BY <1>2, <2>1, <3>1
  <2> QED
    BY <2>2, <2>3, <2>4, Between
<1> HIDE DEF M
<1>5. j - i \in M
  <2>1. j - i \in Nat
    BY <1>1
  <2> QED
    BY <1>3, <1>4, <2>1, CountUp
<1>6. i + (j - i) = j /\ j <= Len(bars)
  BY <1>1
<1> QED
  BY <1>5, <1>6 DEF M

\* A sequence's last k members, or all of it.
LEMMA LastOfAre ==
  ASSUME NEW S, NEW s \in Seq(S), NEW k \in Nat
  PROVE  LET m == IF k < Len(s) THEN k ELSE Len(s) IN
         /\ LastOf(s, k) \in Seq(S) /\ Len(LastOf(s, k)) = m
         /\ \A j \in 1 .. m : LastOf(s, k)[j] = s[Len(s) - m + j]
         /\ LastOf(s, k) = [j \in 1 .. m |-> s[Len(s) - m + j]]
<1> DEFINE m == IF k < Len(s) THEN k ELSE Len(s)
           a == Len(s) - m + 1
           u == LastOf(s, k)
<1>1. Len(s) \in Nat /\ m \in Nat /\ a \in Nat \ {0} /\ Len(s) - a + 1 = m
  OBVIOUS
<1>2. u = SubSeq(s, a, Len(s))
  <2>1. a = IF Len(s) > k THEN Len(s) - k + 1 ELSE 1
    BY <1>1
  <2> HIDE DEF a
  <2> QED
    BY <2>1 DEF LastOf
<1>3. \A j \in 1 .. m : a + j - 1 = Len(s) - m + j
  BY <1>1
<1>4. \A i \in a .. Len(s) : s[i] \in S
  BY <1>1
<1>5. Len(u) = m
  <2>1. IF a <= Len(s) THEN Len(s) - a + 1 = m ELSE m = 0
    BY <1>1
  <2> HIDE DEF a, m, u
  <2> QED
    BY <1>1, <1>2, <1>4, <2>1, SubSeqProperties
<1>6. u \in Seq(S)
  <2> HIDE DEF a, m, u
  <2> QED
    BY <1>1, <1>2, <1>4, SubSeqProperties
<1>7. \A j \in 1 .. m : u[j] = s[Len(s) - m + j]
  <2> HIDE DEF a, m, u
  <2>1. \A j \in 1 .. Len(s) - a + 1 : u[j] = s[a + j - 1]
    BY <1>1, <1>2, <1>4, SubSeqProperties
  <2> QED
    BY <1>1, <1>3, <2>1
<1>8. u = [j \in 1 .. m |-> u[j]]
  <2> HIDE DEF m, u
  <2> QED
    BY <1>5, <1>6
<1> HIDE DEF u, m
<1>9. u = [j \in 1 .. m |-> s[Len(s) - m + j]]
  BY <1>7, <1>8
<1> QED
  BY <1>5, <1>6, <1>7, <1>9 DEF u, m

LEMMA EndsAre ==
  ASSUME NEW S, NEW s \in Seq(S), NEW k \in Nat, k <= Len(s)
  PROVE  LastOf(s, k) = [j \in 1 .. k |-> s[Len(s) - k + j]]
<1> DEFINE m == IF k < Len(s) THEN k ELSE Len(s)
<1>1. k = m
  BY Len(s) \in Nat
<1>2. LastOf(s, k) = [j \in 1 .. m |-> s[Len(s) - m + j]]
  BY LastOfAre
<1> HIDE DEF m
<1> QED
  BY <1>1, <1>2

\* The end of a sequence is that of its tail, if the tail is long enough.
LEMMA TailedEndsTheSame ==
  ASSUME NEW S, NEW s \in Seq(S), NEW n \in 1 .. Len(s), NEW k \in Nat,
         k <= Len(s) - n + 1
  PROVE  LastOf(Tailed(s, n), k) = LastOf(s, k)
<1> DEFINE u == Tailed(s, n)
           m == Len(s) - n + 1
<1>1. /\ u \in Seq(S) /\ Len(u) = m /\ m \in Nat /\ Len(s) \in Nat
      /\ \A j \in 1 .. m : u[j] = s[n - 1 + j]
  <2>1. /\ u \in Seq(S) /\ Len(u) = m /\ Len(s) \in Nat
        /\ \A j \in 1 .. m : u[j] = s[n - 1 + j]
    BY TailedAre
  <2>2. Len(s) - n + 1 \in Nat
    BY <2>1
  <2> QED
    BY <2>1, <2>2
<1>2. k <= m /\ k <= Len(s)
  BY <1>1
<1>3. \A j \in 1 .. k : m - k + j \in 1 .. m /\ n - 1 + (m - k + j) = Len(s) - k + j
  BY <1>1, <1>2
<1> HIDE DEF u, m
<1>4. \A j \in 1 .. k : u[m - k + j] = s[Len(s) - k + j]
  BY <1>1, <1>3
<1>5. LastOf(u, k) = [j \in 1 .. k |-> u[m - k + j]]
  <2>1. k <= Len(u) /\ Len(u) = m /\ u \in Seq(S)
    BY <1>1, <1>2
  <2>2. LastOf(u, k) = [j \in 1 .. k |-> u[Len(u) - k + j]]
    BY <2>1, EndsAre
  <2> QED
    BY <2>1, <2>2
<1>6. LastOf(s, k) = [j \in 1 .. k |-> s[Len(s) - k + j]]
  BY <1>2, EndsAre
<1>7. LastOf(u, k) = LastOf(s, k)
  BY <1>4, <1>5, <1>6
<1> QED
  BY <1>7 DEF u

\* The highest of a sequence's prices.
PeakOf(s) == CHOOSE p \in Range(s) : \A q \in Range(s) : q <= p

LEMMA PeakIsHighest ==
  ASSUME NEW s \in Seq(Nat), Len(s) # 0
  PROVE  PeakOf(s) \in Nat /\ PeakOf(s) \in Range(s) /\ \A q \in Range(s) : q <= PeakOf(s)
<1> DEFINE M == {m \in Nat : m + 1 <= Len(s) =>
                   \E k \in 1 .. m + 1 : \A j \in 1 .. m + 1 : s[j] <= s[k]}
<1>1. Len(s) \in Nat \ {0} /\ DOMAIN s = 1 .. Len(s) /\ \A j \in 1 .. Len(s) : s[j] \in Nat
  OBVIOUS
<1>2. 0 \in M
  <2>1. \A j \in 1 .. 0 + 1 : j = 1
    OBVIOUS
  <2>2. s[1] <= s[1]
    BY <1>1
  <2> QED
    BY <2>1, <2>2
<1>3. ASSUME NEW m \in Nat, m \in M PROVE m + 1 \in M
  <2> SUFFICES ASSUME (m + 1) + 1 <= Len(s)
               PROVE  \E k \in 1 .. (m + 1) + 1 : \A j \in 1 .. (m + 1) + 1 : s[j] <= s[k]
    OBVIOUS
  <2>1. m + 1 <= Len(s) /\ m + 2 \in 1 .. (m + 1) + 1 /\ m + 2 \in 1 .. Len(s)
    BY <1>1
  <2>2. PICK k \in 1 .. m + 1 : \A j \in 1 .. m + 1 : s[j] <= s[k]
    BY <1>3, <2>1
  <2>3. k \in 1 .. (m + 1) + 1 /\ k \in 1 .. Len(s)
    BY <1>1, <2>1, <2>2
  <2>4. \A j \in 1 .. (m + 1) + 1 : j \in 1 .. m + 1 \/ j = m + 2
    OBVIOUS
  <2>5. s[k] \in Nat /\ s[m + 2] \in Nat /\ \A j \in 1 .. m + 1 : s[j] \in Nat
    BY <1>1, <2>1, <2>3
  <2> HIDE DEF M
  <2>6. CASE s[m + 2] <= s[k]
    BY <2>2, <2>3, <2>4, <2>6
  <2>7. CASE ~(s[m + 2] <= s[k])
    <3>1. ASSUME NEW j \in 1 .. m + 1 PROVE s[j] <= s[m + 2]
      <4>1. s[j] \in Nat /\ s[j] <= s[k]
        BY <2>2, <2>5
      <4> QED
        BY <2>5, <2>7, <4>1, Above
    <3>2. s[m + 2] <= s[m + 2]
      BY <2>5
    <3>3. \A j \in 1 .. (m + 1) + 1 : s[j] <= s[m + 2]
      BY <2>4, <3>1, <3>2
    <3> QED
      BY <2>1, <3>3
  <2> QED
    BY <2>6, <2>7
<1> HIDE DEF M
<1>4. Len(s) - 1 \in Nat /\ (Len(s) - 1) + 1 = Len(s)
  BY <1>1
<1>5. Len(s) - 1 \in M
  BY <1>2, <1>3, <1>4, CountUp
<1>6. \E k \in 1 .. Len(s) : \A j \in 1 .. Len(s) : s[j] <= s[k]
  BY <1>1, <1>4, <1>5 DEF M
<1>7. \E p \in Range(s) : \A q \in Range(s) : q <= p
  BY <1>1, <1>6 DEF Range
<1>8. PeakOf(s) \in Range(s) /\ \A q \in Range(s) : q <= PeakOf(s)
  BY <1>7 DEF PeakOf
<1> QED
  BY <1>1, <1>8 DEF Range

\* The higher the peak, the deeper the last price is below it.
LEMMA HigherPeakFallsDeeper ==
  ASSUME NEW last \in Nat, NEW low \in Nat, NEW high \in Nat, low <= high,
         NEW t \in -100 .. 0, 100 * (last - low) <= t * low
  PROVE  100 * (last - high) <= t * high
<1>1. t * high - t * low = t * (high - low) /\ 100 * (high - low) + t * (high - low) >= 0
  <2>1. high - low \in Nat /\ 100 + t \in Nat
    OBVIOUS
  <2>2. (100 + t) * (high - low) \in Nat
    BY <2>1
  <2>3. (100 + t) * (high - low) = 100 * (high - low) + t * (high - low)
    OBVIOUS
  <2>4. t * high - t * low = t * (high - low)
    OBVIOUS
  <2> QED
    BY <2>2, <2>3, <2>4
<1>2. t * high \in Int /\ t * low \in Int /\ t * (high - low) \in Int
  OBVIOUS
<1> QED
  BY <1>1, <1>2

\* The drawdown's own words.
LEMMA DrawdownIs ==
  ASSUME NEW bars
  PROVE  LET fall == 100 * (Last(Closes(bars)) - PeakOf(Closes(bars)))
             peak == PeakOf(Closes(bars)) IN
         Drawdown(bars) =
           IF fall <= Thresholds.drawdown_attention * peak
           THEN {Finding("material_drawdown", "attention", "bearish", 0)}
           ELSE IF fall <= Thresholds.drawdown_watch * peak
           THEN {Finding("developing_drawdown", "watch", "bearish", 0)}
           ELSE {}
BY DEF Drawdown, PeakOf

\* A longer look back finds a drawdown at least as grave.
LEMMA LongerLookbackDrawsDown ==
  ASSUME NEW bars \in Seq(DailyBars), NEW n \in 1 .. Len(bars),
         NEW f \in Drawdown(Tailed(bars, n))
  PROVE  \E g \in Drawdown(bars) : NoWeaker(f, g)
<1> DEFINE sub    == Tailed(bars, n)
           closes == Closes(bars)
           later  == Closes(sub)
           peak   == PeakOf(closes)
           low    == PeakOf(later)
           last   == Last(closes)
           grave  == Finding("material_drawdown", "attention", "bearish", 0)
           mild   == Finding("developing_drawdown", "watch", "bearish", 0)
           T      == Thresholds.drawdown_attention
           W      == Thresholds.drawdown_watch
<1>1. /\ sub \in Seq(DailyBars) /\ Len(sub) = Len(bars) - n + 1 /\ Len(bars) \in Nat
      /\ \A k \in 1 .. Len(bars) - n + 1 : sub[k] = bars[n - 1 + k]
  BY TailedAre
<1> HIDE DEF sub
<1>2. /\ closes \in Seq(Nat) /\ Len(closes) = Len(bars)
      /\ \A k \in 1 .. Len(bars) : closes[k] = bars[k].close
  BY ClosesAre
<1>3. /\ later \in Seq(Nat) /\ Len(later) = Len(sub)
      /\ \A k \in 1 .. Len(sub) : later[k] = sub[k].close
  BY <1>1, ClosesAre
<1> HIDE DEF closes, later
<1>4. \A k \in 1 .. Len(later) : n - 1 + k \in 1 .. Len(closes) /\ later[k] = closes[n - 1 + k]
  <2> SUFFICES ASSUME NEW k \in 1 .. Len(later)
               PROVE  n - 1 + k \in 1 .. Len(closes) /\ later[k] = closes[n - 1 + k]
    OBVIOUS
  <2>1. /\ k \in 1 .. Len(sub) /\ k \in 1 .. Len(bars) - n + 1
        /\ n - 1 + k \in 1 .. Len(bars) /\ n - 1 + k \in 1 .. Len(closes)
    BY <1>1, <1>2, <1>3
  <2>2. later[k] = sub[k].close /\ sub[k] = bars[n - 1 + k]
        /\ closes[n - 1 + k] = bars[n - 1 + k].close
    BY <1>1, <1>2, <1>3, <2>1
  <2> QED
    BY <2>1, <2>2
<1>5. Range(later) \subseteq Range(closes)
  <2>1. DOMAIN later = 1 .. Len(later) /\ DOMAIN closes = 1 .. Len(closes)
    BY <1>2, <1>3
  <2> QED
    BY <1>4, <2>1 DEF Range
<1>6. Last(later) = last /\ last \in Nat
  <2>1. Len(later) \in 1 .. Len(later) /\ n - 1 + Len(later) = Len(closes)
        /\ Len(closes) \in 1 .. Len(closes)
    BY <1>1, <1>2, <1>3
  <2>2. later[Len(later)] = closes[Len(closes)]
    <3> DEFINE k == Len(later)
    <3>1. k \in 1 .. Len(later) /\ n - 1 + k = Len(closes)
      BY <2>1
    <3> HIDE DEF k
    <3>2. later[k] = closes[n - 1 + k]
      BY <1>4, <3>1
    <3> QED
      BY <3>1, <3>2 DEF k
  <2>3. closes[Len(closes)] \in Nat
    BY <1>2, <2>1
  <2> QED
    BY <2>2, <2>3 DEF Last
<1>7. peak \in Nat /\ \A q \in Range(closes) : q <= peak
  BY <1>1, <1>2, PeakIsHighest
<1>8. low \in Nat /\ low \in Range(later)
  BY <1>1, <1>3, PeakIsHighest
<1> HIDE DEF peak, low, last
<1>9. low <= peak
  BY <1>5, <1>7, <1>8
<1>10. T \in -100 .. 0 /\ W \in -100 .. 0
  <2>1. W \in -99 .. 0 /\ T \in -100 .. W - 1
    BY ThresholdsAssumption
  <2> HIDE DEF T, W
  <2>2. W \in Int /\ -99 <= W /\ W <= 0
    BY <2>1
  <2>3. T \in Int /\ -100 <= T /\ T <= W - 1
    BY <2>1, <2>2
  <2> QED
    BY <2>2, <2>3
<1> HIDE DEF T, W
<1>11. Drawdown(sub) = IF 100 * (last - low) <= T * low THEN {grave}
                       ELSE IF 100 * (last - low) <= W * low THEN {mild} ELSE {}
  BY <1>6, DrawdownIs DEF low, T, W, later
<1>12. Drawdown(bars) = IF 100 * (last - peak) <= T * peak THEN {grave}
                        ELSE IF 100 * (last - peak) <= W * peak THEN {mild} ELSE {}
  BY DrawdownIs DEF peak, last, T, W, closes
<1>13. f \in Drawdown(sub)
  BY DEF sub
<1>14. CASE 100 * (last - low) <= T * low
  <2>1. 100 * (last - peak) <= T * peak
    BY <1>6, <1>7, <1>8, <1>9, <1>10, <1>14, HigherPeakFallsDeeper
  <2> QED
    BY <1>11, <1>12, <1>13, <1>14, <2>1 DEF NoWeaker
<1>15. CASE ~(100 * (last - low) <= T * low)
  <2>1. 100 * (last - low) <= W * low /\ f = mild
    BY <1>11, <1>13, <1>15
  <2>2. 100 * (last - peak) <= W * peak
    BY <1>6, <1>7, <1>8, <1>9, <1>10, <2>1, HigherPeakFallsDeeper
  <2>3. mild \in Drawdown(bars) \/ grave \in Drawdown(bars)
    BY <1>12, <2>2
  <2>4. NoWeaker(mild, mild) /\ NoWeaker(mild, grave)
    BY DEF NoWeaker, Finding
  <2> QED
    BY <2>1, <2>3, <2>4
<1> QED
  BY <1>14, <1>15

\* What is found at a bar.
DojiAt(f, bars, i) ==
  i \in DOMAIN bars /\ Doji(bars[i]) /\ f = Finding("doji", "info", "neutral", bars[i].day)

EngulfingUpAt(f, bars, i) ==
  /\ i \in 2 .. Len(bars) /\ EngulfsUp(bars[i - 1], bars[i])
  /\ f = Finding("bullish_engulfing", "info", "bullish", bars[i].day)

EngulfingDownAt(f, bars, i) ==
  /\ i \in 2 .. Len(bars) /\ EngulfsDown(bars[i - 1], bars[i])
  /\ f = Finding("bearish_engulfing", "info", "bearish", bars[i].day)

LEMMA PatternsAre ==
  ASSUME NEW bars, NEW f
  PROVE  f \in Patterns(bars) <=> \E i : \/ DojiAt(f, bars, i) \/ EngulfingUpAt(f, bars, i)
                                         \/ EngulfingDownAt(f, bars, i)
<1> DEFINE A == {Finding("doji", "info", "neutral", bars[i].day) :
                   i \in {j \in DOMAIN bars : Doji(bars[j])}}
           B == {Finding("bullish_engulfing", "info", "bullish", bars[i].day) :
                   i \in {j \in 2 .. Len(bars) : EngulfsUp(bars[j - 1], bars[j])}}
           C == {Finding("bearish_engulfing", "info", "bearish", bars[i].day) :
                   i \in {j \in 2 .. Len(bars) : EngulfsDown(bars[j - 1], bars[j])}}
<1>1. Patterns(bars) = A \cup B \cup C
  BY DEF Patterns
<1>2. f \in A <=> \E i : DojiAt(f, bars, i)
  BY DEF DojiAt
<1>3. f \in B <=> \E i : EngulfingUpAt(f, bars, i)
  BY DEF EngulfingUpAt
<1>4. f \in C <=> \E i : EngulfingDownAt(f, bars, i)
  BY DEF EngulfingDownAt
<1> HIDE DEF A, B, C
<1> QED
  BY <1>1, <1>2, <1>3, <1>4

\* A candle pattern of the last days is one of all days, not before them.
LEMMA LongerLookbackSeesPatterns ==
  ASSUME NEW bars \in Seq(DailyBars), NEW n \in 1 .. Len(bars),
         NEW f, f \in Patterns(Tailed(bars, n))
  PROVE  f \in Patterns(bars) /\ \E k \in n .. Len(bars) : f.day = bars[k].day
<1> DEFINE sub == Tailed(bars, n)
<1>1. /\ sub \in Seq(DailyBars) /\ Len(sub) = Len(bars) - n + 1 /\ Len(bars) \in Nat
      /\ \A k \in 1 .. Len(bars) - n + 1 : sub[k] = bars[n - 1 + k]
  BY TailedAre
<1>2. f \in Patterns(sub)
  OBVIOUS
<1> HIDE DEF sub
<1>3. DOMAIN sub = 1 .. Len(sub) /\ DOMAIN bars = 1 .. Len(bars)
  BY <1>1
<1>4. \A k \in 1 .. Len(sub) : /\ n - 1 + k \in 1 .. Len(bars) /\ n - 1 + k \in n .. Len(bars)
                               /\ sub[k] = bars[n - 1 + k]
  BY <1>1
<1>5. ASSUME NEW k \in 2 .. Len(sub)
      PROVE  /\ n - 1 + k \in 2 .. Len(bars) /\ n - 1 + k \in n .. Len(bars)
             /\ sub[k] = bars[n - 1 + k] /\ sub[k - 1] = bars[(n - 1 + k) - 1]
  <2>1. k \in 1 .. Len(sub) /\ k - 1 \in 1 .. Len(sub) /\ n - 1 + (k - 1) = (n - 1 + k) - 1
        /\ n - 1 + k \in 2 .. Len(bars)
    BY <1>1
  <2>2. sub[k - 1] = bars[n - 1 + (k - 1)]
    BY <1>4, <2>1
  <2> QED
    BY <1>4, <2>1, <2>2
<1>6. \A code, severity, direction, day : Finding(code, severity, direction, day).day = day
  BY DEF Finding
<1>7. PICK i : \/ DojiAt(f, sub, i) \/ EngulfingUpAt(f, sub, i) \/ EngulfingDownAt(f, sub, i)
  BY <1>2, PatternsAre
<1>8. CASE DojiAt(f, sub, i)
  <2>1. i \in 1 .. Len(sub) /\ f.day = sub[i].day
    BY <1>3, <1>6, <1>8 DEF DojiAt
  <2>2. DojiAt(f, bars, n - 1 + i)
    BY <1>3, <1>4, <1>8, <2>1 DEF DojiAt
  <2> QED
    BY <1>4, <2>1, <2>2, PatternsAre
<1>9. CASE EngulfingUpAt(f, sub, i)
  <2>1. i \in 2 .. Len(sub) /\ f.day = sub[i].day
    BY <1>6, <1>9 DEF EngulfingUpAt
  <2>2. EngulfingUpAt(f, bars, n - 1 + i)
    BY <1>5, <1>9, <2>1 DEF EngulfingUpAt
  <2> QED
    BY <1>5, <2>1, <2>2, PatternsAre
<1>10. CASE EngulfingDownAt(f, sub, i)
  <2>1. i \in 2 .. Len(sub) /\ f.day = sub[i].day
    BY <1>6, <1>10 DEF EngulfingDownAt
  <2>2. EngulfingDownAt(f, bars, n - 1 + i)
    BY <1>5, <1>10, <2>1 DEF EngulfingDownAt
  <2> QED
    BY <1>5, <2>1, <2>2, PatternsAre
<1> QED
  BY <1>7, <1>8, <1>9, <1>10

\* The recent days of all days begin no later than those of the last days.
LEMMA LongerLookbackReports ==
  ASSUME NEW bars \in Seq(DailyBars), Ascends(bars), NEW n \in 1 .. Len(bars),
         NEW f, f \in Recent(Tailed(bars, n))
  PROVE  f \in Recent(bars)
<1> DEFINE sub == Tailed(bars, n)
           R   == RecentBars
           m   == IF R < Len(sub) THEN R ELSE Len(sub)
           p   == IF R < Len(bars) THEN R ELSE Len(bars)
<1>1. /\ sub \in Seq(DailyBars) /\ Len(sub) = Len(bars) - n + 1 /\ Len(bars) \in Nat
      /\ \A k \in 1 .. Len(bars) - n + 1 : sub[k] = bars[n - 1 + k]
  BY TailedAre
<1>2. f \in Patterns(sub) /\ f.day >= Head(LastOf(sub, R)).day /\ R \in Nat \ {0}
  BY SkillsAssumption DEF Recent
<1>3. f \in Patterns(bars) /\ \E k \in n .. Len(bars) : f.day = bars[k].day
  <2>1. f \in Patterns(Tailed(bars, n))
    BY <1>2
  <2> QED
    BY <2>1, LongerLookbackSeesPatterns
<1> HIDE DEF sub, R
<1>0. R \in Nat \ {0} /\ Len(sub) \in Nat \ {0} /\ Len(bars) \in Nat \ {0}
      /\ n \in Nat \ {0} /\ n <= Len(bars) /\ Len(sub) = Len(bars) - n + 1
  BY <1>1, <1>2
<1>4. m \in Nat \ {0} /\ p \in Nat \ {0} /\ m <= Len(sub) /\ p <= Len(bars)
      /\ Len(bars) - p + 1 <= n - 1 + (Len(sub) - m + 1)
      /\ Len(bars) - p + 1 \in 1 .. Len(bars) /\ n - 1 + (Len(sub) - m + 1) \in 1 .. Len(bars)
      /\ Len(sub) - m + 1 \in 1 .. Len(bars) - n + 1
  <2>1. CASE R < Len(sub)
    <3>1. m = R /\ p = R
      BY <1>0, <2>1
    <3> HIDE DEF m, p
    <3> QED
      BY <1>0, <2>1, <3>1
  <2>2. CASE ~(R < Len(sub))
    <3>1. m = Len(sub) /\ p \in 1 .. Len(bars) /\ Len(bars) - p + 1 <= n
      BY <1>0, <2>2
    <3> HIDE DEF m, p
    <3> QED
      BY <1>0, <2>2, <3>1
  <2> QED
    BY <2>1, <2>2
<1>5. Head(LastOf(sub, R)) = sub[Len(sub) - m + 1]
  <2>1. LastOf(sub, R) \in Seq(DailyBars) /\ Len(LastOf(sub, R)) = m
        /\ \A j \in 1 .. m : LastOf(sub, R)[j] = sub[Len(sub) - m + j]
    BY <1>1, <1>2, LastOfAre
  <2> HIDE DEF m
  <2>2. 1 \in 1 .. m
    BY <1>4
  <2> QED
    BY <2>1, <2>2
<1>6. Head(LastOf(bars, R)) = bars[Len(bars) - p + 1]
  <2>1. LastOf(bars, R) \in Seq(DailyBars) /\ Len(LastOf(bars, R)) = p
        /\ \A j \in 1 .. p : LastOf(bars, R)[j] = bars[Len(bars) - p + j]
    BY <1>2, LastOfAre
  <2> HIDE DEF p
  <2>2. 1 \in 1 .. p
    BY <1>4
  <2> QED
    BY <2>1, <2>2
<1> HIDE DEF m, p
<1>7. sub[Len(sub) - m + 1] = bars[n - 1 + (Len(sub) - m + 1)]
  BY <1>1, <1>4
<1>8. bars[Len(bars) - p + 1].day <= bars[n - 1 + (Len(sub) - m + 1)].day
  BY <1>4, LaterIsNoEarlier
<1>9. \A k \in 1 .. Len(bars) : bars[k].day \in Nat
  <2>1. \A k \in 1 .. Len(bars) : bars[k] \in DailyBars
    BY <1>1
  <2> QED
    BY <2>1 DEF DailyBars
<1>10. f.day >= bars[Len(bars) - p + 1].day
  <2>1. PICK k \in 1 .. Len(bars) : f.day = bars[k].day
    BY <1>1, <1>3
  <2>2. f.day \in Nat /\ bars[Len(bars) - p + 1].day \in Nat
        /\ bars[n - 1 + (Len(sub) - m + 1)].day \in Nat
    BY <1>4, <1>9, <2>1
  <2>3. bars[n - 1 + (Len(sub) - m + 1)].day <= f.day
    BY <1>2, <1>5, <1>7, <2>2
  <2>4. bars[Len(bars) - p + 1].day <= f.day
    <3> DEFINE u == bars[Len(bars) - p + 1].day
               v == bars[n - 1 + (Len(sub) - m + 1)].day
               w == f.day
    <3>1. u \in Nat /\ v \in Nat /\ w \in Nat /\ u <= v /\ v <= w
      BY <1>8, <2>2, <2>3
    <3> HIDE DEF u, v, w
    <3>2. u <= w
      BY <3>1
    <3> QED
      BY <3>2 DEF u, w
  <2> QED
    BY <2>2, <2>4
<1> QED
  BY <1>3, <1>6, <1>10 DEF Recent, R

\* The last days alone say how the last session moved and how prices scattered.
LEMMA LongerLookbackMovesTheSame ==
  ASSUME NEW bars \in Seq(DailyBars), NEW n \in 1 .. Len(bars),
         Len(Tailed(bars, n)) >= MinBars["market_risk_snapshot"]
  PROVE  /\ DailyMove(Tailed(bars, n)) = DailyMove(bars)
         /\ Volatility(Tailed(bars, n)) = Volatility(bars)
<1> DEFINE sub == Tailed(bars, n)
           k   == VolatilityDays + 1
<1>1. /\ sub \in Seq(DailyBars) /\ Len(sub) = Len(bars) - n + 1 /\ Len(bars) \in Nat
      /\ \A j \in 1 .. Len(bars) - n + 1 : sub[j] = bars[n - 1 + j]
  BY TailedAre
<1>2. Len(sub) >= k /\ k \in Nat /\ k >= 3
  <2>1. MinBars["market_risk_snapshot"] \in Nat
    BY SkillsAssumption DEF Skills
  <2>2. /\ VolatilityDays \in Nat /\ VolatilityDays >= 2
        /\ MinBars["market_risk_snapshot"] > VolatilityDays
        /\ Len(sub) >= MinBars["market_risk_snapshot"]
    BY SkillsAssumption
  <2> HIDE DEF sub
  <2> QED
    BY <1>1, <2>1, <2>2
<1> HIDE DEF sub, k
<1>3. sub[Len(sub)] = bars[Len(bars)] /\ sub[Len(sub) - 1] = bars[Len(bars) - 1]
  <2>1. /\ Len(sub) \in 1 .. Len(bars) - n + 1 /\ n - 1 + Len(sub) = Len(bars)
        /\ Len(sub) - 1 \in 1 .. Len(bars) - n + 1 /\ n - 1 + (Len(sub) - 1) = Len(bars) - 1
    BY <1>1, <1>2
  <2>2. sub[Len(sub)] = bars[n - 1 + Len(sub)] /\ sub[Len(sub) - 1] = bars[n - 1 + (Len(sub) - 1)]
    BY <1>1, <2>1
  <2> QED
    BY <2>1, <2>2
<1>4. DailyMove(sub) = DailyMove(bars)
  <2>1. Last(sub) = Last(bars)
    BY <1>3 DEF Last
  <2> QED
    BY <1>3, <2>1 DEF DailyMove
<1>5. LastOf(Closes(sub), k) = LastOf(Closes(bars), k)
  <2>1. Closes(sub) = Tailed(Closes(bars), n)
    <3>1. /\ Closes(bars) \in Seq(Nat) /\ Len(Closes(bars)) = Len(bars)
          /\ \A j \in 1 .. Len(bars) : Closes(bars)[j] = bars[j].close
      BY ClosesAre
    <3>2. /\ Closes(sub) \in Seq(Nat) /\ Len(Closes(sub)) = Len(sub)
          /\ \A j \in 1 .. Len(sub) : Closes(sub)[j] = sub[j].close
      BY <1>1, ClosesAre
    <3>3. /\ Tailed(Closes(bars), n) \in Seq(Nat) /\ Len(Tailed(Closes(bars), n)) = Len(sub)
          /\ \A j \in 1 .. Len(sub) : Tailed(Closes(bars), n)[j] = Closes(bars)[n - 1 + j]
      <4> DEFINE c == Closes(bars)
      <4>1. c \in Seq(Nat) /\ n \in 1 .. Len(c) /\ Len(c) - n + 1 = Len(sub)
        BY <1>1, <3>1
      <4> HIDE DEF c
      <4>2. /\ Tailed(c, n) \in Seq(Nat) /\ Len(Tailed(c, n)) = Len(c) - n + 1
            /\ \A j \in 1 .. Len(c) - n + 1 : Tailed(c, n)[j] = c[n - 1 + j]
        BY <4>1, TailedAre
      <4> QED
        BY <4>1, <4>2 DEF c
    <3>4. ASSUME NEW j \in 1 .. Len(sub) PROVE Closes(sub)[j] = Tailed(Closes(bars), n)[j]
      <4>1. n - 1 + j \in 1 .. Len(bars) /\ j \in 1 .. Len(bars) - n + 1
        BY <1>1
      <4> QED
        BY <1>1, <3>1, <3>2, <3>3, <4>1
    <3>5. Closes(sub) = [j \in 1 .. Len(sub) |-> Closes(sub)[j]]
          /\ Tailed(Closes(bars), n) = [j \in 1 .. Len(sub) |-> Tailed(Closes(bars), n)[j]]
      BY <3>2, <3>3
    <3> QED
      BY <3>4, <3>5
  <2>2. /\ Closes(bars) \in Seq(Nat) /\ Len(Closes(bars)) = Len(bars)
    BY ClosesAre
  <2>3. k <= Len(Closes(bars)) - n + 1 /\ n \in 1 .. Len(Closes(bars))
    BY <1>1, <1>2, <2>2
  <2> QED
    BY <1>2, <2>1, <2>2, <2>3, TailedEndsTheSame
<1>6. Variance(sub) = Variance(bars)
  BY <1>5 DEF Variance, k
<1>7. Volatility(sub) = Volatility(bars)
  BY <1>6 DEF Volatility, VolatilityReaches
<1> QED
  BY <1>4, <1>7 DEF sub

\* Every finding of the last days is among those of all days, as grave.
LEMMA LongerLookbackFindsMore ==
  ASSUME NEW bars \in Seq(DailyBars), Ascends(bars), NEW n \in 1 .. Len(bars),
         NEW s \in {"candlestick_events", "market_risk_snapshot"},
         NEW f, f \in SkillFindings(s, Tailed(bars, n))
  PROVE  \E g \in SkillFindings(s, bars) : NoWeaker(f, g)
<1> DEFINE sub == Tailed(bars, n)
<1>1. Len(sub) = Len(bars) - n + 1 /\ Len(bars) \in Nat
  BY TailedAre
<1>2. s \in Skills /\ MinBars[s] \in Nat
  BY SkillsAssumption DEF Skills
<1> HIDE DEF sub
<1>3. f \in SkillFindings(s, sub)
  BY DEF sub
<1>4. SkillStatus(s, sub) = "success" /\ ~(Len(sub) < MinBars[s])
  BY <1>2, <1>3 DEF SkillFindings, SkillStatus
<1>5. ~(Len(bars) < MinBars[s])
  BY <1>1, <1>2, <1>4
<1>6. SkillStatus(s, bars) = "success"
  BY <1>2, <1>5 DEF SkillStatus
<1>7. CASE s = "candlestick_events"
  <2>1. f \in Recent(sub)
    BY <1>3, <1>4, <1>7 DEF SkillFindings
  <2>2. f \in Recent(bars)
    BY <2>1, LongerLookbackReports DEF sub
  <2>3. f \in SkillFindings(s, bars)
    BY <1>6, <1>7, <2>2 DEF SkillFindings
  <2> QED
    BY <2>3 DEF NoWeaker
<1>8. CASE s = "market_risk_snapshot"
  <2>1. f \in MarketRisk(sub)
    BY <1>3, <1>4, <1>8 DEF SkillFindings
  <2>2. SkillFindings(s, bars) = MarketRisk(bars)
    BY <1>6, <1>8 DEF SkillFindings
  <2>3. Len(sub) >= MinBars["market_risk_snapshot"]
    BY <1>1, <1>2, <1>4, <1>8
  <2>4. DailyMove(sub) = DailyMove(bars) /\ Volatility(sub) = Volatility(bars)
    BY <2>3, LongerLookbackMovesTheSame DEF sub
  <2>5. CASE f \in Drawdown(sub)
    <3>1. \E g \in Drawdown(bars) : NoWeaker(f, g)
      BY <2>5, LongerLookbackDrawsDown DEF sub
    <3> QED
      BY <2>2, <3>1 DEF MarketRisk
  <2>6. CASE f \in Volatility(sub) \/ f \in DailyMove(sub)
    <3>1. f \in MarketRisk(bars) /\ NoWeaker(f, f)
      BY <2>4, <2>6 DEF MarketRisk, NoWeaker
    <3> QED
      BY <2>2, <3>1
  <2> QED
    BY <2>1, <2>5, <2>6 DEF MarketRisk
<1> QED
  BY <1>7, <1>8

\* A longer look back loses no candle and no warning of risk: every finding of
\* the shorter window is there, a drawdown at least as grave (candlestick.py,
\* market_risk.py).
THEOREM LongerLookbacksKeepFindings == Spec => []LongerLookbackKeepsFindings
<1>1. LongerLookbackKeepsFindings
  <2> SUFFICES ASSUME NEW bars \in Histories,
                      NEW s \in {"candlestick_events", "market_risk_snapshot"},
                      NEW n \in DOMAIN bars, NEW f \in SkillFindings(s, SubSeq(bars, n, Len(bars)))
               PROVE  \E g \in SkillFindings(s, bars) : NoWeaker(f, g)
    BY DEF LongerLookbackKeepsFindings
  <2>1. bars \in Seq(DailyBars) /\ Ascends(bars)
    BY AnalysisAssumption DEF Ascends
  <2>2. n \in 1 .. Len(bars)
    BY <2>1
  <2>3. f \in SkillFindings(s, Tailed(bars, n))
    BY DEF Tailed
  <2> QED
    BY <2>1, <2>2, <2>3, LongerLookbackFindsMore
<1> QED
  BY <1>1, PTL

-----------------------------------------------------------------------------
(* Sums and averages of a sequence, and of its mirror image.               *)

Totals(g, s) == g = [i \in 0 .. Len(s) |-> IF i = 0 THEN 0 ELSE g[i - 1] + s[i]]

Totalling(s) == CHOOSE g : Totals(g, s)

LEMMA TotalIsTotalling ==
  ASSUME NEW s
  PROVE  Total(s) = Totalling(s)[Len(s)]
BY Zenon DEF Total, Totalling, Totals

LEMMA TotallingIs ==
  ASSUME NEW s \in Seq(Int)
  PROVE  /\ Totalling(s) \in [0 .. Len(s) -> Int] /\ Totalling(s)[0] = 0
         /\ \A i \in 1 .. Len(s) : Totalling(s)[i] = Totalling(s)[i - 1] + s[i]
<1> DEFINE G == [i \in 1 .. Len(s) |-> [y \in Int |-> y + s[i]]]
<1>1. Len(s) \in Nat /\ \A i \in 1 .. Len(s) : s[i] \in Int
  OBVIOUS
<1>2. \A i \in 1 .. Len(s), y \in Int : G[i][y] = y + s[i] /\ G[i][y] \in Int
  BY <1>1
<1> HIDE DEF G
<1>3. Staying(0, Len(s), Int, G)
  BY <1>1, <1>2 DEF Staying
<1>4. PICK f : Steps(f, 0, Len(s), 0, Int, G)
  <2>1. 0 \in Nat /\ 0 <= Len(s) /\ 0 \in Int
    BY <1>1
  <2>2. Len(s) \in Nat
    BY <1>1
  <2> QED
    BY <1>3, <2>1, <2>2, StepsExist
<1>5. /\ f \in [0 .. Len(s) -> Int] /\ f[0] = 0
      /\ \A i \in 1 .. Len(s) : f[i] = G[i][f[i - 1]]
  BY <1>1, <1>4 DEF Steps
<1>6. \A i \in 1 .. Len(s) : f[i] = f[i - 1] + s[i]
  <2> SUFFICES ASSUME NEW i \in 1 .. Len(s) PROVE f[i] = f[i - 1] + s[i]
    OBVIOUS
  <2>1. i - 1 \in 0 .. Len(s)
    BY <1>1
  <2>2. f[i - 1] \in Int /\ f[i] = G[i][f[i - 1]]
    BY <1>5, <2>1
  <2> QED
    BY <1>2, <2>2
<1>7. \A i \in 0 .. Len(s) : f[i] = IF i = 0 THEN 0 ELSE f[i - 1] + s[i]
  <2>1. \A i \in 0 .. Len(s) : i = 0 \/ i \in 1 .. Len(s)
    BY <1>1
  <2> QED
    BY <1>5, <1>6, <2>1
<1>8. Totals(f, s)
  BY <1>5, <1>7 DEF Totals
<1>9. Totals(Totalling(s), s)
  BY <1>8 DEF Totalling
<1> DEFINE g == Totalling(s)
<1>10. g = [i \in 0 .. Len(s) |-> IF i = 0 THEN 0 ELSE g[i - 1] + s[i]]
  BY <1>9 DEF Totals
<1> HIDE DEF g
<1>11. g[0] = 0
  BY <1>1, <1>10
<1>12. \A i \in 1 .. Len(s) : g[i] = g[i - 1] + s[i]
  <2>1. \A i \in 1 .. Len(s) : i # 0 /\ i \in 0 .. Len(s)
    BY <1>1
  <2> QED
    BY <1>10, <2>1
<1> DEFINE M == {n \in Nat : n <= Len(s) => g[n] \in Int}
<1>13. 0 \in M
  BY <1>11
<1>14. ASSUME NEW n \in Nat, n \in M PROVE n + 1 \in M
  <2> SUFFICES ASSUME n + 1 <= Len(s) PROVE g[n + 1] \in Int
    OBVIOUS
  <2>1. n <= Len(s) /\ n + 1 \in 1 .. Len(s) /\ (n + 1) - 1 = n
    BY <1>1
  <2>2. g[n] \in Int /\ s[n + 1] \in Int
    BY <1>1, <1>14, <2>1
  <2>3. g[n + 1] = g[n] + s[n + 1]
    BY <1>12, <2>1
  <2> QED
    BY <2>2, <2>3
<1> HIDE DEF M
<1>15. \A n \in 0 .. Len(s) : n \in M
  <2>1. \A n \in 0 .. Len(s) : n \in Nat
    BY <1>1
  <2> QED
    BY <1>13, <1>14, <2>1, CountUp
<1>16. \A n \in 0 .. Len(s) : g[n] \in Int
  BY <1>1, <1>15 DEF M
<1>17. g \in [0 .. Len(s) -> Int]
  <2>1. DOMAIN g = 0 .. Len(s) /\ g = [n \in 0 .. Len(s) |-> g[n]]
    BY <1>10
  <2> QED
    BY <1>16, <2>1
<1> QED
  BY <1>11, <1>12, <1>17 DEF g

LEMMA SumsMirror ==
  ASSUME NEW a \in Int, NEW n \in Int, NEW x \in Int, NEW y \in Int
  PROVE  (a * n - x) + (a - y) = a * (n + 1) - (x + y)
OBVIOUS

\* The sum of mirror images is what the sum lacks.
LEMMA TotalsMirror ==
  ASSUME NEW s \in Seq(Int), NEW t \in Seq(Int), NEW a \in Int, Len(t) = Len(s),
         \A i \in 1 .. Len(s) : t[i] = a - s[i]
  PROVE  Total(s) \in Int /\ Total(t) = a * Len(s) - Total(s)
<1> DEFINE g == Totalling(s)
           h == Totalling(t)
           M == {n \in Nat : n <= Len(s) => h[n] = a * n - g[n]}
<1>1. Len(s) \in Nat /\ \A i \in 1 .. Len(s) : s[i] \in Int
  OBVIOUS
<1>2. /\ g \in [0 .. Len(s) -> Int] /\ g[0] = 0
      /\ \A i \in 1 .. Len(s) : g[i] = g[i - 1] + s[i]
  BY TotallingIs
<1>3. h[0] = 0 /\ \A i \in 1 .. Len(s) : h[i] = h[i - 1] + t[i]
  BY TotallingIs
<1> HIDE DEF g, h
<1>4. 0 \in M
  BY <1>2, <1>3
<1>5. ASSUME NEW n \in Nat, n \in M PROVE n + 1 \in M
  <2> SUFFICES ASSUME n + 1 <= Len(s) PROVE h[n + 1] = a * (n + 1) - g[n + 1]
    OBVIOUS
  <2>1. n <= Len(s) /\ n \in 0 .. Len(s) /\ n + 1 \in 1 .. Len(s) /\ (n + 1) - 1 = n
    BY <1>1
  <2>2. h[n] = a * n - g[n] /\ g[n] \in Int /\ s[n + 1] \in Int
    BY <1>1, <1>2, <1>5, <2>1
  <2>3. h[n + 1] = h[n] + t[n + 1] /\ g[n + 1] = g[n] + s[n + 1] /\ t[n + 1] = a - s[n + 1]
    BY <1>2, <1>3, <2>1
  <2>4. (a * n - g[n]) + (a - s[n + 1]) = a * (n + 1) - (g[n] + s[n + 1])
    BY <2>2, SumsMirror
  <2> HIDE DEF M
  <2> QED
    BY <2>2, <2>3, <2>4
<1> HIDE DEF M
<1>6. Len(s) \in M
  BY <1>1, <1>4, <1>5, CountUp
<1>7. h[Len(s)] = a * Len(s) - g[Len(s)] /\ g[Len(s)] \in Int
  BY <1>1, <1>2, <1>6 DEF M
<1>8. Total(s) = g[Len(s)] /\ Total(t) = h[Len(s)]
  BY TotalIsTotalling DEF g, h
<1> QED
  BY <1>7, <1>8

\* A smoothed value over its scale.
Ratios == [value : Int, scale : Int]

Smooths(g, s, n, m) ==
  g = [i \in 1 .. Len(s) |->
         IF i = 1 THEN [value |-> s[1], scale |-> 1]
         ELSE [value |-> (m - n) * g[i - 1].value + n * s[i] * g[i - 1].scale,
               scale |-> m * g[i - 1].scale]]

Smoothing(s, n, m) == CHOOSE g : Smooths(g, s, n, m)

LEMMA SmoothedIsSmoothing ==
  ASSUME NEW s, NEW n, NEW m
  PROVE  Smoothed(s, n, m) = Smoothing(s, n, m)[Len(s)]
BY Zenon DEF Smoothed, Smoothing, Smooths

\* What each member adds.
Added(r, x, n, m) == [value |-> (m - n) * r.value + n * x * r.scale, scale |-> m * r.scale]

LEMMA AddedIsRatio ==
  ASSUME NEW r \in Ratios, NEW x \in Int, NEW n \in Int, NEW m \in Int
  PROVE  Added(r, x, n, m) \in Ratios
<1>1. r.value \in Int /\ r.scale \in Int
  BY DEF Ratios
<1>2. (m - n) * r.value + n * x * r.scale \in Int /\ m * r.scale \in Int
  BY <1>1
<1> QED
  BY <1>2 DEF Added, Ratios

LEMMA SmoothingIs ==
  ASSUME NEW s \in Seq(Int), Len(s) # 0, NEW n \in Int, NEW m \in Int
  PROVE  /\ \A i \in 1 .. Len(s) : Smoothing(s, n, m)[i] \in Ratios
         /\ Smoothing(s, n, m)[1] = [value |-> s[1], scale |-> 1]
         /\ \A i \in 2 .. Len(s) :
              Smoothing(s, n, m)[i] = Added(Smoothing(s, n, m)[i - 1], s[i], n, m)
<1> DEFINE G == [i \in 2 .. Len(s) |-> [r \in Ratios |-> Added(r, s[i], n, m)]]
           x == [value |-> s[1], scale |-> 1]
<1>1. Len(s) \in Nat \ {0} /\ \A i \in 1 .. Len(s) : s[i] \in Int
  OBVIOUS
<1>2. ASSUME NEW i \in 2 .. Len(s), NEW r \in Ratios
      PROVE  G[i][r] = Added(r, s[i], n, m) /\ G[i][r] \in Ratios
  <2>1. s[i] \in Int
    BY <1>1
  <2> QED
    BY <2>1, AddedIsRatio
<1>3. x \in Ratios
  <2>1. s[1] \in Int
    BY <1>1
  <2> QED
    BY <2>1 DEF Ratios
<1> HIDE DEF G, x
<1>4. Staying(1, Len(s), Ratios, G)
  <2>1. \A i \in 1 .. Len(s) : i # 1 => i \in 2 .. Len(s)
    BY <1>1
  <2> QED
    BY <1>2, <2>1 DEF Staying
<1>5. PICK f : Steps(f, 1, Len(s), x, Ratios, G)
  BY <1>1, <1>3, <1>4, StepsExist
<1>6. /\ f \in [1 .. Len(s) -> Ratios] /\ f[1] = x
      /\ \A i \in 2 .. Len(s) : f[i] = G[i][f[i - 1]]
  BY <1>1, <1>5 DEF Steps
<1>7. \A i \in 2 .. Len(s) : f[i] = Added(f[i - 1], s[i], n, m)
  <2> SUFFICES ASSUME NEW i \in 2 .. Len(s) PROVE f[i] = Added(f[i - 1], s[i], n, m)
    OBVIOUS
  <2>1. i - 1 \in 1 .. Len(s)
    BY <1>1
  <2>2. f[i - 1] \in Ratios /\ f[i] = G[i][f[i - 1]]
    BY <1>6, <2>1
  <2> QED
    BY <1>2, <2>2
<1>8. \A i \in 1 .. Len(s) : f[i] = IF i = 1 THEN x ELSE Added(f[i - 1], s[i], n, m)
  <2>1. \A i \in 1 .. Len(s) : i = 1 \/ i \in 2 .. Len(s)
    BY <1>1
  <2> QED
    BY <1>6, <1>7, <2>1
<1>9. Smooths(f, s, n, m)
  BY <1>6, <1>8 DEF Smooths, Added, x
<1>10. Smooths(Smoothing(s, n, m), s, n, m)
  BY <1>9 DEF Smoothing
<1> DEFINE g == Smoothing(s, n, m)
<1>11. g = [i \in 1 .. Len(s) |-> IF i = 1 THEN x ELSE Added(g[i - 1], s[i], n, m)]
  BY <1>10 DEF Smooths, Added, x
<1> HIDE DEF g
<1>12. g[1] = x /\ \A i \in 2 .. Len(s) : g[i] = Added(g[i - 1], s[i], n, m)
  <2>1. 1 \in 1 .. Len(s) /\ \A i \in 2 .. Len(s) : i # 1 /\ i \in 1 .. Len(s)
    BY <1>1
  <2> QED
    BY <1>11, <2>1
<1> DEFINE M == {k \in Nat : k + 1 <= Len(s) => g[k + 1] \in Ratios}
<1>13. 0 \in M
  BY <1>3, <1>12
<1>14. ASSUME NEW k \in Nat, k \in M PROVE k + 1 \in M
  <2> SUFFICES ASSUME (k + 1) + 1 <= Len(s) PROVE g[(k + 1) + 1] \in Ratios
    OBVIOUS
  <2>1. k + 1 <= Len(s) /\ (k + 1) + 1 \in 2 .. Len(s) /\ ((k + 1) + 1) - 1 = k + 1
    BY <1>1
  <2>2. g[k + 1] \in Ratios /\ s[(k + 1) + 1] \in Int
    BY <1>1, <1>14, <2>1
  <2>3. g[(k + 1) + 1] = Added(g[k + 1], s[(k + 1) + 1], n, m)
    BY <1>12, <2>1
  <2> HIDE DEF M
  <2> QED
    BY <2>2, <2>3, AddedIsRatio
<1> HIDE DEF M
<1>15. \A i \in 1 .. Len(s) : i - 1 \in M /\ (i - 1) + 1 = i /\ i <= Len(s)
  <2>1. \A i \in 1 .. Len(s) : i - 1 \in Nat /\ (i - 1) + 1 = i /\ i <= Len(s)
    BY <1>1
  <2> QED
    BY <1>13, <1>14, <2>1, CountUp
<1>16. \A i \in 1 .. Len(s) : g[i] \in Ratios
  BY <1>15 DEF M
<1> QED
  BY <1>12, <1>16 DEF g, x

LEMMA AveragesMirror ==
  ASSUME NEW a \in Int, NEW m \in Int, NEW n \in Int, NEW v \in Int, NEW w \in Int, NEW x \in Int
  PROVE  (m - n) * (a * w - v) + n * (a - x) * w = a * (m * w) - ((m - n) * v + n * x * w)
<1>1. (m - n) * (a * w - v) = (m - n) * (a * w) - (m - n) * v
  OBVIOUS
<1>2. n * (a - x) * w = n * a * w - n * x * w
  OBVIOUS
<1>3. (m - n) * (a * w) = m * (a * w) - n * (a * w)
  OBVIOUS
<1>4. m * (a * w) = a * (m * w) /\ n * (a * w) = n * a * w
  OBVIOUS
<1>5. /\ (m - n) * (a * w) \in Int /\ (m - n) * v \in Int /\ n * a * w \in Int /\ n * x * w \in Int
      /\ m * (a * w) \in Int /\ n * (a * w) \in Int /\ a * (m * w) \in Int
  OBVIOUS
<1> QED
  BY <1>1, <1>2, <1>3, <1>4, <1>5

\* r is the mirror image of q.
IsMirrorOf(r, q, a) == r.scale = q.scale /\ r.value = a * q.scale - q.value

LEMMA AddedMirrors ==
  ASSUME NEW a \in Int, NEW n \in Int, NEW m \in Int, NEW q \in Ratios, NEW r \in Ratios,
         NEW x \in Int, IsMirrorOf(r, q, a)
  PROVE  IsMirrorOf(Added(r, a - x, n, m), Added(q, x, n, m), a)
<1>1. q.value \in Int /\ q.scale \in Int /\ r.scale = q.scale /\ r.value = a * q.scale - q.value
  BY DEF Ratios, IsMirrorOf
<1>2. (m - n) * r.value + n * (a - x) * r.scale
        = a * (m * q.scale) - ((m - n) * q.value + n * x * q.scale)
  BY <1>1, AveragesMirror
<1>3. m * r.scale = m * q.scale
  BY <1>1
<1> QED
  BY <1>2, <1>3 DEF IsMirrorOf, Added

\* So is the smoothed value of mirror images.
LEMMA SmoothedMirrors ==
  ASSUME NEW s \in Seq(Int), NEW t \in Seq(Int), NEW a \in Int, Len(s) # 0, Len(t) = Len(s),
         \A i \in 1 .. Len(s) : t[i] = a - s[i], NEW n \in Int, NEW m \in Int
  PROVE  /\ Smoothed(s, n, m) \in Ratios /\ Smoothed(t, n, m) \in Ratios
         /\ IsMirrorOf(Smoothed(t, n, m), Smoothed(s, n, m), a)
<1> DEFINE g == Smoothing(s, n, m)
           h == Smoothing(t, n, m)
           M == {k \in Nat : k + 1 <= Len(s) => IsMirrorOf(h[k + 1], g[k + 1], a)}
<1>1. Len(s) \in Nat \ {0} /\ \A i \in 1 .. Len(s) : s[i] \in Int
  OBVIOUS
<1>2. /\ \A i \in 1 .. Len(s) : g[i] \in Ratios
      /\ g[1] = [value |-> s[1], scale |-> 1]
      /\ \A i \in 2 .. Len(s) : g[i] = Added(g[i - 1], s[i], n, m)
  BY SmoothingIs
<1>3. /\ \A i \in 1 .. Len(s) : h[i] \in Ratios
      /\ h[1] = [value |-> t[1], scale |-> 1]
      /\ \A i \in 2 .. Len(s) : h[i] = Added(h[i - 1], t[i], n, m)
  <2>1. Len(t) # 0
    OBVIOUS
  <2>2. /\ \A i \in 1 .. Len(t) : h[i] \in Ratios
        /\ h[1] = [value |-> t[1], scale |-> 1]
        /\ \A i \in 2 .. Len(t) : h[i] = Added(h[i - 1], t[i], n, m)
    BY <2>1, SmoothingIs
  <2> HIDE DEF h
  <2> QED
    BY <2>2
<1> HIDE DEF g, h
<1>4. 0 \in M
  <2>1. s[1] \in Int /\ t[1] = a - s[1]
    BY <1>1
  <2>2. IsMirrorOf(h[1], g[1], a)
    BY <1>2, <1>3, <2>1 DEF IsMirrorOf
  <2> QED
    BY <2>2
<1>5. ASSUME NEW k \in Nat, k \in M PROVE k + 1 \in M
  <2> SUFFICES ASSUME (k + 1) + 1 <= Len(s) PROVE IsMirrorOf(h[(k + 1) + 1], g[(k + 1) + 1], a)
    OBVIOUS
  <2> DEFINE i == (k + 1) + 1
  <2>1. k + 1 <= Len(s) /\ i \in 2 .. Len(s) /\ i \in 1 .. Len(s) /\ i - 1 = k + 1
        /\ k + 1 \in 1 .. Len(s)
    BY <1>1
  <2>2. IsMirrorOf(h[k + 1], g[k + 1], a)
    BY <1>5, <2>1
  <2>3. g[k + 1] \in Ratios /\ h[k + 1] \in Ratios
    BY <1>2, <1>3, <2>1
  <2> HIDE DEF M, i
  <2>4. s[i] \in Int /\ t[i] = a - s[i]
    BY <1>1, <2>1
  <2>5. g[i] = Added(g[k + 1], s[i], n, m) /\ h[i] = Added(h[k + 1], a - s[i], n, m)
    BY <1>2, <1>3, <2>1, <2>4
  <2>6. IsMirrorOf(h[i], g[i], a)
    BY <2>2, <2>3, <2>4, <2>5, AddedMirrors
  <2> QED
    BY <2>6 DEF i
<1> HIDE DEF M
<1>6. Len(s) - 1 \in M /\ (Len(s) - 1) + 1 = Len(s)
  <2>1. Len(s) - 1 \in Nat /\ (Len(s) - 1) + 1 = Len(s)
    BY <1>1
  <2> QED
    BY <1>4, <1>5, <2>1, CountUp
<1>7. IsMirrorOf(h[Len(s)], g[Len(s)], a)
  BY <1>1, <1>6 DEF M
<1>8. g[Len(s)] \in Ratios /\ h[Len(s)] \in Ratios
  BY <1>1, <1>2, <1>3
<1>9. Smoothed(s, n, m) = g[Len(s)] /\ Smoothed(t, n, m) = h[Len(s)]
  BY SmoothedIsSmoothing DEF g, h
<1> QED
  BY <1>7, <1>8, <1>9

LEMMA AddedStaysPositive ==
  ASSUME NEW r, NEW v \in Nat, NEW w \in Nat, r.value = v, r.scale = w,
         NEW x \in Nat, NEW m \in Nat \ {0}
  PROVE  Added(r, x, 1, m).value \in Nat /\ Added(r, x, 1, m).scale \in Nat
<1>1. m - 1 \in Nat /\ (m - 1) * v \in Nat /\ 1 * x * w \in Nat /\ m * w \in Nat
  <2>1. m - 1 \in Nat
    OBVIOUS
  <2>2. \A b \in Nat, c \in Nat : b * c \in Nat
    OBVIOUS
  <2>3. 1 * x = x
    OBVIOUS
  <2> QED
    BY <2>1, <2>2, <2>3
<1>2. (m - 1) * v + 1 * x * w \in Nat
  BY <1>1
<1> QED
  BY <1>1, <1>2 DEF Added

\* Gains and losses have a smoothed value of zero or above.
LEMMA SmoothedStaysPositive ==
  ASSUME NEW s \in Seq(Nat), Len(s) # 0, NEW m \in Nat \ {0}
  PROVE  Smoothed(s, 1, m).value \in Nat
<1> DEFINE g == Smoothing(s, 1, m)
           M == {k \in Nat : k + 1 <= Len(s) => g[k + 1].value \in Nat /\ g[k + 1].scale \in Nat}
<1>1. Len(s) \in Nat \ {0} /\ \A i \in 1 .. Len(s) : s[i] \in Nat
  OBVIOUS
<1>2. /\ g[1] = [value |-> s[1], scale |-> 1]
      /\ \A i \in 2 .. Len(s) : g[i] = Added(g[i - 1], s[i], 1, m)
  <2>1. s \in Seq(Int) /\ m \in Int
    OBVIOUS
  <2> QED
    BY <2>1, SmoothingIs
<1> HIDE DEF g
<1>3. 0 \in M
  <2>1. s[1] \in Nat
    BY <1>1
  <2> QED
    BY <1>2, <2>1
<1>4. ASSUME NEW k \in Nat, k \in M PROVE k + 1 \in M
  <2> DEFINE i == (k + 1) + 1
  <2> SUFFICES ASSUME i <= Len(s) PROVE g[i].value \in Nat /\ g[i].scale \in Nat
    OBVIOUS
  <2>1. k + 1 <= Len(s) /\ i \in 2 .. Len(s) /\ i \in 1 .. Len(s) /\ i - 1 = k + 1
    BY <1>1
  <2>2. g[k + 1].value \in Nat /\ g[k + 1].scale \in Nat
    BY <1>4, <2>1
  <2> HIDE DEF M, i
  <2>3. s[i] \in Nat /\ g[i] = Added(g[k + 1], s[i], 1, m)
    BY <1>1, <1>2, <2>1
  <2> QED
    BY <2>2, <2>3, AddedStaysPositive
<1> HIDE DEF M
<1>5. Len(s) - 1 \in M /\ (Len(s) - 1) + 1 = Len(s)
  <2>1. Len(s) - 1 \in Nat /\ (Len(s) - 1) + 1 = Len(s)
    BY <1>1
  <2> QED
    BY <1>3, <1>4, <2>1, CountUp
<1>6. g[Len(s)].value \in Nat
  BY <1>1, <1>5 DEF M
<1> QED
  BY <1>6, SmoothedIsSmoothing DEF g

-----------------------------------------------------------------------------
(* A market turned upside down.                                            *)

TurnedBars ==
  [day : Nat, open : Int, high : Int, low : Int, close : Int, volume : Nat \cup {NoVolume}]

TurnedBar(t, b) ==
  /\ t \in TurnedBars /\ t.day = b.day /\ t.volume = b.volume
  /\ t.open = Around - b.open /\ t.close = Around - b.close
  /\ t.high = Around - b.low /\ t.low = Around - b.high

LEMMA MirroredAre ==
  ASSUME NEW bars \in Seq(DailyBars)
  PROVE  /\ Mirrored(bars, Around) \in Seq(TurnedBars) /\ Len(Mirrored(bars, Around)) = Len(bars)
         /\ \A i \in 1 .. Len(bars) : TurnedBar(Mirrored(bars, Around)[i], bars[i])
<1> DEFINE t == Mirrored(bars, Around)
<1>1. Len(bars) \in Nat /\ DOMAIN bars = 1 .. Len(bars) /\ Around \in Int
  BY AnalysisAssumption
<1>2. \A i \in 1 .. Len(bars) : bars[i] \in DailyBars
  BY <1>1
<1>3. ASSUME NEW i \in 1 .. Len(bars) PROVE TurnedBar(t[i], bars[i])
  <2> DEFINE b == bars[i]
  <2>1. t[i] = [b EXCEPT !.open = Around - @, !.close = Around - @,
                         !.high = Around - b.low, !.low = Around - b.high]
    BY <1>1 DEF Mirrored
  <2>2. b \in DailyBars
    BY <1>2
  <2> HIDE DEF b, t
  <2>3. /\ b.day \in Nat /\ b.open \in Nat /\ b.high \in Nat /\ b.low \in Nat /\ b.close \in Nat
        /\ b.volume \in Nat \cup {NoVolume}
        /\ b = [day |-> b.day, open |-> b.open, high |-> b.high, low |-> b.low,
                close |-> b.close, volume |-> b.volume]
    BY <2>2 DEF DailyBars
  <2>4. t[i] = [day |-> b.day, open |-> Around - b.open, high |-> Around - b.low,
                low |-> Around - b.high, close |-> Around - b.close, volume |-> b.volume]
    BY <2>1, <2>3
  <2>5. /\ Around - b.open \in Int /\ Around - b.low \in Int /\ Around - b.high \in Int
        /\ Around - b.close \in Int
    <3>1. \A x \in Nat : Around - x \in Int
      BY <1>1
    <3> QED
      BY <2>3, <3>1
  <2>6. TurnedBar(t[i], b)
    BY <2>3, <2>4, <2>5 DEF TurnedBar, TurnedBars
  <2> QED
    BY <2>6 DEF b
<1>4. t = [i \in 1 .. Len(bars) |-> t[i]]
  BY <1>1 DEF Mirrored
<1> HIDE DEF t
<1>5. \A i \in 1 .. Len(bars) : t[i] \in TurnedBars
  BY <1>3 DEF TurnedBar
<1>6. t \in Seq(TurnedBars) /\ Len(t) = Len(bars)
  BY <1>1, <1>4, <1>5
<1> QED
  BY <1>3, <1>6 DEF t

LEMMA TurnedCloses ==
  ASSUME NEW bars \in Seq(DailyBars)
  PROVE  /\ Closes(bars) \in Seq(Int) /\ Closes(Mirrored(bars, Around)) \in Seq(Int)
         /\ Len(Closes(bars)) = Len(bars) /\ Len(Closes(Mirrored(bars, Around))) = Len(bars)
         /\ \A i \in 1 .. Len(bars) :
              Closes(Mirrored(bars, Around))[i] = Around - Closes(bars)[i]
<1> DEFINE t == Mirrored(bars, Around)
<1>1. /\ Closes(bars) \in Seq(Nat) /\ Len(Closes(bars)) = Len(bars) /\ Len(bars) \in Nat
      /\ \A i \in 1 .. Len(bars) : Closes(bars)[i] = bars[i].close
  BY ClosesAre
<1>2. t \in Seq(TurnedBars) /\ Len(t) = Len(bars)
      /\ \A i \in 1 .. Len(bars) : TurnedBar(t[i], bars[i])
  BY MirroredAre
<1> HIDE DEF t
<1>3. \A i \in 1 .. Len(bars) : t[i].close \in Int /\ t[i].close = Around - bars[i].close
  BY <1>2 DEF TurnedBar, TurnedBars
<1>4. Closes(t) = [i \in 1 .. Len(bars) |-> t[i].close]
  BY <1>2 DEF Closes
<1>5. Closes(t) \in Seq(Int) /\ Len(Closes(t)) = Len(bars)
  BY <1>1, <1>3, <1>4
<1>6. \A i \in 1 .. Len(bars) : Closes(t)[i] = Around - Closes(bars)[i]
  BY <1>1, <1>3, <1>4
<1>7. Closes(bars) \in Seq(Int)
  BY <1>1
<1> QED
  BY <1>1, <1>5, <1>6, <1>7 DEF t

\* A direction turned over.
Opposite(direction) ==
  CASE direction = "bullish" -> "bearish" [] direction = "bearish" -> "bullish"
    [] OTHER -> direction

LEMMA FindingTurns ==
  ASSUME NEW code, NEW severity, NEW direction, NEW day
  PROVE  MirroredFinding(Finding(code, severity, direction, day))
           = Finding(MirroredCode(code), severity, Opposite(direction), day)
<1>1. ASSUME NEW f, f = [code |-> code, severity |-> severity, direction |-> direction, day |-> day],
             NEW x, NEW y
      PROVE  [f EXCEPT !.code = x, !.direction = y]
               = [code |-> x, severity |-> severity, direction |-> y, day |-> day]
  <2> DEFINE e == [f EXCEPT !.code = x]
  <2>1. e = [code |-> x, severity |-> severity, direction |-> direction, day |-> day]
    BY <1>1
  <2>2. [f EXCEPT !.code = x, !.direction = y] = [e EXCEPT !.direction = y]
    OBVIOUS
  <2> HIDE DEF e
  <2>3. [e EXCEPT !.direction = y]
          = [code |-> x, severity |-> severity, direction |-> y, day |-> day]
    BY <2>1
  <2> QED
    BY <2>2, <2>3
<1>2. ASSUME NEW f
      PROVE  MirroredFinding(f) = [f EXCEPT !.code = MirroredCode(f.code),
                                            !.direction = Opposite(f.direction)]
  BY DEF MirroredFinding, Opposite
<1> DEFINE f == Finding(code, severity, direction, day)
<1>3. /\ f = [code |-> code, severity |-> severity, direction |-> direction, day |-> day]
      /\ f.code = code /\ f.direction = direction
  BY DEF Finding
<1> HIDE DEF f
<1>4. MirroredFinding(f) = [f EXCEPT !.code = MirroredCode(code), !.direction = Opposite(direction)]
  BY <1>2, <1>3
<1>5. MirroredFinding(f) = [code |-> MirroredCode(code), severity |-> severity,
                            direction |-> Opposite(direction), day |-> day]
  BY <1>1, <1>3, <1>4
<1> QED
  BY <1>5 DEF f, Finding

\* What turns over, and what stays.
LEMMA FindingsTurn ==
  /\ MirroredFinding(Finding("trend_confirmed", "watch", "bullish", 0))
       = Finding("trend_confirmed", "watch", "bearish", 0)
  /\ MirroredFinding(Finding("trend_confirmed", "watch", "bearish", 0))
       = Finding("trend_confirmed", "watch", "bullish", 0)
  /\ MirroredFinding(Finding("rsi_overbought", "watch", "bearish", 0))
       = Finding("rsi_oversold", "watch", "bullish", 0)
  /\ MirroredFinding(Finding("rsi_oversold", "watch", "bullish", 0))
       = Finding("rsi_overbought", "watch", "bearish", 0)
  /\ MirroredFinding(Finding("unusual_volume", "watch", "neutral", 0))
       = Finding("unusual_volume", "watch", "neutral", 0)
  /\ \A day : /\ MirroredFinding(Finding("doji", "info", "neutral", day))
                   = Finding("doji", "info", "neutral", day)
              /\ MirroredFinding(Finding("bullish_engulfing", "info", "bullish", day))
                   = Finding("bearish_engulfing", "info", "bearish", day)
              /\ MirroredFinding(Finding("bearish_engulfing", "info", "bearish", day))
                   = Finding("bullish_engulfing", "info", "bullish", day)
<1>1. /\ MirroredCode("trend_confirmed") = "trend_confirmed"
      /\ MirroredCode("rsi_overbought") = "rsi_oversold"
      /\ MirroredCode("rsi_oversold") = "rsi_overbought"
      /\ MirroredCode("unusual_volume") = "unusual_volume"
      /\ MirroredCode("doji") = "doji"
      /\ MirroredCode("bullish_engulfing") = "bearish_engulfing"
      /\ MirroredCode("bearish_engulfing") = "bullish_engulfing"
  BY DEF MirroredCode
<1>2. /\ Opposite("bullish") = "bearish" /\ Opposite("bearish") = "bullish"
      /\ Opposite("neutral") = "neutral"
  BY DEF Opposite
<1> QED
  BY <1>1, <1>2, FindingTurns

Turned(findings) == {MirroredFinding(f) : f \in findings}

LEMMA TurnedAre ==
  ASSUME NEW F, NEW G
  PROVE  Turned(F \cup G) = Turned(F) \cup Turned(G)
BY DEF Turned

LEMMA ExceedingTurns ==
  ASSUME NEW p \in Ratios, NEW q \in Ratios, NEW r \in Ratios, NEW s \in Ratios, NEW a \in Int,
         IsMirrorOf(r, p, a), IsMirrorOf(s, q, a)
  PROVE  Exceeds(r, s) <=> Exceeds(q, p)
<1>1. /\ p.value \in Int /\ p.scale \in Int /\ q.value \in Int /\ q.scale \in Int
      /\ r.scale = p.scale /\ s.scale = q.scale
      /\ r.value = a * p.scale - p.value /\ s.value = a * q.scale - q.value
  BY DEF Ratios, IsMirrorOf
<1>2. \A v \in Int, w \in Int, x \in Int, y \in Int :
        (a * w - v) * y = a * (w * y) - v * y /\ (a * y - x) * w = a * (w * y) - x * w
  OBVIOUS
<1>3. /\ r.value * s.scale = a * (p.scale * q.scale) - p.value * q.scale
      /\ s.value * r.scale = a * (p.scale * q.scale) - q.value * p.scale
  BY <1>1, <1>2
<1>4. /\ a * (p.scale * q.scale) \in Int /\ p.value * q.scale \in Int /\ q.value * p.scale \in Int
  BY <1>1
<1> QED
  BY <1>3, <1>4 DEF Exceeds

\* The bars a market that is long enough for technical_snapshot has.
LongEnough(bars) ==
  /\ bars \in Seq(DailyBars) /\ Len(bars) >= AverageDays /\ Len(bars) > RsiDays

LEMMA SequenceOf ==
  ASSUME NEW S, NEW n \in Nat, NEW s, s = [j \in 1 .. n |-> s[j]], \A j \in 1 .. n : s[j] \in S
  PROVE  s \in Seq(S) /\ Len(s) = n
OBVIOUS

LEMMA MembersAre ==
  ASSUME NEW S, NEW s \in Seq(S), NEW i \in 1 .. Len(s)
  PROVE  s[i] \in S
OBVIOUS

LEMMA EmaTurns ==
  ASSUME NEW bars, LongEnough(bars), NEW span \in Nat
  PROVE  /\ Ema(bars, span) \in Ratios /\ Ema(Mirrored(bars, Around), span) \in Ratios
         /\ IsMirrorOf(Ema(Mirrored(bars, Around), span), Ema(bars, span), Around)
<1> DEFINE c == Closes(bars)
           d == Closes(Mirrored(bars, Around))
<1>1. bars \in Seq(DailyBars) /\ Len(bars) # 0 /\ Around \in Int
  BY SkillsAssumption, AnalysisAssumption DEF LongEnough
<1>2. /\ c \in Seq(Int) /\ d \in Seq(Int) /\ Len(c) = Len(bars) /\ Len(d) = Len(bars)
      /\ \A i \in 1 .. Len(bars) : d[i] = Around - c[i]
  BY <1>1, TurnedCloses
<1> HIDE DEF c, d
<1>3. /\ Smoothed(c, 2, span + 1) \in Ratios /\ Smoothed(d, 2, span + 1) \in Ratios
      /\ IsMirrorOf(Smoothed(d, 2, span + 1), Smoothed(c, 2, span + 1), Around)
  <2>1. /\ Len(c) # 0 /\ Len(d) = Len(c) /\ 2 \in Int /\ span + 1 \in Int
        /\ \A i \in 1 .. Len(c) : d[i] = Around - c[i]
    BY <1>1, <1>2
  <2> QED
    BY <1>1, <1>2, <2>1, SmoothedMirrors
<1> QED
  BY <1>3 DEF Ema, c, d

LEMMA AverageTurns ==
  ASSUME NEW bars, LongEnough(bars)
  PROVE  /\ Average(bars) \in Ratios /\ Average(Mirrored(bars, Around)) \in Ratios
         /\ IsMirrorOf(Average(Mirrored(bars, Around)), Average(bars), Around)
<1> DEFINE c == Closes(bars)
           d == Closes(Mirrored(bars, Around))
           k == AverageDays
           x == LastOf(c, k)
           y == LastOf(d, k)
<1>1. /\ bars \in Seq(DailyBars) /\ k \in Nat \ {0} /\ k <= Len(bars) /\ Around \in Int
      /\ Len(bars) \in Nat
  BY SkillsAssumption, AnalysisAssumption DEF LongEnough
<1>2. /\ c \in Seq(Int) /\ d \in Seq(Int) /\ Len(c) = Len(bars) /\ Len(d) = Len(bars)
      /\ \A i \in 1 .. Len(bars) : d[i] = Around - c[i]
  BY <1>1, TurnedCloses
<1> HIDE DEF c, d, k
<1>3. x = [j \in 1 .. k |-> c[Len(bars) - k + j]] /\ y = [j \in 1 .. k |-> d[Len(bars) - k + j]]
  <2>1. k \in Nat /\ k <= Len(c) /\ k <= Len(d)
    BY <1>1, <1>2
  <2>2. x = [j \in 1 .. k |-> c[Len(c) - k + j]]
    BY <1>2, <2>1, EndsAre
  <2>3. y = [j \in 1 .. k |-> d[Len(d) - k + j]]
    BY <1>2, <2>1, EndsAre
  <2> HIDE DEF x, y
  <2> QED
    BY <1>2, <2>2, <2>3
<1>4. \A j \in 1 .. k : Len(bars) - k + j \in 1 .. Len(bars)
  BY <1>1
<1>5. \A i \in 1 .. Len(bars) : c[i] \in Int /\ d[i] \in Int
  <2>1. /\ \A i \in 1 .. Len(c) : c[i] \in Int
        /\ \A i \in 1 .. Len(d) : d[i] \in Int
    BY <1>2, MembersAre
  <2> QED
    BY <1>2, <2>1
<1> HIDE DEF x, y
<1>6. \A j \in 1 .. k : x[j] \in Int /\ y[j] \in Int /\ y[j] = Around - x[j]
  BY <1>2, <1>3, <1>4, <1>5
<1>7. x \in Seq(Int) /\ y \in Seq(Int) /\ Len(x) = k /\ Len(y) = k
  <2>1. x = [j \in 1 .. k |-> x[j]] /\ y = [j \in 1 .. k |-> y[j]]
    BY <1>3
  <2> QED
    BY <1>1, <1>6, <2>1, SequenceOf
<1>8. Total(x) \in Int /\ Total(y) = Around * k - Total(x)
  BY <1>1, <1>6, <1>7, TotalsMirror
<1>9. Around * k - Total(x) \in Int
  BY <1>1, <1>8
<1>10. /\ Average(bars) = [value |-> Total(x), scale |-> k]
       /\ Average(Mirrored(bars, Around)) = [value |-> Total(y), scale |-> k]
  BY DEF Average, x, y, c, d, k
<1> QED
  BY <1>1, <1>8, <1>9, <1>10 DEF IsMirrorOf, Ratios

\* What a trend is confirmed by.
Latest(bars) == [value |-> Last(bars).close, scale |-> 1]

Rises(bars) ==
  Exceeds(Latest(bars), Average(bars)) /\ Exceeds(Ema(bars, ShortSpan), Ema(bars, LongSpan))

Falls(bars) ==
  Exceeds(Average(bars), Latest(bars)) /\ Exceeds(Ema(bars, LongSpan), Ema(bars, ShortSpan))

Confirmed(direction) == Finding("trend_confirmed", "watch", direction, 0)

LEMMA TrendIs ==
  ASSUME NEW bars, NEW f
  PROVE  f \in Trend(bars) <=> \/ Rises(bars) /\ f = Confirmed("bullish")
                               \/ Falls(bars) /\ f = Confirmed("bearish")
<1> DEFINE D == {d \in {"bullish", "bearish"} :
                   \/ d = "bullish" /\ Exceeds(Latest(bars), Average(bars))
                        /\ Exceeds(Ema(bars, ShortSpan), Ema(bars, LongSpan))
                   \/ d = "bearish" /\ Exceeds(Average(bars), Latest(bars))
                        /\ Exceeds(Ema(bars, LongSpan), Ema(bars, ShortSpan))}
<1>1. Trend(bars) = {Finding("trend_confirmed", "watch", d, 0) : d \in D}
  BY DEF Trend, Latest
<1>2. ("bullish" \in D <=> Rises(bars)) /\ ("bearish" \in D <=> Falls(bars))
  BY DEF Rises, Falls
<1>3. \A d \in D : d = "bullish" \/ d = "bearish"
  OBVIOUS
<1> HIDE DEF D
<1> QED
  BY <1>1, <1>2, <1>3 DEF Confirmed

LEMMA LatestTurns ==
  ASSUME NEW bars, LongEnough(bars)
  PROVE  /\ Latest(bars) \in Ratios /\ Latest(Mirrored(bars, Around)) \in Ratios
         /\ IsMirrorOf(Latest(Mirrored(bars, Around)), Latest(bars), Around)
<1> DEFINE t == Mirrored(bars, Around)
<1>1. /\ bars \in Seq(DailyBars) /\ Len(bars) \in Nat \ {0} /\ Around \in Int
  BY SkillsAssumption, AnalysisAssumption DEF LongEnough
<1>2. /\ t \in Seq(TurnedBars) /\ Len(t) = Len(bars)
      /\ \A i \in 1 .. Len(bars) : TurnedBar(t[i], bars[i])
  BY <1>1, MirroredAre
<1> HIDE DEF t
<1>3. /\ Last(bars) = bars[Len(bars)] /\ Last(t) = t[Len(bars)] /\ Len(bars) \in 1 .. Len(bars)
  BY <1>1, <1>2 DEF Last
<1>4. TurnedBar(Last(t), Last(bars)) /\ Last(bars) \in DailyBars
  BY <1>1, <1>2, <1>3
<1>5. Last(bars).close \in Int /\ Last(t).close \in Int
      /\ Last(t).close = Around * 1 - Last(bars).close
  BY <1>1, <1>4 DEF TurnedBar, TurnedBars, DailyBars
<1> QED
  BY <1>5 DEF IsMirrorOf, Ratios, Latest, t

\* A trend is confirmed the other way.
LEMMA TrendTurns ==
  ASSUME NEW bars, LongEnough(bars)
  PROVE  Trend(Mirrored(bars, Around)) = Turned(Trend(bars))
<1> DEFINE t == Mirrored(bars, Around)
<1>1. Around \in Int /\ ShortSpan \in Nat /\ LongSpan \in Nat
  BY SkillsAssumption, AnalysisAssumption
<1>2. /\ Latest(bars) \in Ratios /\ Latest(t) \in Ratios
      /\ IsMirrorOf(Latest(t), Latest(bars), Around)
  BY LatestTurns
<1>3. /\ Average(bars) \in Ratios /\ Average(t) \in Ratios
      /\ IsMirrorOf(Average(t), Average(bars), Around)
  BY AverageTurns
<1>4. /\ Ema(bars, ShortSpan) \in Ratios /\ Ema(t, ShortSpan) \in Ratios
      /\ IsMirrorOf(Ema(t, ShortSpan), Ema(bars, ShortSpan), Around)
  BY <1>1, EmaTurns
<1>5. /\ Ema(bars, LongSpan) \in Ratios /\ Ema(t, LongSpan) \in Ratios
      /\ IsMirrorOf(Ema(t, LongSpan), Ema(bars, LongSpan), Around)
  BY <1>1, EmaTurns
<1> HIDE DEF t
<1>6. Exceeds(Latest(t), Average(t)) <=> Exceeds(Average(bars), Latest(bars))
  BY <1>1, <1>2, <1>3, ExceedingTurns
<1>7. Exceeds(Average(t), Latest(t)) <=> Exceeds(Latest(bars), Average(bars))
  BY <1>1, <1>2, <1>3, ExceedingTurns
<1>8. Exceeds(Ema(t, ShortSpan), Ema(t, LongSpan))
        <=> Exceeds(Ema(bars, LongSpan), Ema(bars, ShortSpan))
  BY <1>1, <1>4, <1>5, ExceedingTurns
<1>9. Exceeds(Ema(t, LongSpan), Ema(t, ShortSpan))
        <=> Exceeds(Ema(bars, ShortSpan), Ema(bars, LongSpan))
  BY <1>1, <1>4, <1>5, ExceedingTurns
<1>10. (Rises(t) <=> Falls(bars)) /\ (Falls(t) <=> Rises(bars))
  BY <1>6, <1>7, <1>8, <1>9 DEF Rises, Falls
<1>11. /\ MirroredFinding(Confirmed("bullish")) = Confirmed("bearish")
       /\ MirroredFinding(Confirmed("bearish")) = Confirmed("bullish")
  BY FindingsTurn DEF Confirmed
<1>12. ASSUME NEW f PROVE f \in Trend(t) <=> f \in Turned(Trend(bars))
  <2>1. f \in Turned(Trend(bars)) <=> \E g : g \in Trend(bars) /\ f = MirroredFinding(g)
    BY DEF Turned
  <2> QED
    BY <1>10, <1>11, <2>1, TrendIs
<1> QED
  BY <1>12 DEF t

\* Volumes do not turn over.
LEMMA VolumeTurns ==
  ASSUME NEW bars, LongEnough(bars)
  PROVE  Volume(Mirrored(bars, Around)) = Turned(Volume(bars))
<1> DEFINE t == Mirrored(bars, Around)
           v == Finding("unusual_volume", "watch", "neutral", 0)
<1>1. /\ bars \in Seq(DailyBars) /\ Len(bars) \in Nat \ {0}
  BY SkillsAssumption DEF LongEnough
<1>2. /\ t \in Seq(TurnedBars) /\ Len(t) = Len(bars)
      /\ \A i \in 1 .. Len(bars) : TurnedBar(t[i], bars[i])
  BY <1>1, MirroredAre
<1> HIDE DEF t
<1>3. DOMAIN t = 1 .. Len(bars) /\ DOMAIN bars = 1 .. Len(bars)
      /\ \A i \in 1 .. Len(bars) : t[i].volume = bars[i].volume
  BY <1>1, <1>2 DEF TurnedBar
<1>4. Volumes(t) = Volumes(bars)
  BY <1>3 DEF Volumes
<1>5. Last(t).volume = Last(bars).volume
  BY <1>1, <1>2, <1>3 DEF Last
<1>6. Volume(t) = Volume(bars)
  BY <1>4, <1>5 DEF Volume
<1>7. \A f \in Volume(bars) : f = v
  BY DEF Volume
<1>8. MirroredFinding(v) = v
  BY FindingsTurn
<1>9. Turned(Volume(bars)) = Volume(bars)
  <2> HIDE DEF v
  <2> QED
    BY <1>7, <1>8 DEF Turned
<1> QED
  BY <1>6, <1>9 DEF t

\* Gains become losses, and losses gains.
LEMMA GainsTurn ==
  ASSUME NEW bars, LongEnough(bars)
  PROVE  LET c == Changes(Closes(bars))
             d == Changes(Closes(Mirrored(bars, Around))) IN
         /\ Gains(d) = Losses(c) /\ Losses(d) = Gains(c)
         /\ Gains(c) \in Seq(Nat) /\ Losses(c) \in Seq(Nat)
         /\ Len(Gains(c)) # 0 /\ Len(Losses(c)) # 0
<1> DEFINE x == Closes(bars)
           y == Closes(Mirrored(bars, Around))
           c == Changes(x)
           d == Changes(y)
           n == Len(bars) - 1
<1>1. /\ bars \in Seq(DailyBars) /\ Len(bars) \in Nat /\ n \in Nat \ {0} /\ Around \in Int
  <2>1. /\ bars \in Seq(DailyBars) /\ Len(bars) \in Nat /\ Around \in Int /\ RsiDays \in Nat \ {0}
        /\ Len(bars) > RsiDays
    BY SkillsAssumption, AnalysisAssumption DEF LongEnough
  <2>2. Len(bars) >= 2
    BY <2>1
  <2>3. \A k \in Nat : k >= 2 => k - 1 \in Nat \ {0}
    OBVIOUS
  <2> QED
    BY <2>1, <2>2, <2>3
<1>2. /\ x \in Seq(Int) /\ y \in Seq(Int) /\ Len(x) = Len(bars) /\ Len(y) = Len(bars)
      /\ \A i \in 1 .. Len(bars) : y[i] = Around - x[i]
  BY <1>1, TurnedCloses
<1> HIDE DEF x, y
<1>3. c = [i \in 1 .. n |-> x[i + 1] - x[i]] /\ d = [i \in 1 .. n |-> y[i + 1] - y[i]]
  BY <1>2 DEF Changes
<1>4. \A i \in 1 .. Len(bars) : x[i] \in Int
  BY <1>2, MembersAre
<1>5. \A i \in 1 .. n : i \in 1 .. Len(bars) /\ i + 1 \in 1 .. Len(bars)
  BY <1>1
<1> HIDE DEF c, d, n
<1>6. ASSUME NEW i \in 1 .. n PROVE c[i] \in Int /\ d[i] = -c[i]
  <2>1. x[i] \in Int /\ x[i + 1] \in Int /\ y[i] = Around - x[i] /\ y[i + 1] = Around - x[i + 1]
    BY <1>2, <1>4, <1>5
  <2>2. c[i] = x[i + 1] - x[i] /\ d[i] = y[i + 1] - y[i]
    BY <1>3
  <2>3. \A a \in Int, b \in Int : (Around - b) - (Around - a) = -(b - a) /\ b - a \in Int
    BY <1>1
  <2>4. /\ x[i + 1] - x[i] \in Int
        /\ (Around - x[i + 1]) - (Around - x[i]) = -(x[i + 1] - x[i])
    BY <2>1, <2>3
  <2> QED
    BY <2>1, <2>2, <2>4
<1>7. DOMAIN c = 1 .. n /\ DOMAIN d = 1 .. n
  BY <1>3
<1> DEFINE Up(e, i)   == IF e[i] > 0 THEN e[i] ELSE 0
           Down(e, i) == IF e[i] < 0 THEN -e[i] ELSE 0
<1>8. /\ Gains(c) = [i \in 1 .. n |-> Up(c, i)] /\ Losses(c) = [i \in 1 .. n |-> Down(c, i)]
      /\ Gains(d) = [i \in 1 .. n |-> Up(d, i)] /\ Losses(d) = [i \in 1 .. n |-> Down(d, i)]
  BY <1>7 DEF Gains, Losses
<1>9. \A i \in 1 .. n : /\ Up(d, i) = Down(c, i) /\ Down(d, i) = Up(c, i)
                        /\ Up(c, i) \in Nat /\ Down(c, i) \in Nat
  BY <1>6
<1> HIDE DEF Up, Down
<1>10. Gains(d) = Losses(c) /\ Losses(d) = Gains(c)
  BY <1>8, <1>9
<1>11. /\ Gains(c) \in Seq(Nat) /\ Len(Gains(c)) = n
       /\ Losses(c) \in Seq(Nat) /\ Len(Losses(c)) = n
  <2> DEFINE g == Gains(c)
             l == Losses(c)
  <2>1. /\ g = [i \in 1 .. n |-> g[i]] /\ l = [i \in 1 .. n |-> l[i]]
        /\ \A i \in 1 .. n : g[i] \in Nat /\ l[i] \in Nat
    BY <1>8, <1>9
  <2> HIDE DEF g, l
  <2>2. g \in Seq(Nat) /\ Len(g) = n /\ l \in Seq(Nat) /\ Len(l) = n
    BY <1>1, <2>1, SequenceOf
  <2> QED
    BY <2>2 DEF g, l
<1> QED
  BY <1>1, <1>10, <1>11 DEF c, d, x, y

\* The momentum of gains and losses: too hot, or too cold.
Hot(g, l) ==
  IF g = 0 /\ l = 0 THEN 50 >= Thresholds.rsi_overbought * 1
  ELSE 100 * g >= Thresholds.rsi_overbought * (g + l)

Cold(g, l) ==
  IF g = 0 /\ l = 0 THEN 50 <= Thresholds.rsi_oversold * 1
  ELSE 100 * g <= Thresholds.rsi_oversold * (g + l)

Gain(bars) == Smoothed(Gains(Changes(Closes(bars))), 1, RsiDays).value
Loss(bars) == Smoothed(Losses(Changes(Closes(bars))), 1, RsiDays).value

LEMMA MomentumIs ==
  ASSUME NEW bars
  PROVE  Momentum(bars) = IF Hot(Gain(bars), Loss(bars))
                          THEN {Finding("rsi_overbought", "watch", "bearish", 0)}
                          ELSE IF Cold(Gain(bars), Loss(bars))
                          THEN {Finding("rsi_oversold", "watch", "bullish", 0)} ELSE {}
<1>1. Rsi(bars) = IF Gain(bars) = 0 /\ Loss(bars) = 0 THEN [value |-> 50, scale |-> 1]
                  ELSE [value |-> 100 * Gain(bars), scale |-> Gain(bars) + Loss(bars)]
  BY DEF Rsi, Gain, Loss
<1>2. Rsi(bars).value >= Thresholds.rsi_overbought * Rsi(bars).scale <=> Hot(Gain(bars), Loss(bars))
  BY <1>1 DEF Hot
<1>3. Rsi(bars).value <= Thresholds.rsi_oversold * Rsi(bars).scale <=> Cold(Gain(bars), Loss(bars))
  BY <1>1 DEF Cold
<1> QED
  BY <1>2, <1>3 DEF Momentum

LEMMA ProductsArePositive ==
  ASSUME NEW a \in Nat \ {0}, NEW b \in Nat \ {0}
  PROVE  a * b > 0
<1>1. \A c \in Nat, d \in Nat : c * d \in Nat
  OBVIOUS
<1>2. a - 1 \in Nat /\ (a - 1) * b \in Nat
  <2>1. a - 1 \in Nat
    OBVIOUS
  <2> QED
    BY <1>1, <2>1
<1>3. a * b = (a - 1) * b + b
  OBVIOUS
<1> QED
  BY <1>2, <1>3

\* With thresholds as far from the middle, hot and cold change places.
LEMMA HotTurnsCold ==
  ASSUME Thresholds.rsi_oversold = 100 - Thresholds.rsi_overbought, NEW g \in Nat, NEW l \in Nat
  PROVE  /\ Hot(l, g) <=> Cold(g, l)
         /\ Cold(l, g) <=> Hot(g, l)
         /\ ~(Hot(g, l) /\ Cold(g, l))
<1> DEFINE O == Thresholds.rsi_overbought
<1>1. O \in Int /\ 50 < O /\ O <= 100
  <2>1. O \in 1 .. 100 /\ Thresholds.rsi_oversold \in 0 .. O - 1
    BY ThresholdsAssumption
  <2>2. O \in Int /\ O <= 100
    BY <2>1
  <2>3. 100 - O <= O - 1
    BY <2>1, <2>2
  <2> HIDE DEF O
  <2> QED
    BY <2>2, <2>3
<1> HIDE DEF O
<1>2. /\ Hot(g, l) = IF g = 0 /\ l = 0 THEN 50 >= O * 1 ELSE 100 * g >= O * (g + l)
      /\ Hot(l, g) = IF l = 0 /\ g = 0 THEN 50 >= O * 1 ELSE 100 * l >= O * (l + g)
      /\ Cold(g, l) = IF g = 0 /\ l = 0 THEN 50 <= (100 - O) * 1 ELSE 100 * g <= (100 - O) * (g + l)
      /\ Cold(l, g) = IF l = 0 /\ g = 0 THEN 50 <= (100 - O) * 1 ELSE 100 * l <= (100 - O) * (l + g)
  BY DEF Hot, Cold, O
<1>3. CASE g = 0 /\ l = 0
  <2>1. O * 1 = O /\ (100 - O) * 1 = 100 - O
    BY <1>1
  <2>2. ~(50 >= O * 1) /\ ~(50 <= (100 - O) * 1)
    BY <1>1, <2>1
  <2> QED
    BY <1>2, <1>3, <2>2
<1>4. CASE ~(g = 0 /\ l = 0)
  <2> DEFINE S == g + l
             P == O * S
  <2>1. S \in Nat \ {0} /\ l + g = S /\ P \in Int
    BY <1>1, <1>4
  <2>2. (100 - O) * S = 100 * S - P
    BY <1>1, <2>1
  <2>3. 2 * P > 100 * S
    <3>1. O - 50 \in Nat \ {0}
      BY <1>1
    <3> HIDE DEF S, P
    <3>2. (O - 50) * S > 0
      BY <2>1, <3>1, ProductsArePositive
    <3>3. (O - 50) * S = P - 50 * S
      BY <1>1, <2>1 DEF P
    <3> QED
      BY <2>1, <3>2, <3>3
  <2>4. 100 * S = 100 * g + 100 * l
    OBVIOUS
  <2>5. /\ Hot(g, l) <=> 100 * g >= P
        /\ Hot(l, g) <=> 100 * l >= P
        /\ Cold(g, l) <=> 100 * g <= 100 * S - P
        /\ Cold(l, g) <=> 100 * l <= 100 * S - P
    <3>1. /\ Hot(g, l) <=> 100 * g >= O * (g + l)
          /\ Hot(l, g) <=> 100 * l >= O * (l + g)
      BY <1>2, <1>4
    <3>2. /\ Cold(g, l) <=> 100 * g <= (100 - O) * (g + l)
          /\ Cold(l, g) <=> 100 * l <= (100 - O) * (l + g)
      BY <1>2, <1>4
    <3>3. /\ O * (g + l) = P /\ O * (l + g) = P
          /\ (100 - O) * (g + l) = 100 * S - P /\ (100 - O) * (l + g) = 100 * S - P
      BY <2>1, <2>2
    <3> HIDE DEF S, P
    <3> QED
      BY <3>1, <3>2, <3>3
  <2> HIDE DEF S, P
  <2> QED
    BY <2>1, <2>3, <2>4, <2>5
<1> QED
  BY <1>3, <1>4

\* A momentum turns over.
LEMMA MomentumTurns ==
  ASSUME Thresholds.rsi_oversold = 100 - Thresholds.rsi_overbought, NEW bars, LongEnough(bars)
  PROVE  Momentum(Mirrored(bars, Around)) = Turned(Momentum(bars))
<1> DEFINE t   == Mirrored(bars, Around)
           hot == Finding("rsi_overbought", "watch", "bearish", 0)
           cold == Finding("rsi_oversold", "watch", "bullish", 0)
<1>1. RsiDays \in Nat \ {0}
  BY SkillsAssumption
<1>2. Gain(t) = Loss(bars) /\ Loss(t) = Gain(bars) /\ Gain(bars) \in Nat /\ Loss(bars) \in Nat
  <2> DEFINE c == Changes(Closes(bars))
             d == Changes(Closes(t))
  <2>1. /\ Gains(d) = Losses(c) /\ Losses(d) = Gains(c)
        /\ Gains(c) \in Seq(Nat) /\ Losses(c) \in Seq(Nat)
        /\ Len(Gains(c)) # 0 /\ Len(Losses(c)) # 0
    BY GainsTurn
  <2>2. Smoothed(Gains(c), 1, RsiDays).value \in Nat /\ Smoothed(Losses(c), 1, RsiDays).value \in Nat
    BY <1>1, <2>1, SmoothedStaysPositive
  <2> QED
    BY <2>1, <2>2 DEF Gain, Loss
<1> HIDE DEF t
<1>3. /\ Hot(Gain(t), Loss(t)) <=> Cold(Gain(bars), Loss(bars))
      /\ Cold(Gain(t), Loss(t)) <=> Hot(Gain(bars), Loss(bars))
      /\ ~(Hot(Gain(bars), Loss(bars)) /\ Cold(Gain(bars), Loss(bars)))
  BY <1>2, HotTurnsCold
<1>4. MirroredFinding(hot) = cold /\ MirroredFinding(cold) = hot
  BY FindingsTurn
<1>5. /\ Momentum(bars) = IF Hot(Gain(bars), Loss(bars)) THEN {hot}
                          ELSE IF Cold(Gain(bars), Loss(bars)) THEN {cold} ELSE {}
      /\ Momentum(t) = IF Hot(Gain(t), Loss(t)) THEN {hot}
                       ELSE IF Cold(Gain(t), Loss(t)) THEN {cold} ELSE {}
  BY MomentumIs
<1> HIDE DEF hot, cold
<1>6. Turned({hot}) = {cold} /\ Turned({cold}) = {hot} /\ Turned({}) = {}
  BY <1>4 DEF Turned
<1> QED
  BY <1>3, <1>5, <1>6 DEF t

LEMMA DistancesTurn ==
  ASSUME NEW a \in Int, NEW x \in Int, NEW y \in Int
  PROVE  Abs((a - x) - (a - y)) = Abs(x - y) /\ (a - x) - (a - y) = y - x
BY DEF Abs

\* A candle turned over.
LEMMA CandleTurns ==
  ASSUME NEW b \in DailyBars, NEW t, TurnedBar(t, b)
  PROVE  (Bullish(t) <=> Bearish(b)) /\ (Bearish(t) <=> Bullish(b)) /\ (Doji(t) <=> Doji(b))
<1>1. /\ Around \in Int /\ b.open \in Int /\ b.high \in Int /\ b.low \in Int /\ b.close \in Int
  BY AnalysisAssumption DEF DailyBars
<1>2. /\ t.open = Around - b.open /\ t.close = Around - b.close
      /\ t.high = Around - b.low /\ t.low = Around - b.high
  BY DEF TurnedBar
<1>3. (Bullish(t) <=> Bearish(b)) /\ (Bearish(t) <=> Bullish(b))
  BY <1>1, <1>2 DEF Bullish, Bearish
<1>4. t.high > t.low <=> b.high > b.low
  BY <1>1, <1>2
<1>5. t.high - t.low = b.high - b.low
  BY <1>1, <1>2
<1>6. Abs(t.close - t.open) = Abs(b.close - b.open)
  BY <1>1, <1>2, DistancesTurn
<1>7. Doji(t) <=> Doji(b)
  BY <1>4, <1>5, <1>6 DEF Doji
<1> QED
  BY <1>3, <1>7

LEMMA EngulfingTurns ==
  ASSUME NEW b \in DailyBars, NEW t, TurnedBar(t, b), NEW c \in DailyBars, NEW u, TurnedBar(u, c)
  PROVE  (EngulfsUp(t, u) <=> EngulfsDown(b, c)) /\ (EngulfsDown(t, u) <=> EngulfsUp(b, c))
<1>1. /\ Around \in Int /\ b.open \in Int /\ b.close \in Int /\ c.open \in Int /\ c.close \in Int
  BY AnalysisAssumption DEF DailyBars
<1>2. /\ t.open = Around - b.open /\ t.close = Around - b.close
      /\ u.open = Around - c.open /\ u.close = Around - c.close
  BY DEF TurnedBar
<1>3. /\ u.open <= t.close <=> c.open >= b.close
      /\ u.close >= t.open <=> c.close <= b.open
      /\ u.open >= t.close <=> c.open <= b.close
      /\ u.close <= t.open <=> c.close >= b.open
  BY <1>1, <1>2
<1>4. /\ Bullish(t) <=> Bearish(b)
      /\ Bearish(t) <=> Bullish(b)
      /\ Bullish(u) <=> Bearish(c)
      /\ Bearish(u) <=> Bullish(c)
  BY CandleTurns
<1> QED
  BY <1>3, <1>4 DEF EngulfsUp, EngulfsDown

\* The patterns of a market turned over are those of the market, turned over.
LEMMA PatternsTurn ==
  ASSUME NEW bars \in Seq(DailyBars), NEW f
  PROVE  f \in Patterns(Mirrored(bars, Around))
           <=> \E g \in Patterns(bars) : f = MirroredFinding(g) /\ f.day = g.day
<1> DEFINE t == Mirrored(bars, Around)
<1>1. /\ t \in Seq(TurnedBars) /\ Len(t) = Len(bars) /\ Len(bars) \in Nat
      /\ DOMAIN bars = 1 .. Len(bars)
      /\ \A i \in 1 .. Len(bars) : TurnedBar(t[i], bars[i])
  BY MirroredAre
<1> HIDE DEF t
<1>2. DOMAIN t = 1 .. Len(bars) /\ \A i \in 1 .. Len(bars) : bars[i] \in DailyBars
  BY <1>1
<1>3. \A i \in 1 .. Len(bars) : t[i].day = bars[i].day
  BY <1>1 DEF TurnedBar
<1>4. \A i \in 2 .. Len(bars) : i \in 1 .. Len(bars) /\ i - 1 \in 1 .. Len(bars)
  BY <1>1
<1>5. \A code, severity, direction, day : Finding(code, severity, direction, day).day = day
  BY DEF Finding
<1>6. ASSUME NEW i
      PROVE  /\ i \in DOMAIN t /\ Doji(t[i]) <=> i \in DOMAIN bars /\ Doji(bars[i])
             /\ i \in 2 .. Len(t) /\ EngulfsUp(t[i - 1], t[i])
                  <=> i \in 2 .. Len(bars) /\ EngulfsDown(bars[i - 1], bars[i])
             /\ i \in 2 .. Len(t) /\ EngulfsDown(t[i - 1], t[i])
                  <=> i \in 2 .. Len(bars) /\ EngulfsUp(bars[i - 1], bars[i])
  <2>1. ASSUME i \in 1 .. Len(bars) PROVE Doji(t[i]) <=> Doji(bars[i])
    BY <1>1, <1>2, <2>1, CandleTurns
  <2>2. ASSUME i \in 2 .. Len(bars)
        PROVE  /\ EngulfsUp(t[i - 1], t[i]) <=> EngulfsDown(bars[i - 1], bars[i])
               /\ EngulfsDown(t[i - 1], t[i]) <=> EngulfsUp(bars[i - 1], bars[i])
    <3>1. /\ TurnedBar(t[i - 1], bars[i - 1]) /\ TurnedBar(t[i], bars[i])
          /\ bars[i - 1] \in DailyBars /\ bars[i] \in DailyBars
      BY <1>1, <1>2, <1>4, <2>2
    <3> QED
      BY <3>1, EngulfingTurns
  <2> QED
    BY <1>1, <1>2, <2>1, <2>2
<1> DEFINE doji(day) == Finding("doji", "info", "neutral", day)
           up(day)   == Finding("bullish_engulfing", "info", "bullish", day)
           down(day) == Finding("bearish_engulfing", "info", "bearish", day)
<1>7. \A day : /\ MirroredFinding(doji(day)) = doji(day)
               /\ MirroredFinding(up(day)) = down(day)
               /\ MirroredFinding(down(day)) = up(day)
               /\ doji(day).day = day /\ up(day).day = day /\ down(day).day = day
  BY <1>5, FindingsTurn
<1>8. ASSUME NEW b, NEW g, NEW i
      PROVE  /\ DojiAt(g, b, i) <=> i \in DOMAIN b /\ Doji(b[i]) /\ g = doji(b[i].day)
             /\ EngulfingUpAt(g, b, i)
                  <=> i \in 2 .. Len(b) /\ EngulfsUp(b[i - 1], b[i]) /\ g = up(b[i].day)
             /\ EngulfingDownAt(g, b, i)
                  <=> i \in 2 .. Len(b) /\ EngulfsDown(b[i - 1], b[i]) /\ g = down(b[i].day)
  BY DEF DojiAt, EngulfingUpAt, EngulfingDownAt
<1> HIDE DEF doji, up, down
<1>9. ASSUME f \in Patterns(t) PROVE \E g \in Patterns(bars) : f = MirroredFinding(g) /\ f.day = g.day
  <2>1. PICK i : \/ DojiAt(f, t, i) \/ EngulfingUpAt(f, t, i) \/ EngulfingDownAt(f, t, i)
    BY <1>9, PatternsAre
  <2>2. CASE DojiAt(f, t, i)
    <3>1. i \in 1 .. Len(bars) /\ f = doji(t[i].day) /\ DojiAt(doji(bars[i].day), bars, i)
      BY <1>1, <1>6, <1>8, <2>2
    <3>2. doji(bars[i].day) \in Patterns(bars)
      BY <3>1, PatternsAre
    <3> QED
      BY <1>3, <1>7, <3>1, <3>2
  <2>3. CASE EngulfingUpAt(f, t, i)
    <3>1. i \in 2 .. Len(bars) /\ f = up(t[i].day) /\ EngulfingDownAt(down(bars[i].day), bars, i)
      BY <1>1, <1>6, <1>8, <2>3
    <3>2. down(bars[i].day) \in Patterns(bars)
      BY <3>1, PatternsAre
    <3> QED
      BY <1>3, <1>4, <1>7, <3>1, <3>2
  <2>4. CASE EngulfingDownAt(f, t, i)
    <3>1. i \in 2 .. Len(bars) /\ f = down(t[i].day) /\ EngulfingUpAt(up(bars[i].day), bars, i)
      BY <1>1, <1>6, <1>8, <2>4
    <3>2. up(bars[i].day) \in Patterns(bars)
      BY <3>1, PatternsAre
    <3> QED
      BY <1>3, <1>4, <1>7, <3>1, <3>2
  <2> QED
    BY <2>1, <2>2, <2>3, <2>4
<1>10. ASSUME NEW g, g \in Patterns(bars), f = MirroredFinding(g) PROVE f \in Patterns(t)
  <2>1. PICK i : \/ DojiAt(g, bars, i) \/ EngulfingUpAt(g, bars, i) \/ EngulfingDownAt(g, bars, i)
    BY <1>10, PatternsAre
  <2>2. CASE DojiAt(g, bars, i)
    <3>1. i \in 1 .. Len(bars) /\ g = doji(bars[i].day) /\ DojiAt(doji(t[i].day), t, i)
      BY <1>1, <1>6, <1>8, <2>2
    <3>2. f = doji(t[i].day)
      BY <1>3, <1>7, <1>10, <3>1
    <3> QED
      BY <3>1, <3>2, PatternsAre
  <2>3. CASE EngulfingUpAt(g, bars, i)
    <3>1. i \in 2 .. Len(bars) /\ g = up(bars[i].day) /\ EngulfingDownAt(down(t[i].day), t, i)
      BY <1>1, <1>6, <1>8, <2>3
    <3>2. f = down(t[i].day)
      BY <1>3, <1>4, <1>7, <1>10, <3>1
    <3> QED
      BY <3>1, <3>2, PatternsAre
  <2>4. CASE EngulfingDownAt(g, bars, i)
    <3>1. i \in 2 .. Len(bars) /\ g = down(bars[i].day) /\ EngulfingUpAt(up(t[i].day), t, i)
      BY <1>1, <1>6, <1>8, <2>4
    <3>2. f = up(t[i].day)
      BY <1>3, <1>4, <1>7, <1>10, <3>1
    <3> QED
      BY <3>1, <3>2, PatternsAre
  <2> QED
    BY <2>1, <2>2, <2>3, <2>4
<1> QED
  BY <1>9, <1>10 DEF t

LEMMA PatternsKeepTheirDay ==
  ASSUME NEW bars, NEW g \in Patterns(bars)
  PROVE  MirroredFinding(g).day = g.day
<1>1. \A code, severity, direction, day : Finding(code, severity, direction, day).day = day
  BY DEF Finding
<1>2. PICK i : \/ DojiAt(g, bars, i) \/ EngulfingUpAt(g, bars, i) \/ EngulfingDownAt(g, bars, i)
  BY PatternsAre
<1>3. \E code, severity, direction, day : g = Finding(code, severity, direction, day)
  BY <1>2 DEF DojiAt, EngulfingUpAt, EngulfingDownAt
<1> QED
  BY <1>1, <1>3, FindingTurns

\* The recent candles are of the same days.
LEMMA RecentTurns ==
  ASSUME NEW bars \in Seq(DailyBars), Len(bars) # 0
  PROVE  Recent(Mirrored(bars, Around)) = Turned(Recent(bars))
<1> DEFINE t == Mirrored(bars, Around)
           R == RecentBars
           m == IF R < Len(bars) THEN R ELSE Len(bars)
           H == Head(LastOf(bars, R)).day
<1>1. /\ t \in Seq(TurnedBars) /\ Len(t) = Len(bars) /\ Len(bars) \in Nat \ {0}
      /\ \A i \in 1 .. Len(bars) : TurnedBar(t[i], bars[i])
  <2>1. Len(bars) \in Nat \ {0}
    OBVIOUS
  <2> QED
    BY <2>1, MirroredAre
<1>2. R \in Nat \ {0}
  BY SkillsAssumption
<1> HIDE DEF t, R
<1>3. m \in Nat \ {0} /\ m <= Len(bars) /\ Len(bars) - m + 1 \in 1 .. Len(bars)
  BY <1>1, <1>2
<1>4. /\ LastOf(t, R) \in Seq(TurnedBars) /\ Len(LastOf(t, R)) = m
      /\ \A j \in 1 .. m : LastOf(t, R)[j] = t[Len(bars) - m + j]
  <2>1. /\ LastOf(t, R) \in Seq(TurnedBars)
        /\ Len(LastOf(t, R)) = (IF R < Len(t) THEN R ELSE Len(t))
        /\ \A j \in 1 .. (IF R < Len(t) THEN R ELSE Len(t)) :
             LastOf(t, R)[j] = t[Len(t) - (IF R < Len(t) THEN R ELSE Len(t)) + j]
    BY <1>1, <1>2, LastOfAre
  <2> QED
    BY <1>1, <2>1
<1>5. /\ LastOf(bars, R) \in Seq(DailyBars) /\ Len(LastOf(bars, R)) = m
      /\ \A j \in 1 .. m : LastOf(bars, R)[j] = bars[Len(bars) - m + j]
  BY <1>2, LastOfAre
<1> HIDE DEF m, H
<1>6. 1 \in 1 .. m
  BY <1>3
<1>7. Head(LastOf(t, R)) = t[Len(bars) - m + 1] /\ Head(LastOf(bars, R)) = bars[Len(bars) - m + 1]
  BY <1>4, <1>5, <1>6
<1>8. Head(LastOf(t, R)).day = H
  BY <1>1, <1>3, <1>7 DEF TurnedBar, H
<1>9. /\ Recent(t) = {p \in Patterns(t) : p.day >= H}
      /\ Recent(bars) = {p \in Patterns(bars) : p.day >= H}
  BY <1>8 DEF Recent, R, H
<1>10. \A f : f \in Patterns(t) <=> \E g \in Patterns(bars) : f = MirroredFinding(g) /\ f.day = g.day
  BY PatternsTurn DEF t
<1>11. \A g \in Patterns(bars) : MirroredFinding(g).day = g.day
  BY PatternsKeepTheirDay
<1>12. ASSUME NEW f PROVE f \in Recent(t) <=> f \in Turned(Recent(bars))
  <2>1. f \in Turned(Recent(bars)) <=> \E g : g \in Recent(bars) /\ f = MirroredFinding(g)
    BY DEF Turned
  <2> QED
    BY <1>9, <1>10, <1>11, <2>1
<1> QED
  BY <1>12 DEF t

LEMMA SkillsTurn ==
  ASSUME Thresholds.rsi_oversold = 100 - Thresholds.rsi_overbought, NEW bars \in Seq(DailyBars),
         NEW s \in {"technical_snapshot", "candlestick_events"}
  PROVE  SkillFindings(s, Mirrored(bars, Around)) = Turned(SkillFindings(s, bars))
<1> DEFINE t == Mirrored(bars, Around)
<1>1. Len(t) = Len(bars) /\ Len(bars) \in Nat
  BY MirroredAre
<1>2. s \in Skills /\ MinBars[s] \in Nat \ {0}
  BY SkillsAssumption DEF Skills
<1> HIDE DEF t
<1>3. SkillStatus(s, t) = SkillStatus(s, bars)
  BY <1>1 DEF SkillStatus
<1>4. CASE SkillStatus(s, bars) # "success"
  <2>1. SkillFindings(s, t) = {} /\ SkillFindings(s, bars) = {}
    BY <1>3, <1>4 DEF SkillFindings
  <2> QED
    BY <2>1 DEF Turned, t
<1>5. CASE SkillStatus(s, bars) = "success"
  <2>1. Len(bars) >= MinBars[s]
    BY <1>1, <1>2, <1>5 DEF SkillStatus
  <2>2. CASE s = "technical_snapshot"
    <3>1. /\ Len(bars) >= MinBars["technical_snapshot"] /\ MinBars["technical_snapshot"] \in Nat
          /\ MinBars["technical_snapshot"] >= AverageDays /\ MinBars["technical_snapshot"] > RsiDays
          /\ AverageDays \in Nat /\ RsiDays \in Nat
      BY <1>2, <2>1, <2>2, SkillsAssumption
    <3>2. LongEnough(bars)
      BY <1>1, <3>1 DEF LongEnough
    <3>3. /\ Trend(t) = Turned(Trend(bars)) /\ Volume(t) = Turned(Volume(bars))
          /\ Momentum(t) = Turned(Momentum(bars))
      BY <3>2, TrendTurns, VolumeTurns, MomentumTurns DEF t
    <3>4. Technical(t) = Turned(Technical(bars))
      <4> DEFINE A == Trend(bars)
                 B == Momentum(bars)
                 C == Volume(bars)
      <4>1. /\ Technical(bars) = (A \cup B) \cup C
            /\ Technical(t) = (Turned(A) \cup Turned(B)) \cup Turned(C)
        BY <3>3 DEF Technical
      <4> HIDE DEF A, B, C
      <4>2. Turned((A \cup B) \cup C) = Turned(A \cup B) \cup Turned(C)
        BY TurnedAre
      <4>3. Turned(A \cup B) = Turned(A) \cup Turned(B)
        BY TurnedAre
      <4> QED
        BY <4>1, <4>2, <4>3
    <3>5. SkillFindings(s, t) = Technical(t) /\ SkillFindings(s, bars) = Technical(bars)
      BY <1>3, <1>5, <2>2 DEF SkillFindings
    <3> QED
      BY <3>4, <3>5 DEF t
  <2>3. CASE s = "candlestick_events"
    <3>1. Len(bars) # 0
      BY <1>1, <1>2, <2>1
    <3>2. Recent(t) = Turned(Recent(bars))
      BY <3>1, RecentTurns DEF t
    <3>3. SkillFindings(s, t) = Recent(t) /\ SkillFindings(s, bars) = Recent(bars)
      BY <1>3, <1>5, <2>3 DEF SkillFindings
    <3> QED
      BY <3>2, <3>3 DEF t
  <2> QED
    BY <2>2, <2>3
<1> QED
  BY <1>4, <1>5

\* The skills see no difference between up and down, if the two thresholds of
\* the RSI are as far from the middle, as their defaults of 70 and 30 are: turn
\* the prices over and every trend, momentum and candle finding turns over with
\* them (technical.py, candlestick.py).
THEOREM MirroredMarketsAlwaysMirror ==
  ASSUME Thresholds.rsi_oversold = 100 - Thresholds.rsi_overbought
  PROVE  Spec => []MirroredMarketsMirrorFindings
<1>1. MirroredMarketsMirrorFindings
  <2> SUFFICES ASSUME NEW bars \in Histories, NEW s \in {"technical_snapshot", "candlestick_events"}
               PROVE  SkillFindings(s, Mirrored(bars, Around))
                        = {MirroredFinding(f) : f \in SkillFindings(s, bars)}
    BY DEF MirroredMarketsMirrorFindings
  <2>1. bars \in Seq(DailyBars)
    BY AnalysisAssumption
  <2> QED
    BY <2>1, SkillsTurn DEF Turned
<1> QED
  BY <1>1, PTL
=============================================================================
