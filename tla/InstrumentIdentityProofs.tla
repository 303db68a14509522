----------------------- MODULE InstrumentIdentityProofs -----------------------
(***************************************************************************)
(* What instruments mean, for any statements, listings and identifiers.    *)
(* Every row says of its security only what some report said, so reports   *)
(* that tell securities apart never meet in a row; and a security whose    *)
(* reports share a listing or an identifier is found again by it.          *)
(***************************************************************************)
EXTENDS InstrumentIdentity, FiniteSetTheorems, TLAPS

-----------------------------------------------------------------------------
(* The inductive invariant.                                                *)

\* What a set of reports says of a security.
SaidListed(said, of, listing) == \E l \in said : l.of = of /\ l.listing = listing
SaidNamed(said, of, name)     == \E l \in said : l.of = of /\ name \in l.names
AlwaysNamed(said, of, name)   == \A l \in said : l.of = of => name \in l.names

Names(said) == UNION {l.names : l \in said}

OneOfAKind(names) == \A n, m \in names : n.kind = m.kind => n = m

\* A set of tables, those in use or those a rollback returns to: its foreign
\* keys hold ...
Typed(ins, ids, pos, maps, ms) ==
  /\ \A i \in DOMAIN ins : ins[i] \in Listings
  /\ DOMAIN ms = DOMAIN ins
  /\ \A n \in DOMAIN ids : ids[n] \in DOMAIN ins
  /\ \A n, m \in DOMAIN ids : n.kind = m.kind /\ ids[n] = ids[m] => n = m
  /\ IsFiniteSet(DOMAIN pos)
  /\ \A p \in DOMAIN pos : /\ p = <<p[1], p[2]>> /\ p[1] \in Accounts
                           /\ p[2] \in DOMAIN ins /\ pos[p] \in BOOLEAN
  /\ DOMAIN maps \subseteq DOMAIN ins

\* ... every row says of the security it means what was said of it, its key
\* with it once keys are listings, and keeps an identifier that is in all
\* that was said ...
Sound(said, keyed, ins, ids, maps, ms) ==
  \A i \in DOMAIN ins :
    /\ SaidListed(said, ms[i], ins[i])
    /\ keyed => SaidListed(said, ms[i], i)
    /\ \A n \in DOMAIN ids : ids[n] = i => SaidNamed(said, ms[i], n)
    /\ i \in DOMAIN maps /\ maps[i].listing # None => SaidListed(said, ms[i], maps[i].listing)
    /\ \A n \in Names(said) : AlwaysNamed(said, ms[i], n) => n \in DOMAIN ids /\ ids[n] = i

\* ... and no two rows mean the same.
Unsplit(ins, ms) == \A i, j \in DOMAIN ins : ms[i] \cap ms[j] # {} => i = j

\* What was read of a row: the row still means what it meant.
RowTyped(r) == r.listing \in Listings /\ OneOfAKind(r.names)

Said(said, r) ==
  /\ SaidListed(said, r.of, r.listing)
  /\ \A n \in r.names : SaidNamed(said, r.of, n)
  /\ \A n \in Names(said) : AlwaysNamed(said, r.of, n) => n \in r.names

StillMeant(r, ins, ms) == r.id \in DOMAIN ins /\ r.of = ms[r.id]

Keyed == schema = "instruments"

TablesInv ==
  /\ Typed(instruments, identifiers, positions, mappings, means)
  /\ ~Ambiguous => Sound(seen, Keyed, instruments, identifiers, mappings, means)
  /\ ~Ambiguous /\ Steady => Unsplit(instruments, means)

SavedInv ==
  stage # "idle" =>
    /\ Typed(saved.instruments, saved.identifiers, saved.positions, saved.mappings, saved.means)
    /\ ~Ambiguous => Sound(seen, TRUE, saved.instruments, saved.identifiers, saved.mappings,
                           saved.means)
    /\ ~Ambiguous /\ Steady => Unsplit(saved.instruments, saved.means)
    /\ saved.mappings = mappings

\* The lots and rows an import has still to visit, and those it has written.
JobInv ==
  /\ todo \in Seq(ToSet(todo)) /\ written \in Seq(ToSet(written))
  /\ stage = "idle" => todo = <<>> /\ written = <<>>
  /\ stage # "idle" => /\ schema = "instruments"
                       /\ statement.trades \in Seq(Lots) /\ ToSet(statement.trades) \subseteq seen
  /\ stage \in {"positions", "trades"} => ToSet(todo) \subseteq seen
  /\ stage = "prices" => ToSet(todo) \subseteq {w.row : w \in ToSet(written)}
  /\ \A w \in ToSet(written) :
       /\ RowTyped(w.row) /\ w.row.id \in DOMAIN instruments
       /\ ~Ambiguous => Said(seen, w.row) /\ StillMeant(w.row, instruments, means)

ReadInv ==
  read # None =>
    /\ schema = "instruments" /\ RowTyped(read)
    /\ ~Ambiguous => /\ Said(seen, read) /\ StillMeant(read, instruments, means)
                     /\ stage # "idle" => StillMeant(read, saved.instruments, saved.means)

SymbolsInv ==
  schema = "symbols" =>
    /\ stage = "idle" /\ identifiers = Empty /\ mappings = Empty
    /\ \A i \in DOMAIN instruments : instruments[i] = [symbol |-> i, venue |-> ""]

IdentityInv ==
  /\ schema \in {"symbols", "instruments"}
  /\ stage \in {"idle", "positions", "prices", "trades"}
  /\ imports \in 0 .. MaxImports /\ edits \in 0 .. MaxEdits /\ refused \in BOOLEAN
  /\ \A l \in seen : IsLot(l)
  /\ TablesInv /\ SavedInv /\ JobInv /\ ReadInv /\ SymbolsInv
  /\ RefusedOnlyIfAmbiguous

-----------------------------------------------------------------------------
(* Reports.                                                                *)

\* Lots reported alike are of one security unless reports are ambiguous.
LEMMA ToldApart ==
  ASSUME ~Ambiguous, NEW l \in seen, NEW m \in seen,
         l.listing = m.listing \/ \E n : n \in l.names /\ n \in m.names
  PROVE  l.of = m.of
BY DEF Ambiguous

\* What is said of a security is said by lots of it.
LEMMA SaidOf ==
  ASSUME NEW of
  PROVE  /\ \A listing : SaidListed(seen, of, listing) => \E l \in seen : l.of = of
         /\ \A n : SaidNamed(seen, of, n) => n \in Names(seen)
BY DEF SaidListed, SaidNamed, Names

\* Of two descriptions of one security in steady reports, either the listings
\* are the same or one identifier is always given.
LEMMA SteadyMeans ==
  ASSUME Steady, NEW l \in seen
  PROVE  \/ \A m, n \in seen : m.of = l.of /\ n.of = l.of => m.listing = n.listing
         \/ \E name \in Names(seen) : AlwaysNamed(seen, l.of, name)
<1> DEFINE its == {m \in seen : m.of = l.of}
<1>1. \/ \E k \in its : \A m \in its : m.listing = k.listing
      \/ \E k \in its : \E n \in k.names : \A m \in its : n \in m.names
  BY DEF Steady
<1> QED
  BY <1>1 DEF AlwaysNamed, Names

\* More reports: what was said stays said, and less is always said.
LEMMA MoreReports ==
  ASSUME seen \subseteq seen'
  PROVE  /\ Ambiguous => Ambiguous'
         /\ Steady' => Steady
<1>1. Ambiguous => Ambiguous'
  BY DEF Ambiguous
<1>2. ASSUME Steady', NEW of \in {l.of : l \in seen}
      PROVE  \/ \E l \in {m \in seen : m.of = of} :
                  \A m \in {k \in seen : k.of = of} : m.listing = l.listing
             \/ \E l \in {m \in seen : m.of = of} : \E n \in l.names :
                  \A m \in {k \in seen : k.of = of} : n \in m.names
  <2> DEFINE its  == {m \in seen : m.of = of}
             more == {m \in seen' : m.of = of}
  <2>1. its # {} /\ its \subseteq more /\ of \in {l.of : l \in seen'}
    BY <1>2
  <2>2. \/ \E l \in more : \A m \in more : m.listing = l.listing
        \/ \E l \in more : \E n \in l.names : \A m \in more : n \in m.names
    BY <1>2, <2>1 DEF Steady
  <2> HIDE DEF its, more
  <2>3. \/ \E l \in its : \A m \in its : m.listing = l.listing
        \/ \E l \in its : \E n \in l.names : \A m \in its : n \in m.names
    BY <2>1, <2>2
  <2> QED
    BY <2>3 DEF its
<1>3. Steady' => Steady
  BY <1>2 DEF Steady
<1> QED
  BY <1>1, <1>3

LEMMA SaysMore ==
  ASSUME NEW S, NEW T, S \subseteq T, NEW of
  PROVE  /\ \A listing : SaidListed(S, of, listing) => SaidListed(T, of, listing)
         /\ \A n : SaidNamed(S, of, n) => SaidNamed(T, of, n)
         /\ \A listing : SaidListed(S, of, listing) =>
              \A n : AlwaysNamed(T, of, n) => n \in Names(S) /\ AlwaysNamed(S, of, n)
BY DEF SaidListed, SaidNamed, AlwaysNamed, Names

LEMMA SoundWithMore ==
  ASSUME NEW S, NEW T, S \subseteq T, NEW keyed, NEW ins, NEW ids, NEW maps, NEW ms,
         Sound(S, keyed, ins, ids, maps, ms)
  PROVE  Sound(T, keyed, ins, ids, maps, ms)
<1> SUFFICES ASSUME NEW i \in DOMAIN ins
    PROVE  /\ SaidListed(T, ms[i], ins[i])
           /\ keyed => SaidListed(T, ms[i], i)
           /\ \A n \in DOMAIN ids : ids[n] = i => SaidNamed(T, ms[i], n)
           /\ i \in DOMAIN maps /\ maps[i].listing # None => SaidListed(T, ms[i], maps[i].listing)
           /\ \A n \in Names(T) : AlwaysNamed(T, ms[i], n) => n \in DOMAIN ids /\ ids[n] = i
  BY Zenon DEF Sound
<1>1. SaidListed(S, ms[i], ins[i]) /\ (keyed => SaidListed(S, ms[i], i))
  BY Zenon DEF Sound
<1>2. i \in DOMAIN maps /\ maps[i].listing # None => SaidListed(S, ms[i], maps[i].listing)
  BY Zenon DEF Sound
<1>3. ASSUME NEW n \in DOMAIN ids, ids[n] = i PROVE SaidNamed(T, ms[i], n)
  <2>1. SaidNamed(S, ms[i], n)
    BY <1>3, Zenon DEF Sound
  <2> QED
    BY <2>1, SaysMore, Zenon
<1>4. ASSUME NEW n, AlwaysNamed(T, ms[i], n) PROVE n \in DOMAIN ids /\ ids[n] = i
  <2>1. n \in Names(S) /\ AlwaysNamed(S, ms[i], n)
    BY <1>1, <1>4, SaysMore, Zenon
  <2> QED
    BY <2>1, Zenon DEF Sound
<1> QED
  BY <1>1, <1>2, <1>3, <1>4, SaysMore, Zenon

LEMMA SaidWithMore ==
  ASSUME NEW S, NEW T, S \subseteq T, NEW r, Said(S, r)
  PROVE  Said(T, r)
BY SaysMore DEF Said

\* A lot says of its security what was said of it.
LEMMA LotSays ==
  ASSUME NEW l \in seen
  PROVE  Said(seen, l)
BY DEF Said, SaidListed, SaidNamed, AlwaysNamed

-----------------------------------------------------------------------------
(* Resolution.                                                             *)

\* The rows found for a lot or a row all mean its security: so a description
\* only ever adds to a row of the same meaning, or makes a new one.
Meant(i, e) ==
  /\ i \in DOMAIN instruments => means[i] = e.of
  /\ i \notin DOMAIN instruments => i = e.listing /\ Listed(e.listing) = {}
  /\ \A n \in e.names \cap DOMAIN identifiers : identifiers[n] = i

\* The caller's id is nobody's, or that of the row the description was read of.
Known(known, e) ==
  \/ known = None /\ e \in seen
  \/ known = e.id /\ StillMeant(e, instruments, means)

SoundNow == Sound(seen, TRUE, instruments, identifiers, mappings, means)

LEMMA KeysAreListings ==
  ASSUME IdentityInv, SoundNow
  PROVE  None \notin DOMAIN instruments
BY IdentityAssumption DEF IdentityInv, SoundNow, Sound, SaidListed, IsLot

LEMMA FoundIsMeant ==
  ASSUME IdentityInv, ~Ambiguous, SoundNow, NEW known, NEW e, Known(known, e), Said(seen, e)
  PROVE  /\ \A j \in Matched(known, e) : j \in DOMAIN instruments /\ means[j] = e.of
         /\ \A j \in Listed(e.listing) : j \in DOMAIN instruments /\ means[j] = e.of
<1>1. ASSUME NEW n \in e.names \cap DOMAIN identifiers
      PROVE  identifiers[n] \in DOMAIN instruments /\ means[identifiers[n]] = e.of
  <2>1. identifiers[n] \in DOMAIN instruments
    BY DEF IdentityInv, TablesInv, Typed
  <2>2. SaidNamed(seen, means[identifiers[n]], n) /\ SaidNamed(seen, e.of, n)
    BY <2>1 DEF SoundNow, Sound, Said
  <2> QED
    BY <2>1, <2>2, ToldApart DEF SaidNamed
<1>2. ASSUME known \in DOMAIN instruments PROVE means[known] = e.of
  BY <1>2, KeysAreListings DEF Known, StillMeant
<1>3. \A j \in Matched(known, e) : j \in DOMAIN instruments /\ means[j] = e.of
  BY <1>1, <1>2 DEF Matched
<1>4. ASSUME NEW j \in DOMAIN instruments, instruments[j] = e.listing PROVE means[j] = e.of
  <2>1. SaidListed(seen, means[j], e.listing) /\ SaidListed(seen, e.of, e.listing)
    BY <1>4 DEF SoundNow, Sound, Said
  <2> QED
    BY <2>1, ToldApart DEF SaidListed
<1> QED
  BY <1>3, <1>4 DEF Listed

LEMMA ResolvedIsMeant ==
  ASSUME IdentityInv, ~Ambiguous, SoundNow, NEW known, NEW e, Known(known, e), Said(seen, e),
         ~Conflict(known, e), NEW i \in Resolved(known, e)
  PROVE  Meant(i, e)
<1>1. i \in DOMAIN instruments => means[i] = e.of
  <2>1. CASE Matched(known, e) # {}
    BY <2>1, FoundIsMeant DEF Resolved
  <2>2. CASE Matched(known, e) = {} /\ Listed(e.listing) # {}
    BY <2>2, FoundIsMeant DEF Resolved
  <2>3. CASE Matched(known, e) = {} /\ Listed(e.listing) = {}
    BY <2>3 DEF Resolved, Conflict
  <2> QED
    BY <2>1, <2>2, <2>3
<1>2. i \notin DOMAIN instruments => i = e.listing /\ Listed(e.listing) = {}
  BY FoundIsMeant DEF Resolved
<1>3. ASSUME NEW n \in e.names \cap DOMAIN identifiers PROVE identifiers[n] = i
  <2>1. identifiers[n] \in Matched(known, e)
    BY DEF Matched
  <2> QED
    BY <2>1 DEF Resolved, Conflict
<1> QED
  BY <1>1, <1>2, <1>3 DEF Meant

\* A description leaves the meaning of every row as it was, and gives a new
\* row that of the description.
LEMMA DescribeMeans ==
  ASSUME IdentityInv, NEW i, NEW e, Meant(i, e), Describe(i, e)
  PROVE  /\ DOMAIN instruments' = DOMAIN instruments \cup {i} /\ DOMAIN means' = DOMAIN instruments'
         /\ instruments'[i] = e.listing /\ means'[i] = e.of
         /\ \A j \in DOMAIN instruments : /\ means'[j] = means[j]
                                          /\ j # i => instruments'[j] = instruments[j]
<1>1. DOMAIN means = DOMAIN instruments
  BY DEF IdentityInv, TablesInv, Typed
<1>2. Get(means, i, {}) \cup e.of = e.of
  BY <1>1 DEF Meant, Get
<1> QED
  BY <1>1, <1>2 DEF Describe, Put, Meant

LEMMA DescribeIdentifies ==
  ASSUME NEW i, NEW e, Describe(i, e)
  PROVE  /\ \A n \in e.names : n \in DOMAIN identifiers' /\ identifiers'[n] = i
         /\ \A n \in DOMAIN identifiers' : n \notin e.names =>
              n \in DOMAIN identifiers /\ identifiers'[n] = identifiers[n]
         /\ \A n \in DOMAIN identifiers : identifiers[n] # i => n \in DOMAIN identifiers'
BY DEF Describe, IdentifiersWith

LEMMA DescribeSound ==
  ASSUME IdentityInv, ~Ambiguous, SoundNow, NEW i, NEW e, Said(seen, e), Meant(i, e),
         Describe(i, e)
  PROVE  Sound(seen, TRUE, instruments', identifiers', mappings, means')
<1> SUFFICES ASSUME NEW j \in DOMAIN instruments'
    PROVE  /\ SaidListed(seen, means'[j], instruments'[j])
           /\ SaidListed(seen, means'[j], j)
           /\ \A n \in DOMAIN identifiers' : identifiers'[n] = j => SaidNamed(seen, means'[j], n)
           /\ j \in DOMAIN mappings /\ mappings[j].listing # None =>
                SaidListed(seen, means'[j], mappings[j].listing)
           /\ \A n \in Names(seen) : AlwaysNamed(seen, means'[j], n) =>
                n \in DOMAIN identifiers' /\ identifiers'[n] = j
  BY Zenon DEF Sound
<1>1. ASSUME j \in DOMAIN instruments
      PROVE  /\ SaidListed(seen, means'[j], instruments[j])
             /\ SaidListed(seen, means'[j], j)
             /\ \A n \in DOMAIN identifiers : identifiers[n] = j => SaidNamed(seen, means'[j], n)
             /\ j \in DOMAIN mappings /\ mappings[j].listing # None =>
                  SaidListed(seen, means'[j], mappings[j].listing)
             /\ \A n \in Names(seen) : AlwaysNamed(seen, means'[j], n) =>
                  n \in DOMAIN identifiers /\ identifiers[n] = j
  <2>1. means'[j] = means[j]
    BY <1>1, DescribeMeans
  <2> QED
    BY <1>1, <2>1 DEF SoundNow, Sound
<1>2. \A n \in DOMAIN identifiers : identifiers[n] \in DOMAIN instruments
  BY DEF IdentityInv, TablesInv, Typed
<1>3. DOMAIN mappings \subseteq DOMAIN instruments
  BY DEF IdentityInv, TablesInv, Typed
<1>4. CASE j = i
  <2>1. instruments'[j] = e.listing /\ means'[j] = e.of
    BY <1>4, DescribeMeans
  <2>2. SaidListed(seen, means'[j], instruments'[j])
    BY <2>1 DEF Said
  <2>3. SaidListed(seen, means'[j], j)
    BY <1>1, <1>4, <2>1, <2>2 DEF Meant
  <2>4. ASSUME NEW n \in DOMAIN identifiers', identifiers'[n] = j PROVE SaidNamed(seen, means'[j], n)
    BY <1>1, <1>2, <2>1, <2>4, DescribeIdentifies DEF Said
  <2>5. \A n \in Names(seen) : AlwaysNamed(seen, means'[j], n) =>
          n \in DOMAIN identifiers' /\ identifiers'[n] = j
    BY <1>4, <2>1, DescribeIdentifies DEF Said
  <2> QED
    BY <1>1, <1>3, <2>2, <2>3, <2>4, <2>5
<1>5. CASE j # i
  <2>0. j \in DOMAIN instruments \cup {i}
    BY DescribeMeans
  <2>1. j \in DOMAIN instruments /\ instruments'[j] = instruments[j]
    BY <1>5, <2>0, DescribeMeans
  <2>2. ASSUME NEW n \in DOMAIN identifiers', identifiers'[n] = j PROVE SaidNamed(seen, means'[j], n)
    BY <1>1, <1>5, <2>1, <2>2, DescribeIdentifies
  <2>3. ASSUME NEW n \in Names(seen), AlwaysNamed(seen, means'[j], n)
        PROVE  n \in DOMAIN identifiers' /\ identifiers'[n] = j
    <3>1. n \in DOMAIN identifiers /\ identifiers[n] = j
      BY <1>1, <2>1, <2>3
    <3>2. n \notin e.names
      BY <1>5, <3>1 DEF Meant
    <3> QED
      BY <1>5, <3>1, <3>2, DescribeIdentifies
  <2> QED
    BY <1>1, <2>1, <2>2, <2>3
<1> QED
  BY <1>4, <1>5

\* A security without a row of its own has nothing in common with any row.
LEMMA SameSecurity ==
  ASSUME IdentityInv, SoundNow, NEW e, Said(seen, e), NEW j \in DOMAIN instruments,
         means[j] \cap e.of # {}
  PROVE  means[j] = e.of
<1>1. PICK l \in seen : l.of = means[j]
  BY DEF SoundNow, Sound, SaidListed
<1>2. PICK m \in seen : m.of = e.of
  BY DEF Said, SaidListed
<1>3. (\E s : l.of = {s}) /\ \E s : m.of = {s}
  BY DEF IdentityInv, IsLot
<1> QED
  BY <1>1, <1>2, <1>3

LEMMA MeansIsFound ==
  ASSUME IdentityInv, Steady, SoundNow, NEW e, Said(seen, e), NEW j \in DOMAIN instruments,
         means[j] = e.of
  PROVE  \/ instruments[j] = e.listing
         \/ \E n \in e.names \cap DOMAIN identifiers : identifiers[n] = j
<1>1. PICK l \in seen : l.of = e.of /\ l.listing = e.listing
  BY DEF Said, SaidListed
<1>2. PICK m \in seen : m.of = e.of /\ m.listing = instruments[j]
  BY DEF SoundNow, Sound, SaidListed
<1>3. CASE \A m1, n1 \in seen : m1.of = l.of /\ n1.of = l.of => m1.listing = n1.listing
  BY <1>1, <1>2, <1>3
<1>4. CASE \E name \in Names(seen) : AlwaysNamed(seen, l.of, name)
  <2>1. PICK name \in Names(seen) : AlwaysNamed(seen, e.of, name)
    BY <1>1, <1>4
  <2>2. name \in e.names
    BY <2>1 DEF Said
  <2>3. name \in DOMAIN identifiers /\ identifiers[name] = j
    BY <2>1 DEF SoundNow, Sound
  <2> QED
    BY <2>2, <2>3
<1> QED
  BY <1>3, <1>4, SteadyMeans

LEMMA DescribeUnsplit ==
  ASSUME IdentityInv, Steady, SoundNow, Unsplit(instruments, means),
         NEW i, NEW e, Said(seen, e), Meant(i, e), Describe(i, e)
  PROVE  Unsplit(instruments', means')
<1>1. ASSUME NEW j \in DOMAIN instruments, means[j] \cap e.of # {} PROVE i = j
  <2>1. means[j] = e.of
    BY <1>1, SameSecurity
  <2>2. CASE i \in DOMAIN instruments
    BY <1>1, <2>1, <2>2 DEF Meant, Unsplit
  <2>3. CASE i \notin DOMAIN instruments
    BY <2>1, <2>3, MeansIsFound DEF Meant, Listed
  <2> QED
    BY <2>2, <2>3
<1> SUFFICES ASSUME NEW j \in DOMAIN instruments', NEW k \in DOMAIN instruments',
                    means'[j] \cap means'[k] # {}
             PROVE  j = k
  BY DEF Unsplit
<1>2. CASE j \in DOMAIN instruments /\ k \in DOMAIN instruments
  BY <1>2, DescribeMeans DEF Unsplit
<1>3. CASE j \notin DOMAIN instruments \/ k \notin DOMAIN instruments
  <2>1. DOMAIN instruments' = DOMAIN instruments \cup {i} /\ means'[i] = e.of
    BY DescribeMeans
  <2>2. \A l \in DOMAIN instruments : means'[l] = means[l]
    BY DescribeMeans
  <2>3. \A l \in DOMAIN instruments' : l \notin DOMAIN instruments => l = i
    BY <2>1
  <2> QED
    BY <1>1, <1>3, <2>1, <2>2, <2>3
<1> QED
  BY <1>2, <1>3

\* Under steady and unambiguous reports nothing is ever refused.
LEMMA NoConflict ==
  ASSUME IdentityInv, ~Ambiguous, Steady, SoundNow, Unsplit(instruments, means),
         NEW known, NEW e, Known(known, e), Said(seen, e)
  PROVE  ~Conflict(known, e)
<1>1. ASSUME NEW j \in DOMAIN instruments, NEW k \in DOMAIN instruments,
             means[j] = e.of, means[k] = e.of
      PROVE  j = k
  <2>1. \E s : e.of = {s}
    BY DEF Said, SaidListed, IdentityInv, IsLot
  <2> QED
    BY <1>1, <2>1 DEF Unsplit
<1>2. \A j \in Resolved(known, e) :
        \/ j \in DOMAIN instruments /\ means[j] = e.of
        \/ Resolved(known, e) = {e.listing} /\ j = e.listing /\ Listed(e.listing) = {}
  BY FoundIsMeant DEF Resolved
<1>3. ~\E i, j \in Resolved(known, e) : i # j
  BY <1>1, <1>2
<1>4. ASSUME Matched(known, e) = {}, Listed(e.listing) = {}, e.listing \in DOMAIN instruments
      PROVE  FALSE
  <2>1. SaidListed(seen, means[e.listing], e.listing) /\ SaidListed(seen, e.of, e.listing)
    BY <1>4 DEF SoundNow, Sound, Said
  <2>2. means[e.listing] = e.of
    BY <2>1, ToldApart DEF SaidListed
  <2> QED
    BY <1>4, <2>2, MeansIsFound DEF Matched, Listed
<1>5. ASSUME NEW i \in Resolved(known, e), NEW j \in Listed(e.listing) PROVE i = j
  BY <1>1, <1>2, FoundIsMeant
<1> QED
  BY <1>3, <1>4, <1>5 DEF Conflict

-----------------------------------------------------------------------------
(* Sequences of lots and rows.                                             *)

LEMMA OfItsElements ==
  ASSUME NEW S, NEW s \in Seq(S)
  PROVE  s \in Seq(ToSet(s)) /\ ToSet(s) \subseteq S
BY DEF ToSet

LEMMA NothingToDo == ToSet(<<>>) = {} /\ <<>> \in Seq(ToSet(<<>>))
BY DEF ToSet

LEMMA HeadAndTail ==
  ASSUME NEW S, NEW s \in Seq(S), s # <<>>
  PROVE  /\ Head(s) \in ToSet(s) /\ ToSet(Tail(s)) \subseteq ToSet(s)
         /\ Tail(s) \in Seq(ToSet(Tail(s)))
<1>1. Head(s) = s[1] /\ 1 \in DOMAIN s
  OBVIOUS
<1>2. Tail(s) \in Seq(S) /\ \A k \in DOMAIN Tail(s) : k + 1 \in DOMAIN s /\ Tail(s)[k] = s[k + 1]
  OBVIOUS
<1>3. Tail(s) \in Seq(ToSet(Tail(s)))
  BY <1>2, OfItsElements
<1>4. Head(s) \in ToSet(s) /\ ToSet(Tail(s)) \subseteq ToSet(s)
  BY <1>1, <1>2 DEF ToSet
<1> QED
  BY <1>3, <1>4

LEMMA Appended ==
  ASSUME NEW S, NEW s \in Seq(S), NEW x
  PROVE  /\ ToSet(Append(s, x)) = ToSet(s) \cup {x}
         /\ Append(s, x) \in Seq(ToSet(Append(s, x)))
<1> DEFINE a == Append(s, x)
<1>1. s \in Seq(S \cup {x}) /\ x \in S \cup {x}
  OBVIOUS
<1>2. a \in Seq(S \cup {x})
  BY <1>1
<1>3. DOMAIN a = DOMAIN s \cup {Len(s) + 1} /\ a[Len(s) + 1] = x /\ \A k \in DOMAIN s : a[k] = s[k]
  BY <1>1
<1>4. ToSet(a) = ToSet(s) \cup {x}
  BY <1>3 DEF ToSet
<1> QED
  BY <1>2, <1>4, OfItsElements

-----------------------------------------------------------------------------
(* The tables after a description.                                         *)

LEMMA DescribeTyped ==
  ASSUME Typed(instruments, identifiers, positions, mappings, means),
         NEW i, NEW e, RowTyped(e), Describe(i, e), mappings' = mappings,
         \/ positions' = positions
         \/ \E a \in Accounts : positions' = Put(positions, <<a, i>>, TRUE)
  PROVE  Typed(instruments', identifiers', positions', mappings', means')
<1>1. DOMAIN instruments' = DOMAIN instruments \cup {i} /\ DOMAIN means' = DOMAIN instruments'
  BY DEF Describe, Put, Typed
<1>2. \A j \in DOMAIN instruments' : instruments'[j] \in Listings
  BY DEF Describe, Put, Typed, RowTyped
<1>3. \A n \in DOMAIN identifiers' : identifiers'[n] \in DOMAIN instruments'
  BY <1>1 DEF Describe, IdentifiersWith, Typed
<1>4. ASSUME NEW n \in DOMAIN identifiers', NEW m \in DOMAIN identifiers',
             n.kind = m.kind, identifiers'[n] = identifiers'[m]
      PROVE  n = m
  <2>1. CASE n \in e.names /\ m \in e.names
    BY <1>4, <2>1 DEF RowTyped, OneOfAKind
  <2>2. CASE n \notin e.names /\ m \notin e.names
    BY <1>4, <2>2, DescribeIdentifies DEF Typed
  <2>3. ASSUME NEW k \in e.names, NEW o \in DOMAIN identifiers', o \notin e.names,
               identifiers'[o] = identifiers'[k]
        PROVE  k.kind # o.kind
    <3>1. k.kind \in Kinds(e.names)
      BY DEF Kinds
    <3>2. identifiers'[k] = i /\ o \in DOMAIN identifiers /\ identifiers[o] = i
      BY <2>3, DescribeIdentifies
    <3>3. o.kind \notin Kinds(e.names)
      BY <2>3, <3>2 DEF Describe, IdentifiersWith
    <3> QED
      BY <3>1, <3>3
  <2> QED
    BY <1>4, <2>1, <2>2, <2>3
<1>5. IsFiniteSet(DOMAIN positions')
  <2>1. IsFiniteSet(DOMAIN positions)
    BY DEF Typed
  <2>2. \A a : IsFiniteSet(DOMAIN positions \cup {<<a, i>>})
    BY <2>1, FS_AddElement
  <2> QED
    BY <2>1, <2>2 DEF Put
<1>6. ASSUME NEW p \in DOMAIN positions'
      PROVE  /\ p = <<p[1], p[2]>> /\ p[1] \in Accounts
             /\ p[2] \in DOMAIN instruments' /\ positions'[p] \in BOOLEAN
  <2>1. CASE positions' = positions
    BY <1>1, <2>1 DEF Typed
  <2>2. CASE \E a \in Accounts : positions' = Put(positions, <<a, i>>, TRUE)
    <3>1. PICK a \in Accounts : positions' = Put(positions, <<a, i>>, TRUE)
      BY <2>2
    <3>2. CASE p = <<a, i>>
      BY <1>1, <3>1, <3>2 DEF Put
    <3>3. CASE p # <<a, i>>
      <4>1. p \in DOMAIN positions /\ positions'[p] = positions[p]
        BY <3>1, <3>3 DEF Put
      <4> QED
        BY <1>1, <4>1 DEF Typed
    <3> QED
      BY <3>2, <3>3
  <2> QED
    BY <2>1, <2>2
<1>7. DOMAIN mappings' \subseteq DOMAIN instruments'
  BY <1>1 DEF Typed
<1> QED
  BY <1>1, <1>2, <1>3, <1>4, <1>5, <1>6, <1>7 DEF Typed

\* The tables stay sound under the description of a lot or of a row read, and
\* what was read of any row remains what the row means.
LEMMA DescribeKeeps ==
  ASSUME IdentityInv, schema = "instruments", NEW known, NEW e, RowTyped(e),
         ~Ambiguous => Known(known, e) /\ Said(seen, e), ~Conflict(known, e),
         NEW i \in Resolved(known, e), Describe(i, e),
         UNCHANGED <<schema, seen, mappings>>,
         \/ positions' = positions
         \/ \E a \in Accounts : positions' = Put(positions, <<a, i>>, TRUE)
  PROVE  /\ TablesInv'
         /\ \A j \in DOMAIN instruments : j \in DOMAIN instruments'
         /\ ~Ambiguous => \A r : StillMeant(r, instruments, means) =>
                                 StillMeant(r, instruments', means')
<1>1. Typed(instruments, identifiers, positions, mappings, means)
  BY DEF IdentityInv, TablesInv
<1>2. Typed(instruments', identifiers', positions', mappings', means')
  BY <1>1, DescribeTyped
<1>3. DOMAIN instruments' = DOMAIN instruments \cup {i}
  BY DEF Describe, Put
<1>4. (Ambiguous' <=> Ambiguous) /\ (Steady' <=> Steady) /\ Keyed /\ Keyed'
  BY DEF Ambiguous, Steady, Keyed
<1>5. ASSUME ~Ambiguous
      PROVE  /\ Sound(seen, TRUE, instruments', identifiers', mappings, means')
             /\ Steady => Unsplit(instruments', means')
             /\ \A r : StillMeant(r, instruments, means) => StillMeant(r, instruments', means')
  <2>1. SoundNow
    BY <1>4, <1>5 DEF IdentityInv, TablesInv, SoundNow
  <2>2. Meant(i, e)
    BY <1>5, <2>1, ResolvedIsMeant
  <2>3. Sound(seen, TRUE, instruments', identifiers', mappings, means')
    BY <1>5, <2>1, <2>2, DescribeSound
  <2>4. Steady => Unsplit(instruments', means')
    BY <1>5, <2>1, <2>2, DescribeUnsplit DEF IdentityInv, TablesInv
  <2>5. \A r : StillMeant(r, instruments, means) => StillMeant(r, instruments', means')
    BY <1>3, <2>2, DescribeMeans DEF StillMeant
  <2> QED
    BY <2>3, <2>4, <2>5
<1> QED
  BY <1>2, <1>3, <1>4, <1>5 DEF TablesInv

\* A row says what its tables say.
RowOf(i, ins, ids, ms) ==
  [id |-> i, listing |-> ins[i], names |-> {n \in DOMAIN ids : ids[n] = i}, of |-> ms[i]]

LEMMA RowSays ==
  ASSUME NEW ins, NEW ids, NEW pos, NEW maps, NEW ms, Typed(ins, ids, pos, maps, ms),
         NEW i \in DOMAIN ins
  PROVE  /\ RowTyped(RowOf(i, ins, ids, ms)) /\ RowOf(i, ins, ids, ms).id = i
         /\ StillMeant(RowOf(i, ins, ids, ms), ins, ms)
         /\ \A said, keyed : Sound(said, keyed, ins, ids, maps, ms) =>
                             Said(said, RowOf(i, ins, ids, ms))
<1>1. RowTyped(RowOf(i, ins, ids, ms))
  BY DEF RowTyped, RowOf, Typed, OneOfAKind
<1>2. StillMeant(RowOf(i, ins, ids, ms), ins, ms)
  BY DEF StillMeant, RowOf
<1>3. ASSUME NEW said, NEW keyed, Sound(said, keyed, ins, ids, maps, ms)
      PROVE  Said(said, RowOf(i, ins, ids, ms))
  BY <1>3 DEF Said, Sound, RowOf
<1> QED
  BY <1>1, <1>2, <1>3 DEF RowOf

-----------------------------------------------------------------------------
(* Every action.                                                           *)

\* Steps that leave the reports alone.
LEMMA SameReports ==
  ASSUME seen' = seen
  PROVE  (Ambiguous' <=> Ambiguous) /\ (Steady' <=> Steady)
BY DEF Ambiguous, Steady

LEMMA InitIdentity == Init => IdentityInv
<1> SUFFICES ASSUME Init PROVE IdentityInv
  OBVIOUS
<1>1. PICK rows \in SUBSET Legacy :
        /\ seen = rows
        /\ instruments = [k \in {l.listing.symbol : l \in rows} |-> [symbol |-> k, venue |-> ""]]
        /\ means = [k \in {l.listing.symbol : l \in rows} |->
                      UNION {l.of : l \in {m \in rows : m.listing.symbol = k}}]
        /\ positions = [p \in {<<l.account, l.listing.symbol>> : l \in rows} |-> TRUE]
  BY DEF Init
<1>2. \A l \in rows : IsLot(l) /\ l.names = {} /\ l.listing = Bare(l.listing)
  <2>1. rows \subseteq Legacy /\ Legacy \subseteq Lots
    BY DEF Lots
  <2>2. \A l \in Lots : IsLot(l)
    BY IdentityAssumption
  <2>3. \A l \in Legacy : l.listing = Bare(l.listing) /\ l.names = {}
    BY IdentityAssumption
  <2> QED
    BY <2>1, <2>2, <2>3
<1>3. identifiers = Empty /\ mappings = Empty /\ DOMAIN Empty = {} /\ schema = "symbols"
  BY DEF Init, Empty
<1>4. Typed(instruments, identifiers, positions, mappings, means)
  <2>1. \A i \in DOMAIN instruments : instruments[i] \in Listings
    <3> SUFFICES ASSUME NEW l \in rows PROVE [symbol |-> l.listing.symbol, venue |-> ""] \in Listings
      BY <1>1
    <3>1. l.listing \in Listings
      BY <1>2 DEF IsLot
    <3> QED
      BY <1>2, <3>1 DEF Bare
  <2>2. IsFiniteSet(rows)
    BY IdentityAssumption, FS_Subset
  <2>3. IsFiniteSet(DOMAIN positions)
    <3> DEFINE f == [l \in rows |-> <<l.account, l.listing.symbol>>]
    <3>1. f \in Surjection(rows, DOMAIN positions)
      BY <1>1 DEF Surjection
    <3> QED
      BY <2>2, <3>1, FS_Surjection
  <2>4. ASSUME NEW p \in DOMAIN positions
        PROVE  /\ p = <<p[1], p[2]>> /\ p[1] \in Accounts
               /\ p[2] \in DOMAIN instruments /\ positions[p] \in BOOLEAN
    <3>1. PICK l \in rows : p = <<l.account, l.listing.symbol>>
      BY <1>1
    <3>2. l.account \in Accounts
      BY <1>2 DEF IsLot
    <3> QED
      BY <1>1, <3>1, <3>2
  <2> QED
    BY <1>1, <1>3, <2>1, <2>3, <2>4 DEF Typed
<1>5. ASSUME ~Ambiguous, NEW l \in rows
      PROVE  means[l.listing.symbol] = l.of /\ instruments[l.listing.symbol] = l.listing
  <2>1. ASSUME NEW m \in rows, m.listing.symbol = l.listing.symbol PROVE m.of = l.of
    <3>1. m.listing = l.listing
      BY <1>2, <2>1 DEF Bare
    <3> QED
      BY <1>1, <1>5, <3>1, ToldApart
  <2>2. means[l.listing.symbol] = UNION {k.of : k \in {m \in rows : m.listing.symbol = l.listing.symbol}}
    BY <1>1
  <2>3. means[l.listing.symbol] = l.of
    BY <2>1, <2>2
  <2> QED
    BY <1>1, <1>2, <2>3 DEF Bare
<1>6. Names(rows) = {}
  BY <1>2 DEF Names
<1>7. ASSUME ~Ambiguous PROVE Sound(seen, FALSE, instruments, identifiers, mappings, means)
  <2>1. ASSUME NEW i \in DOMAIN instruments PROVE SaidListed(seen, means[i], instruments[i])
    <3>1. PICK l \in rows : i = l.listing.symbol
      BY <1>1
    <3> QED
      BY <1>1, <1>5, <1>7, <3>1 DEF SaidListed
  <2>2. \A n \in Names(seen) : FALSE
    BY <1>1, <1>6
  <2> QED
    BY <1>3, <2>1, <2>2, Zenon DEF Sound
<1>8. ASSUME ~Ambiguous, Steady PROVE Unsplit(instruments, means)
  <2>1. ASSUME NEW l \in rows, NEW m \in rows, l.of \cap m.of # {}
        PROVE  l.listing.symbol = m.listing.symbol
    <3>1. (\E s : l.of = {s}) /\ \E s : m.of = {s}
      BY <1>2 DEF IsLot
    <3>2. l.of = m.of
      BY <2>1, <3>1
    <3>3. \A k, n \in seen : k.of = l.of /\ n.of = l.of => k.listing = n.listing
      <4>1. l \in seen /\ Names(seen) = {}
        BY <1>1, <1>6
      <4> QED
        BY <1>8, <4>1, SteadyMeans
    <3> QED
      BY <1>1, <3>2, <3>3
  <2> SUFFICES ASSUME NEW i \in DOMAIN instruments, NEW j \in DOMAIN instruments,
                      means[i] \cap means[j] # {}
               PROVE  i = j
    BY DEF Unsplit
  <2>2. PICK l \in rows : i = l.listing.symbol
    BY <1>1
  <2>3. PICK m \in rows : j = m.listing.symbol
    BY <1>1
  <2> QED
    BY <1>5, <1>8, <2>1, <2>2, <2>3
<1>9. TablesInv
  BY <1>3, <1>4, <1>7, <1>8 DEF TablesInv, Keyed
<1>10. JobInv
  <2>1. stage = "idle" /\ todo = <<>> /\ written = <<>>
    BY DEF Init
  <2>2. ToSet(<<>>) = {} /\ <<>> \in Seq(ToSet(<<>>))
    BY DEF ToSet
  <2> QED
    BY <2>1, <2>2 DEF JobInv
<1>11. SymbolsInv
  BY <1>1 DEF Init, SymbolsInv
<1>12. /\ schema \in {"symbols", "instruments"} /\ stage = "idle" /\ read = None
       /\ imports \in 0 .. MaxImports /\ edits \in 0 .. MaxEdits /\ refused = FALSE
  <2>1. stage = "idle" /\ read = None /\ refused = FALSE /\ imports = 0 /\ edits = 0
    BY DEF Init
  <2>2. MaxImports \in Nat /\ MaxEdits \in Nat
    BY IdentityAssumption
  <2> QED
    BY <1>3, <2>1, <2>2
<1> QED
  BY <1>1, <1>2, <1>9, <1>10, <1>11, <1>12
  DEF IdentityInv, SavedInv, ReadInv, RefusedOnlyIfAmbiguous

LEMMA BeginImportKeeps == IdentityInv /\ BeginImport => IdentityInv'
<1> SUFFICES ASSUME IdentityInv, BeginImport PROVE IdentityInv'
  OBVIOUS
<1> USE DEF IdentityInv, BeginImport, Idle, tables
<1>1. PICK s \in Statements : statement' = s /\ todo' = s.held /\ seen' = seen \cup LotsOf(s)
  OBVIOUS
<1>2. /\ s.held \in Seq(Lots) /\ s.trades \in Seq(Lots) /\ LotsOf(s) \subseteq Lots
      /\ \A l \in LotsOf(s) : IsLot(l)
  BY IdentityAssumption DEF Lots
<1>3. (Ambiguous => Ambiguous') /\ (Steady' => Steady)
  BY <1>1, MoreReports
<1>4. Typed(instruments', identifiers', positions', mappings', means')
  BY DEF TablesInv
<1>5. ~Ambiguous' => Sound(seen', TRUE, instruments', identifiers', mappings', means')
  BY <1>1, <1>3, SoundWithMore DEF TablesInv, Keyed
<1>6. ~Ambiguous' /\ Steady' => Unsplit(instruments', means')
  BY <1>3 DEF TablesInv
<1>7. TablesInv' /\ SavedInv'
  BY <1>4, <1>5, <1>6 DEF TablesInv, SavedInv, Keyed
<1>8. JobInv'
  <2>1. /\ todo' \in Seq(ToSet(todo')) /\ ToSet(todo') \subseteq seen'
        /\ ToSet(statement'.trades) \subseteq seen'
    BY <1>1, <1>2, OfItsElements DEF LotsOf
  <2>2. written' = <<>> /\ ToSet(written') = {} /\ written' \in Seq(ToSet(written'))
    BY DEF ToSet
  <2>3. statement'.trades \in Seq(Lots)
    BY <1>1, <1>2
  <2> QED
    BY <2>1, <2>2, <2>3 DEF JobInv
<1>9. ReadInv'
  BY <1>1, <1>3, SaidWithMore DEF ReadInv
<1> QED
  BY <1>1, <1>2, <1>3, <1>7, <1>8, <1>9, IdentityAssumption DEF SymbolsInv, RefusedOnlyIfAmbiguous

\* One lot of an import is done with: the tables are as they should be, and the
\* rows already written still mean what they meant.
Goes ==
  /\ TablesInv'
  /\ \A j \in DOMAIN instruments : j \in DOMAIN instruments'
  /\ ~Ambiguous => \A r : StillMeant(r, instruments, means) => StillMeant(r, instruments', means')

LEMMA JobGoesOn ==
  ASSUME IdentityInv, stage # "idle", todo # <<>>, Goes, todo' = Tail(todo),
         UNCHANGED <<schema, mappings, stage, statement, saved, read, counters>>,
         written' \in Seq(ToSet(written')), ToSet(written) \subseteq ToSet(written'),
         \A w \in ToSet(written') \ ToSet(written) :
           /\ RowTyped(w.row) /\ w.row.id \in DOMAIN instruments'
           /\ ~Ambiguous => Said(seen, w.row) /\ StillMeant(w.row, instruments', means')
  PROVE  IdentityInv'
<1>1. (Ambiguous' <=> Ambiguous) /\ (Steady' <=> Steady) /\ seen' = seen
  BY SameReports DEF counters
<1>2. SavedInv'
  BY <1>1 DEF IdentityInv, SavedInv
<1>3. JobInv'
  <2>1. todo' \in Seq(ToSet(todo')) /\ ToSet(todo') \subseteq ToSet(todo)
    BY HeadAndTail DEF IdentityInv, JobInv
  <2>2. ASSUME NEW w \in ToSet(written')
        PROVE  /\ RowTyped(w.row) /\ w.row.id \in DOMAIN instruments'
               /\ ~Ambiguous => Said(seen, w.row) /\ StillMeant(w.row, instruments', means')
    BY DEF IdentityInv, JobInv, Goes
  <2>3. stage' = "prices" => ToSet(todo') \subseteq {w.row : w \in ToSet(written')}
    BY <2>1 DEF IdentityInv, JobInv
  <2> QED
    BY <1>1, <2>1, <2>2, <2>3 DEF IdentityInv, JobInv
<1>4. ReadInv'
  BY <1>1 DEF IdentityInv, ReadInv, Goes
<1>5. schema' = "instruments"
  BY DEF IdentityInv, JobInv
<1> QED
  BY <1>1, <1>2, <1>3, <1>4, <1>5 DEF IdentityInv, SymbolsInv, RefusedOnlyIfAmbiguous, Goes, counters

LEMMA ImportLotKeeps == IdentityInv /\ ImportLot => IdentityInv'
<1> SUFFICES ASSUME IdentityInv, ImportLot PROVE IdentityInv'
  OBVIOUS
<1> DEFINE lot == Head(todo)
<1>1. /\ stage = "positions" /\ todo # <<>> /\ ~Conflict(None, lot) /\ todo' = Tail(todo)
      /\ UNCHANGED <<schema, mappings, stage, statement, saved, read, counters>>
  BY DEF ImportLot
<1>2. PICK i \in Resolved(None, lot) :
        /\ Describe(i, lot) /\ positions' = Put(positions, <<lot.account, i>>, TRUE)
        /\ written' = Append(written, [account |-> lot.account, row |-> AsRead(i)'])
  BY DEF ImportLot
<1>3. lot \in seen /\ IsLot(lot) /\ schema = "instruments" /\ seen' = seen
  BY <1>1, HeadAndTail DEF IdentityInv, JobInv, counters
<1>4. RowTyped(lot) /\ lot.account \in Accounts
  BY <1>3 DEF IsLot, RowTyped, OneOfAKind
<1>5. Known(None, lot) /\ Said(seen, lot)
  BY <1>3, LotSays DEF Known
<1> HIDE DEF lot
<1>6. Goes
  BY <1>1, <1>2, <1>3, <1>4, <1>5, DescribeKeeps DEF Goes
<1>7. i \in DOMAIN instruments' /\ Typed(instruments', identifiers', positions', mappings', means')
  BY <1>2, <1>6 DEF Describe, Put, Goes, TablesInv
<1> DEFINE row == RowOf(i, instruments', identifiers', means')
           new == [account |-> lot.account, row |-> row]
<1>8. written' = Append(written, new)
  BY <1>2 DEF AsRead, RowOf
<1>9. RowTyped(row) /\ row.id \in DOMAIN instruments' /\ StillMeant(row, instruments', means')
  BY <1>7, RowSays
<1>10. ~Ambiguous => Said(seen, row)
  <2>1. ~Ambiguous => Sound(seen, TRUE, instruments', identifiers', mappings', means')
    BY <1>1, <1>3, <1>6, SameReports DEF Goes, TablesInv, Keyed
  <2> QED
    BY <1>7, <2>1, RowSays
<1>11. new.row = row
  OBVIOUS
<1> HIDE DEF new, row
<1>12. ToSet(written') = ToSet(written) \cup {new} /\ written' \in Seq(ToSet(written'))
  BY <1>8, Appended DEF IdentityInv, JobInv
<1> QED
  BY <1>1, <1>6, <1>9, <1>10, <1>11, <1>12, JobGoesOn

LEMMA ImportPriceKeeps == IdentityInv /\ ImportPrice => IdentityInv'
<1> SUFFICES ASSUME IdentityInv, ImportPrice PROVE IdentityInv'
  OBVIOUS
<1> DEFINE row == Head(todo)
<1>1. /\ stage = "prices" /\ todo # <<>> /\ todo' = Tail(todo)
      /\ UNCHANGED <<schema, positions, mappings, stage, statement, written, saved, read, counters>>
  BY DEF ImportPrice
<1>2. \/ ~Conflict(row.id, row) /\ \E i \in Resolved(row.id, row) : Describe(i, row)
      \/ UNCHANGED <<instruments, identifiers, means>>
  BY DEF ImportPrice
<1>3. PICK w \in ToSet(written) : row = w.row
  <2>1. ToSet(todo) \subseteq {w.row : w \in ToSet(written)} /\ row \in ToSet(todo)
    BY <1>1, HeadAndTail DEF IdentityInv, JobInv
  <2> QED
    BY <2>1
<1>4. RowTyped(row) /\ schema = "instruments" /\ seen' = seen
  BY <1>1, <1>3 DEF IdentityInv, JobInv, counters
<1>5. ~Ambiguous => Known(row.id, row) /\ Said(seen, row)
  BY <1>3 DEF IdentityInv, JobInv, Known
<1> HIDE DEF row
<1>6. Goes
  <2>1. CASE UNCHANGED <<instruments, identifiers, means>>
    BY <1>1, <1>4, <2>1, SameReports DEF Goes, TablesInv, IdentityInv, Keyed
  <2>2. CASE ~Conflict(row.id, row) /\ \E i \in Resolved(row.id, row) : Describe(i, row)
    BY <1>1, <1>4, <1>5, <2>2, DescribeKeeps DEF Goes
  <2> QED
    BY <1>2, <2>1, <2>2
<1>7. written' \in Seq(ToSet(written')) /\ ToSet(written') = ToSet(written)
  BY <1>1 DEF IdentityInv, JobInv
<1> QED
  BY <1>1, <1>6, <1>7, JobGoesOn

LEMMA ImportTradeKeeps == IdentityInv /\ ImportTrade => IdentityInv'
<1> SUFFICES ASSUME IdentityInv, ImportTrade PROVE IdentityInv'
  OBVIOUS
<1> DEFINE lot == Head(todo)
<1>1. /\ stage = "trades" /\ todo # <<>> /\ ~Conflict(None, lot) /\ todo' = Tail(todo)
      /\ \E i \in Resolved(None, lot) : Describe(i, lot)
      /\ UNCHANGED <<schema, positions, mappings, stage, statement, written, saved, read, counters>>
  BY DEF ImportTrade
<1>3. lot \in seen /\ IsLot(lot) /\ schema = "instruments" /\ seen' = seen
  BY <1>1, HeadAndTail DEF IdentityInv, JobInv, counters
<1>4. RowTyped(lot)
  BY <1>3 DEF IsLot, RowTyped, OneOfAKind
<1>5. Known(None, lot) /\ Said(seen, lot)
  BY <1>3, LotSays DEF Known
<1> HIDE DEF lot
<1>6. Goes
  BY <1>1, <1>3, <1>4, <1>5, DescribeKeeps DEF Goes
<1>7. written' \in Seq(ToSet(written')) /\ ToSet(written') = ToSet(written)
  BY <1>1 DEF IdentityInv, JobInv
<1> QED
  BY <1>1, <1>6, <1>7, JobGoesOn

LEMMA BeginPricesKeeps == IdentityInv /\ BeginPrices => IdentityInv'
<1> SUFFICES ASSUME IdentityInv, BeginPrices PROVE IdentityInv'
  OBVIOUS
<1> USE DEF BeginPrices, tables, counters
<1>1. (Ambiguous' <=> Ambiguous) /\ (Steady' <=> Steady)
  BY SameReports
<1>2. TablesInv'
  BY <1>1 DEF IdentityInv, TablesInv, Keyed
<1>3. SavedInv' /\ ReadInv' /\ SymbolsInv'
  BY <1>1 DEF IdentityInv, SavedInv, ReadInv, SymbolsInv, JobInv
<1>4. written \in Seq(ToSet(written))
  BY DEF IdentityInv, JobInv
<1>5. todo' \in Seq({w.row : w \in ToSet(written)})
  <2>1. \A k \in DOMAIN written : written[k].row \in {w.row : w \in ToSet(written)}
    BY DEF ToSet
  <2>2. DOMAIN written = 1 .. Len(written) /\ Len(written) \in Nat
    BY <1>4
  <2> QED
    BY <2>1, <2>2
<1>6. todo' \in Seq(ToSet(todo')) /\ ToSet(todo') \subseteq {w.row : w \in ToSet(written)}
  BY <1>5, OfItsElements, Zenon
<1>7. JobInv'
  BY <1>1, <1>6 DEF IdentityInv, JobInv
<1> QED
  BY <1>1, <1>2, <1>3, <1>7 DEF IdentityInv, RefusedOnlyIfAmbiguous

LEMMA CloseMissingKeeps == IdentityInv /\ CloseMissing => IdentityInv'
<1> SUFFICES ASSUME IdentityInv, CloseMissing PROVE IdentityInv'
  OBVIOUS
<1> USE DEF counters
<1>1. /\ stage = "prices" /\ stage' = "trades" /\ todo' = statement.trades
      /\ DOMAIN positions' = DOMAIN positions
      /\ \A p \in DOMAIN positions : positions'[p] \in BOOLEAN
      /\ UNCHANGED <<schema, instruments, identifiers, mappings, means, statement, written,
                     saved, read, counters>>
  BY DEF CloseMissing
<1>2. (Ambiguous' <=> Ambiguous) /\ (Steady' <=> Steady)
  BY <1>1, SameReports
<1>3. TablesInv'
  <2>1. Typed(instruments', identifiers', positions', mappings', means')
    BY <1>1 DEF IdentityInv, TablesInv, Typed
  <2> QED
    BY <1>1, <1>2, <2>1 DEF IdentityInv, TablesInv, Keyed
<1>4. SavedInv' /\ ReadInv' /\ SymbolsInv'
  BY <1>1, <1>2 DEF IdentityInv, SavedInv, ReadInv, SymbolsInv, JobInv
<1>5. JobInv'
  <2>1. statement.trades \in Seq(Lots) /\ ToSet(statement.trades) \subseteq seen
    BY <1>1 DEF IdentityInv, JobInv
  <2>2. todo' \in Seq(ToSet(todo')) /\ ToSet(todo') \subseteq seen
    BY <1>1, <2>1, OfItsElements
  <2> QED
    BY <1>1, <1>2, <2>2 DEF IdentityInv, JobInv
<1> QED
  BY <1>1, <1>2, <1>3, <1>4, <1>5 DEF IdentityInv, RefusedOnlyIfAmbiguous

\* A seeded mapping is of the listing a row was written with.
LEMMA CommitMaps ==
  ASSUME IdentityInv, Commit, NEW i \in DOMAIN mappings'
  PROVE  \/ i \in DOMAIN mappings /\ mappings'[i] = mappings[i]
         \/ /\ ~Enabled(i)
            /\ \E w \in ToSet(written) : w.row.id = i /\ mappings'[i].listing = w.row.listing
<1> DEFINE seed == CHOOSE k \in Seeds : written[k].row.id = i
<1>1. CASE ~\E k \in Seeds : written[k].row.id = i
  BY <1>1 DEF Commit
<1>2. CASE \E k \in Seeds : written[k].row.id = i
  <2>1. seed \in Seeds /\ written[seed].row.id = i
    BY <1>2
  <2>2. mappings'[i] = [listing |-> written[seed].row.listing, enabled |-> TRUE]
    BY <1>2 DEF Commit
  <2> HIDE DEF seed
  <2>3. seed \in DOMAIN written /\ ~Enabled(i)
    BY <2>1 DEF Seeds
  <2> QED
    BY <2>1, <2>2, <2>3 DEF ToSet
<1> QED
  BY <1>1, <1>2

LEMMA CommitKeeps == IdentityInv /\ Commit => IdentityInv'
<1> SUFFICES ASSUME IdentityInv, Commit PROVE IdentityInv'
  OBVIOUS
<1>1. /\ stage = "trades" /\ todo = <<>> /\ stage' = "idle" /\ written' = <<>>
      /\ UNCHANGED <<schema, instruments, identifiers, positions, means, statement, todo, saved,
                     read, counters>>
  BY DEF Commit
<1>2. /\ (Ambiguous' <=> Ambiguous) /\ (Steady' <=> Steady) /\ Keyed /\ Keyed' /\ seen' = seen
      /\ schema = "instruments"
  BY <1>1, SameReports DEF Keyed, IdentityInv, JobInv, counters
<1>3. DOMAIN mappings' \subseteq DOMAIN instruments
  BY CommitMaps DEF IdentityInv, TablesInv, Typed, JobInv
<1>4. Typed(instruments', identifiers', positions', mappings', means')
  BY <1>1, <1>3 DEF IdentityInv, TablesInv, Typed
<1>5. ASSUME ~Ambiguous PROVE Sound(seen, TRUE, instruments, identifiers, mappings', means)
  <2>1. Sound(seen, TRUE, instruments, identifiers, mappings, means)
    BY <1>2, <1>5 DEF IdentityInv, TablesInv
  <2>2. ASSUME NEW i \in DOMAIN mappings', mappings'[i].listing # None
        PROVE  SaidListed(seen, means[i], mappings'[i].listing)
    <3>1. CASE i \in DOMAIN mappings /\ mappings'[i] = mappings[i]
      BY <1>3, <2>1, <2>2, <3>1 DEF Sound
    <3>2. CASE \E w \in ToSet(written) : w.row.id = i /\ mappings'[i].listing = w.row.listing
      <4>1. PICK w \in ToSet(written) : w.row.id = i /\ mappings'[i].listing = w.row.listing
        BY <3>2
      <4>2. Said(seen, w.row) /\ StillMeant(w.row, instruments, means)
        BY <1>5 DEF IdentityInv, JobInv
      <4> QED
        BY <4>1, <4>2 DEF Said, StillMeant
    <3> QED
      BY <3>1, <3>2, CommitMaps
  <2> QED
    BY <2>1, <2>2, Zenon DEF Sound
<1>6. TablesInv'
  BY <1>1, <1>2, <1>4, <1>5 DEF IdentityInv, TablesInv
<1>7. JobInv'
  BY <1>1, NothingToDo DEF JobInv
<1> QED
  BY <1>1, <1>2, <1>6, <1>7
  DEF IdentityInv, SavedInv, ReadInv, SymbolsInv, RefusedOnlyIfAmbiguous, counters

LEMMA RollbackKeeps == IdentityInv /\ Rollback => IdentityInv'
<1> SUFFICES ASSUME IdentityInv, Rollback PROVE IdentityInv'
  OBVIOUS
<1> DEFINE e == Head(todo)
           known == IF stage = "prices" THEN e.id ELSE None
<1>1. /\ todo # <<>> /\ Conflict(known, e)
      /\ instruments' = saved.instruments /\ identifiers' = saved.identifiers
      /\ positions' = saved.positions /\ mappings' = saved.mappings /\ means' = saved.means
      /\ stage' = "idle" /\ todo' = <<>> /\ written' = <<>> /\ refused' = TRUE
      /\ UNCHANGED <<schema, statement, saved, read, seen, imports, edits>>
  BY DEF Rollback
<1>2. stage # "idle" /\ schema = "instruments" /\ schema' = "instruments"
  BY <1>1 DEF IdentityInv, JobInv
<1>3. (Ambiguous' <=> Ambiguous) /\ (Steady' <=> Steady) /\ Keyed /\ Keyed'
  BY <1>1, <1>2, SameReports DEF Keyed
<1>4. TablesInv'
  BY <1>1, <1>2, <1>3 DEF IdentityInv, SavedInv, TablesInv
<1>5. ~Ambiguous => Known(known, e) /\ Said(seen, e)
  <2>1. e \in ToSet(todo)
    BY <1>1, HeadAndTail DEF IdentityInv, JobInv
  <2>2. CASE stage = "prices"
    <3>1. PICK w \in ToSet(written) : e = w.row
      BY <2>1, <2>2 DEF IdentityInv, JobInv
    <3> QED
      BY <2>2, <3>1 DEF IdentityInv, JobInv, Known
  <2>3. CASE stage # "prices"
    <3>1. e \in seen
      BY <1>2, <2>1, <2>3 DEF IdentityInv, JobInv
    <3> QED
      BY <2>3, <3>1, LotSays DEF Known
  <2> QED
    BY <2>2, <2>3
<1> HIDE DEF e, known
<1>6. Ambiguous \/ ~Steady
  <2>1. ~Ambiguous => SoundNow
    BY <1>3 DEF IdentityInv, TablesInv, SoundNow
  <2> QED
    BY <1>1, <1>5, <2>1, NoConflict DEF IdentityInv, TablesInv
<1>7. JobInv'
  BY <1>1, NothingToDo DEF JobInv
<1>8. ReadInv'
  BY <1>1, <1>2, <1>3 DEF IdentityInv, ReadInv
<1> QED
  BY <1>1, <1>2, <1>3, <1>4, <1>6, <1>7, <1>8
  DEF IdentityInv, SavedInv, SymbolsInv, RefusedOnlyIfAmbiguous

\* Between two imports only the tables, what was read and the bounds change.
LEMMA IdleKeeps ==
  ASSUME IdentityInv, stage = "idle", schema = "instruments", TablesInv', ReadInv',
         UNCHANGED <<schema, job, seen>>, imports' = imports, edits' \in 0 .. MaxEdits,
         refused' \in BOOLEAN, refused' => refused \/ Ambiguous \/ ~Steady
  PROVE  IdentityInv'
<1>1. (Ambiguous' <=> Ambiguous) /\ (Steady' <=> Steady) /\ seen' = seen
  BY SameReports
<1>2. stage' = "idle" /\ todo' = <<>> /\ written' = <<>> /\ schema' = "instruments"
  BY DEF job, IdentityInv, JobInv
<1>3. JobInv'
  BY <1>2, NothingToDo DEF JobInv
<1> QED
  BY <1>1, <1>2, <1>3 DEF IdentityInv, SavedInv, SymbolsInv, RefusedOnlyIfAmbiguous

LEMMA EditBounds ==
  ASSUME IdentityInv, Edit
  PROVE  stage = "idle" /\ schema = "instruments" /\ edits' \in 0 .. MaxEdits
BY IdentityAssumption DEF IdentityInv, Edit, Idle

LEMMA SetMappingKeeps == IdentityInv /\ SetMapping => IdentityInv'
<1> SUFFICES ASSUME IdentityInv, SetMapping PROVE IdentityInv'
  OBVIOUS
<1>1. stage = "idle" /\ schema = "instruments" /\ edits' \in 0 .. MaxEdits
  BY EditBounds DEF SetMapping
<1>2. PICK i \in DOMAIN instruments, on \in BOOLEAN :
        mappings' = Put(mappings, i, [listing |-> None, enabled |-> on])
  BY DEF SetMapping
<1>3. UNCHANGED <<schema, instruments, identifiers, positions, means, job, read, seen, refused, imports>>
  BY DEF SetMapping
<1>4. (Ambiguous' <=> Ambiguous) /\ (Steady' <=> Steady) /\ Keyed /\ Keyed'
  BY <1>1, <1>3, SameReports DEF Keyed
<1>5. \A j \in DOMAIN mappings' : \/ j = i /\ mappings'[j].listing = None
                                  \/ j \in DOMAIN mappings /\ mappings'[j] = mappings[j]
  BY <1>2 DEF Put
<1>6. Typed(instruments', identifiers', positions', mappings', means')
  <2>1. Typed(instruments, identifiers, positions, mappings, means)
    BY DEF IdentityInv, TablesInv
  <2>2. DOMAIN mappings' \subseteq DOMAIN instruments
    BY <1>5, <2>1 DEF Typed
  <2> QED
    BY <1>3, <2>1, <2>2 DEF Typed
<1>7. ASSUME ~Ambiguous PROVE Sound(seen, TRUE, instruments, identifiers, mappings', means)
  <2>1. Sound(seen, TRUE, instruments, identifiers, mappings, means)
    BY <1>4, <1>7 DEF IdentityInv, TablesInv
  <2>2. \A j \in DOMAIN instruments : j \in DOMAIN mappings' /\ mappings'[j].listing # None =>
          SaidListed(seen, means[j], mappings'[j].listing)
    BY <1>5, <2>1 DEF Sound
  <2> QED
    BY <2>1, <2>2, Zenon DEF Sound
<1>8. TablesInv'
  BY <1>3, <1>4, <1>6, <1>7 DEF IdentityInv, TablesInv
<1>9. ReadInv'
  BY <1>1, <1>3, <1>4 DEF IdentityInv, ReadInv, job
<1> QED
  BY <1>1, <1>3, <1>8, <1>9, IdleKeeps DEF IdentityInv

LEMMA ReadInstrumentKeeps == IdentityInv /\ ReadInstrument => IdentityInv'
<1> SUFFICES ASSUME IdentityInv, ReadInstrument PROVE IdentityInv'
  OBVIOUS
<1>1. stage = "idle" /\ schema = "instruments" /\ edits' \in 0 .. MaxEdits
  BY EditBounds DEF ReadInstrument
<1>2. PICK p \in DOMAIN positions : positions[p] /\ read' = AsRead(p[2])
  BY DEF ReadInstrument
<1>3. UNCHANGED <<schema, instruments, identifiers, positions, mappings, means, job, seen, refused,
                 imports>>
  BY DEF ReadInstrument, tables
<1>4. (Ambiguous' <=> Ambiguous) /\ (Steady' <=> Steady) /\ Keyed /\ Keyed'
  BY <1>1, <1>3, SameReports DEF Keyed
<1>5. TablesInv'
  BY <1>3, <1>4 DEF IdentityInv, TablesInv
<1>6. Typed(instruments, identifiers, positions, mappings, means) /\ p[2] \in DOMAIN instruments
  BY DEF IdentityInv, TablesInv, Typed
<1>7. read' = RowOf(p[2], instruments, identifiers, means)
  BY <1>2 DEF AsRead, RowOf
<1>8. /\ RowTyped(read') /\ StillMeant(read', instruments, means)
      /\ Sound(seen, TRUE, instruments, identifiers, mappings, means) => Said(seen, read')
  BY <1>6, <1>7, RowSays
<1>9. ReadInv'
  BY <1>1, <1>3, <1>4, <1>8 DEF IdentityInv, TablesInv, ReadInv, job
<1> QED
  BY <1>1, <1>3, <1>5, <1>9, IdleKeeps DEF IdentityInv

LEMMA WriteBackKeeps == IdentityInv /\ WriteBack => IdentityInv'
<1> SUFFICES ASSUME IdentityInv, WriteBack PROVE IdentityInv'
  OBVIOUS
<1>1. /\ stage = "idle" /\ schema = "instruments" /\ read # None /\ read' = None
      /\ UNCHANGED <<schema, positions, mappings, job, seen, imports, edits>>
  BY DEF WriteBack, Idle
<1>2. (Ambiguous' <=> Ambiguous) /\ (Steady' <=> Steady) /\ Keyed /\ Keyed'
  BY <1>1, SameReports DEF Keyed
<1>3. RowTyped(read) /\ (~Ambiguous => Known(read.id, read) /\ Said(seen, read))
  BY <1>1 DEF IdentityInv, ReadInv, Known
<1>4. ReadInv'
  BY <1>1 DEF ReadInv
<1>5. edits' \in 0 .. MaxEdits /\ imports' = imports /\ UNCHANGED <<schema, job, seen>>
  BY <1>1 DEF IdentityInv
<1>6. CASE Conflict(read.id, read)
  <2>1. refused' = TRUE /\ UNCHANGED <<instruments, identifiers, means>>
    BY <1>6 DEF WriteBack
  <2>2. TablesInv'
    BY <1>1, <1>2, <2>1 DEF IdentityInv, TablesInv
  <2>3. ~Ambiguous => SoundNow
    BY <1>2 DEF IdentityInv, TablesInv, SoundNow
  <2>4. Ambiguous \/ ~Steady
    BY <1>3, <1>6, <2>3, NoConflict DEF IdentityInv, TablesInv
  <2> QED
    BY <1>1, <1>4, <1>5, <2>1, <2>2, <2>4, IdleKeeps
<1>7. CASE ~Conflict(read.id, read)
  <2>1. PICK i \in Resolved(read.id, read) : Describe(i, read)
    BY <1>7 DEF WriteBack
  <2>2. refused' = refused
    BY <1>7 DEF WriteBack
  <2>3. TablesInv'
    BY <1>1, <1>3, <1>7, <2>1, DescribeKeeps
  <2> QED
    BY <1>1, <1>4, <1>5, <2>2, <2>3, IdleKeeps DEF IdentityInv
<1> QED
  BY <1>6, <1>7

-----------------------------------------------------------------------------
(* The migrations: new keys, one for each old key.                         *)

OneToOne(to) == \A i, j \in DOMAIN instruments : to[i] = to[j] => i = j

LEMMA RekeyedMeans ==
  ASSUME NEW to, OneToOne(to), DOMAIN means = DOMAIN instruments,
         means' = Rekeyed(means, to)
  PROVE  /\ DOMAIN means' = {to[i] : i \in DOMAIN instruments}
         /\ \A i \in DOMAIN instruments : means'[to[i]] = means[i]
<1>1. ASSUME NEW i \in DOMAIN instruments
      PROVE  (CHOOSE j \in DOMAIN means : to[j] = to[i]) = i
  BY DEF OneToOne
<1>2. ASSUME NEW i \in DOMAIN instruments PROVE means'[to[i]] = means[i]
  BY <1>1 DEF Rekeyed
<1> QED
  BY <1>2 DEF Rekeyed

LEMMA RekeyedPositions ==
  ASSUME NEW to, OneToOne(to), Typed(instruments, identifiers, positions, mappings, means),
         NEW rows, Migrate(to, rows)
  PROVE  /\ DOMAIN positions' = {<<p[1], to[p[2]]>> : p \in DOMAIN positions}
         /\ \A p \in DOMAIN positions : positions'[<<p[1], to[p[2]]>>] = positions[p]
         /\ IsFiniteSet(DOMAIN positions')
         /\ Cardinality(DOMAIN positions') = Cardinality(DOMAIN positions)
<1>1. positions' = [q \in {<<p[1], to[p[2]]>> : p \in DOMAIN positions} |->
                      \E p \in DOMAIN positions : q = <<p[1], to[p[2]]>> /\ positions[p]]
  BY DEF Migrate
<1>2. ASSUME NEW p \in DOMAIN positions, NEW q \in DOMAIN positions,
             <<p[1], to[p[2]]>> = <<q[1], to[q[2]]>>
      PROVE  p = q
  <2>1. p[1] = q[1] /\ to[p[2]] = to[q[2]]
    BY <1>2
  <2>2. p[2] \in DOMAIN instruments /\ q[2] \in DOMAIN instruments
    BY DEF Typed
  <2>3. p = <<p[1], p[2]>> /\ q = <<q[1], q[2]>>
    BY DEF Typed
  <2> QED
    BY <2>1, <2>2, <2>3 DEF OneToOne
<1>3. ASSUME NEW p \in DOMAIN positions PROVE positions'[<<p[1], to[p[2]]>>] = positions[p]
  <2>1. positions'[<<p[1], to[p[2]]>>] =
          \E q \in DOMAIN positions : <<p[1], to[p[2]]>> = <<q[1], to[q[2]]>> /\ positions[q]
    BY <1>1
  <2>2. positions[p] \in BOOLEAN
    BY DEF Typed
  <2> QED
    BY <1>2, <2>1, <2>2
<1> DEFINE f == [p \in DOMAIN positions |-> <<p[1], to[p[2]]>>]
<1>4. f \in Bijection(DOMAIN positions, DOMAIN positions')
  <2>1. DOMAIN positions' = {f[p] : p \in DOMAIN positions}
    BY <1>1
  <2>2. \A p, q \in DOMAIN positions : f[p] = f[q] => p = q
    BY <1>2
  <2>3. f \in [DOMAIN positions -> DOMAIN positions']
    BY <2>1
  <2> HIDE DEF f
  <2> QED
    BY <2>1, <2>2, <2>3 DEF Bijection, Injection, Surjection, IsInjective
<1>5. /\ IsFiniteSet(DOMAIN positions')
      /\ Cardinality(DOMAIN positions') = Cardinality(DOMAIN positions)
  BY <1>4, FS_Bijection DEF ExistsBijection, Typed
<1> QED
  BY <1>1, <1>3, <1>5

\* What a migration to the keys `to' does when the keys stay apart.
LEMMA Migrated ==
  ASSUME IdentityInv, stage = "idle", read = None, NEW to, OneToOne(to),
         NEW rows, Migrate(to, rows), DOMAIN rows = {to[i] : i \in DOMAIN instruments},
         \A i \in DOMAIN instruments : rows[to[i]] \in Listings,
         schema' \in {"symbols", "instruments"},
         schema' = "symbols" => \A k \in DOMAIN rows : rows[k] = [symbol |-> k, venue |-> ""],
         seen \subseteq seen', \A l \in seen' : IsLot(l), edits' \in 0 .. MaxEdits,
         ~Ambiguous' => \A i \in DOMAIN instruments :
           /\ SaidListed(seen', means[i], rows[to[i]])
           /\ Keyed' => SaidListed(seen', means[i], to[i])
           /\ \A n \in Names(seen') : ~AlwaysNamed(seen', means[i], n)
  PROVE  IdentityInv'
<1>1. Typed(instruments, identifiers, positions, mappings, means) /\ DOMAIN means = DOMAIN instruments
  BY DEF IdentityInv, TablesInv, Typed
<1>2. /\ instruments' = rows /\ means' = Rekeyed(means, to)
      /\ identifiers' = Empty /\ mappings' = Empty /\ DOMAIN Empty = {}
      /\ UNCHANGED <<job, read, refused, imports>>
  BY DEF Migrate, Empty
<1>3. \A i \in DOMAIN instruments : to[i] \in DOMAIN instruments' /\ means'[to[i]] = means[i]
  BY <1>1, <1>2, RekeyedMeans
<1>4. \A k \in DOMAIN instruments' : \E i \in DOMAIN instruments : k = to[i]
  BY <1>2
<1>5. Typed(instruments', identifiers', positions', mappings', means')
  <2>1. ASSUME NEW q \in DOMAIN positions'
        PROVE  /\ q = <<q[1], q[2]>> /\ q[1] \in Accounts
               /\ q[2] \in DOMAIN instruments' /\ positions'[q] \in BOOLEAN
    <3>1. PICK p \in DOMAIN positions : q = <<p[1], to[p[2]]>>
      <4>1. DOMAIN positions' = {<<p[1], to[p[2]]>> : p \in DOMAIN positions}
        BY <1>1, RekeyedPositions
      <4> QED
        BY <4>1
    <3>2. positions'[q] = positions[p]
      BY <1>1, <3>1, RekeyedPositions
    <3>3. p[1] \in Accounts /\ p[2] \in DOMAIN instruments /\ positions[p] \in BOOLEAN
      BY <1>1 DEF Typed
    <3> QED
      BY <1>3, <3>1, <3>2, <3>3
  <2>2. DOMAIN means' = DOMAIN instruments'
    BY <1>1, <1>2, RekeyedMeans
  <2>3. IsFiniteSet(DOMAIN positions')
    BY <1>1, RekeyedPositions
  <2>4. \A k \in DOMAIN instruments' : instruments'[k] \in Listings
    BY <1>2, <1>4
  <2> QED
    BY <1>2, <2>1, <2>2, <2>3, <2>4 DEF Typed
<1>6. (Ambiguous => Ambiguous') /\ (Steady' => Steady)
  BY MoreReports
<1>7. ASSUME ~Ambiguous' PROVE Sound(seen', Keyed', instruments', identifiers', mappings', means')
  <2>1. ASSUME NEW k \in DOMAIN instruments'
        PROVE  /\ SaidListed(seen', means'[k], instruments'[k])
               /\ Keyed' => SaidListed(seen', means'[k], k)
               /\ \A n \in Names(seen') : ~AlwaysNamed(seen', means'[k], n)
    <3>1. PICK i \in DOMAIN instruments : k = to[i]
      BY <1>4
    <3> QED
      BY <1>2, <1>3, <1>7, <3>1
  <2>2. \A n : n \notin DOMAIN identifiers' /\ n \notin DOMAIN mappings'
    BY <1>2
  <2> QED
    BY <2>1, <2>2, Zenon DEF Sound
<1>8. ASSUME ~Ambiguous', Steady' PROVE Unsplit(instruments', means')
  <2>1. Unsplit(instruments, means)
    BY <1>6, <1>8 DEF IdentityInv, TablesInv
  <2> SUFFICES ASSUME NEW k \in DOMAIN instruments', NEW l \in DOMAIN instruments',
                      means'[k] \cap means'[l] # {}
               PROVE  k = l
    BY DEF Unsplit
  <2>2. PICK i \in DOMAIN instruments : k = to[i]
    BY <1>4
  <2>3. PICK j \in DOMAIN instruments : l = to[j]
    BY <1>4
  <2>4. means[i] \cap means[j] # {}
    BY <1>3, <2>2, <2>3
  <2> QED
    BY <2>1, <2>2, <2>3, <2>4 DEF Unsplit
<1>9. TablesInv'
  BY <1>5, <1>7, <1>8 DEF TablesInv
<1>10. stage' = "idle" /\ read' = None /\ todo' = <<>> /\ written' = <<>>
  BY <1>2 DEF job, IdentityInv, JobInv
<1>11. JobInv'
  BY <1>10, NothingToDo DEF JobInv
<1>12. SymbolsInv'
  BY <1>2, <1>10 DEF SymbolsInv
<1> QED
  BY <1>2, <1>6, <1>9, <1>10, <1>11, <1>12
  DEF IdentityInv, SavedInv, ReadInv, RefusedOnlyIfAmbiguous

LEMMA UpgradeKeys ==
  ASSUME IdentityInv, Upgrade
  PROVE  /\ stage = "idle" /\ OneToOne(instruments)
         /\ Migrate(instruments, [k \in {instruments[i] : i \in DOMAIN instruments} |-> k])
<1>1. schema = "symbols"
  BY DEF Upgrade
<1>2. OneToOne(instruments)
  <2> SUFFICES ASSUME NEW i \in DOMAIN instruments, NEW j \in DOMAIN instruments,
                      instruments[i] = instruments[j]
               PROVE  i = j
    BY DEF OneToOne
  <2>1. instruments[i] = [symbol |-> i, venue |-> ""] /\ instruments[j] = [symbol |-> j, venue |-> ""]
    BY <1>1, Zenon DEF IdentityInv, SymbolsInv
  <2>2. [symbol |-> i, venue |-> ""].symbol = i /\ [symbol |-> j, venue |-> ""].symbol = j
    OBVIOUS
  <2> QED
    BY <2>1, <2>2
<1> QED
  BY <1>1, <1>2 DEF Upgrade, IdentityInv, SymbolsInv

LEMMA UpgradeKeeps == IdentityInv /\ Upgrade => IdentityInv'
<1> SUFFICES ASSUME IdentityInv, Upgrade PROVE IdentityInv'
  OBVIOUS
<1> DEFINE to   == instruments
           rows == [k \in {to[i] : i \in DOMAIN to} |-> k]
<1>1. schema = "symbols" /\ schema' = "instruments" /\ seen' = seen /\ edits' = edits
  BY DEF Upgrade
<1>2. stage = "idle" /\ OneToOne(to) /\ Migrate(to, rows)
  BY UpgradeKeys
<1>3. DOMAIN rows = {to[i] : i \in DOMAIN instruments} /\ \A i \in DOMAIN instruments : rows[to[i]] = to[i]
  OBVIOUS
<1>4. \A i \in DOMAIN instruments : rows[to[i]] \in Listings
  BY <1>3 DEF IdentityInv, TablesInv, Typed
<1>5. read = None
  BY <1>1 DEF IdentityInv, ReadInv
<1>6. ASSUME ~Ambiguous', NEW i \in DOMAIN instruments
      PROVE  /\ SaidListed(seen', means[i], rows[to[i]]) /\ SaidListed(seen', means[i], to[i])
             /\ \A n \in Names(seen') : ~AlwaysNamed(seen', means[i], n)
  <2>1. Sound(seen, Keyed, instruments, identifiers, mappings, means)
    BY <1>1, <1>6, SameReports DEF IdentityInv, TablesInv
  <2>2. DOMAIN identifiers = {}
    BY <1>1 DEF IdentityInv, SymbolsInv, Empty
  <2>3. /\ SaidListed(seen, means[i], instruments[i])
        /\ \A n \in Names(seen) : AlwaysNamed(seen, means[i], n) => n \in DOMAIN identifiers
    BY <2>1, Zenon DEF Sound
  <2> QED
    BY <1>1, <1>3, <2>2, <2>3
<1> HIDE DEF to, rows
<1> QED
  BY <1>1, <1>2, <1>3, <1>4, <1>5, <1>6, Migrated DEF IdentityInv

LEMMA DowngradeKeys ==
  ASSUME IdentityInv, Downgrade
  PROVE  LET to == [i \in DOMAIN instruments |-> instruments[i].symbol]
         IN  /\ OneToOne(to)
             /\ Migrate(to, [k \in {to[i] : i \in DOMAIN to} |-> [symbol |-> k, venue |-> ""]])
<1> DEFINE to == [i \in DOMAIN instruments |-> instruments[i].symbol]
<1>1. OneToOne(to)
  BY DEF Downgrade, OneOfASymbol, OneToOne
<1>2. Migrate(to, [k \in {to[i] : i \in DOMAIN to} |-> [symbol |-> k, venue |-> ""]])
  BY DEF Downgrade
<1> QED
  BY <1>1, <1>2

LEMMA DowngradeKeeps == IdentityInv /\ Downgrade => IdentityInv'
<1> SUFFICES ASSUME IdentityInv, Downgrade PROVE IdentityInv'
  OBVIOUS
<1> DEFINE to      == [i \in DOMAIN instruments |-> instruments[i].symbol]
           rows    == [k \in {to[i] : i \in DOMAIN to} |-> [symbol |-> k, venue |-> ""]]
           bare(l) == [l EXCEPT !.listing = Bare(l.listing), !.names = {}]
<1>1. /\ read = None /\ schema' = "symbols" /\ stage = "idle" /\ schema = "instruments"
      /\ edits' \in 0 .. MaxEdits /\ seen' = seen \cup {bare(l) : l \in seen}
  BY EditBounds DEF Downgrade
<1>2. OneToOne(to) /\ Migrate(to, rows)
  BY DowngradeKeys
<1>3. /\ DOMAIN rows = {to[i] : i \in DOMAIN instruments}
      /\ \A k \in DOMAIN rows : rows[k] = [symbol |-> k, venue |-> ""]
      /\ \A i \in DOMAIN instruments : rows[to[i]] = Bare(instruments[i])
  BY DEF Bare
<1>4. \A i \in DOMAIN instruments : rows[to[i]] \in Listings
  <2>1. \A i \in DOMAIN instruments : instruments[i] \in Listings
    BY DEF IdentityInv, TablesInv, Typed
  <2>2. \A l \in Listings : Bare(l) \in Listings
    BY IdentityAssumption
  <2>3. \A i \in DOMAIN instruments : rows[to[i]] = Bare(instruments[i])
    BY <1>3
  <2> HIDE DEF rows, to
  <2> QED
    BY <2>1, <2>2, <2>3
<1>5. ASSUME NEW l \in seen
      PROVE  /\ bare(l).of = l.of /\ bare(l).listing = Bare(l.listing) /\ bare(l).names = {}
             /\ IsLot(bare(l))
  <2>1. IsLot(l)
    BY DEF IdentityInv
  <2>2. bare(l) = [account |-> l.account, listing |-> Bare(l.listing), names |-> {}, of |-> l.of]
    <3>1. PICK a, b, c, d : l = [account |-> a, listing |-> b, names |-> c, of |-> d]
      BY <2>1, Zenon DEF IsLot
    <3> HIDE DEF bare
    <3>2. bare(l) = [l EXCEPT !.listing = Bare(l.listing), !.names = {}]
      BY DEF bare
    <3>3. ASSUME NEW x, NEW y
          PROVE  [l EXCEPT !.listing = x, !.names = y] =
                   [account |-> l.account, listing |-> x, names |-> y, of |-> l.of]
      <4>1. [l EXCEPT !.listing = x] = [account |-> a, listing |-> x, names |-> c, of |-> d]
        BY <3>1
      <4>2. [[account |-> a, listing |-> x, names |-> c, of |-> d] EXCEPT !.names = y] =
              [account |-> a, listing |-> x, names |-> y, of |-> d]
        OBVIOUS
      <4> QED
        BY <3>1, <4>1, <4>2, Zenon
    <3> QED
      BY <3>2, <3>3, Zenon
  <2>3. Bare(l.listing) \in Listings
    BY <2>1, IdentityAssumption DEF IsLot
  <2> HIDE DEF bare
  <2> QED
    BY <2>1, <2>2, <2>3 DEF IsLot
<1> HIDE DEF to, rows, bare
<1>6. seen \subseteq seen' /\ \A l \in seen' : IsLot(l)
  BY <1>1, <1>5 DEF IdentityInv
<1>7. ASSUME ~Ambiguous', NEW i \in DOMAIN instruments
      PROVE  /\ SaidListed(seen', means[i], rows[to[i]])
             /\ \A n \in Names(seen') : ~AlwaysNamed(seen', means[i], n)
  <2>1. SaidListed(seen, means[i], instruments[i])
    <3>1. Sound(seen, Keyed, instruments, identifiers, mappings, means)
      BY <1>6, <1>7, MoreReports DEF IdentityInv, TablesInv
    <3> QED
      BY <3>1, Zenon DEF Sound
  <2>2. PICK l \in seen : l.of = means[i] /\ l.listing = instruments[i]
    BY <2>1 DEF SaidListed
  <2>3. /\ bare(l) \in seen' /\ bare(l).of = means[i] /\ bare(l).listing = rows[to[i]]
        /\ bare(l).names = {}
    BY <1>1, <1>3, <1>5, <2>2
  <2> QED
    BY <2>3 DEF SaidListed, AlwaysNamed
<1>8. ~Keyed'
  BY <1>1 DEF Keyed
<1> QED
  BY <1>1, <1>2, <1>3, <1>4, <1>6, <1>7, <1>8, Migrated

-----------------------------------------------------------------------------
(* The theorems.                                                           *)

LEMMA StutterKeeps == IdentityInv /\ UNCHANGED vars => IdentityInv'
<1> SUFFICES ASSUME IdentityInv, UNCHANGED vars PROVE IdentityInv'
  OBVIOUS
<1>1. (Ambiguous' <=> Ambiguous) /\ (Steady' <=> Steady)
  BY SameReports DEF vars, counters
<1>2. UNCHANGED <<schema, instruments, identifiers, positions, mappings, means, stage, statement,
                  todo, written, saved, read, seen, refused, imports, edits>>
  BY DEF vars, tables, job, counters
<1>3. TablesInv' /\ SavedInv'
  BY <1>1, <1>2 DEF IdentityInv, TablesInv, SavedInv, Keyed
<1>4. JobInv' /\ ReadInv' /\ SymbolsInv'
  BY <1>1, <1>2 DEF IdentityInv, JobInv, ReadInv, SymbolsInv
<1> QED
  BY <1>1, <1>2, <1>3, <1>4 DEF IdentityInv, RefusedOnlyIfAmbiguous

\* Whatever is imported, read, written back, mapped or migrated, in whatever
\* order, every row says only what was said of the security it means, as the
\* resolution and the write of _resolve_instrument_record have it, and so do
\* the tables a rollback restores.
THEOREM IdentityInvariance == Spec => []IdentityInv
<1>1. Init => IdentityInv
  BY InitIdentity
<1>2. IdentityInv /\ [Next]_vars => IdentityInv'
  BY BeginImportKeeps, ImportLotKeeps, BeginPricesKeeps, ImportPriceKeeps, CloseMissingKeeps,
     ImportTradeKeeps, CommitKeeps, RollbackKeeps, SetMappingKeeps, ReadInstrumentKeeps,
     WriteBackKeeps, UpgradeKeeps, DowngradeKeeps, StutterKeeps
  DEF Next
<1> QED
  BY <1>1, <1>2, PTL DEF Spec

\* The foreign keys of `instruments' and `instrument_identifiers' hold across
\* imports, rollbacks and migrations, and a row has one identifier of a kind.
THEOREM TypeCorrectness == Spec => []TypeOK
<1>1. IdentityInv => TypeOK
  BY DEF IdentityInv, TablesInv, Typed, TypeOK
<1> QED
  BY <1>1, IdentityInvariance, PTL

\* A row of `instruments' never mixes two securities, however often they are
\* relisted or renamed, unless two were reported alike.
THEOREM RowsMeanOneSecurity == Spec => []OneSecurityPerInstrument
<1>1. IdentityInv => OneSecurityPerInstrument
  <2> SUFFICES ASSUME IdentityInv, schema = "instruments", ~Ambiguous,
                      NEW i \in DOMAIN instruments
      PROVE  /\ Of(i, LAMBDA l : l.listing = i)
             /\ Of(i, LAMBDA l : l.listing = instruments[i])
             /\ \A n \in DOMAIN identifiers : identifiers[n] = i => Of(i, LAMBDA l : n \in l.names)
             /\ i \in DOMAIN mappings /\ mappings[i].listing # None =>
                  Of(i, LAMBDA l : l.listing = mappings[i].listing)
    BY DEF OneSecurityPerInstrument
  <2>1. Sound(seen, TRUE, instruments, identifiers, mappings, means)
    BY DEF IdentityInv, TablesInv, Keyed
  <2>2. /\ SaidListed(seen, means[i], i) /\ SaidListed(seen, means[i], instruments[i])
        /\ \A n \in DOMAIN identifiers : identifiers[n] = i => SaidNamed(seen, means[i], n)
        /\ i \in DOMAIN mappings /\ mappings[i].listing # None =>
             SaidListed(seen, means[i], mappings[i].listing)
    BY <2>1, Zenon DEF Sound
  <2> QED
    BY <2>2 DEF Of, SaidListed, SaidNamed
<1> QED
  BY <1>1, IdentityInvariance, PTL

\* A security whose reports share a listing or an identifier is never given a
\* second row of `instruments'.
THEOREM SecuritiesKeepOneRow == Spec => []OneInstrumentPerSecurity
<1>1. IdentityInv => OneInstrumentPerSecurity
  BY DEF IdentityInv, TablesInv, Unsplit, OneInstrumentPerSecurity
<1> QED
  BY <1>1, IdentityInvariance, PTL

\* No import is rolled back and no refresh is refused for an instrument
\* conflict unless the reports contradict each other.
THEOREM RefusalsAreOfContradictions == Spec => []RefusedOnlyIfAmbiguous
<1>1. IdentityInv => RefusedOnlyIfAmbiguous
  BY DEF IdentityInv
<1> QED
  BY <1>1, IdentityInvariance, PTL

\* No import, committed or rolled back, changes a mapping that is in use.
THEOREM ImportsLeaveMappings == Spec => EnabledMappingsStay
<1> DEFINE Stays == stage # "idle" => \A i \in DOMAIN mappings : Enabled(i) =>
                      i \in DOMAIN mappings' /\ mappings'[i] = mappings[i]
<1>1. IdentityInv /\ [Next]_vars => [Stays]_vars
  <2> SUFFICES ASSUME IdentityInv, Next, stage # "idle" PROVE Stays
    OBVIOUS
  <2>1. CASE Commit
    <3>1. DOMAIN mappings \subseteq DOMAIN mappings'
      BY <2>1 DEF Commit
    <3> QED
      BY <2>1, <3>1, CommitMaps
  <2>2. CASE Rollback
    <3>1. mappings' = mappings
      BY <2>2 DEF Rollback, IdentityInv, SavedInv
    <3> QED
      BY <3>1
  <2>3. CASE ~Commit /\ ~Rollback
    <3>1. mappings' = mappings
      BY <2>3 DEF Next, BeginImport, ImportLot, BeginPrices, ImportPrice, CloseMissing, ImportTrade,
           SetMapping, ReadInstrument, WriteBack, Upgrade, Downgrade, Edit, Idle, tables,
           IdentityInv, SymbolsInv
    <3> QED
      BY <3>1
  <2> QED
    BY <2>1, <2>2, <2>3
<1> QED
  BY <1>1, IdentityInvariance, PTL DEF Spec, EnabledMappingsStay

\* A migration to keys that stay apart, and that keep each row's symbol.
LEMMA MigratedHoldings ==
  ASSUME IdentityInv, NEW to, OneToOne(to), NEW rows, Migrate(to, rows),
         \A i \in DOMAIN instruments : rows[to[i]].symbol = instruments[i].symbol
  PROVE  /\ Holdings' = Holdings
         /\ Cardinality(DOMAIN positions') = Cardinality(DOMAIN positions)
<1> DEFINE q(p) == <<p[1], to[p[2]]>>
<1>1. Typed(instruments, identifiers, positions, mappings, means) /\ instruments' = rows
  BY DEF IdentityInv, TablesInv, Migrate
<1>2. /\ DOMAIN positions' = {q(p) : p \in DOMAIN positions}
      /\ \A p \in DOMAIN positions : positions'[q(p)] = positions[p]
      /\ Cardinality(DOMAIN positions') = Cardinality(DOMAIN positions)
  BY <1>1, RekeyedPositions
<1> DEFINE held(p)   == <<p[1], instruments[p[2]].symbol, positions[p]>>
           rekept(p) == <<p[1], instruments'[p[2]].symbol, positions'[p]>>
<1>3. ASSUME NEW p \in DOMAIN positions PROVE rekept(q(p)) = held(p)
  <2>1. p[2] \in DOMAIN instruments
    BY <1>1 DEF Typed
  <2>2. q(p)[1] = p[1] /\ q(p)[2] = to[p[2]]
    OBVIOUS
  <2> QED
    BY <1>1, <1>2, <2>1, <2>2
<1>4. Holdings' = {rekept(p) : p \in DOMAIN positions'} /\ Holdings = {held(p) : p \in DOMAIN positions}
  BY DEF Holdings
<1> HIDE DEF held, rekept, q
<1>5. {rekept(p) : p \in DOMAIN positions'} = {held(p) : p \in DOMAIN positions}
  BY <1>2, <1>3
<1> QED
  BY <1>2, <1>4, <1>5

\* The migration to instrument ids and its inverse keep every position row, of
\* the same account and symbol and open or closed as before: no two positions
\* are ever given one key.
THEOREM MigrationsKeepHoldings == Spec => MigrationsKeepPositions
<1> DEFINE Kept == schema' # schema =>
              /\ Holdings' = Holdings
              /\ Cardinality(DOMAIN positions') = Cardinality(DOMAIN positions)
<1>1. IdentityInv /\ [Next]_vars => [Kept]_vars
  <2> SUFFICES ASSUME IdentityInv, Next, schema' # schema PROVE Kept
    OBVIOUS
  <2>1. Upgrade \/ Downgrade
    BY DEF Next, BeginImport, ImportLot, BeginPrices, ImportPrice, CloseMissing, ImportTrade, Commit,
           Rollback, SetMapping, ReadInstrument, WriteBack
  <2>2. CASE Upgrade
    <3> DEFINE rows == [k \in {instruments[i] : i \in DOMAIN instruments} |-> k]
    <3>1. OneToOne(instruments) /\ Migrate(instruments, rows)
      BY <2>2, UpgradeKeys
    <3>2. \A i \in DOMAIN instruments : rows[instruments[i]] = instruments[i]
      OBVIOUS
    <3> HIDE DEF rows
    <3> QED
      BY <3>1, <3>2, MigratedHoldings
  <2>3. CASE Downgrade
    <3> DEFINE to   == [i \in DOMAIN instruments |-> instruments[i].symbol]
               rows == [k \in {to[i] : i \in DOMAIN to} |-> [symbol |-> k, venue |-> ""]]
    <3>1. OneToOne(to) /\ Migrate(to, rows)
      BY <2>3, DowngradeKeys
    <3>2. \A i \in DOMAIN instruments : rows[to[i]].symbol = instruments[i].symbol
      OBVIOUS
    <3> HIDE DEF to, rows
    <3> QED
      BY <3>1, <3>2, MigratedHoldings
  <2> QED
    BY <2>1, <2>2, <2>3
<1> QED
  BY <1>1, IdentityInvariance, PTL DEF Spec, MigrationsKeepPositions
=============================================================================
