-------------------------- MODULE InstrumentIdentity --------------------------
(***************************************************************************)
(* Which instrument a broker's report is about (db/repositories.py): the   *)
(* rows of `instruments' and `instrument_identifiers', the positions and   *)
(* market-data mappings that hang on them, and the migration that gave     *)
(* instruments ids of their own (alembic 0006).  A report describes an     *)
(* instrument by its listing and by whatever identifiers it has; listings  *)
(* change, identifiers may be absent, and nothing says which security is   *)
(* really meant.                                                           *)
(*                                                                         *)
(* One import runs at a time (their interleaving is that of PortfolioJobs) *)
(* but a refresh may read an instrument before it and write it back after. *)
(***************************************************************************)
EXTENDS Integers, FiniteSets, Sequences, SequencesExt

CONSTANTS
  Accounts,
  Listings,    \* [symbol, venue], of one asset class and currency
  Plain,       \* the listings a default mapping is seeded for
  Statements,  \* [accounts, held, trades]: what a broker may report
  Legacy,      \* the lots of the database before the migration
  None,
  MaxImports,  \* bound: imports
  MaxEdits     \* bound: mappings entered, migrations undone, refreshes

\* A lot names an account, a listing, identifiers of distinct kinds, and, for
\* the properties alone, the security it is about.
LotsOf(statement) == ToSet(statement.held) \cup ToSet(statement.trades)
Lots == (UNION {LotsOf(s) : s \in Statements}) \cup Legacy

Bare(l) == [symbol |-> l.symbol, venue |-> ""]

\* One security, and one identifier of a kind, as a lot is read.
IsLot(l) ==
  /\ l = [account |-> l.account, listing |-> l.listing, names |-> l.names, of |-> l.of]
  /\ l.account \in Accounts /\ l.listing \in Listings
  /\ \A n, m \in l.names : n.kind = m.kind => n = m
  /\ \E security \in l.of : l.of = {security}

ASSUME IdentityAssumption ==
  /\ \A l \in Lots : IsLot(l)
  /\ IsFiniteSet(Legacy)
  /\ \A l \in Legacy : l.listing = Bare(l.listing) /\ l.names = {}
  /\ \A s \in Statements : /\ s.held \in Seq(Lots) /\ s.trades \in Seq(Lots)
                           /\ {l.account : l \in LotsOf(s)} \subseteq s.accounts
  /\ \A l \in Listings : Bare(l) \in Listings /\ l # None
  /\ MaxImports \in Nat /\ MaxEdits \in Nat

VARIABLES
  schema,      \* "symbols" before the migration, "instruments" after it
  instruments, \* the listing of each row, by its key
  identifiers, \* the key of the row each provider identifier belongs to
  positions,   \* whether each row of (account, key) is open
  mappings,    \* the Yahoo mapping of each key: whose listing, whether enabled
  means,       \* history: the securities whose lots were resolved to a key
  stage, statement, todo, written, saved, \* the import and what it rolls back to
  read,        \* the instrument a refresh has read and will write back
  seen,        \* history: the lots reported
  refused,     \* history: an import or a refresh raised
  imports, edits

tables   == <<instruments, identifiers, positions, mappings, means>>
job      == <<stage, statement, todo, written, saved>>
counters == <<seen, refused, imports, edits>>
vars     == <<schema, tables, job, read, counters>>

Put(f, k, v) == [x \in DOMAIN f \cup {k} |-> IF x = k THEN v ELSE f[x]]
Get(f, k, v) == IF k \in DOMAIN f THEN f[k] ELSE v
Empty        == [x \in {} |-> None]
Kinds(names) == {n.kind : n \in names}

(***************************************************************************)
(* _resolve_instrument_record                                              *)
(***************************************************************************)
\* Mutant: the venue is no part of the listing.
Listed_BySymbol(l) == {i \in DOMAIN instruments : instruments[i].symbol = l.symbol}

Listed(l) == {i \in DOMAIN instruments : instruments[i] = l}

\* Mutant: a row is matched by all the identifiers of the lot or by none.
Matched_Every(known, lot) ==
  ({known} \cap DOMAIN instruments)
    \cup {i \in DOMAIN instruments :
            /\ lot.names # {}
            /\ \A n \in lot.names : n \in DOMAIN identifiers /\ identifiers[n] = i}

\* The rows the caller's id and the known identifiers lead to.
Matched(known, lot) ==
  ({known} \cap DOMAIN instruments)
    \cup {identifiers[n] : n \in lot.names \cap DOMAIN identifiers}

\* The row itself: matched, else listed, else new with an id made of the
\* listing (_canonical_instrument_id).
Resolved(known, lot) ==
  IF Matched(known, lot) # {} THEN Matched(known, lot)
  ELSE IF Listed(lot.listing) # {} THEN Listed(lot.listing)
  ELSE {lot.listing}

\* Mutant: a row keeps its listing.
Conflict_Relisted(known, lot) ==
  \/ \E i, j \in Resolved(known, lot) : i # j
  \/ \E i \in Resolved(known, lot) \cap DOMAIN instruments : instruments[i] # lot.listing

\* The identifiers name several rows, the id of a new row is taken by a row
\* that has another listing by now, or the listing is that of another row
\* (the unique constraints of `instruments').
Conflict(known, lot) ==
  \/ \E i, j \in Resolved(known, lot) : i # j
  \/ /\ Matched(known, lot) = {} /\ Listed(lot.listing) = {}
     /\ lot.listing \in DOMAIN instruments
  \/ \E i \in Resolved(known, lot) : Listed(lot.listing) \ {i} # {}

\* Mutant: a new value of a kind is added to the old one.
IdentifiersWith_Added(i, names) ==
  [n \in DOMAIN identifiers \cup names |-> IF n \in names THEN i ELSE identifiers[n]]

\* A row has one identifier of a kind: a new value replaces the old one.
IdentifiersWith(i, names) ==
  [n \in {m \in DOMAIN identifiers : identifiers[m] = i => m.kind \notin Kinds(names)}
           \cup names |->
     IF n \in names THEN i ELSE identifiers[n]]

Describe(i, lot) ==
  /\ instruments' = Put(instruments, i, lot.listing)
  /\ identifiers' = IdentifiersWith(i, lot.names)
  /\ means' = Put(means, i, Get(means, i, {}) \cup lot.of)

(***************************************************************************)
(* An import, one transaction (BrokerImportWorkflow)                       *)
(***************************************************************************)
Idle == stage = "idle" /\ schema = "instruments"

BeginImport ==
  /\ Idle /\ imports < MaxImports
  /\ \E s \in Statements :
       /\ statement' = s /\ todo' = s.held
       /\ seen' = seen \cup LotsOf(s)
  /\ stage' = "positions" /\ written' = <<>>
  /\ saved' = [instruments |-> instruments, identifiers |-> identifiers,
               positions |-> positions, mappings |-> mappings, means |-> means]
  /\ imports' = imports + 1
  /\ UNCHANGED <<schema, tables, read, refused, edits>>

\* The row i as _instrument_from_record and _instrument_identifiers read it.
AsRead(i) == [id |-> i, listing |-> instruments[i],
              names |-> {n \in DOMAIN identifiers : identifiers[n] = i},
              of |-> means[i]]

\* upsert_broker_position
ImportLot ==
  /\ stage = "positions" /\ todo # <<>>
  /\ ~Conflict(None, Head(todo))
  /\ \E i \in Resolved(None, Head(todo)) :
       /\ Describe(i, Head(todo))
       /\ positions' = Put(positions, <<Head(todo).account, i>>, TRUE)
       /\ written' = Append(written, [account |-> Head(todo).account, row |-> AsRead(i)'])
  /\ todo' = Tail(todo)
  /\ UNCHANGED <<schema, mappings, stage, statement, saved, read, counters>>

\* PriceRepository.upsert of a priced position describes the instrument once
\* more, as it was when the position was written.
BeginPrices ==
  /\ stage = "positions" /\ todo = <<>>
  /\ stage' = "prices" /\ todo' = [k \in DOMAIN written |-> written[k].row]
  /\ UNCHANGED <<schema, tables, statement, written, saved, read, counters>>

ImportPrice ==
  /\ stage = "prices" /\ todo # <<>>
  /\ \/ /\ ~Conflict(Head(todo).id, Head(todo))
        /\ \E i \in Resolved(Head(todo).id, Head(todo)) : Describe(i, Head(todo))
     \/ UNCHANGED <<instruments, identifiers, means>>
  /\ todo' = Tail(todo)
  /\ UNCHANGED <<schema, positions, mappings, stage, statement, written, saved, read,
                 counters>>

\* close_positions_missing_from_snapshot
CloseMissing ==
  /\ stage = "prices" /\ todo = <<>>
  /\ positions' = [p \in DOMAIN positions |->
       /\ positions[p]
       /\ p[1] \in statement.accounts =>
            \E w \in ToSet(written) : p = <<w.account, w.row.id>>]
  /\ stage' = "trades" /\ todo' = statement.trades
  /\ UNCHANGED <<schema, instruments, identifiers, mappings, means, statement, written,
                 saved, read, counters>>

\* TransactionRepository.upsert
ImportTrade ==
  /\ stage = "trades" /\ todo # <<>>
  /\ ~Conflict(None, Head(todo))
  /\ \E i \in Resolved(None, Head(todo)) : Describe(i, Head(todo))
  /\ todo' = Tail(todo)
  /\ UNCHANGED <<schema, positions, mappings, stage, statement, written, saved, read,
                 counters>>

\* seed_default_yahoo_mappings: the first plain listing written of each
\* instrument that has no enabled mapping.
Enabled(i) == i \in DOMAIN mappings /\ mappings[i].enabled

\* Mutant: the mappings that exist are not looked up.
Seeds_All == {k \in DOMAIN written : written[k].row.listing \in Plain}

Seeds ==
  {k \in DOMAIN written :
     /\ written[k].row.listing \in Plain
     /\ ~Enabled(written[k].row.id)
     /\ \A l \in 1 .. k - 1 : ~(/\ written[l].row.id = written[k].row.id
                                /\ written[l].row.listing \in Plain)}

Commit ==
  /\ stage = "trades" /\ todo = <<>>
  /\ mappings' = [i \in DOMAIN mappings \cup {written[k].row.id : k \in Seeds} |->
       IF \E k \in Seeds : written[k].row.id = i
       THEN [listing |-> written[CHOOSE k \in Seeds : written[k].row.id = i].row.listing,
             enabled |-> TRUE]
       ELSE mappings[i]]
  /\ stage' = "idle" /\ written' = <<>>
  /\ UNCHANGED <<schema, instruments, identifiers, positions, means, statement, todo,
                 saved, read, counters>>

\* The exception ends the transaction.
Rollback ==
  /\ todo # <<>>
  /\ Conflict(IF stage = "prices" THEN Head(todo).id ELSE None, Head(todo))
  /\ instruments' = saved.instruments /\ identifiers' = saved.identifiers
  /\ positions' = saved.positions /\ mappings' = saved.mappings
  /\ means' = saved.means
  /\ stage' = "idle" /\ todo' = <<>> /\ written' = <<>>
  /\ refused' = TRUE
  /\ UNCHANGED <<schema, statement, saved, read, seen, imports, edits>>

(***************************************************************************)
(* Other writers                                                           *)
(***************************************************************************)
Edit == Idle /\ edits < MaxEdits /\ edits' = edits + 1

\* A row of the mapping CSV; None stands for the symbol a user chose.
SetMapping ==
  /\ Edit
  /\ \E i \in DOMAIN instruments, on \in BOOLEAN :
       mappings' = Put(mappings, i, [listing |-> None, enabled |-> on])
  /\ UNCHANGED <<schema, instruments, identifiers, positions, means, job, read,
                 seen, refused, imports>>

\* A refresh loads an open position ...
ReadInstrument ==
  /\ Edit /\ read = None
  /\ \E p \in DOMAIN positions : positions[p] /\ read' = AsRead(p[2])
  /\ UNCHANGED <<schema, tables, job, seen, refused, imports>>

\* ... and writes it, or its price, with the instrument it read.
WriteBack ==
  /\ Idle /\ read # None
  /\ IF Conflict(read.id, read)
     THEN refused' = TRUE /\ UNCHANGED <<instruments, identifiers, means>>
     ELSE /\ \E i \in Resolved(read.id, read) : Describe(i, read)
          /\ UNCHANGED refused
  /\ read' = None
  /\ UNCHANGED <<schema, positions, mappings, job, seen, imports, edits>>

(***************************************************************************)
(* The migration and its inverse                                           *)
(***************************************************************************)
Rekeyed(f, to) == [k \in {to[i] : i \in DOMAIN f} |-> f[CHOOSE i \in DOMAIN f : to[i] = k]]

Migrate(to, rows) ==
  /\ instruments' = rows
  /\ means' = Rekeyed(means, to)
  /\ positions' = [q \in {<<p[1], to[p[2]]>> : p \in DOMAIN positions} |->
       \E p \in DOMAIN positions : q = <<p[1], to[p[2]]>> /\ positions[p]]
  /\ identifiers' = Empty /\ mappings' = Empty
  /\ UNCHANGED <<job, read, refused, imports>>

\* upgrade: each symbol gets the id of its listing without a venue.
Upgrade ==
  /\ schema = "symbols" /\ schema' = "instruments"
  /\ LET to == instruments
     IN  Migrate(to, [k \in {to[i] : i \in DOMAIN to} |-> k])
  /\ UNCHANGED <<seen, edits>>

\* Mutant: the downgrade does not look for duplicate symbols.
OneOfASymbol_Any == TRUE

OneOfASymbol ==
  \A i, j \in DOMAIN instruments : instruments[i].symbol = instruments[j].symbol => i = j

\* downgrade: venues and identifiers are gone, and so is what they told apart.
Downgrade ==
  /\ Edit /\ read = None
  /\ OneOfASymbol
  /\ schema' = "symbols"
  /\ LET to == [i \in DOMAIN instruments |-> instruments[i].symbol]
     IN  Migrate(to, [k \in {to[i] : i \in DOMAIN to} |-> [symbol |-> k, venue |-> ""]])
  /\ seen' = seen \cup {[lot EXCEPT !.listing = Bare(lot.listing), !.names = {}] : lot \in seen}

Init ==
  /\ schema = "symbols"
  /\ \E rows \in SUBSET Legacy :
       /\ seen = rows
       /\ instruments = [k \in {l.listing.symbol : l \in rows} |-> [symbol |-> k, venue |-> ""]]
       /\ means = [k \in {l.listing.symbol : l \in rows} |->
                     UNION {l.of : l \in {m \in rows : m.listing.symbol = k}}]
       /\ positions = [p \in {<<l.account, l.listing.symbol>> : l \in rows} |-> TRUE]
  /\ identifiers = Empty /\ mappings = Empty
  /\ stage = "idle" /\ todo = <<>> /\ written = <<>>
  /\ statement = None /\ saved = None /\ read = None
  /\ refused = FALSE /\ imports = 0 /\ edits = 0

Next == \/ BeginImport \/ ImportLot \/ BeginPrices \/ ImportPrice \/ CloseMissing
        \/ ImportTrade \/ Commit \/ Rollback
        \/ SetMapping \/ ReadInstrument \/ WriteBack
        \/ Upgrade \/ Downgrade

Spec == Init /\ [][Next]_vars

(***************************************************************************)
(* Properties                                                              *)
(***************************************************************************)
\* Two securities were reported under one listing or one identifier.
Ambiguous == \E l, m \in seen :
               /\ l.of # m.of
               /\ l.listing = m.listing \/ l.names \cap m.names # {}

\* All reports of one security share a listing, or share an identifier.
Steady == \A of \in {l.of : l \in seen} :
            LET its == {l \in seen : l.of = of} IN
            \/ \E l \in its : \A m \in its : m.listing = l.listing
            \/ \E l \in its : \E n \in l.names : \A m \in its : n \in m.names

\* The tables' foreign keys hold, and a row has one identifier of a kind.
TypeOK ==
  /\ schema \in {"symbols", "instruments"}
  /\ stage \in {"idle", "positions", "prices", "trades"}
  /\ \A i \in DOMAIN instruments : instruments[i] \in Listings
  /\ DOMAIN means = DOMAIN instruments
  /\ \A n \in DOMAIN identifiers : identifiers[n] \in DOMAIN instruments
  /\ \A n, m \in DOMAIN identifiers :
       n.kind = m.kind /\ identifiers[n] = identifiers[m] => n = m
  /\ \A p \in DOMAIN positions : p[1] \in Accounts /\ p[2] \in DOMAIN instruments
  /\ DOMAIN mappings \subseteq DOMAIN instruments
  /\ refused \in BOOLEAN
  /\ imports \in 0 .. MaxImports /\ edits \in 0 .. MaxEdits

\* However often a security is relisted or renamed, a row never mixes two
\* securities as long as no two were reported alike: its id, its listing,
\* each identifier and a seeded mapping were all reported of the one it means.
Of(i, fact(_)) == \E l \in seen : l.of = means[i] /\ fact(l)

OneSecurityPerInstrument ==
  schema = "instruments" /\ ~Ambiguous =>
    \A i \in DOMAIN instruments :
      /\ Of(i, LAMBDA l : l.listing = i)
      /\ Of(i, LAMBDA l : l.listing = instruments[i])
      /\ \A n \in DOMAIN identifiers :
           identifiers[n] = i => Of(i, LAMBDA l : n \in l.names)
      /\ i \in DOMAIN mappings /\ mappings[i].listing # None =>
           Of(i, LAMBDA l : l.listing = mappings[i].listing)

\* A security is never split over two rows (its history, its manual cost and
\* its mapping with it) as long as its reports have something in common.
OneInstrumentPerSecurity ==
  ~Ambiguous /\ Steady =>
    \A i, j \in DOMAIN instruments : means[i] \cap means[j] # {} => i = j

\* An import or a refresh is refused only over reports that contradict each
\* other: never for what came before it, or for its own order of lots.
RefusedOnlyIfAmbiguous == refused => Ambiguous \/ ~Steady

\* No import, committed or rolled back, changes a mapping that is in use.
EnabledMappingsStay ==
  [][stage # "idle" =>
       \A i \in DOMAIN mappings : Enabled(i) => i \in DOMAIN mappings' /\ mappings'[i] = mappings[i]]_vars

\* The migration and its inverse keep every position row, of the same account
\* and symbol and open or closed as before.
Holdings == {<<p[1], instruments[p[2]].symbol, positions[p]>> : p \in DOMAIN positions}

MigrationsKeepPositions ==
  [][schema' # schema =>
       /\ Holdings' = Holdings
       /\ Cardinality(DOMAIN positions') = Cardinality(DOMAIN positions)]_vars

\* Listings that one statement tells apart are different instruments
\* (docs/2026-07-15-real-portfolio-mvp-design-and-plan.md:240).
ListingsCoexist ==
  \A v, w \in ToSet(written) : v.row.listing # w.row.listing => v.row.id # w.row.id
=============================================================================
