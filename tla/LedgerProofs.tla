----------------------------- MODULE LedgerProofs -----------------------------
(***************************************************************************)
(* What the ledger is worth to its readers, for every market.  First what  *)
(* sums over finite sets are: a fold is a recursive function, so its       *)
(* existence and its equations are shown by induction on the cardinality,  *)
(* as the absence of a smallest counterexample.                            *)
(***************************************************************************)
EXTENDS PortfolioReads, FiniteSetTheorems, NaturalsInduction, TLAPS

\* A set of numbers that holds zero and every successor holds every number.
LEMMA CountUp ==
  ASSUME NEW N, 0 \in N, \A n \in Nat : n \in N => n + 1 \in N
  PROVE  Nat \subseteq N
<1> SUFFICES ASSUME Nat \ N # {} PROVE FALSE
  OBVIOUS
<1>1. PICK n \in Nat \ N : \A m \in Nat \ N : ~(<<m, n>> \in OpToRel(<, Nat))
  BY NatLessThanWellFounded, WFMin
<1>2. \A m \in Nat \ N : ~(m < n)
  BY <1>1 DEF OpToRel
<1>3. n # 0 /\ n - 1 \in Nat /\ n - 1 \in N
  BY <1>2
<1> QED
  BY <1>3

-----------------------------------------------------------------------------
(* Sums.                                                                   *)

Picked(s) == CHOOSE x \in s : TRUE

\* A function that sums f over the subsets of S with at most n elements.
SumsTo(g, f, S, n) ==
  /\ DOMAIN g = SUBSET S
  /\ \A s \in SUBSET S : Cardinality(s) <= n =>
       g[s] = IF s = {} THEN 0 ELSE f[Picked(s)] + g[s \ {Picked(s)}]

Adds(g, f, S) ==
  g = [s \in SUBSET S |-> IF s = {} THEN 0 ELSE f[Picked(s)] + g[s \ {Picked(s)}]]

Adder(f, S) == CHOOSE g : Adds(g, f, S)

LEMMA PickedIsMember ==
  ASSUME NEW s, s # {}
  PROVE  Picked(s) \in s
BY DEF Picked

LEMMA SumIsAdded ==
  ASSUME NEW f, NEW S
  PROVE  SumFunctionOnSet(f, S) = Adder(f, S)[S]
BY Zenon DEF SumFunctionOnSet, FoldFunctionOnSet, MapThenFoldSet, Adder, Adds, Picked

LEMMA SumsExist ==
  ASSUME NEW f, NEW S, IsFiniteSet(S)
  PROVE  Adds(Adder(f, S), f, S)
<1> DEFINE N == {n \in Nat : \E g : SumsTo(g, f, S, n)}
<1>0. \A s \in SUBSET S : IsFiniteSet(s) /\ Cardinality(s) \in Nat /\ Cardinality(s) <= Cardinality(S)
  BY FS_Subset, FS_CardinalityType
<1>1. 0 \in N
  <2>1. SumsTo([s \in SUBSET S |-> 0], f, S, 0)
    <3>1. \A s \in SUBSET S : Cardinality(s) <= 0 => s = {}
      BY <1>0, FS_EmptySet
    <3> QED
      BY <3>1 DEF SumsTo
  <2> QED
    BY <2>1
<1>2. ASSUME NEW n \in Nat, n \in N PROVE n + 1 \in N
  <2>1. PICK g : SumsTo(g, f, S, n)
    BY <1>2
  <2> DEFINE h == [s \in SUBSET S |-> IF Cardinality(s) <= n THEN g[s]
                                      ELSE f[Picked(s)] + g[s \ {Picked(s)}]]
  <2>2. ASSUME NEW s \in SUBSET S, Cardinality(s) <= n + 1
        PROVE  h[s] = IF s = {} THEN 0 ELSE f[Picked(s)] + h[s \ {Picked(s)}]
    <3>1. CASE s = {}
      <4>1. Cardinality(s) = 0
        BY <3>1, FS_EmptySet
      <4> QED
        BY <2>1, <3>1, <4>1 DEF SumsTo
    <3>2. CASE s # {}
      <4>1. Picked(s) \in s
        BY <3>2, PickedIsMember
      <4>2. s \ {Picked(s)} \in SUBSET S /\ Cardinality(s \ {Picked(s)}) = Cardinality(s) - 1
        BY <1>0, <4>1, FS_RemoveElement
      <4>3. Cardinality(s) \in Nat
        BY <1>0
      <4>4. h[s \ {Picked(s)}] = g[s \ {Picked(s)}]
        BY <2>2, <4>2, <4>3
      <4>5. h[s] = f[Picked(s)] + g[s \ {Picked(s)}]
        BY <2>1, <2>2, <3>2, <4>3 DEF SumsTo
      <4> QED
        BY <3>2, <4>4, <4>5
    <3> QED
      BY <3>1, <3>2
  <2>3. SumsTo(h, f, S, n + 1)
    BY <2>2 DEF SumsTo
  <2> QED
    BY <2>3
<1>3. Cardinality(S) \in N
  BY <1>0, <1>1, <1>2, CountUp
<1>4. PICK g : SumsTo(g, f, S, Cardinality(S))
  BY <1>3
<1>5. \E h : Adds(h, f, S)
  <2> DEFINE h == [s \in SUBSET S |-> g[s]]
  <2>1. \A s \in SUBSET S : g[s] = IF s = {} THEN 0 ELSE f[Picked(s)] + g[s \ {Picked(s)}]
    BY <1>0, <1>4 DEF SumsTo
  <2>2. \A s \in SUBSET S : s \ {Picked(s)} \in SUBSET S
    OBVIOUS
  <2>3. h = [s \in SUBSET S |-> IF s = {} THEN 0 ELSE f[Picked(s)] + h[s \ {Picked(s)}]]
    BY <2>1, <2>2
  <2> QED
    BY <2>3 DEF Adds
<1> QED
  BY <1>5, Zenon DEF Adder

LEMMA OneLess ==
  ASSUME NEW T, IsFiniteSet(T), NEW x \in T, NEW n \in Nat, Cardinality(T) = n + 1
  PROVE  IsFiniteSet(T \ {x}) /\ Cardinality(T \ {x}) = n
<1>1. Cardinality(T \ {x}) = Cardinality(T) - 1 /\ IsFiniteSet(T \ {x})
  BY FS_RemoveElement
<1> QED
  BY <1>1

\* Sets of subsets of a finite set: one that holds the empty set, and with
\* a set any other with one element more, holds the whole.
LEMMA GrowUp ==
  ASSUME NEW S, IsFiniteSet(S), NEW Q, {} \in Q,
         \A T \in SUBSET S, x \in S : T \in Q /\ x \notin T => T \cup {x} \in Q
  PROVE  S \in Q
<1> DEFINE N == {n \in Nat : \A T \in SUBSET S : Cardinality(T) = n => T \in Q}
<1>1. \A T \in SUBSET S : IsFiniteSet(T)
  BY FS_Subset
<1>2. 0 \in N
  BY <1>1, FS_EmptySet
<1>3. ASSUME NEW n \in Nat, n \in N PROVE n + 1 \in N
  <2> SUFFICES ASSUME NEW T \in SUBSET S, Cardinality(T) = n + 1 PROVE T \in Q
    OBVIOUS
  <2>1. PICK x : x \in T
    BY FS_EmptySet
  <2>2. T \ {x} \in SUBSET S /\ Cardinality(T \ {x}) = n
    BY <1>1, <2>1, OneLess
  <2>3. T \ {x} \in Q
    BY <1>3, <2>2
  <2>4. T = (T \ {x}) \cup {x} /\ x \in S /\ x \notin T \ {x}
    BY <2>1
  <2> QED
    BY <2>2, <2>3, <2>4
<1>4. Cardinality(S) \in Nat
  BY FS_CardinalityType
<1> HIDE DEF N
<1>5. Cardinality(S) \in N
  BY <1>2, <1>3, <1>4, CountUp
<1> QED
  BY <1>4, <1>5 DEF N

LEMMA AdderStep ==
  ASSUME NEW f, NEW S, IsFiniteSet(S), NEW T \in SUBSET S
  PROVE  Adder(f, S)[T] = IF T = {} THEN 0
                          ELSE f[Picked(T)] + Adder(f, S)[T \ {Picked(T)}]
<1> DEFINE g == Adder(f, S)
<1>1. g = [s \in SUBSET S |-> IF s = {} THEN 0 ELSE f[Picked(s)] + g[s \ {Picked(s)}]]
  <2>1. Adds(g, f, S)
    BY SumsExist
  <2> HIDE DEF g
  <2> QED
    BY <2>1, Zenon DEF Adds
<1> HIDE DEF g
<1>2. g[T] = IF T = {} THEN 0 ELSE f[Picked(T)] + g[T \ {Picked(T)}]
  BY <1>1
<1> QED
  BY <1>2 DEF g

\* What is added up depends on the elements alone.
LEMMA AddersAgree ==
  ASSUME NEW f, NEW S, IsFiniteSet(S), NEW g, NEW U, IsFiniteSet(U),
         NEW T, T \subseteq S, T \subseteq U, \A x \in T : f[x] = g[x]
  PROVE  Adder(f, S)[T] = Adder(g, U)[T]
<1> DEFINE Same(s) == Adder(f, S)[s] = Adder(g, U)[s]
           N == {n \in Nat : \A s \in SUBSET T : Cardinality(s) = n => Same(s)}
<1>0. IsFiniteSet(T) /\ Cardinality(T) \in Nat
  BY FS_Subset, FS_CardinalityType
<1>1. \A s \in SUBSET T : IsFiniteSet(s)
  BY <1>0, FS_Subset
<1>2. 0 \in N
  <2> SUFFICES ASSUME NEW s \in SUBSET T, Cardinality(s) = 0 PROVE Same(s)
    OBVIOUS
  <2>1. s = {}
    BY <1>1, FS_EmptySet
  <2>2. s \in SUBSET S /\ s \in SUBSET U
    OBVIOUS
  <2> QED
    BY <2>1, <2>2, AdderStep
<1>3. ASSUME NEW n \in Nat, n \in N PROVE n + 1 \in N
  <2> SUFFICES ASSUME NEW s \in SUBSET T, Cardinality(s) = n + 1 PROVE Same(s)
    OBVIOUS
  <2>1. s # {}
    BY FS_EmptySet
  <2>2. Picked(s) \in s
    BY <2>1, PickedIsMember
  <2>3. Cardinality(s \ {Picked(s)}) = n
    BY <1>1, <2>2, OneLess
  <2>4. Same(s \ {Picked(s)})
    BY <1>3, <2>3
  <2>5. f[Picked(s)] = g[Picked(s)]
    BY <2>2
  <2>6. s \in SUBSET S /\ s \in SUBSET U
    OBVIOUS
  <2>7. Adder(f, S)[s] = f[Picked(s)] + Adder(f, S)[s \ {Picked(s)}]
    BY <2>1, <2>6, AdderStep
  <2>8. Adder(g, U)[s] = g[Picked(s)] + Adder(g, U)[s \ {Picked(s)}]
    BY <2>1, <2>6, AdderStep
  <2> QED
    BY <2>4, <2>5, <2>7, <2>8
<1> HIDE DEF N, Same
<1>4. Cardinality(T) \in N
  BY <1>0, <1>2, <1>3, CountUp
<1> QED
  BY <1>4 DEF N, Same

LEMMA SumsAgree ==
  ASSUME NEW f, NEW g, NEW S, IsFiniteSet(S), \A x \in S : f[x] = g[x]
  PROVE  SumFunctionOnSet(f, S) = SumFunctionOnSet(g, S)
BY SumIsAdded, AddersAgree

LEMMA SumOfNothing ==
  ASSUME NEW f
  PROVE  SumFunctionOnSet(f, {}) = 0
BY SumIsAdded, AdderStep, FS_EmptySet

LEMMA SumStep ==
  ASSUME NEW f, NEW S, IsFiniteSet(S), S # {}
  PROVE  SumFunctionOnSet(f, S) = f[Picked(S)] + SumFunctionOnSet(f, S \ {Picked(S)})
<1>1. IsFiniteSet(S \ {Picked(S)}) /\ S \ {Picked(S)} \subseteq S
  BY FS_RemoveElement
<1>2. Adder(f, S)[S] = f[Picked(S)] + Adder(f, S)[S \ {Picked(S)}]
  BY AdderStep
<1>3. Adder(f, S)[S \ {Picked(S)}] = Adder(f, S \ {Picked(S)})[S \ {Picked(S)}]
  BY <1>1, AddersAgree
<1> QED
  BY <1>2, <1>3, SumIsAdded

LEMMA SumIsInt ==
  ASSUME NEW f, NEW S, IsFiniteSet(S), \A x \in S : f[x] \in Int
  PROVE  SumFunctionOnSet(f, S) \in Int
<1> DEFINE Typed(T) == SumFunctionOnSet(f, T) \in Int
           N == {n \in Nat : \A T \in SUBSET S : Cardinality(T) = n => Typed(T)}
<1>0. Cardinality(S) \in Nat
  BY FS_CardinalityType
<1>1. \A T \in SUBSET S : IsFiniteSet(T)
  BY FS_Subset
<1>2. 0 \in N
  BY <1>1, FS_EmptySet, SumOfNothing
<1>3. ASSUME NEW n \in Nat, n \in N PROVE n + 1 \in N
  <2> SUFFICES ASSUME NEW T \in SUBSET S, Cardinality(T) = n + 1 PROVE Typed(T)
    OBVIOUS
  <2>1. T # {} /\ IsFiniteSet(T)
    BY <1>1, FS_EmptySet
  <2>2. Picked(T) \in T
    BY <2>1, PickedIsMember
  <2>3. Cardinality(T \ {Picked(T)}) = n
    BY <2>1, <2>2, OneLess
  <2>4. Typed(T \ {Picked(T)})
    BY <1>3, <2>3
  <2>5. f[Picked(T)] \in Int
    BY <2>2
  <2> QED
    BY <2>1, <2>4, <2>5, SumStep
<1> HIDE DEF N, Typed
<1>4. Cardinality(S) \in N
  BY <1>0, <1>2, <1>3, CountUp
<1> QED
  BY <1>4 DEF N, Typed

\* Any element may be added last.
LEMMA SumWithout ==
  ASSUME NEW f, NEW S, IsFiniteSet(S), \A x \in S : f[x] \in Int, NEW y \in S
  PROVE  SumFunctionOnSet(f, S) = f[y] + SumFunctionOnSet(f, S \ {y})
<1> DEFINE AnyLast(T) == \A x \in T :
             SumFunctionOnSet(f, T) = f[x] + SumFunctionOnSet(f, T \ {x})
           N == {n \in Nat : \A T \in SUBSET S : Cardinality(T) = n => AnyLast(T)}
<1>0. Cardinality(S) \in Nat
  BY FS_CardinalityType
<1>1. \A T \in SUBSET S : IsFiniteSet(T) /\ SumFunctionOnSet(f, T) \in Int
  BY FS_Subset, SumIsInt
<1>2. 0 \in N
  BY <1>1, FS_EmptySet
<1>3. ASSUME NEW n \in Nat, n \in N PROVE n + 1 \in N
  <2> SUFFICES ASSUME NEW T \in SUBSET S, Cardinality(T) = n + 1, NEW x \in T
               PROVE  SumFunctionOnSet(f, T) = f[x] + SumFunctionOnSet(f, T \ {x})
    OBVIOUS
  <2> DEFINE p == Picked(T)
  <2>1. IsFiniteSet(T) /\ T # {} /\ p \in T
    BY <1>1, PickedIsMember
  <2>2. SumFunctionOnSet(f, T) = f[p] + SumFunctionOnSet(f, T \ {p})
    BY <2>1, SumStep
  <2> HIDE DEF p
  <2>3. CASE x = p
    BY <2>2, <2>3
  <2>4. CASE x # p
    <3>1. /\ Cardinality(T \ {p}) = n /\ x \in T \ {p}
          /\ Cardinality(T \ {x}) = n /\ p \in T \ {x}
      BY <2>1, <2>4, OneLess
    <3>2. SumFunctionOnSet(f, T \ {p}) = f[x] + SumFunctionOnSet(f, (T \ {p}) \ {x})
      BY <1>3, <3>1
    <3>3. SumFunctionOnSet(f, T \ {x}) = f[p] + SumFunctionOnSet(f, (T \ {x}) \ {p})
      BY <1>3, <3>1
    <3>4. (T \ {x}) \ {p} = (T \ {p}) \ {x}
      OBVIOUS
    <3>5. f[x] \in Int /\ f[p] \in Int /\ SumFunctionOnSet(f, (T \ {p}) \ {x}) \in Int
      BY <1>1, <2>1
    <3>6. SumFunctionOnSet(f, T \ {x}) = f[p] + SumFunctionOnSet(f, (T \ {p}) \ {x})
      BY <3>3, <3>4
    <3> QED
      BY <2>2, <3>2, <3>5, <3>6
  <2> QED
    BY <2>3, <2>4
<1> HIDE DEF N, AnyLast
<1>4. Cardinality(S) \in N
  BY <1>0, <1>2, <1>3, CountUp
<1> QED
  BY <1>4 DEF N, AnyLast

LEMMA SumWith ==
  ASSUME NEW f, NEW S, IsFiniteSet(S), NEW y, y \notin S, \A x \in S \cup {y} : f[x] \in Int
  PROVE  SumFunctionOnSet(f, S \cup {y}) = SumFunctionOnSet(f, S) + f[y]
<1>1. IsFiniteSet(S \cup {y}) /\ (S \cup {y}) \ {y} = S
  BY FS_AddElement
<1>2. SumFunctionOnSet(f, S \cup {y}) = f[y] + SumFunctionOnSet(f, (S \cup {y}) \ {y})
  BY <1>1, SumWithout
<1>3. SumFunctionOnSet(f, S) \in Int /\ f[y] \in Int
  BY SumIsInt
<1>4. SumFunctionOnSet(f, S \cup {y}) = f[y] + SumFunctionOnSet(f, S)
  BY <1>1, <1>2
<1> QED
  BY <1>3, <1>4

LEMMA SumJoin ==
  ASSUME NEW f, NEW S, IsFiniteSet(S), NEW T, IsFiniteSet(T), S \cap T = {},
         \A x \in S \cup T : f[x] \in Int
  PROVE  SumFunctionOnSet(f, S \cup T) = SumFunctionOnSet(f, S) + SumFunctionOnSet(f, T)
<1> DEFINE Q == {U \in SUBSET T :
             SumFunctionOnSet(f, S \cup U) = SumFunctionOnSet(f, S) + SumFunctionOnSet(f, U)}
<1>0. \A U \in SUBSET T : IsFiniteSet(U) /\ IsFiniteSet(S \cup U)
  BY FS_Subset, FS_Union
<1>1. {} \in Q
  <2>1. SumFunctionOnSet(f, S) \in Int /\ SumFunctionOnSet(f, {}) = 0 /\ S \cup {} = S
    BY SumIsInt, SumOfNothing
  <2> QED
    BY <2>1
<1>2. ASSUME NEW U \in SUBSET T, NEW y \in T, U \in Q, y \notin U
      PROVE  U \cup {y} \in Q
  <2>1. y \notin S \cup U /\ S \cup (U \cup {y}) = (S \cup U) \cup {y}
    BY <1>2
  <2>2. SumFunctionOnSet(f, (S \cup U) \cup {y}) = SumFunctionOnSet(f, S \cup U) + f[y]
    BY <1>0, <2>1, SumWith
  <2>3. SumFunctionOnSet(f, U \cup {y}) = SumFunctionOnSet(f, U) + f[y]
    BY <1>0, <1>2, SumWith
  <2>4. SumFunctionOnSet(f, S) \in Int /\ SumFunctionOnSet(f, U) \in Int /\ f[y] \in Int
    BY <1>0, SumIsInt
  <2>5. SumFunctionOnSet(f, S \cup U) = SumFunctionOnSet(f, S) + SumFunctionOnSet(f, U)
    BY <1>2
  <2>6. SumFunctionOnSet(f, S \cup (U \cup {y})) = SumFunctionOnSet(f, S \cup U) + f[y]
    BY <2>1, <2>2
  <2>7. SumFunctionOnSet(f, S \cup (U \cup {y}))
          = SumFunctionOnSet(f, S) + SumFunctionOnSet(f, U \cup {y})
    BY <2>3, <2>4, <2>5, <2>6
  <2> QED
    BY <2>7
<1> HIDE DEF Q
<1>3. T \in Q
  BY <1>1, <1>2, GrowUp
<1> QED
  BY <1>3 DEF Q

\* The elements may be renamed.
LEMMA SumRenamed ==
  ASSUME NEW f, NEW g, NEW h, NEW S, IsFiniteSet(S),
         \A x, y \in S : h[x] = h[y] => x = y, \A x \in S : f[h[x]] = g[x] /\ g[x] \in Int
  PROVE  SumFunctionOnSet(f, {h[x] : x \in S}) = SumFunctionOnSet(g, S)
<1> DEFINE Image(U) == {h[x] : x \in U}
           Q == {U \in SUBSET S : /\ IsFiniteSet(Image(U))
                                   /\ SumFunctionOnSet(f, Image(U)) = SumFunctionOnSet(g, U)}
<1>1. {} \in Q
  <2>1. Image({}) = {}
    OBVIOUS
  <2> QED
    BY <2>1, FS_EmptySet, SumOfNothing
<1>2. ASSUME NEW U \in SUBSET S, NEW y \in S, U \in Q, y \notin U
      PROVE  U \cup {y} \in Q
  <2>1. Image(U \cup {y}) = Image(U) \cup {h[y]} /\ h[y] \notin Image(U)
    BY <1>2
  <2>2. /\ IsFiniteSet(Image(U)) /\ \A z \in Image(U) \cup {h[y]} : f[z] \in Int
        /\ SumFunctionOnSet(f, Image(U)) = SumFunctionOnSet(g, U)
    BY <1>2
  <2>3. f[h[y]] = g[y]
    OBVIOUS
  <2> HIDE DEF Image
  <2>4. SumFunctionOnSet(f, Image(U) \cup {h[y]}) = SumFunctionOnSet(f, Image(U)) + f[h[y]]
    BY <2>1, <2>2, SumWith
  <2>5. IsFiniteSet(U)
    BY FS_Subset
  <2>6. SumFunctionOnSet(g, U \cup {y}) = SumFunctionOnSet(g, U) + g[y]
    BY <1>2, <2>5, SumWith
  <2>7. SumFunctionOnSet(f, Image(U \cup {y})) = SumFunctionOnSet(g, U \cup {y})
    BY <2>1, <2>2, <2>3, <2>4, <2>6
  <2>8. IsFiniteSet(Image(U) \cup {h[y]})
    BY <2>2, FS_AddElement
  <2> QED
    BY <2>1, <2>7, <2>8
<1> HIDE DEF Q
<1>3. S \in Q
  BY <1>1, <1>2, GrowUp
<1> QED
  BY <1>3 DEF Q

Group(h, S, t) == {x \in S : h[x] = t}
Grouped(f, h, S, T) == [t \in T |-> SumFunctionOnSet(f, Group(h, S, t))]

\* Elements may be added up by groups.
LEMMA SumGrouped ==
  ASSUME NEW f, NEW h, NEW S, IsFiniteSet(S), NEW T, IsFiniteSet(T),
         \A x \in S : h[x] \in T /\ f[x] \in Int
  PROVE  SumFunctionOnSet(f, S) = SumFunctionOnSet(Grouped(f, h, S, T), T)
<1> USE DEF Grouped
<1> DEFINE groups == Grouped(f, h, S, T)
           Of(U) == {x \in S : h[x] \in U}
           Q == {U \in SUBSET T : SumFunctionOnSet(f, Of(U)) = SumFunctionOnSet(groups, U)}
<1>0. \A U : IsFiniteSet(Of(U)) /\ Of(U) \subseteq S
  BY FS_Subset
<1>1. {} \in Q
  <2>1. Of({}) = {}
    OBVIOUS
  <2> QED
    BY <2>1, SumOfNothing
<1>t. \A t \in T : groups[t] = SumFunctionOnSet(f, Of({t})) /\ groups[t] \in Int
  <2> SUFFICES ASSUME NEW t \in T
               PROVE  groups[t] = SumFunctionOnSet(f, Of({t})) /\ groups[t] \in Int
    OBVIOUS
  <2>1. Group(h, S, t) = Of({t})
    BY DEF Group
  <2>2. groups[t] = SumFunctionOnSet(f, Of({t}))
    BY <2>1
  <2>3. SumFunctionOnSet(f, Of({t})) \in Int
    BY <1>0, SumIsInt
  <2> QED
    BY <2>2, <2>3
<1>2. ASSUME NEW U \in SUBSET T, NEW y \in T, U \in Q, y \notin U
      PROVE  U \cup {y} \in Q
  <2>1. Of(U \cup {y}) = Of(U) \cup Of({y}) /\ Of(U) \cap Of({y}) = {}
    BY <1>2
  <2>2. SumFunctionOnSet(f, Of(U)) = SumFunctionOnSet(groups, U)
    BY <1>2
  <2>3. IsFiniteSet(U) /\ \A t \in U \cup {y} : groups[t] \in Int
    BY <1>t, FS_Subset
  <2>4. \A x \in Of(U) \cup Of({y}) : f[x] \in Int
    OBVIOUS
  <2>5. groups[y] = SumFunctionOnSet(f, Of({y}))
    BY <1>t
  <2> HIDE DEF Of, groups
  <2>6. SumFunctionOnSet(f, Of(U) \cup Of({y}))
          = SumFunctionOnSet(f, Of(U)) + SumFunctionOnSet(f, Of({y}))
    BY <1>0, <2>1, <2>4, SumJoin
  <2>7. SumFunctionOnSet(groups, U \cup {y}) = SumFunctionOnSet(groups, U) + groups[y]
    BY <1>2, <2>3, SumWith
  <2>8. SumFunctionOnSet(f, Of(U \cup {y})) = SumFunctionOnSet(groups, U \cup {y})
    BY <2>1, <2>2, <2>5, <2>6, <2>7
  <2> QED
    BY <2>8
<1> HIDE DEF Q
<1>3. T \in Q
  BY <1>1, <1>2, GrowUp
<1>4. Of(T) = S
  OBVIOUS
<1> QED
  BY <1>3, <1>4 DEF Q

LEMMA SumIsNat ==
  ASSUME NEW f, NEW S, IsFiniteSet(S), \A x \in S : f[x] \in Nat
  PROVE  SumFunctionOnSet(f, S) \in Nat
<1> DEFINE Q == {U \in SUBSET S : SumFunctionOnSet(f, U) \in Nat}
<1>1. {} \in Q
  BY SumOfNothing
<1>2. ASSUME NEW U \in SUBSET S, NEW y \in S, U \in Q, y \notin U
      PROVE  U \cup {y} \in Q
  <2>1. IsFiniteSet(U) /\ \A x \in U \cup {y} : f[x] \in Int
    BY FS_Subset
  <2>2. SumFunctionOnSet(f, U \cup {y}) = SumFunctionOnSet(f, U) + f[y]
    BY <1>2, <2>1, SumWith
  <2>3. SumFunctionOnSet(f, U) \in Nat /\ f[y] \in Nat
    BY <1>2
  <2>4. SumFunctionOnSet(f, U \cup {y}) \in Nat
    BY <2>2, <2>3
  <2> QED
    BY <2>4
<1> HIDE DEF Q
<1>3. S \in Q
  BY <1>1, <1>2, GrowUp
<1> QED
  BY <1>3 DEF Q

-----------------------------------------------------------------------------
(* Ranks.                                                                  *)

StrictOrder(R, S) ==
  /\ \A x \in S : <<x, x>> \notin R
  /\ \A x, y \in S : x # y => <<x, y>> \in R \/ <<y, x>> \in R
  /\ \A x, y, z \in S : <<x, y>> \in R /\ <<y, z>> \in R => <<x, z>> \in R

Below(R, S, x)  == {y \in S : <<y, x>> \in R}
RankIn(R, S, x) == Cardinality(Below(R, S, x))

LEMMA RanksGrow ==
  ASSUME NEW S, IsFiniteSet(S), NEW R, StrictOrder(R, S)
  PROVE  /\ \A x \in S : RankIn(R, S, x) \in 0..(Cardinality(S) - 1)
         /\ \A x, y \in S : <<x, y>> \in R <=> RankIn(R, S, x) < RankIn(R, S, y)
         /\ \A x, y \in S : RankIn(R, S, x) = RankIn(R, S, y) => x = y
<1>0. \A x \in S : IsFiniteSet(Below(R, S, x)) /\ Below(R, S, x) \subseteq S
  BY FS_Subset DEF Below
<1>1. ASSUME NEW x \in S PROVE RankIn(R, S, x) \in 0..(Cardinality(S) - 1)
  <2>1. Below(R, S, x) \subseteq S \ {x}
    BY DEF Below, StrictOrder
  <2>2. IsFiniteSet(S \ {x}) /\ Cardinality(S \ {x}) = Cardinality(S) - 1
    BY FS_RemoveElement
  <2>3. Cardinality(Below(R, S, x)) <= Cardinality(S \ {x})
    BY <2>1, <2>2, FS_Subset
  <2>4. Cardinality(S) \in Nat /\ Cardinality(Below(R, S, x)) \in Nat
    BY <1>0, FS_CardinalityType
  <2> QED
    BY <2>2, <2>3, <2>4 DEF RankIn
<1>2. ASSUME NEW x \in S, NEW y \in S, <<x, y>> \in R
      PROVE  RankIn(R, S, x) < RankIn(R, S, y)
  <2>1. Below(R, S, x) \subseteq Below(R, S, y)
    BY <1>2 DEF Below, StrictOrder
  <2>2. x \in Below(R, S, y) /\ x \notin Below(R, S, x)
    BY <1>2 DEF Below, StrictOrder
  <2>3. /\ Cardinality(Below(R, S, x)) <= Cardinality(Below(R, S, y))
        /\ Cardinality(Below(R, S, x)) # Cardinality(Below(R, S, y))
    BY <1>0, <2>1, <2>2, FS_Subset
  <2>4. Cardinality(Below(R, S, x)) \in Nat /\ Cardinality(Below(R, S, y)) \in Nat
    BY <1>0, FS_CardinalityType
  <2> QED
    BY <2>3, <2>4 DEF RankIn
<1>3. \A x \in S : RankIn(R, S, x) \in Int
  BY <1>1
<1>4. \A x, y \in S : x = y \/ <<x, y>> \in R \/ <<y, x>> \in R
  BY DEF StrictOrder
<1>5. ASSUME NEW x \in S, NEW y \in S, x # y PROVE RankIn(R, S, x) # RankIn(R, S, y)
  <2>1. RankIn(R, S, x) < RankIn(R, S, y) \/ RankIn(R, S, y) < RankIn(R, S, x)
    BY <1>2, <1>4, <1>5
  <2> QED
    BY <1>3, <2>1
<1>6. ASSUME NEW x \in S, NEW y \in S, RankIn(R, S, x) < RankIn(R, S, y)
      PROVE  <<x, y>> \in R
  <2>1. x # y
    BY <1>3, <1>6
  <2>2. <<y, x>> \notin R
    BY <1>2, <1>3, <1>6
  <2> QED
    BY <1>4, <2>1, <2>2
<1> QED
  BY <1>1, <1>2, <1>5, <1>6

\* Every place is taken.
LEMMA RanksFill ==
  ASSUME NEW S, IsFiniteSet(S), NEW R, StrictOrder(R, S), NEW p \in 0..(Cardinality(S) - 1)
  PROVE  \E x \in S : RankIn(R, S, x) = p
<1> DEFINE T == 0..(Cardinality(S) - 1)
           rank == [x \in S |-> RankIn(R, S, x)]
<1>1. Cardinality(S) \in Nat
  BY FS_CardinalityType
<1>2. IsFiniteSet(T) /\ Cardinality(T) = Cardinality(S)
  BY <1>1, FS_Interval
<1>3. rank \in Injection(S, T)
  BY RanksGrow DEF Injection, IsInjective
<1>4. rank \in Surjection(S, T)
  <2> HIDE DEF rank, T
  <2> QED
    BY <1>2, <1>3, FS_Injection
<1> QED
  BY <1>4 DEF Surjection

-----------------------------------------------------------------------------
(* The market: trades are finitely many, holdings are numbers.             *)

MarketInv == now \in Times /\ executed \in Schedules

LEMMA TimesAreNat ==
  /\ Times \subseteq Nat \ {0} /\ IsFiniteSet(Times)
  /\ \A t \in Times : Day(t) \in 0..LastDay /\ t <= Close(LastDay) /\ Close(Day(t)) \in Times
  /\ \A d \in 0..LastDay : Close(d) \in Times
  /\ \A t \in Times : 3 * Day(t) < t /\ t < 3 * Day(t) + 3
<1>1. Close(LastDay) \in Nat /\ LastDay \in Nat
  BY BrokerAssumption DEF Close
<1>2. IsFiniteSet(1..Close(LastDay)) /\ Times \subseteq 1..Close(LastDay)
  BY <1>1, FS_Interval DEF Times
<1>3. IsFiniteSet(Times) /\ Times \subseteq Nat \ {0}
  <2>1. IsFiniteSet(Times)
    BY <1>2, FS_Subset
  <2>2. 1..Close(LastDay) \subseteq Nat \ {0}
    BY <1>1
  <2> QED
    BY <1>2, <2>1, <2>2
<1>4. \A d \in 0..LastDay : Close(d) \in Times
  BY <1>1 DEF Times, Close, Day, Midnight
<1>5. \A t \in Times : 3 * Day(t) < t /\ t < 3 * Day(t) + 3 /\ Day(t) \in Int
  BY <1>1 DEF Times, Day, Midnight
<1>6. \A t \in Times : t \in Nat \ {0} /\ t <= 3 * LastDay + 2
  BY <1>1 DEF Times, Close
<1>7. \A t \in Times : Day(t) \in 0..LastDay
  BY <1>1, <1>5, <1>6
<1> QED
  BY <1>3, <1>4, <1>5, <1>6, <1>7 DEF Close

\* Any set of trades that are executed, and any of times before a day.
LEMMA TradesAreTyped ==
  ASSUME MarketInv
  PROVE  /\ IsFiniteSet(executed)
         /\ \A e \in executed : /\ e.fill.quantity \in Int /\ e.fill.quantity # 0
                                  /\ e.fill.cost \in Int
                                  /\ KeyOf(e.fill) \in Keys /\ e.at \in Times
         /\ \A e, o \in executed : TransactionId(e.fill) = TransactionId(o.fill) => e = o
BY BrokerAssumption DEF MarketInv, TransactionId

LEMMA QuantitiesAdd ==
  ASSUME NEW es, IsFiniteSet(es), \A e \in es : e.fill.quantity \in Int /\ e.fill.cost \in Int
  PROVE  /\ QuantityOf(es) \in Int /\ CostOf(es) \in Int
         /\ \A part \in SUBSET es : /\ QuantityOf(es) = QuantityOf(part) + QuantityOf(es \ part)
                                     /\ CostOf(es) = CostOf(part) + CostOf(es \ part)
<1> DEFINE q == [e \in es |-> e.fill.quantity]
           c == [e \in es |-> e.fill.cost]
<1>1. ASSUME NEW part \in SUBSET es
      PROVE  /\ IsFiniteSet(part)
             /\ QuantityOf(part) = SumFunctionOnSet(q, part)
             /\ CostOf(part) = SumFunctionOnSet(c, part)
  <2>1. IsFiniteSet(part)
    BY FS_Subset
  <2>2. /\ DOMAIN [e \in part |-> e.fill.quantity] = part
        /\ \A e \in part : [x \in part |-> x.fill.quantity][e] = q[e]
        /\ DOMAIN [e \in part |-> e.fill.cost] = part
        /\ \A e \in part : [x \in part |-> x.fill.cost][e] = c[e]
    OBVIOUS
  <2>3. QuantityOf(part) = SumFunctionOnSet([e \in part |-> e.fill.quantity], part)
    BY <2>2 DEF QuantityOf, SumFunction
  <2>4. CostOf(part) = SumFunctionOnSet([e \in part |-> e.fill.cost], part)
    BY <2>2 DEF CostOf, SumFunction
  <2> HIDE DEF q, c
  <2> QED
    BY <2>1, <2>2, <2>3, <2>4, SumsAgree
<1>2. \A e \in es : q[e] \in Int /\ c[e] \in Int
  OBVIOUS
<1> HIDE DEF q, c
<1>3. QuantityOf(es) \in Int /\ CostOf(es) \in Int
  BY <1>1, <1>2, SumIsInt
<1>4. ASSUME NEW part \in SUBSET es
      PROVE  /\ QuantityOf(es) = QuantityOf(part) + QuantityOf(es \ part)
             /\ CostOf(es) = CostOf(part) + CostOf(es \ part)
  <2>1. es \ part \in SUBSET es /\ part \cap (es \ part) = {} /\ part \cup (es \ part) = es
    OBVIOUS
  <2>2. IsFiniteSet(part) /\ IsFiniteSet(es \ part)
    BY <1>1, <2>1
  <2>3. /\ SumFunctionOnSet(q, part \cup (es \ part))
             = SumFunctionOnSet(q, part) + SumFunctionOnSet(q, es \ part)
        /\ SumFunctionOnSet(c, part \cup (es \ part))
             = SumFunctionOnSet(c, part) + SumFunctionOnSet(c, es \ part)
    BY <1>2, <2>1, <2>2, SumJoin
  <2> QED
    BY <1>1, <2>1, <2>3
<1> QED
  BY <1>3, <1>4

LEMMA KeysAreFinite ==
  /\ IsFiniteSet(Keys) /\ Cardinality(Accounts) \in Nat
  /\ Accounts = 1..Cardinality(Accounts)
  /\ \A key \in Keys : /\ key = <<key[1], key[2]>> /\ key[1] \in Accounts
                       /\ key[2] \in Instruments /\ key[2] \in Nat
  /\ \A key, other \in Keys : key[1] = other[1] /\ key[2] = other[2] => key = other
<1>1. IsFiniteSet(Keys)
  BY BrokerAssumption, FS_Product DEF Keys
<1>2. Cardinality(Accounts) \in Nat
  BY BrokerAssumption, FS_CardinalityType
<1>3. Accounts = 1..Cardinality(Accounts) /\ Instruments \subseteq Nat
  BY BrokerAssumption
<1>4. \A key \in Keys : /\ key = <<key[1], key[2]>> /\ key[1] \in Accounts
                        /\ key[2] \in Instruments /\ key[2] \in Nat
  <2>1. \A key \in Keys : key = <<key[1], key[2]>> /\ key[1] \in Accounts /\ key[2] \in Instruments
    BY DEF Keys
  <2> QED
    BY <1>3, <2>1
<1>5. \A key, other \in Keys : key[1] = other[1] /\ key[2] = other[2] => key = other
  BY DEF Keys
<1> QED
  BY <1>1, <1>2, <1>3, <1>4, <1>5

LEMMA HoldingsAreTyped ==
  ASSUME MarketInv, NEW t
  PROVE  /\ \A key : IsFiniteSet(TradesOf(key, ExecutedBy(t))) /\ Held(key, t) \in Int
         /\ Holdings(t) \subseteq Keys /\ IsFiniteSet(Holdings(t))
         /\ \A a : HoldingsOf(a, t) \subseteq Holdings(t) /\ IsFiniteSet(HoldingsOf(a, t))
<1>1. ASSUME NEW key PROVE IsFiniteSet(TradesOf(key, ExecutedBy(t))) /\ Held(key, t) \in Int
  <2>1. TradesOf(key, ExecutedBy(t)) \subseteq executed
    BY DEF TradesOf, ExecutedBy
  <2>2. /\ IsFiniteSet(TradesOf(key, ExecutedBy(t)))
        /\ \A e \in TradesOf(key, ExecutedBy(t)) : e.fill.quantity \in Int /\ e.fill.cost \in Int
    BY <2>1, TradesAreTyped, FS_Subset
  <2> QED
    BY <2>2, QuantitiesAdd DEF Held
<1>2. Holdings(t) \subseteq Keys
  BY DEF Holdings
<1>3. IsFiniteSet(Holdings(t))
  BY <1>2, KeysAreFinite, FS_Subset
<1>4. \A a : HoldingsOf(a, t) \subseteq Holdings(t)
  BY DEF HoldingsOf
<1>5. \A a : IsFiniteSet(HoldingsOf(a, t))
  BY <1>3, <1>4, FS_Subset
<1> QED
  BY <1>1, <1>2, <1>3, <1>4, <1>5

\* While nothing trades, holdings stay what they are.
LEMMA QuietHoldings ==
  ASSUME NEW from \in Nat, NEW to \in Nat, from <= to,
         \A e \in executed : e.at \in Nat, \A e \in ExecutedBy(to) : e.at <= from
  PROVE  /\ ExecutedBy(to) = ExecutedBy(from)
         /\ \A key : Held(key, to) = Held(key, from)
         /\ Holdings(to) = Holdings(from)
         /\ \A a : HoldingsOf(a, to) = HoldingsOf(a, from)
<1>1. ExecutedBy(to) = ExecutedBy(from)
  BY DEF ExecutedBy
<1>2. \A key : Held(key, to) = Held(key, from)
  BY <1>1 DEF Held
<1>3. Holdings(to) = Holdings(from)
  BY <1>2 DEF Holdings
<1> QED
  BY <1>1, <1>2, <1>3 DEF HoldingsOf

-----------------------------------------------------------------------------
(* The connectors.                                                         *)

\* The place of a position in the pages of its account.
PlaceOf(key, t) == Cardinality({k \in HoldingsOf(key[1], t) : k[2] < key[2]})

ConnectorInv ==
  /\ kind \in {"idle", "activity", "history", "portal"} /\ polls \in 0..(Retries - 1)
  /\ kind = "idle" => page = 0 /\ rows = NoRows
  /\ kind # "idle" => since \in Times /\ since <= now
  /\ kind \in {"idle", "portal"} => answers = <<>> /\ root = 0 /\ polls = 0
  /\ kind \in {"activity", "history"} => reference = since /\ root \in {0, since}
  /\ answers \in Seq({since}) /\ Len(answers) <= Len(Questions(kind))
  /\ kind # "portal" => account = 1
  /\ account \in 1..(Cardinality(Accounts) + 1) /\ page \in Nat
  /\ DOMAIN rows \subseteq Keys /\ \A key \in DOMAIN rows : rows[key] \in Int \ {0}

\* What a connector has read of the pages, if nothing trades meanwhile.
PagingInv ==
  kind = "portal" /\ (\A e \in ExecutedBy(now) : e.at <= since) =>
    /\ account \in Accounts => page <= Cardinality(HoldingsOf(account, since))
    /\ DOMAIN rows = {key \in Holdings(since) :
                        key[1] < account \/ (key[1] = account /\ PlaceOf(key, since) < page)}
    /\ \A key \in DOMAIN rows : rows[key] = Held(key, since)

JobInv == MarketInv /\ ConnectorInv /\ PagingInv

LEMMA JobBegins == Init => JobInv
<1> SUFFICES ASSUME Init PROVE JobInv
  OBVIOUS
<1> USE DEF Init, MarketInit, ConnectorInit
<1>1. MarketInv
  BY BrokerAssumption DEF MarketInv
<1>2. ConnectorInv
  <2>1. polls \in 0..(Retries - 1)
    BY ConnectorAssumption
  <2>2. account \in 1..(Cardinality(Accounts) + 1)
    BY KeysAreFinite
  <2>3. rows = NoRows /\ DOMAIN rows = {}
    BY DEF NoRows
  <2>4. answers \in Seq({since}) /\ Len(answers) <= Len(Questions(kind))
    BY DEF Questions
  <2> QED
    BY <2>1, <2>2, <2>3, <2>4 DEF ConnectorInv
<1>3. PagingInv
  BY DEF PagingInv
<1> QED
  BY <1>1, <1>2, <1>3 DEF JobInv

LEMMA JobAdvances ==
  ASSUME JobInv, Advance, UNCHANGED connectors
  PROVE  JobInv' /\ now < now'
<1> USE DEF JobInv
<1>1. now' \in Times /\ now < now'
  <2>1. now \in Nat /\ LastDay \in Nat /\ now < 3 * LastDay + 2
    BY TimesAreNat, BrokerAssumption DEF Advance, MarketInv, Close
  <2>2. CASE now + 1 \in Times
    BY <2>1, <2>2 DEF Advance
  <2>3. CASE now + 1 \notin Times
    <3>1. now + 1 = 3 * Day(now + 1)
      BY <2>1, <2>3 DEF Times, Midnight, Close
    <3>2. Day(now + 1) \in Int
      BY <2>1 DEF Day
    <3>3. now + 2 <= 3 * LastDay + 2
      BY <2>1, <3>1, <3>2
    <3>4. Day(now + 2) = Day(now + 1)
      BY <2>1, <3>1, <3>2 DEF Day
    <3>5. now + 2 \in Times
      BY <2>1, <3>1, <3>2, <3>3, <3>4 DEF Times, Midnight, Close
    <3> QED
      BY <2>1, <2>3, <3>5 DEF Advance
  <2> QED
    BY <2>2, <2>3
<1>2. MarketInv'
  BY <1>1 DEF MarketInv, Advance
<1>3. ConnectorInv'
  <2>1. kind # "idle" => since \in Nat /\ now \in Nat /\ now' \in Nat
    BY <1>1, TimesAreNat DEF ConnectorInv, MarketInv
  <2>2. kind # "idle" => since <= now'
    BY <1>1, <2>1 DEF ConnectorInv
  <2> QED
    BY <2>2 DEF ConnectorInv, connectors, flex, paging, Asks, Questions
<1>4. PagingInv'
  <2>1. \A e \in ExecutedBy(now) : e \in ExecutedBy(now')
    <3>1. \A e \in executed : e.at \in Nat
      BY TradesAreTyped, TimesAreNat
    <3>2. now \in Nat /\ now' \in Nat
      BY <1>1, TimesAreNat DEF MarketInv
    <3> QED
      BY <1>1, <3>1, <3>2 DEF ExecutedBy
  <2>2. executed' = executed
    BY DEF Advance
  <2>3. \A t : ExecutedBy(t)' = {e \in executed' : e.at <= t'}
    BY DEF ExecutedBy
  <2> QED
    BY <2>1, <2>2
       DEF PagingInv, connectors, flex, paging, ExecutedBy, PlaceOf, HoldingsOf, Holdings, Held
<1> QED
  BY <1>1, <1>2, <1>3, <1>4

LEMMA JobEnds ==
  ASSUME JobInv, EndJob, UNCHANGED market
  PROVE  JobInv'
<1> USE DEF JobInv
<1>1. MarketInv'
  BY DEF MarketInv, market
<1>2. ConnectorInv'
  <2>1. 0 \in 0..(Retries - 1)
    BY ConnectorAssumption
  <2>2. 1 \in 1..(Cardinality(Accounts) + 1)
    BY KeysAreFinite
  <2>3. DOMAIN NoRows = {}
    BY DEF NoRows
  <2> HIDE DEF NoRows
  <2> QED
    BY <2>1, <2>2, <2>3 DEF ConnectorInv, EndJob, Questions
<1>3. PagingInv'
  BY DEF EndJob, PagingInv
<1> QED
  BY <1>1, <1>2, <1>3

LEMMA JobIsBegun ==
  ASSUME JobInv, NEW k \in {"activity", "history", "portal"}, BeginJob(k), UNCHANGED market
  PROVE  JobInv'
<1> USE DEF JobInv
<1>1. MarketInv' /\ now \in Nat
  BY TimesAreNat DEF MarketInv, market
<1>2. ConnectorInv'
  <2>1. /\ kind' = k /\ since' = now /\ answers' = <<>> /\ root' = 0 /\ polls' = 0
        /\ account' = 1 /\ page' = 0 /\ rows' = NoRows
        /\ reference' = (IF k = "portal" THEN 0 ELSE now) /\ now' = now
    BY DEF BeginJob, ConnectorInv, paging, market
  <2>2. polls \in 0..(Retries - 1) /\ polls = 0
    BY DEF ConnectorInv, BeginJob
  <2>3. <<>> \in Seq({now}) /\ Len(<<>>) <= Len(Questions(k))
    BY DEF Questions
  <2>4. account \in 1..(Cardinality(Accounts) + 1) /\ account = 1
    BY DEF ConnectorInv, BeginJob
  <2>5. DOMAIN NoRows = {}
    BY DEF NoRows
  <2> HIDE DEF NoRows
  <2>6. Questions(kind)' = Questions(k)
    BY <2>1 DEF Questions
  <2> QED
    BY <1>1, <2>1, <2>2, <2>3, <2>4, <2>5, <2>6 DEF ConnectorInv, MarketInv
<1>3. PagingInv'
  <2>1. rows' = NoRows /\ DOMAIN NoRows = {} /\ page' = 0 /\ account' = 1
    BY DEF BeginJob, ConnectorInv, paging, NoRows
  <2>2. \A key \in Keys : ~(key[1] < 1) 
    BY KeysAreFinite
  <2>3. \A key, t : PlaceOf(key, t) \in Nat
    <3> SUFFICES ASSUME NEW key, NEW t PROVE PlaceOf(key, t) \in Nat
      OBVIOUS
    <3>1. IsFiniteSet({k2 \in HoldingsOf(key[1], t) : k2[2] < key[2]})
      BY HoldingsAreTyped, FS_Subset
    <3> QED
      BY <3>1, FS_CardinalityType DEF PlaceOf
  <2> SUFFICES ASSUME kind' = "portal" PROVE PagingInv'
    BY DEF PagingInv
  <2>a. executed' = executed /\ since' = now
    BY DEF BeginJob, market
  <2>b. Holdings(since)' = Holdings(now)
    BY <2>a DEF Holdings, Held, ExecutedBy
  <2>c. HoldingsOf(account, since)' = HoldingsOf(1, now)
    BY <2>a, <2>1, <2>b DEF HoldingsOf
  <2>d. \A key : PlaceOf(key, since)' = PlaceOf(key, now)
    BY <2>a, <2>b DEF PlaceOf, HoldingsOf
  <2>4. Cardinality(HoldingsOf(1, now)) \in Nat
    BY HoldingsAreTyped, FS_CardinalityType
  <2>5. \A key \in Holdings(now) : ~(key[1] < 1) /\ ~(PlaceOf(key, now) < 0)
    BY <2>2, <2>3, HoldingsAreTyped
  <2> QED
    BY <2>1, <2>b, <2>c, <2>d, <2>4, <2>5 DEF PagingInv
<1> QED
  BY <1>1, <1>2, <1>3

LEMMA Places ==
  ASSUME MarketInv, NEW t, NEW a
  PROVE  LET held == HoldingsOf(a, t) IN
         /\ Cardinality(held) \in Nat
         /\ \A p \in 0..(Cardinality(held) - 1) :
              RowAt(a, p, t) \in held /\ PlaceOf(RowAt(a, p, t), t) = p
         /\ \A key \in held : PlaceOf(key, t) \in 0..(Cardinality(held) - 1)
         /\ \A key, other \in held : PlaceOf(key, t) = PlaceOf(other, t) => key = other
<1> DEFINE held == HoldingsOf(a, t)
           R == {pair \in Keys \X Keys : pair[1][2] < pair[2][2]}
<1>1. IsFiniteSet(held) /\ held \subseteq Keys /\ Cardinality(held) \in Nat
  BY HoldingsAreTyped, FS_CardinalityType
<1>2. \A key \in held : key[1] = a
  BY DEF HoldingsOf
<1> HIDE DEF held
<1>3. \A key, other \in Keys : <<key, other>> \in R <=> key[2] < other[2]
  OBVIOUS
<1>4. StrictOrder(R, held)
  <2>1. \A key \in held : key \in Keys /\ key[2] \in Nat
    BY <1>1, KeysAreFinite
  <2>2. \A x, y \in held : x # y => x[2] # y[2]
    BY <1>1, <1>2, KeysAreFinite
  <2>3. \A x, y \in held : <<x, y>> \in R <=> x[2] < y[2]
    BY <1>3, <2>1
  <2> HIDE DEF R
  <2>4. \A x \in held : <<x, x>> \notin R
    BY <2>1, <2>3
  <2>5. \A x, y \in held : x # y => <<x, y>> \in R \/ <<y, x>> \in R
    BY <2>1, <2>2, <2>3
  <2>6. \A x, y, z \in held : <<x, y>> \in R /\ <<y, z>> \in R => <<x, z>> \in R
    BY <2>1, <2>3
  <2> QED
    BY <2>4, <2>5, <2>6 DEF StrictOrder
<1>5. \A key \in held : PlaceOf(key, t) = RankIn(R, held, key)
  <2> SUFFICES ASSUME NEW key \in held PROVE PlaceOf(key, t) = RankIn(R, held, key)
    OBVIOUS
  <2>1. {k \in held : k[2] < key[2]} = Below(R, held, key)
    BY <1>1, <1>3 DEF Below
  <2> QED
    BY <1>2, <2>1 DEF PlaceOf, RankIn, held
<1> HIDE DEF R
<1>6. \A key \in held : PlaceOf(key, t) \in 0..(Cardinality(held) - 1)
  BY <1>1, <1>4, <1>5, RanksGrow
<1>7. \A key, other \in held : PlaceOf(key, t) = PlaceOf(other, t) => key = other
  BY <1>1, <1>4, <1>5, RanksGrow
<1>8. ASSUME NEW p \in 0..(Cardinality(held) - 1)
      PROVE  RowAt(a, p, t) \in held /\ PlaceOf(RowAt(a, p, t), t) = p
  <2>1. \E key \in held : RankIn(R, held, key) = p
    BY <1>1, <1>4, RanksFill
  <2>2. \E key \in held : Cardinality({k \in held : k[2] < key[2]}) = p
    BY <1>2, <1>5, <2>1 DEF PlaceOf, held
  <2>3. /\ RowAt(a, p, t) \in held
        /\ Cardinality({k \in held : k[2] < RowAt(a, p, t)[2]}) = p
    BY <2>2 DEF RowAt, held
  <2> QED
    BY <1>2, <2>3 DEF PlaceOf, held
<1> QED
  BY <1>1, <1>6, <1>7, <1>8 DEF held

LEMMA JobIsAnswered ==
  ASSUME JobInv, ReportReady \/ NotReady \/ Answer, UNCHANGED market
  PROVE  JobInv'
<1> USE DEF JobInv
<1>1. MarketInv'
  BY DEF MarketInv, market
<1>2. kind \in {"activity", "history"} /\ since \in Times /\ since # 0
  <2>1. Len(<<>>) = 0
    OBVIOUS
  <2>2. kind \notin {"idle", "portal"}
    BY <2>1 DEF ReportReady, NotReady, Answer, Asks, ConnectorInv, Questions
  <2> QED
    BY <2>2, TimesAreNat DEF ConnectorInv
<1>3. CASE ReportReady
  <2>1. ConnectorInv'
    BY <1>2, <1>3 DEF ConnectorInv, ReportReady, paging, market
  <2>2. PagingInv'
    BY <1>2, <1>3 DEF PagingInv, ReportReady
  <2> QED
    BY <1>1, <2>1, <2>2
<1>4. CASE NotReady
  <2>1. CASE polls + 1 = Retries
    BY <1>4, <2>1, JobEnds DEF NotReady
  <2>2. CASE polls + 1 # Retries
    <3>1. polls' \in 0..(Retries - 1)
      BY <1>4, <2>2, ConnectorAssumption DEF NotReady, ConnectorInv
    <3>2. ConnectorInv'
      BY <1>2, <1>4, <2>2, <3>1 DEF ConnectorInv, NotReady, paging, market
    <3>3. PagingInv'
      BY <1>2, <1>4, <2>2 DEF PagingInv, NotReady
    <3> QED
      BY <1>1, <3>2, <3>3
  <2> QED
    BY <2>1, <2>2
<1>5. CASE Answer
  <2>1. root = since
    BY <1>2, <1>5 DEF ConnectorInv, Answer
  <2>2. answers \in Seq({since}) /\ answers' = Append(answers, since)
    BY <1>5, <2>1 DEF ConnectorInv, Answer
  <2>3. Len(answers) < Len(Questions(kind)) /\ Len(Questions(kind)) \in Nat
    BY <1>2, <1>5 DEF Answer, Asks, Questions
  <2>4. answers' \in Seq({since}) /\ Len(answers') <= Len(Questions(kind))
    BY <2>2, <2>3
  <2>5. Questions(kind)' = Questions(kind)
    BY <1>5 DEF Answer, Questions
  <2>6. ConnectorInv'
    BY <1>2, <1>5, <2>4, <2>5 DEF ConnectorInv, Answer, paging, market
  <2>7. PagingInv'
    BY <1>2, <1>5 DEF PagingInv, Answer
  <2> QED
    BY <1>1, <2>6, <2>7
<1> QED
  BY <1>3, <1>4, <1>5

LEMMA PageIsRead ==
  ASSUME JobInv, ReadPage, UNCHANGED market
  PROVE  JobInv'
<1> USE DEF JobInv
<1> DEFINE held == HoldingsOf(account, now)
           key  == RowAt(account, page, now)
<1>1. MarketInv' /\ now \in Nat
  BY TimesAreNat DEF MarketInv, market
<1>2. /\ kind = "portal" /\ since \in Nat /\ since <= now /\ page \in Nat
      /\ account \in Accounts /\ account \in Nat /\ account + 1 \in 1..(Cardinality(Accounts) + 1)
      /\ Cardinality(held) \in Nat
  <2>1. kind = "portal" /\ account \in Accounts /\ page \in Nat
    BY DEF ReadPage, ConnectorInv
  <2>2. since \in Nat /\ since <= now
    BY <2>1, TimesAreNat DEF ConnectorInv
  <2>3. account \in Nat /\ account + 1 \in 1..(Cardinality(Accounts) + 1)
    BY <2>1, KeysAreFinite
  <2> QED
    BY <2>1, <2>2, <2>3, Places
<1>3. page < Cardinality(held) => key \in held /\ PlaceOf(key, now) = page
  BY <1>2, Places
<1>4. \A k \in held : k \in Holdings(now) /\ k \in Keys /\ k[1] = account
  BY HoldingsAreTyped DEF HoldingsOf
<1>5. ConnectorInv'
  <2>1. /\ DOMAIN rows' \subseteq Keys /\ \A k \in DOMAIN rows' : rows'[k] \in Int \ {0}
        /\ account' \in 1..(Cardinality(Accounts) + 1) /\ page' \in Nat
    <3>1. CASE page < Cardinality(held)
      <4>1. Held(key, now) \in Int \ {0}
        BY <1>3, <1>4, <3>1, HoldingsAreTyped DEF Holdings
      <4>2. DOMAIN rows \subseteq Keys /\ \A k \in DOMAIN rows : rows[k] \in Int \ {0}
        BY DEF ConnectorInv
      <4>3. /\ rows' = [k \in DOMAIN rows \cup {key} |->
                          IF k = key THEN Held(key, now) ELSE rows[k]]
            /\ page' = page + 1 /\ account' = account
        BY <3>1 DEF ReadPage
      <4>4. key \in Keys
        BY <1>3, <1>4, <3>1
      <4>5. account \in 1..(Cardinality(Accounts) + 1)
        BY DEF ConnectorInv
      <4> HIDE DEF key, held
      <4> QED
        BY <1>2, <4>1, <4>2, <4>3, <4>4, <4>5
    <3>2. CASE ~(page < Cardinality(held))
      BY <1>2, <3>2 DEF ReadPage, ConnectorInv
    <3> QED
      BY <3>1, <3>2
  <2>2. UNCHANGED <<kind, since, polls, answers, root, reference>> /\ now' = now
    BY DEF ReadPage, flex, market
  <2>3. Questions(kind)' = Questions(kind)
    BY <2>2 DEF Questions
  <2> QED
    BY <1>2, <2>1, <2>2, <2>3 DEF ConnectorInv
<1>6. PagingInv'
  <2>1. kind' = "portal" /\ since' = since /\ now' = now /\ executed' = executed
    BY <1>2 DEF ReadPage, market
  <2>2. ExecutedBy(now)' = ExecutedBy(now)
    BY <2>1 DEF ExecutedBy
  <2> SUFFICES ASSUME \A e \in ExecutedBy(now) : e.at <= since
               PROVE  PagingInv'
    BY <2>1, <2>2 DEF PagingInv
  <2>3. /\ Holdings(since) = Holdings(now)
        /\ \A a : HoldingsOf(a, since) = HoldingsOf(a, now)
        /\ \A k : Held(k, since) = Held(k, now)
    <3>1. \A e \in executed : e.at \in Nat
      BY TradesAreTyped, TimesAreNat
    <3> QED
      BY <1>1, <1>2, <3>1, QuietHoldings
  <2>4. \A k : PlaceOf(k, since) = PlaceOf(k, now)
    BY <2>3 DEF PlaceOf
  <2>5. Holdings(since)' = Holdings(now)
    BY <2>1, <2>3 DEF Holdings, Held, ExecutedBy
  <2>6. \A a : HoldingsOf(a, since)' = HoldingsOf(a, now)
    BY <2>5 DEF HoldingsOf
  <2>7. \A k : PlaceOf(k, since)' = PlaceOf(k, now) /\ Held(k, since)' = Held(k, now)
    <3>1. \A k : PlaceOf(k, since)' = PlaceOf(k, now)
      BY <2>6 DEF PlaceOf
    <3>2. \A k : Held(k, since)' = Held(k, now)
      BY <2>1, <2>3 DEF Held, ExecutedBy
    <3> QED
      BY <3>1, <3>2
  <2>8. /\ page <= Cardinality(held)
        /\ DOMAIN rows = {k \in Holdings(now) :
                            k[1] < account \/ (k[1] = account /\ PlaceOf(k, now) < page)}
        /\ \A k \in DOMAIN rows : rows[k] = Held(k, now)
    BY <1>2, <2>3, <2>4 DEF PagingInv
  <2>9. \A k \in Holdings(now) : k[1] = account => k \in held
    BY DEF HoldingsOf
  <2>10. \A k \in Holdings(now) : k[1] \in Nat
    BY HoldingsAreTyped, KeysAreFinite
  <2>11. \A k \in held : /\ PlaceOf(k, now) \in 0..(Cardinality(held) - 1)
                         /\ \A o \in held : PlaceOf(k, now) = PlaceOf(o, now) => k = o
    BY Places
  <2>12. CASE page < Cardinality(held)
    <3>1. /\ rows' = [k \in DOMAIN rows \cup {key} |->
                        IF k = key THEN Held(key, now) ELSE rows[k]]
          /\ page' = page + 1 /\ account' = account
      BY <2>12 DEF ReadPage
    <3>2. key \in held /\ PlaceOf(key, now) = page
      BY <1>3, <2>12
    <3> HIDE DEF key
    <3>3. \A k \in held : PlaceOf(k, now) < page + 1 <=> PlaceOf(k, now) < page \/ k = key
      BY <1>2, <2>11, <3>2
    <3>4. DOMAIN rows' = {k \in Holdings(now) : k[1] < account
                                \/ (k[1] = account /\ PlaceOf(k, now) < page + 1)}
      BY <1>4, <2>8, <2>9, <3>1, <3>2, <3>3
    <3>5. \A k \in DOMAIN rows' : rows'[k] = Held(k, now)
      BY <2>8, <3>1
    <3>6. page + 1 <= Cardinality(held)
      BY <1>2, <2>12
    <3> HIDE DEF held
    <3>7. HoldingsOf(account, since)' = held
      BY <2>1, <2>3, <2>5, <3>1 DEF HoldingsOf, held
    <3> QED
      BY <2>5, <2>7, <3>1, <3>4, <3>5, <3>6, <3>7 DEF PagingInv
  <2>13. CASE ~(page < Cardinality(held))
    <3>1. rows' = rows /\ page' = 0 /\ account' = account + 1
      BY <2>13 DEF ReadPage
    <3>2. \A k \in Holdings(now) : ~(PlaceOf(k, now) < 0)
      <4> SUFFICES ASSUME NEW k \in Holdings(now) PROVE ~(PlaceOf(k, now) < 0)
        OBVIOUS
      <4>1. k \in HoldingsOf(k[1], now)
        BY DEF HoldingsOf
      <4>2. PlaceOf(k, now) \in 0..(Cardinality(HoldingsOf(k[1], now)) - 1)
        BY <4>1, Places
      <4> QED
        BY <4>2
    <3>3. \A k \in held : PlaceOf(k, now) < page
      <4>1. page = Cardinality(held)
        BY <1>2, <2>8, <2>13
      <4>2. \A k \in held : PlaceOf(k, now) \in 0..(Cardinality(held) - 1)
        BY <2>11
      <4> HIDE DEF held
      <4> QED
        BY <1>2, <4>1, <4>2
    <3>4. \A k \in Holdings(now) : k[1] < account + 1 <=>
             k[1] < account \/ (k[1] = account /\ PlaceOf(k, now) < page)
      BY <1>2, <2>9, <2>10, <3>3
    <3>5. DOMAIN rows' = {k \in Holdings(now) : k[1] < account + 1
                                \/ (k[1] = account + 1 /\ PlaceOf(k, now) < 0)}
      BY <2>8, <3>1, <3>2, <3>4
    <3>6. \A k \in DOMAIN rows' : rows'[k] = Held(k, now)
      BY <2>8, <3>1
    <3>7. 0 <= Cardinality(HoldingsOf(account + 1, now))
      BY Places
    <3>8. HoldingsOf(account, since)' = HoldingsOf(account + 1, now)
      BY <2>5, <3>1 DEF HoldingsOf
    <3> QED
      BY <2>5, <2>7, <3>1, <3>5, <3>6, <3>7, <3>8 DEF PagingInv
  <2> QED
    BY <2>12, <2>13
<1> QED
  BY <1>1, <1>5, <1>6

\* Whatever the market does between its requests, an import holds what its
\* connector read: the report of the time it began at, or the pages so far.
THEOREM JobsReadTheBroker == Spec => []JobInv
<1>1. Init => JobInv
  BY JobBegins
<1>2. JobInv /\ [Next]_vars => JobInv'
  <2> SUFFICES ASSUME JobInv, [Next]_vars PROVE JobInv'
    OBVIOUS
  <2>1. CASE UNCHANGED vars
    <3>1. UNCHANGED <<market, connectors>>
      BY <2>1 DEF vars
    <3> QED
      BY <3>1 DEF JobInv, MarketInv, ConnectorInv, PagingInv, market, connectors, flex, paging,
                  Questions, PlaceOf, HoldingsOf, Holdings, Held, ExecutedBy
  <2>2. CASE Advance /\ UNCHANGED connectors
    BY <2>2, JobAdvances
  <2>3. CASE UNCHANGED market /\ RequestRaises
    BY <2>3, JobEnds DEF RequestRaises
  <2>4. ASSUME NEW k \in {"activity", "history", "portal"}, BeginJob(k), UNCHANGED market
        PROVE  JobInv'
    BY <2>4, JobIsBegun
  <2>5. CASE ConnectorStep /\ UNCHANGED market
    BY <2>5, JobIsAnswered, PageIsRead DEF ConnectorStep
  <2>6. CASE CommitActivity \/ CommitPortal \/ CommitHistory
    <3>1. EndJob /\ UNCHANGED market
      BY <2>6 DEF CommitActivity, CommitPortal, CommitHistory
    <3> QED
      BY <3>1, JobEnds
  <2>7. ASSUME NEW c \in Currencies, Refresh(c) PROVE JobInv'
    <3>1. UNCHANGED <<market, connectors>>
      BY <2>7 DEF Refresh
    <3> QED
      BY <3>1 DEF JobInv, MarketInv, ConnectorInv, PagingInv, market, connectors, flex, paging,
                  Questions, PlaceOf, HoldingsOf, Holdings, Held, ExecutedBy
  <2> QED
    BY <2>1, <2>2, <2>3, <2>4, <2>5, <2>6, <2>7 DEF Next, Step
<1> QED
  BY <1>1, <1>2, PTL DEF Spec

-----------------------------------------------------------------------------
(* The ledger.                                                             *)

\* Everything but a commit or a refresh leaves the database alone.
Kept ==
  /\ UNCHANGED <<tables, base, review, history, refreshes, executed>> /\ now <= now'
  /\ \/ kind' = "idle"
     \/ kind # "idle" /\ since' = since
     \/ since' = now

LEMMA WhatHappens ==
  ASSUME JobInv, [Next]_vars
  PROVE  \/ Kept \/ CommitActivity \/ CommitPortal \/ CommitHistory
         \/ \E c \in Currencies : Refresh(c)
<1>0. now \in Nat /\ (Advance /\ UNCHANGED connectors => now < now')
  BY JobAdvances, TimesAreNat DEF JobInv, MarketInv
<1>1. CASE UNCHANGED vars
  BY <1>0, <1>1 DEF vars, market, connectors, Kept
<1>2. CASE Advance /\ UNCHANGED connectors /\ Quiet
  <2>1. now' \in Nat
    BY <1>2, JobAdvances, TimesAreNat DEF JobInv, MarketInv
  <2> QED
    BY <1>0, <1>2, <2>1 DEF Advance, connectors, Quiet, Kept
<1>3. CASE UNCHANGED market /\ Quiet /\ RequestRaises
  BY <1>0, <1>3 DEF market, Quiet, RequestRaises, EndJob, Kept
<1>4. ASSUME NEW k \in {"activity", "history", "portal"}, BeginJob(k), UNCHANGED market, Quiet
      PROVE  Kept
  BY <1>0, <1>4 DEF market, Quiet, BeginJob, Kept
<1>5. CASE ConnectorStep /\ UNCHANGED market /\ Quiet
  <2>1. kind # "idle"
    <3>1. Len(<<>>) = 0
      OBVIOUS
    <3>2. kind = "idle" => ~Asks
      BY <3>1 DEF Asks, JobInv, ConnectorInv, Questions
    <3> QED
      BY <1>5, <3>2 DEF ConnectorStep, ReportReady, NotReady, Answer, ReadPage
  <2>2. kind' = "idle" \/ since' = since
    BY <1>5 DEF ConnectorStep, ReportReady, NotReady, Answer, ReadPage, EndJob
  <2> QED
    BY <1>0, <1>5, <2>1, <2>2 DEF market, Quiet, Kept
<1> QED
  BY <1>1, <1>2, <1>3, <1>4, <1>5 DEF Next, Step

\* What a report's commit read, and what the pages amount to.
LEMMA ReportsAreOfTheBeginning ==
  ASSUME JobInv, Fetched
  PROVE  /\ since \in Times /\ since \in Nat /\ now \in Nat /\ since <= now
         /\ kind = "activity" => answers[1] = since /\ answers[2] = since
         /\ kind = "history" => answers[1] = since
         /\ kind = "portal" /\ (\A e \in ExecutedBy(now) : e.at <= since) =>
              /\ DOMAIN rows = Holdings(since)
              /\ \A key \in DOMAIN rows : rows[key] = Held(key, since)
<1>1. kind # "idle" /\ since \in Times /\ since \in Nat /\ now \in Nat /\ since <= now
  BY TimesAreNat DEF JobInv, ConnectorInv, MarketInv, Fetched
<1>2. ASSUME kind # "portal", NEW i \in 1..Len(Questions(kind)) PROVE answers[i] = since
  <2>1. answers \in Seq({since}) /\ ~(Len(answers) < Len(Questions(kind)))
    BY <1>2 DEF JobInv, ConnectorInv, Fetched, Asks
  <2>2. Len(Questions(kind)) \in Nat
    BY DEF Questions
  <2>3. i \in 1..Len(answers)
    BY <2>1, <2>2
  <2> QED
    BY <2>1, <2>3
<1>3. kind = "activity" => answers[1] = since /\ answers[2] = since
  <2> SUFFICES ASSUME kind = "activity" PROVE answers[1] = since /\ answers[2] = since
    OBVIOUS
  <2>1. 1 \in 1..Len(Questions(kind)) /\ 2 \in 1..Len(Questions(kind)) /\ kind # "portal"
    BY DEF Questions
  <2> QED
    BY <1>2, <2>1
<1>4. kind = "history" => answers[1] = since
  <2> SUFFICES ASSUME kind = "history" PROVE answers[1] = since
    OBVIOUS
  <2>1. 1 \in 1..Len(Questions(kind)) /\ kind # "portal"
    BY DEF Questions
  <2> QED
    BY <1>2, <2>1
<1>5. ASSUME kind = "portal", \A e \in ExecutedBy(now) : e.at <= since
      PROVE  /\ DOMAIN rows = Holdings(since)
             /\ \A key \in DOMAIN rows : rows[key] = Held(key, since)
  <2>1. account = Cardinality(Accounts) + 1
    BY <1>5, KeysAreFinite DEF Fetched, JobInv, ConnectorInv
  <2>2. \A key \in Holdings(since) : key[1] < account
    BY <2>1, HoldingsAreTyped, KeysAreFinite DEF JobInv
  <2>3. /\ DOMAIN rows = {key \in Holdings(since) : key[1] < account
                            \/ (key[1] = account /\ PlaceOf(key, since) < page)}
        /\ \A key \in DOMAIN rows : rows[key] = Held(key, since)
    BY <1>5 DEF JobInv, PagingInv
  <2> QED
    BY <2>2, <2>3
<1> QED
  BY <1>1, <1>3, <1>4, <1>5

\* When the last import read the broker, and what it then left.
LastInv ==
  /\ last.from \in Nat /\ last.to \in Nat /\ last.from <= last.to
  /\ PositionsAreTheBrokers

LEMMA LastIsKept ==
  ASSUME LastInv, UNCHANGED <<positions, last, executed>>
  PROVE  LastInv'
<1>1. \A t : ExecutedBy(t)' = ExecutedBy(t)
  BY DEF ExecutedBy
<1> QED
  BY DEF LastInv, PositionsAreTheBrokers, Holdings, Held, ExecutedBy

\* An import during which nothing traded leaves exactly the holdings of the
\* broker, whichever connector read them: no page is read twice or left out,
\* and a report polled for later is still that of the beginning.
THEOREM ImportsLeaveTheBrokersPositions == Spec => []PositionsAreTheBrokers
<1>1. Init => LastInv
  BY DEF Init, LedgerInit, LastInv, PositionsAreTheBrokers
<1>2. JobInv /\ LastInv /\ [Next]_vars => LastInv'
  <2> SUFFICES ASSUME JobInv, LastInv, [Next]_vars PROVE LastInv'
    OBVIOUS
  <2>1. CASE Kept \/ \E c \in Currencies : Refresh(c)
    <3>1. UNCHANGED <<positions, last, executed>>
      BY <2>1 DEF Kept, tables, history, Refresh, market
    <3> QED
      BY <3>1, LastIsKept
  <2>2. CASE CommitHistory
    BY <2>2, ReportsAreOfTheBeginning DEF CommitHistory, LastInv, PositionsAreTheBrokers
  <2>3. ASSUME CommitActivity \/ CommitPortal PROVE LastInv'
    <3>1. /\ Fetched /\ executed' = executed
          /\ last' = [kind |-> kind, from |-> since, to |-> now]
      BY <2>3 DEF CommitActivity, CommitPortal, market
    <3>2. since \in Nat /\ now \in Nat /\ since <= now
      BY <3>1, ReportsAreOfTheBeginning
    <3>3. ASSUME \A e \in ExecutedBy(now) : e.at <= since
          PROVE  [key \in DOMAIN positions' |-> positions'[key].quantity]
                   = [key \in Holdings(now) |-> Held(key, now)]
      <4>1. \A e \in executed : e.at \in Nat
        BY TradesAreTyped, TimesAreNat DEF JobInv
      <4>2. Holdings(now) = Holdings(since) /\ \A key : Held(key, now) = Held(key, since)
        BY <3>2, <3>3, <4>1, QuietHoldings
      <4>3. CASE CommitActivity
        <5>1. PICK stated \in BOOLEAN :
                positions' = [key \in Holdings(since) |-> Lot(key, since, stated)]
          BY <3>1, <4>3, ReportsAreOfTheBeginning DEF CommitActivity
        <5>2. \A key : Lot(key, since, stated).quantity = Held(key, since)
          BY DEF Lot
        <5> QED
          BY <4>2, <5>1, <5>2
      <4>4. CASE CommitPortal
        <5>1. /\ DOMAIN rows = Holdings(since)
              /\ \A key \in DOMAIN rows : rows[key] = Held(key, since)
          BY <3>1, <3>3, <4>4, ReportsAreOfTheBeginning DEF CommitPortal
        <5>2. positions' = [key \in DOMAIN rows |->
                 [quantity |-> rows[key], cost |-> 0, status |-> "unavailable"]]
          BY <4>4 DEF CommitPortal
        <5> QED
          BY <4>2, <5>1, <5>2
      <4> QED
        BY <2>3, <4>3, <4>4
    <3>5. Holdings(last.to)' = Holdings(now)
      BY <3>1 DEF Holdings, Held, ExecutedBy
    <3>6. \A key : Held(key, last.to)' = Held(key, now)
      BY <3>1 DEF Held, ExecutedBy
    <3>7. ExecutedBy(last.to)' = ExecutedBy(now)
      BY <3>1 DEF ExecutedBy
    <3>8. PositionsAreTheBrokers'
      BY <3>1, <3>3, <3>5, <3>6, <3>7 DEF PositionsAreTheBrokers
    <3> QED
      BY <3>1, <3>2, <3>8 DEF LastInv
  <2> QED
    BY <2>1, <2>2, <2>3, WhatHappens
<1>3. LastInv => PositionsAreTheBrokers
  BY DEF LastInv
<1> QED
  BY <1>1, <1>2, <1>3, JobsReadTheBroker, PTL DEF Spec

-----------------------------------------------------------------------------
(* Positions and executions.                                               *)

\* The executions on file are the trades of the reports imported, each in the
\* row its own id names; a running import began after all of them.
TradesInv ==
  /\ reported \subseteq ExecutedBy(now) /\ (kind # "idle" => reported \subseteq ExecutedBy(since))
  /\ {transactions[i] : i \in DOMAIN transactions} = reported
  /\ \A i \in DOMAIN transactions : TransactionId(transactions[i].fill) = i

LEMMA TradesGrow ==
  ASSUME NEW from \in Nat, NEW to \in Nat, from <= to, \A e \in executed : e.at \in Nat
  PROVE  ExecutedBy(from) \subseteq ExecutedBy(to)
BY DEF ExecutedBy

LEMMA TradesAreKept ==
  ASSUME JobInv, TradesInv, now' \in Nat, now <= now', UNCHANGED <<transactions, reported, executed>>,
         \/ kind' = "idle" \/ since' = now
         \/ kind # "idle" /\ since' = since
  PROVE  TradesInv'
<1>1. now \in Nat /\ \A e \in executed : e.at \in Nat
  BY TradesAreTyped, TimesAreNat DEF JobInv, MarketInv
<1>2. ExecutedBy(now) \subseteq {e \in executed : e.at <= now'}
  BY <1>1 DEF ExecutedBy
<1>3. reported \subseteq {e \in executed : e.at <= now'}
  BY <1>2 DEF TradesInv
<1>4. kind' # "idle" => reported \subseteq {e \in executed : e.at <= since'}
  BY DEF TradesInv, ExecutedBy
<1> QED
  BY <1>3, <1>4 DEF TradesInv, ExecutedBy

\* What an activity import does to the executions.
LEMMA TradesAreImported ==
  ASSUME JobInv, TradesInv, CommitActivity
  PROVE  /\ TradesInv' /\ reported' = reported \cup Trades(since)
         /\ reported' \subseteq ExecutedBy(since) /\ since \in Nat /\ since <= now
         /\ executed' = executed
<1>1. /\ Fetched /\ kind = "activity" /\ now' = now /\ executed' = executed /\ kind' = "idle"
  BY DEF CommitActivity, EndJob, market
<1>2. /\ since \in Nat /\ now \in Nat /\ since <= now /\ since \in Times
      /\ answers[1] = since /\ answers[2] = since
  BY <1>1, ReportsAreOfTheBeginning
<1>3. \A e \in executed : e.at \in Nat
  BY TradesAreTyped, TimesAreNat DEF JobInv
<1>4. \A e, o \in executed : TransactionId(e.fill) = TransactionId(o.fill) => e = o
  BY TradesAreTyped DEF JobInv
<1> DEFINE ids == {TransactionId(e.fill) : e \in Trades(since)}
           new == [i \in ids |-> CHOOSE e \in Trades(since) : TransactionId(e.fill) = i]
<1>5. reported' = reported \cup Trades(since) /\ transactions' = Upserted(transactions, new)
  BY <1>2 DEF CommitActivity
<1>6. Trades(since) \subseteq ExecutedBy(since) /\ Trades(since) \subseteq executed
  BY DEF Trades, ExecutedBy
<1>7. reported' \subseteq ExecutedBy(since) /\ reported' \subseteq ExecutedBy(now)
  BY <1>1, <1>2, <1>3, <1>5, <1>6, TradesGrow DEF TradesInv
<1>8. \A i \in ids : new[i] \in Trades(since) /\ TransactionId(new[i].fill) = i
  OBVIOUS
<1>9. \A e \in Trades(since) : TransactionId(e.fill) \in ids /\ new[TransactionId(e.fill)] = e
  BY <1>4, <1>6, <1>8
<1>10. DOMAIN new = ids
  OBVIOUS
<1>11. /\ {transactions[i] : i \in DOMAIN transactions} = reported
       /\ \A i \in DOMAIN transactions : TransactionId(transactions[i].fill) = i
       /\ reported \subseteq executed
  BY DEF TradesInv, ExecutedBy
<1> HIDE DEF ids, new
<1>12. /\ DOMAIN transactions' = DOMAIN transactions \cup ids
       /\ \A i \in ids : transactions'[i] = new[i]
       /\ \A i \in DOMAIN transactions : i \notin ids => transactions'[i] = transactions[i]
  BY <1>5, <1>10 DEF Upserted
<1>13. \A i \in DOMAIN transactions' : TransactionId(transactions'[i].fill) = i
  BY <1>8, <1>11, <1>12
<1>14. \A i \in DOMAIN transactions' : transactions'[i] \in reported'
  BY <1>5, <1>8, <1>11, <1>12
<1>15. ASSUME NEW e \in reported'
       PROVE  \E i \in DOMAIN transactions' : transactions'[i] = e
  <2>1. CASE e \in Trades(since)
    BY <1>9, <1>12, <2>1
  <2>2. CASE e \in reported
    <3>1. PICK i \in DOMAIN transactions : transactions[i] = e
      BY <1>11, <2>2
    <3>2. CASE i \in ids
      <4>1. new[i] \in executed /\ TransactionId(new[i].fill) = TransactionId(e.fill)
        BY <1>6, <1>8, <1>11, <3>1, <3>2
      <4>2. new[i] = e
        BY <1>4, <1>11, <2>2, <4>1
      <4> QED
        BY <1>12, <3>2, <4>2
    <3>3. CASE i \notin ids
      BY <1>12, <3>1, <3>3
    <3> QED
      BY <3>2, <3>3
  <2> QED
    BY <1>5, <2>1, <2>2
<1>16. {transactions'[i] : i \in DOMAIN transactions'} = reported'
  BY <1>14, <1>15
<1>17. ExecutedBy(now)' = ExecutedBy(now)
  BY <1>1 DEF ExecutedBy
<1>18. TradesInv'
  BY <1>1, <1>7, <1>13, <1>16, <1>17 DEF TradesInv
<1> QED
  BY <1>1, <1>2, <1>5, <1>7, <1>18

\* The trades of a position before those a report lists: a report goes back
\* to a midnight, and with nothing held there the cost had gone.
LEMMA EarlierTrades ==
  ASSUME MarketInv, NEW r \in Times, NEW key \in Keys,
         QuantityOf(TradesOf(key, ExecutedBy(r)) \ TradesOf(key, Trades(r))) = 0
  PROVE  CostOf(TradesOf(key, ExecutedBy(r)) \ TradesOf(key, Trades(r))) = 0
<1> DEFINE first == Day(r) - Period
           early == TradesOf(key, ExecutedBy(r)) \ TradesOf(key, Trades(r))
<1>1. r \in Nat /\ Day(r) \in 0..LastDay /\ LastDay \in Nat /\ Period \in Nat /\ 3 * Day(r) < r
  BY TimesAreNat, BrokerAssumption, ConnectorAssumption
<1>2. first \in Int /\ first <= LastDay /\ 3 * first < r
  BY <1>1
<1>3. \A e \in executed : e.at \in Nat /\ Day(e.at) \in Int
                          /\ 3 * Day(e.at) < e.at /\ e.at < 3 * Day(e.at) + 3
  <2>1. \A e \in executed : e.at \in Times
    BY TradesAreTyped
  <2>2. \A t \in Times : t \in Nat /\ Day(t) \in Int /\ 3 * Day(t) < t /\ t < 3 * Day(t) + 3
    BY <1>1, TimesAreNat
  <2> QED
    BY <2>1, <2>2
<1> HIDE DEF first
<1>4. early = TradesOf(key, {e \in executed : e.at < 3 * first})
  <2>1. \A e \in executed : (e.at <= r /\ ~(Day(e.at) >= first)) <=> e.at < 3 * first
    BY <1>1, <1>2, <1>3
  <2> QED
    BY <2>1 DEF TradesOf, ExecutedBy, Trades, first
<1>5. CASE first < 0
  <2>1. {e \in executed : e.at < 3 * first} = {}
    BY <1>2, <1>3, <1>5
  <2>2. early = {}
    BY <1>4, <2>1 DEF TradesOf
  <2>3. CostOf({}) = 0
    BY SumOfNothing DEF CostOf, SumFunction
  <2> QED
    BY <2>2, <2>3
<1>6. CASE first >= 0
  <2>1. 3 * first \in 0..Close(LastDay)
    BY <1>1, <1>2, <1>6 DEF Close
  <2> DEFINE t == 3 * first
  <2>2. t \in 0..Close(LastDay) /\ executed \in Schedules /\ early = TradesOf(key, {e \in executed : e.at < t})
    BY <1>4, <2>1 DEF MarketInv
  <2> HIDE DEF t
  <2>3. QuantityOf(TradesOf(key, {e \in executed : e.at < t})) = 0
        => CostOf(TradesOf(key, {e \in executed : e.at < t})) = 0
    BY <2>2, FlatAssumption
  <2> QED
    BY <2>2, <2>3
<1> QED
  BY <1>2, <1>5, <1>6

LEMMA LedgerIsExplained ==
  ASSUME JobInv, TradesInv, CommitActivity
  PROVE  LedgerExplainsPositions'
<1>1. /\ TradesInv' /\ reported' = reported \cup Trades(since)
      /\ reported' \subseteq ExecutedBy(since) /\ since \in Nat /\ since <= now
      /\ executed' = executed
  BY TradesAreImported
<1>2. /\ Fetched /\ kind = "activity"
      /\ last' = [kind |-> "activity", from |-> since, to |-> now]
  BY DEF CommitActivity
<1>3. since \in Times /\ now \in Nat /\ answers[1] = since
  BY <1>2, ReportsAreOfTheBeginning
<1>4. PICK stated \in BOOLEAN : positions' = [key \in Holdings(since) |-> Lot(key, since, stated)]
  BY <1>3 DEF CommitActivity
<1> DEFINE all(key) == TradesOf(key, ExecutedBy(since))
           file(key) == TradesOf(key, reported')
<1>5. \A key : ExecutionsOf(key)' = file(key)
  BY <1>1 DEF ExecutionsOf, TradesOf, TradesInv
<1>6. \A key : TradesOf(key, ExecutedBy(since) \ reported') = all(key) \ file(key)
  BY DEF TradesOf
<1>7. ASSUME NEW key \in Keys
      PROVE  /\ IsFiniteSet(all(key)) /\ file(key) \in SUBSET all(key)
             /\ \A e \in all(key) : e.fill.quantity \in Int /\ e.fill.cost \in Int
  <2>1. IsFiniteSet(all(key))
    BY HoldingsAreTyped DEF JobInv
  <2>2. file(key) \in SUBSET all(key)
    BY <1>1 DEF TradesOf
  <2>3. all(key) \subseteq executed
    BY DEF TradesOf, ExecutedBy
  <2> QED
    BY <2>1, <2>2, <2>3, TradesAreTyped DEF JobInv
<1>8. ASSUME NEW key \in Keys
      PROVE  (IF key \in DOMAIN positions' THEN positions'[key].quantity ELSE 0)
               = QuantityOf(file(key)) + QuantityOf(all(key) \ file(key))
  <2>1. QuantityOf(all(key)) = QuantityOf(file(key)) + QuantityOf(all(key) \ file(key))
    BY <1>7, QuantitiesAdd
  <2>2. QuantityOf(all(key)) = Held(key, since)
    BY DEF Held
  <2>3. key \in Holdings(since) <=> Held(key, since) # 0
    BY DEF Holdings
  <2>4. key \in Holdings(since) => positions'[key].quantity = Held(key, since)
    BY <1>4 DEF Lot
  <2>5. DOMAIN positions' = Holdings(since)
    BY <1>4
  <2> QED
    BY <2>1, <2>2, <2>3, <2>4, <2>5
<1>9. ASSUME NEW key \in Keys, key \in DOMAIN positions',
             positions'[key].status = "reconstructed"
      PROVE  positions'[key].cost = CostOf(all(key))
  <2> DEFINE window == TradesOf(key, Trades(since))
  <2>1. positions'[key] = Lot(key, since, stated)
    BY <1>4, <1>9
  <2>2. /\ QuantityOf(window) = QuantityOf(all(key))
        /\ positions'[key].cost = CostOf(window)
    <3> DEFINE broker == stated /\ CostOf(all(key)) # 0
               whole  == QuantityOf(window) = Held(key, since) /\ CostOf(window) # 0
               status == IF broker THEN "broker" ELSE IF whole THEN "reconstructed" ELSE "unavailable"
    <3>1. /\ positions'[key].status = status
          /\ positions'[key].cost = (IF status = "broker" THEN CostOf(all(key))
               ELSE IF status = "reconstructed" THEN CostOf(window) ELSE 0)
      <4> DEFINE cost == IF status = "broker" THEN CostOf(all(key))
                         ELSE IF status = "reconstructed" THEN CostOf(window) ELSE 0
      <4>1. Lot(key, since, stated) = [quantity |-> Held(key, since), cost |-> cost, status |-> status]
        BY DEF Lot
      <4> HIDE DEF cost, status
      <4>2. positions'[key].status = status /\ positions'[key].cost = cost
        BY <2>1, <4>1
      <4> QED
        BY <4>2 DEF cost
    <3>2. status = "reconstructed"
      BY <1>9, <3>1
    <3>3. whole /\ status # "broker"
      BY <3>2
    <3> HIDE DEF status
    <3> QED
      BY <3>1, <3>2, <3>3 DEF Held
  <2>3. window \in SUBSET all(key)
    BY DEF TradesOf, Trades
  <2>4. /\ QuantityOf(all(key)) \in Int /\ CostOf(all(key)) \in Int
        /\ QuantityOf(all(key)) = QuantityOf(window) + QuantityOf(all(key) \ window)
        /\ CostOf(all(key)) = CostOf(window) + CostOf(all(key) \ window)
    BY <1>7, <2>3, QuantitiesAdd
  <2>5. QuantityOf(all(key) \ window) \in Int /\ CostOf(window) \in Int
    <3>1. IsFiniteSet(window) /\ IsFiniteSet(all(key) \ window)
      BY <1>7, <2>3, FS_Subset
    <3> QED
      BY <1>7, <2>3, <3>1, QuantitiesAdd
  <2>6. CostOf(all(key) \ window) = 0
    <3>1. QuantityOf(all(key) \ window) = 0
      BY <2>2, <2>4, <2>5
    <3> QED
      BY <1>3, <3>1, EarlierTrades DEF JobInv
  <2> QED
    BY <2>2, <2>4, <2>5, <2>6
<1>11. since \in since..now
  BY <1>1, <1>3
<1>12. \A r : ExecutedBy(r)' = ExecutedBy(r)
  BY <1>1 DEF ExecutedBy
<1> QED
  BY <1>2, <1>5, <1>6, <1>8, <1>9, <1>11, <1>12 DEF LedgerExplainsPositions

LEMMA TradesAreOnFile == Spec => []TradesInv
<1>1. Init => TradesInv
  <2> SUFFICES ASSUME Init PROVE TradesInv
    OBVIOUS
  <2>1. transactions = Empty /\ DOMAIN Empty = {} /\ reported = {}
    BY DEF Init, LedgerInit, Empty
  <2> QED
    BY <2>1 DEF TradesInv
<1>2. JobInv /\ JobInv' /\ TradesInv /\ [Next]_vars => TradesInv'
  <2> SUFFICES ASSUME JobInv, JobInv', TradesInv, [Next]_vars PROVE TradesInv'
    OBVIOUS
  <2>0. now' \in Nat /\ now \in Nat
    BY TimesAreNat DEF JobInv, MarketInv
  <2>1. CASE Kept \/ \E c \in Currencies : Refresh(c)
    <3>1. /\ UNCHANGED <<transactions, reported, executed>> /\ now <= now'
          /\ kind' = "idle" \/ (kind # "idle" /\ since' = since) \/ since' = now
      BY <2>0, <2>1 DEF Kept, tables, history, Refresh, market, connectors
    <3> QED
      BY <2>0, <3>1, TradesAreKept
  <2>2. CASE CommitPortal \/ CommitHistory
    <3>1. UNCHANGED <<transactions, reported, executed>> /\ now' = now /\ kind' = "idle"
      BY <2>2 DEF CommitPortal, CommitHistory, EndJob, market
    <3> QED
      BY <2>0, <3>1, TradesAreKept
  <2>3. CASE CommitActivity
    BY <2>3, TradesAreImported
  <2> QED
    BY <2>1, <2>2, <2>3, WhatHappens
<1> QED
  BY <1>1, <1>2, JobsReadTheBroker, PTL DEF Spec

\* After an activity import every quantity is explained by the executions on
\* file and the earlier trades no report listed, and a cost rebuilt from a
\* report of a few days is that of all of the position's trades.
THEOREM LedgerAlwaysExplainsPositions == Spec => []LedgerExplainsPositions
<1>1. Init => LedgerExplainsPositions
  BY DEF Init, LedgerInit, LedgerExplainsPositions
<1>2. JobInv /\ TradesInv /\ LedgerExplainsPositions /\ [Next]_vars => LedgerExplainsPositions'
  <2> SUFFICES ASSUME JobInv, TradesInv, LedgerExplainsPositions, [Next]_vars
               PROVE  LedgerExplainsPositions'
    OBVIOUS
  <2>1. CASE Kept \/ \E c \in Currencies : Refresh(c)
    <3>1. UNCHANGED <<positions, transactions, last, reported, executed>>
      BY <2>1 DEF Kept, tables, history, Refresh, market
    <3>2. /\ \A key : ExecutionsOf(key)' = ExecutionsOf(key)
          /\ \A r : ExecutedBy(r)' = ExecutedBy(r)
      BY <3>1 DEF ExecutionsOf, TradesOf, ExecutedBy
    <3> QED
      BY <3>1, <3>2 DEF LedgerExplainsPositions
  <2>2. CASE CommitPortal \/ CommitHistory
    BY <2>2 DEF CommitPortal, CommitHistory, LedgerExplainsPositions
  <2>3. CASE CommitActivity
    BY <2>3, LedgerIsExplained
  <2> QED
    BY <2>1, <2>2, <2>3, WhatHappens
<1> QED
  BY <1>1, <1>2, JobsReadTheBroker, TradesAreOnFile, PTL DEF Spec

-----------------------------------------------------------------------------
(* Values: snapshots, and the review of a refresh.                         *)

LEMMA MaxIsThere ==
  ASSUME NEW S, IsFiniteSet(S), S # {}, \A x \in S : x \in Int
  PROVE  Max(S) \in S /\ \A y \in S : y <= Max(S)
<1> DEFINE Q == {T \in SUBSET S : T # {} => \E x \in T : \A y \in T : x >= y}
<1>1. {} \in Q
  OBVIOUS
<1>2. ASSUME NEW T \in SUBSET S, NEW z \in S, T \in Q, z \notin T PROVE T \cup {z} \in Q
  <2>1. CASE T = {}
    BY <2>1
  <2>2. CASE T # {}
    <3>1. PICK x \in T : \A y \in T : x >= y
      BY <1>2, <2>2
    <3>2. CASE x >= z
      BY <3>1, <3>2
    <3>3. CASE ~(x >= z)
      BY <3>1, <3>3
    <3> QED
      BY <3>2, <3>3
  <2> QED
    BY <2>1, <2>2
<1> HIDE DEF Q
<1>3. S \in Q
  BY <1>1, <1>2, GrowUp
<1>4. \E x \in S : \A y \in S : x >= y
  BY <1>3 DEF Q
<1>5. Max(S) \in S /\ \A y \in S : Max(S) >= y
  BY <1>4, Zenon DEF Max
<1> QED
  BY <1>5

LEMMA QuotientIsWhole ==
  ASSUME NEW x \in Nat, NEW d \in Nat \ {0}
  PROVE  x \div d \in Nat /\ d * (x \div d) <= x /\ x < d * (x \div d) + d
OBVIOUS

LEMMA ReductionIsBounded ==
  ASSUME NEW held \in Int, NEW unit \in Nat \ {0}, NEW nav \in Int
  PROVE  LET r == Reduction(held * unit, unit, nav) IN
         /\ r \in Nat
         /\ r > 0 => r <= held /\ 100 * (held - r - 1) * unit < MaxPercent * nav
<1> DEFINE r == Reduction(held * unit, unit, nav)
           excess == 100 * (held * unit) - MaxPercent * nav
<1>1. MaxPercent \in Nat /\ MaxPercent > 0
  BY LedgerAssumption
<1>2. excess \in Int /\ held * unit \in Int /\ MaxPercent * nav \in Int
  BY <1>1
<1>3. CASE nav <= 0
  BY <1>3 DEF Reduction
<1>4. CASE nav > 0
  <2>1. Max({excess, 0}) \in {excess, 0} /\ Max({excess, 0}) >= excess /\ Max({excess, 0}) >= 0
    <3> HIDE DEF excess
    <3>1. IsFiniteSet({excess, 0})
      <4>1. {excess, 0} = {excess} \cup {0} /\ IsFiniteSet({excess})
        BY FS_Singleton
      <4> QED
        BY <4>1, FS_AddElement
    <3> QED
      BY <1>2, <3>1, MaxIsThere
  <2>2. r = Max({excess, 0}) \div (100 * unit)
    BY <1>4 DEF Reduction
  <2>3. 100 * unit \in Nat \ {0}
    OBVIOUS
  <2>4. MaxPercent * nav > 0
    BY <1>1, <1>4
  <2> HIDE DEF r
  <2>5. CASE excess <= 0
    <3>1. Max({excess, 0}) = 0
      BY <1>2, <2>1, <2>5
    <3>2. r = 0
      BY <2>2, <2>3, <3>1, QuotientIsWhole
    <3> QED
      BY <3>2 DEF r
  <2>6. CASE excess > 0
    <3>1. Max({excess, 0}) = excess /\ excess \in Nat
      BY <1>2, <2>1, <2>6
    <3>2. /\ r \in Nat /\ (100 * unit) * r <= excess /\ excess < (100 * unit) * r + 100 * unit
      <4> HIDE DEF excess
      <4> QED
        BY <2>2, <2>3, <3>1, QuotientIsWhole
    <3>3. unit * r < unit * held
      BY <1>2, <2>4, <3>2
    <3>4. r < held
      BY <3>2, <3>3
    <3>5. 100 * (held - r - 1) * unit = 100 * (held * unit) - (100 * unit) * r - 100 * unit
      BY <3>2
    <3>6. 100 * (held - r - 1) * unit < MaxPercent * nav
      BY <1>2, <3>2, <3>5
    <3> QED
      BY <3>2, <3>4, <3>6 DEF r
  <2> QED
    BY <1>2, <2>5, <2>6
<1> QED
  BY <1>3, <1>4

SnapshotTyped(s) == s.nav \in Int /\ s.valued \in 0..s.count

RatesTyped(rs) == \A r \in rs : r.pair \in Currencies \X Currencies /\ r.at \in Times

ReviewInv ==
  review # None =>
    \A g \in review.signals :
      /\ g.reduce \in Nat
      /\ g.reduce > 0 => /\ g.reduce <= g.held
                         /\ 100 * (g.held - g.reduce - 1) * g.unit < MaxPercent * g.nav

ValuesInv ==
  /\ DOMAIN positions \subseteq Keys
  /\ \A key \in DOMAIN positions : /\ positions[key].quantity \in Int \ {0}
                                   /\ positions[key].cost \in Int
  /\ \A s \in snapshots : SnapshotTyped(s)
  /\ RatesTyped(rates) /\ base \in Currencies
  /\ ReviewInv

LEMMA NewestRatesAreTyped ==
  ASSUME NEW rs, RatesTyped(rs), NEW pairs
  PROVE  \A pair \in DOMAIN Newest(pairs, rs) : Newest(pairs, rs)[pair] \in Times
<1> SUFFICES ASSUME NEW pair \in DOMAIN Newest(pairs, rs) PROVE Max(PointsOf(pair, rs)) \in Times
  BY DEF Newest
<1>1. PointsOf(pair, rs) # {} /\ PointsOf(pair, rs) \subseteq Times
  BY DEF Newest, PointsOf, RatesTyped
<1>2. IsFiniteSet(PointsOf(pair, rs))
  BY <1>1, TimesAreNat, FS_Subset
<1>3. \A t \in PointsOf(pair, rs) : t \in Int
  <2>1. Times \subseteq Int
    BY TimesAreNat
  <2> QED
    BY <1>1, <2>1
<1> QED
  BY <1>1, <1>2, <1>3, MaxIsThere

\* What a refresh values with, and what it leaves on file.
LEMMA RatesAreResolved ==
  ASSUME ValuesInv, NEW c \in Currencies, NEW fetched \in FetchedRates(c)
  PROVE  /\ RatesTyped(Persisted(fetched))
         /\ DOMAIN fetched \subseteq Pairs(DOMAIN positions, c)
         /\ \A pair \in DOMAIN fetched : fetched[pair] \in Times
         /\ \A pair \in DOMAIN Resolved(c, fetched) : Resolved(c, fetched)[pair] \in Times
<1> DEFINE pairs  == Pairs(DOMAIN positions, c)
           newest == Newest(pairs, rates)
<1>1. DOMAIN fetched \subseteq pairs /\ \A pair \in DOMAIN fetched : fetched[pair] \in Times
  <2>1. PICK ps \in SUBSET pairs : fetched \in [ps -> {t \in Times : now - t \in RateAges}]
    BY DEF FetchedRates
  <2> QED
    BY <2>1
<1>2. pairs \subseteq Currencies \X Currencies
  <2>1. \A key \in DOMAIN positions : LocalCurrency(key) \in Currencies
    BY LedgerAssumption, KeysAreFinite DEF LocalCurrency, ValuesInv
  <2> QED
    BY <2>1 DEF Pairs
<1>3. RatesTyped(Persisted(fetched))
  BY <1>1, <1>2 DEF Persisted, RatesTyped, ValuesInv
<1>4. \A pair \in DOMAIN newest : newest[pair] \in Times
  BY NewestRatesAreTyped DEF ValuesInv
<1>5. Resolved(c, fetched)
        = [x \in DOMAIN newest \cup DOMAIN fetched |->
             IF x \in DOMAIN fetched THEN fetched[x] ELSE newest[x]]
  BY DEF Resolved, Upserted
<1> HIDE DEF newest, pairs
<1>6. \A pair \in DOMAIN Resolved(c, fetched) : Resolved(c, fetched)[pair] \in Times
  BY <1>1, <1>4, <1>5
<1> QED
  BY <1>1, <1>3, <1>6 DEF pairs

LEMMA PricesAreWhole ==
  ASSUME now \in Times, NEW used, \A pair \in DOMAIN used : used[pair] \in Times,
         NEW c, NEW ps, NEW key \in Valued(ps, c, used)
  PROVE  UnitPrice(key, c, used) \in Nat \ {0}
<1>1. \A t \in Times : Price[t] \in Nat \ {0} /\ Fx[t] \in Nat \ {0}
  BY BrokerAssumption, LedgerAssumption
<1>2. CASE LocalCurrency(key) = c
  BY <1>1, <1>2 DEF UnitPrice
<1>3. CASE LocalCurrency(key) # c
  <2>1. used[<<LocalCurrency(key), c>>] \in Times
    BY <1>3 DEF Valued
  <2>2. Price[now] \in Nat \ {0} /\ Fx[used[<<LocalCurrency(key), c>>]] \in Nat \ {0}
    BY <1>1, <2>1
  <2>3. \A x, y \in Nat \ {0} : x * y \in Nat \ {0}
    OBVIOUS
  <2> QED
    BY <1>3, <2>2, <2>3 DEF UnitPrice
<1> QED
  BY <1>2, <1>3

LEMMA PortfoliosAreTyped ==
  ASSUME now \in Times, ValuesInv, NEW used, \A pair \in DOMAIN used : used[pair] \in Times,
         NEW c, NEW id
  PROVE  SnapshotTyped(PortfolioSnapshot(id, c, used))
<1> DEFINE valued == Valued(DOMAIN positions, c, used)
           worth  == [key \in valued |-> Worth(key, c, used)]
<1>1. valued \subseteq DOMAIN positions /\ IsFiniteSet(DOMAIN positions)
  BY KeysAreFinite, FS_Subset DEF Valued, ValuesInv
<1>2. /\ IsFiniteSet(valued) /\ Cardinality(valued) \in Nat /\ Cardinality(DOMAIN positions) \in Nat
      /\ Cardinality(valued) <= Cardinality(DOMAIN positions)
  BY <1>1, FS_Subset, FS_CardinalityType
<1>3. \A key \in valued : Worth(key, c, used) \in Int
  <2> SUFFICES ASSUME NEW key \in valued PROVE Worth(key, c, used) \in Int
    OBVIOUS
  <2>1. UnitPrice(key, c, used) \in Nat
    BY PricesAreWhole
  <2>2. positions[key].quantity \in Int
    BY <1>1 DEF ValuesInv
  <2> QED
    BY <2>1, <2>2 DEF Worth
<1>4. SumFunction(worth) \in Int
  <2>1. DOMAIN worth = valued /\ \A key \in valued : worth[key] \in Int
    BY <1>3
  <2> HIDE DEF worth
  <2> QED
    BY <1>2, <2>1, SumIsInt DEF SumFunction
<1>5. /\ PortfolioSnapshot(id, c, used).nav = SumFunction(worth)
      /\ PortfolioSnapshot(id, c, used).count = Cardinality(DOMAIN positions)
      /\ PortfolioSnapshot(id, c, used).valued = Cardinality(valued)
  BY DEF PortfolioSnapshot
<1> HIDE DEF worth, valued
<1> QED
  BY <1>2, <1>4, <1>5 DEF SnapshotTyped

LEMMA DaysAreValued ==
  ASSUME MarketInv, NEW a, NEW d \in 0..LastDay
  PROVE  ValueAt(a, Close(d)) \in Int
<1> DEFINE worth == [key \in HoldingsOf(a, Close(d)) |-> Held(key, Close(d)) * Price[Close(d)]]
<1>1. Price[Close(d)] \in Nat
  BY TimesAreNat, BrokerAssumption
<1>2. /\ IsFiniteSet(HoldingsOf(a, Close(d)))
      /\ \A key \in HoldingsOf(a, Close(d)) : Held(key, Close(d)) \in Int
  BY HoldingsAreTyped
<1>3. DOMAIN worth = HoldingsOf(a, Close(d)) /\ \A key \in DOMAIN worth : worth[key] \in Int
  BY <1>1, <1>2
<1>4. ValueAt(a, Close(d)) = SumFunctionOnSet(worth, HoldingsOf(a, Close(d)))
  BY <1>3, Zenon DEF ValueAt, SumFunction
<1> HIDE DEF worth
<1> QED
  BY <1>2, <1>3, <1>4, SumIsInt

LEMMA DaySnapshotsAreTyped ==
  ASSUME MarketInv, NEW as \in SUBSET Accounts, NEW c, NEW d \in 0..LastDay
  PROVE  SnapshotTyped(DaySnapshot(as, c, d))
<1> DEFINE own   == {a \in as : AccountCurrency[a] = c}
           held  == UNION {HoldingsOf(a, Close(d)) : a \in own}
           value == [a \in own |-> ValueAt(a, Close(d))]
<1>1. held \subseteq Keys
  BY HoldingsAreTyped
<1>2. IsFiniteSet(held) /\ Cardinality(held) \in Nat
  BY <1>1, KeysAreFinite, FS_Subset, FS_CardinalityType
<1>3. IsFiniteSet(own)
  BY BrokerAssumption, FS_Subset
<1>4. DOMAIN value = own /\ \A a \in own : value[a] \in Int
  BY DaysAreValued
<1>5. SumFunction(value) \in Int
  <2> HIDE DEF value, own
  <2> QED
    BY <1>3, <1>4, SumIsInt DEF SumFunction
<1>6. /\ DaySnapshot(as, c, d).nav = SumFunction(value)
      /\ DaySnapshot(as, c, d).count = Cardinality(held)
      /\ DaySnapshot(as, c, d).valued = Cardinality(held)
  BY DEF DaySnapshot
<1> HIDE DEF value, held
<1> QED
  BY <1>2, <1>5, <1>6 DEF SnapshotTyped

\* What a commit writes is typed; the review is not touched by it.
LEMMA ValuesAreImported ==
  ASSUME JobInv, ValuesInv, CommitActivity \/ CommitPortal \/ CommitHistory
  PROVE  ValuesInv'
<1>1. /\ Fetched /\ UNCHANGED <<rates, base, review>>
      /\ since \in Times
      /\ kind = "activity" => answers[1] = since
      /\ kind = "history" => answers[1] = since
  BY ReportsAreOfTheBeginning DEF CommitActivity, CommitPortal, CommitHistory
<1>2. RatesTyped(rates)' /\ (base \in Currencies)' /\ ReviewInv'
  BY <1>1 DEF ValuesInv, RatesTyped, ReviewInv
<1>3. CASE CommitActivity
  <2>1. PICK stated \in BOOLEAN : positions' = [key \in Holdings(since) |-> Lot(key, since, stated)]
    BY <1>1, <1>3 DEF CommitActivity
  <2>2. \A key \in Holdings(since) : Held(key, since) \in Int \ {0} /\ key \in Keys
    BY HoldingsAreTyped DEF Holdings, JobInv
  <2>3. ASSUME NEW key \in Holdings(since)
        PROVE  CostOf(TradesOf(key, ExecutedBy(since))) \in Int
               /\ CostOf(TradesOf(key, Trades(since))) \in Int
    <3>1. /\ TradesOf(key, ExecutedBy(since)) \subseteq executed
          /\ TradesOf(key, Trades(since)) \subseteq executed
      BY DEF TradesOf, Trades, ExecutedBy
    <3>2. /\ IsFiniteSet(executed)
          /\ \A e \in executed : e.fill.quantity \in Int /\ e.fill.cost \in Int
      BY TradesAreTyped DEF JobInv
    <3>3. /\ IsFiniteSet(TradesOf(key, ExecutedBy(since)))
          /\ IsFiniteSet(TradesOf(key, Trades(since)))
      BY <3>1, <3>2, FS_Subset
    <3> QED
      BY <3>1, <3>2, <3>3, QuantitiesAdd
  <2>4. ASSUME NEW key \in Holdings(since)
        PROVE  /\ Lot(key, since, stated).quantity = Held(key, since)
               /\ Lot(key, since, stated).cost \in {CostOf(TradesOf(key, ExecutedBy(since))),
                                                    CostOf(TradesOf(key, Trades(since))), 0}
    BY DEF Lot
  <2>5. /\ DOMAIN positions' \subseteq Keys
        /\ \A key \in DOMAIN positions' : /\ positions'[key].quantity \in Int \ {0}
                                          /\ positions'[key].cost \in Int
    <3>1. DOMAIN positions' = Holdings(since)
      BY <2>1
    <3>2. ASSUME NEW key \in Holdings(since)
          PROVE  positions'[key].quantity \in Int \ {0} /\ positions'[key].cost \in Int
      <4>1. positions'[key] = Lot(key, since, stated)
        BY <2>1
      <4>2. positions'[key].cost \in Int
        BY <2>3, <2>4, <4>1
      <4> QED
        BY <2>2, <2>4, <4>1, <4>2
    <3> QED
      BY <2>2, <3>1, <3>2
  <2>6. snapshots' = snapshots
    BY <1>3 DEF CommitActivity
  <2> QED
    BY <1>2, <2>5, <2>6 DEF ValuesInv, SnapshotTyped
<1>4. CASE CommitPortal
  <2>1. /\ positions' = [key \in DOMAIN rows |->
                           [quantity |-> rows[key], cost |-> 0, status |-> "unavailable"]]
        /\ snapshots' = snapshots
    BY <1>4 DEF CommitPortal
  <2>2. DOMAIN rows \subseteq Keys /\ \A key \in DOMAIN rows : rows[key] \in Int \ {0}
    BY DEF JobInv, ConnectorInv
  <2> QED
    BY <1>2, <2>1, <2>2 DEF ValuesInv, SnapshotTyped
<1>5. CASE CommitHistory
  <2> DEFINE days == StatementDays(since)
  <2>1. PICK as \in Queries :
          snapshots' = Replaced(snapshots,
               {DaySnapshot(as, AccountCurrency[x[1]], x[2]) : x \in as \X days})
    BY <1>1, <1>5 DEF CommitHistory
  <2>2. positions' = positions
    BY <1>5 DEF CommitHistory
  <2>3. as \in SUBSET Accounts /\ days \subseteq 0..LastDay
    BY LedgerAssumption DEF StatementDays
  <2>4. \A x \in as \X days : SnapshotTyped(DaySnapshot(as, AccountCurrency[x[1]], x[2]))
    BY <2>3, DaySnapshotsAreTyped DEF JobInv
  <2>5. \A s \in snapshots' : SnapshotTyped(s)
    BY <2>1, <2>4 DEF Replaced, ValuesInv
  <2> QED
    BY <1>2, <2>2, <2>5 DEF ValuesInv, SnapshotTyped
<1> QED
  BY <1>3, <1>4, <1>5

LEMMA RefreshIsTyped ==
  ASSUME JobInv, ValuesInv, NEW c \in Currencies, Refresh(c)
  PROVE  ValuesInv'
<1>1. /\ base' = c /\ positions' = positions /\ now \in Times
  BY DEF Refresh, JobInv, MarketInv
<1>2. PICK fetched \in FetchedRates(c) :
        LET used == Resolved(c, fetched)
            s    == PortfolioSnapshot(<<"review", refreshes>>, c, used) IN
        /\ rates' = Persisted(fetched)
        /\ snapshots' = Replaced(snapshots, {s})
        /\ review' = [snapshot |-> s, previous |-> Previous(snapshots', s), rates |-> used,
                      signals |-> Signals(c, used, s.nav)]
  BY DEF Refresh
<1> DEFINE used == Resolved(c, fetched)
           s    == PortfolioSnapshot(<<"review", refreshes>>, c, used)
<1>3. RatesTyped(Persisted(fetched))
  BY RatesAreResolved
<1>4. \A pair \in DOMAIN used : used[pair] \in Times
  BY RatesAreResolved
<1>5. snapshots' = Replaced(snapshots, {s}) /\ review'.signals = Signals(c, used, s.nav)
  BY <1>2
<1> HIDE DEF used
<1>6. SnapshotTyped(s)
  BY <1>1, <1>4, PortfoliosAreTyped
<1>7. s.nav \in Int
  BY <1>6 DEF SnapshotTyped
<1> HIDE DEF s
<1>8. \A x \in snapshots' : SnapshotTyped(x)
  BY <1>5, <1>6 DEF Replaced, ValuesInv
<1>9. ASSUME NEW g \in Signals(c, used, s.nav)
      PROVE  /\ g.reduce \in Nat
             /\ g.reduce > 0 => /\ g.reduce <= g.held
                                /\ 100 * (g.held - g.reduce - 1) * g.unit < MaxPercent * g.nav
  <2>1. PICK key \in DOMAIN positions :
          g = [key |-> key, held |-> positions[key].quantity, nav |-> s.nav,
               unit |-> IF key \in Valued({key}, c, used) THEN UnitPrice(key, c, used) ELSE 0,
               reduce |-> IF key \in Valued({key}, c, used)
                 THEN Reduction(Worth(key, c, used), UnitPrice(key, c, used), s.nav) ELSE 0]
    BY DEF Signals
  <2>2. CASE key \in Valued({key}, c, used)
    <3> DEFINE unit == UnitPrice(key, c, used)
               held == positions[key].quantity
    <3>1. unit \in Nat \ {0} /\ held \in Int
      BY <1>1, <1>4, <2>2, PricesAreWhole DEF ValuesInv
    <3>2. g.held = held /\ g.nav = s.nav /\ g.unit = unit
          /\ g.reduce = Reduction(held * unit, unit, s.nav)
      BY <2>1, <2>2 DEF Worth
    <3> HIDE DEF unit, held
    <3>3. LET r == Reduction(held * unit, unit, s.nav) IN
          /\ r \in Nat
          /\ r > 0 => r <= held /\ 100 * (held - r - 1) * unit < MaxPercent * s.nav
      BY <1>7, <3>1, ReductionIsBounded
    <3> QED
      BY <3>2, <3>3
  <2>3. CASE key \notin Valued({key}, c, used)
    BY <2>1, <2>3
  <2> QED
    BY <2>2, <2>3
<1>10. ReviewInv'
  BY <1>5, <1>9 DEF ReviewInv
<1>11. RatesTyped(rates)'
  BY <1>2, <1>3 DEF RatesTyped
<1> QED
  BY <1>1, <1>8, <1>10, <1>11 DEF ValuesInv, SnapshotTyped

LEMMA ValuesAreTyped == Spec => []ValuesInv
<1>1. Init => ValuesInv
  <2> SUFFICES ASSUME Init PROVE ValuesInv
    OBVIOUS
  <2>1. /\ DOMAIN positions = {} /\ snapshots = {} /\ rates = {} /\ base \in Currencies
        /\ review = None
    BY LedgerAssumption DEF Init, LedgerInit, Empty
  <2> QED
    BY <2>1 DEF ValuesInv, RatesTyped, ReviewInv
<1>2. JobInv /\ ValuesInv /\ [Next]_vars => ValuesInv'
  <2> SUFFICES ASSUME JobInv, ValuesInv, [Next]_vars PROVE ValuesInv'
    OBVIOUS
  <2>1. CASE Kept
    BY <2>1 DEF Kept, tables, ValuesInv, SnapshotTyped, RatesTyped, ReviewInv
  <2> QED
    BY <2>1, ValuesAreImported, RefreshIsTyped, WhatHappens
<1> QED
  BY <1>1, <1>2, JobsReadTheBroker, PTL DEF Spec

\* What the jobs leave is typed: positions of the broker's accounts, executions
\* that took place, snapshots that value no more than they count, known
\* currencies, and never a recommendation to buy.
THEOREM LedgerIsTyped == Spec => []TypeOK
<1>1. JobInv /\ TradesInv /\ ValuesInv => TypeOK
  <2> SUFFICES ASSUME JobInv, TradesInv, ValuesInv PROVE TypeOK
    OBVIOUS
  <2>1. \A i \in DOMAIN transactions : transactions[i] \in ExecutedBy(now)
    BY DEF TradesInv
  <2>2. review # None => \A g \in review.signals : g.reduce \in Nat
    BY DEF ValuesInv, ReviewInv
  <2> QED
    BY <2>1, <2>2 DEF JobInv, MarketInv, ConnectorInv, ValuesInv, SnapshotTyped, RatesTyped, TypeOK
<1> QED
  BY <1>1, JobsReadTheBroker, TradesAreOnFile, ValuesAreTyped, PTL

\* A recommended reduction never sells more than is held, and leaves at most
\* one share above the limit (recommend_reduction, for every price, rate,
\* position and NAV).
THEOREM ReductionsRestoreTheLimit == Spec => []ReductionRestoresTheLimit
<1>1. ValuesInv => ReductionRestoresTheLimit
  BY DEF ValuesInv, ReviewInv, ReductionRestoresTheLimit
<1> QED
  BY <1>1, ValuesAreTyped, PTL

-----------------------------------------------------------------------------
(* Progress.                                                               *)

\* The pages still to read from page p of account n on.
RowsFrom(n, p, a) == Max({Cardinality(HoldingsOf(a, now)) - (IF a = n THEN p ELSE 0), 0})
PagesFrom(n, p)   == SumFunction([a \in {b \in Accounts : b >= n} |-> 1 + RowsFrom(n, p, a)])

LEMMA PagesAreCounted ==
  ASSUME MarketInv, NEW n \in Nat, NEW p \in Nat
  PROVE  /\ PagesFrom(n, p) \in Nat
         /\ \A a : /\ RowsFrom(n, p, a) \in Nat
                   /\ RowsFrom(n, p, a) =
                        (IF a # n THEN Cardinality(HoldingsOf(a, now))
                         ELSE IF p < Cardinality(HoldingsOf(a, now))
                           THEN Cardinality(HoldingsOf(a, now)) - p ELSE 0)
         /\ n \in Accounts => PagesFrom(n, p) = 1 + RowsFrom(n, p, n) + PagesFrom(n + 1, 0)
<1>1. ASSUME NEW a, NEW m \in Nat, NEW q \in Nat
      PROVE  /\ RowsFrom(m, q, a) \in Nat
             /\ RowsFrom(m, q, a) =
                  (IF a # m THEN Cardinality(HoldingsOf(a, now))
                   ELSE IF q < Cardinality(HoldingsOf(a, now))
                     THEN Cardinality(HoldingsOf(a, now)) - q ELSE 0)
  <2> DEFINE k == Cardinality(HoldingsOf(a, now))
             d == k - (IF a = m THEN q ELSE 0)
  <2>1. k \in Nat
    BY Places
  <2> HIDE DEF k
  <2>2. d \in Int /\ (d > 0 <=> IF a = m THEN q < k ELSE k > 0)
    BY <2>1
  <2>3. Max({d, 0}) \in {d, 0} /\ Max({d, 0}) >= d /\ Max({d, 0}) >= 0
    <3> HIDE DEF d
    <3>1. {d, 0} = {d} \cup {0} /\ IsFiniteSet({d})
      BY FS_Singleton
    <3>2. IsFiniteSet({d, 0})
      BY <3>1, FS_AddElement
    <3> QED
      BY <2>2, <3>2, MaxIsThere
  <2>4. RowsFrom(m, q, a) = Max({d, 0})
    BY DEF RowsFrom, k
  <2> QED
    BY <2>1, <2>2, <2>3, <2>4 DEF k
<1> DEFINE S(m) == {b \in Accounts : b >= m}
           f(m, q) == [a \in S(m) |-> 1 + RowsFrom(m, q, a)]
<1>2. ASSUME NEW m \in Nat, NEW q \in Nat
      PROVE  /\ IsFiniteSet(S(m)) /\ \A a \in S(m) : f(m, q)[a] \in Nat
             /\ PagesFrom(m, q) = SumFunctionOnSet(f(m, q), S(m))
  <2>1. IsFiniteSet(S(m))
    BY BrokerAssumption, FS_Subset
  <2>2. \A a \in S(m) : f(m, q)[a] \in Nat
    <3>1. \A a \in S(m) : RowsFrom(m, q, a) \in Nat
      BY <1>1
    <3>2. \A x \in Nat : 1 + x \in Nat
      OBVIOUS
    <3> QED
      BY <3>1, <3>2
  <2>3. DOMAIN f(m, q) = S(m)
    OBVIOUS
  <2>4. PagesFrom(m, q) = SumFunctionOnSet(f(m, q), S(m))
    BY <2>3, Zenon DEF PagesFrom, SumFunction
  <2> QED
    BY <2>1, <2>2, <2>4
<1>3. PagesFrom(n, p) \in Nat
  <2>1. /\ IsFiniteSet(S(n)) /\ \A a \in S(n) : f(n, p)[a] \in Nat
        /\ PagesFrom(n, p) = SumFunctionOnSet(f(n, p), S(n))
    BY <1>2
  <2> HIDE DEF S, f
  <2> QED
    BY <2>1, SumIsNat
<1>4. ASSUME n \in Accounts PROVE PagesFrom(n, p) = 1 + RowsFrom(n, p, n) + PagesFrom(n + 1, 0)
  <2>1. n \in S(n) /\ S(n) \ {n} = S(n + 1) /\ f(n, p)[n] = 1 + RowsFrom(n, p, n) /\ n + 1 \in Nat
    BY <1>4, KeysAreFinite
  <2>2. \A a \in S(n + 1) : f(n, p)[a] = f(n + 1, 0)[a]
    <3> SUFFICES ASSUME NEW a \in S(n + 1) PROVE f(n, p)[a] = f(n + 1, 0)[a]
      OBVIOUS
    <3>1. a \in S(n) /\ a # n
      BY <2>1
    <3>2. Cardinality(HoldingsOf(a, now)) \in Nat
      BY Places
    <3>3. RowsFrom(n, p, a) = Cardinality(HoldingsOf(a, now))
      BY <1>1, <3>1
    <3>4. RowsFrom(n + 1, 0, a) = Cardinality(HoldingsOf(a, now))
      <4>1. RowsFrom(n + 1, 0, a) =
              (IF a # n + 1 THEN Cardinality(HoldingsOf(a, now))
               ELSE IF 0 < Cardinality(HoldingsOf(a, now))
                 THEN Cardinality(HoldingsOf(a, now)) - 0 ELSE 0)
        BY <1>1, <2>1
      <4> QED
        BY <3>2, <4>1
    <3> QED
      BY <3>1, <3>3, <3>4
  <2>3. /\ IsFiniteSet(S(n)) /\ IsFiniteSet(S(n + 1)) /\ \A a \in S(n) : f(n, p)[a] \in Int
        /\ PagesFrom(n, p) = SumFunctionOnSet(f(n, p), S(n))
        /\ PagesFrom(n + 1, 0) = SumFunctionOnSet(f(n + 1, 0), S(n + 1))
    <3>1. /\ IsFiniteSet(S(n)) /\ \A a \in S(n) : f(n, p)[a] \in Nat
          /\ PagesFrom(n, p) = SumFunctionOnSet(f(n, p), S(n))
      BY <1>2
    <3>2. /\ IsFiniteSet(S(n + 1))
          /\ PagesFrom(n + 1, 0) = SumFunctionOnSet(f(n + 1, 0), S(n + 1))
      BY <1>2, <2>1
    <3> HIDE DEF S, f
    <3> QED
      BY <3>1, <3>2
  <2> HIDE DEF S, f
  <2>4. SumFunctionOnSet(f(n, p), S(n)) = f(n, p)[n] + SumFunctionOnSet(f(n, p), S(n + 1))
    BY <2>1, <2>3, SumWithout
  <2>5. SumFunctionOnSet(f(n, p), S(n + 1)) = SumFunctionOnSet(f(n + 1, 0), S(n + 1))
    BY <2>2, <2>3, SumsAgree
  <2> QED
    BY <2>1, <2>3, <2>4, <2>5
<1> QED
  BY <1>1, <1>3, <1>4

LEMMA ReadingPagesEnds ==
  ASSUME JobInv, ReadPage, UNCHANGED market
  PROVE  Left' < Left
<1>1. /\ MarketInv /\ kind = "portal" /\ kind' = "portal" /\ page \in Nat
      /\ account \in Accounts /\ account \in Nat
  BY KeysAreFinite DEF JobInv, ConnectorInv, ReadPage
<1>2. \A a : HoldingsOf(a, now)' = HoldingsOf(a, now)
  BY DEF market, HoldingsOf, Holdings, Held, ExecutedBy
<1>3. Left = 1 + PagesFrom(account, page)
  BY <1>1 DEF Left, RowsLeft, PagesFrom, RowsFrom
<1>4. Left' = 1 + PagesFrom(account', page')
  BY <1>1, <1>2 DEF Left, RowsLeft, PagesFrom, RowsFrom
<1>5. PagesFrom(account, page) = 1 + RowsFrom(account, page, account) + PagesFrom(account + 1, 0)
  BY <1>1, PagesAreCounted
<1>6. /\ account + 1 \in Nat /\ page + 1 \in Nat
      /\ PagesFrom(account + 1, 0) \in Nat /\ RowsFrom(account, page, account) \in Nat
  <2>1. account + 1 \in Nat /\ page + 1 \in Nat /\ 0 \in Nat
    BY <1>1
  <2>2. PagesFrom(account + 1, 0) \in Nat
    BY <1>1, <2>1, PagesAreCounted
  <2>3. RowsFrom(account, page, account) \in Nat
    BY <1>1, PagesAreCounted
  <2> QED
    BY <2>1, <2>2, <2>3
<1>7. CASE page < Cardinality(HoldingsOf(account, now))
  <2>1. account' = account /\ page' = page + 1
    BY <1>7 DEF ReadPage
  <2>2. PagesFrom(account, page + 1)
          = 1 + RowsFrom(account, page + 1, account) + PagesFrom(account + 1, 0)
    BY <1>1, PagesAreCounted
  <2>3. RowsFrom(account, page + 1, account) < RowsFrom(account, page, account)
    <3>1. Cardinality(HoldingsOf(account, now)) \in Nat
      BY <1>1, Places
    <3>2. RowsFrom(account, page, account) = Cardinality(HoldingsOf(account, now)) - page
      BY <1>1, <1>7, PagesAreCounted
    <3>3. RowsFrom(account, page + 1, account) =
            (IF page + 1 < Cardinality(HoldingsOf(account, now))
               THEN Cardinality(HoldingsOf(account, now)) - (page + 1) ELSE 0)
      BY <1>1, <1>6, PagesAreCounted
    <3> QED
      BY <1>1, <1>7, <3>1, <3>2, <3>3
  <2>4. RowsFrom(account, page + 1, account) \in Nat
    BY <1>1, <1>6, PagesAreCounted
  <2> QED
    BY <1>3, <1>4, <1>5, <1>6, <2>1, <2>2, <2>3, <2>4
<1>8. CASE ~(page < Cardinality(HoldingsOf(account, now)))
  <2>1. account' = account + 1 /\ page' = 0
    BY <1>8 DEF ReadPage
  <2> QED
    BY <1>3, <1>4, <1>5, <1>6, <2>1
<1> QED
  BY <1>7, <1>8

\* Every step of an import brings it closer to its end, whatever the market
\* does in between: polls are bounded, pages run out, and nothing asks again.
THEOREM ImportsProgress == Spec => StepsMakeProgress
<1>1. JobInv /\ [Next]_vars => [kind # "idle" /\ now' = now => Left' < Left]_vars
  <2> SUFFICES ASSUME JobInv, Next, kind # "idle", now' = now PROVE Left' < Left
    OBVIOUS
  <2>1. /\ now \in Nat /\ MarketInv /\ Retries \in Nat /\ polls \in 0..(Retries - 1)
        /\ page \in Nat /\ account \in Nat
    BY ConnectorAssumption, TimesAreNat DEF JobInv, MarketInv, ConnectorInv
  <2>2. Len(answers) \in Nat /\ Len(Questions(kind)) \in Nat /\ Len(answers) <= Len(Questions(kind))
    BY DEF JobInv, ConnectorInv, Questions
  <2>3. Left > 0
    <3>1. CASE kind = "portal"
      <4>1. Left = 1 + PagesFrom(account, page)
        BY <3>1 DEF Left, RowsLeft, PagesFrom, RowsFrom
      <4>2. PagesFrom(account, page) \in Nat
        BY <2>1, PagesAreCounted
      <4> QED
        BY <4>1, <4>2
    <3>2. CASE kind # "portal"
      BY <2>1, <2>2, <3>2 DEF Left
    <3> QED
      BY <3>1, <3>2
  <2>4. CASE kind' = "idle"
    BY <2>3, <2>4 DEF Left
  <2>5. CASE Advance /\ UNCHANGED connectors
    BY <2>1, <2>5, JobAdvances
  <2>6. CASE ConnectorStep /\ UNCHANGED market /\ kind' # "idle"
    <3>1. CASE ReadPage
      BY <2>6, <3>1, ReadingPagesEnds
    <3>2. CASE ReportReady \/ NotReady \/ Answer
      <4>1. Len(<<>>) = 0
        OBVIOUS
      <4>2. kind \in {"activity", "history"} /\ reference = since /\ since # 0 /\ Asks
        BY <3>2, <4>1, TimesAreNat
           DEF JobInv, ConnectorInv, Questions, ReportReady, NotReady, Answer, Asks
      <4>3. kind' = kind /\ Questions(kind)' = Questions(kind)
        BY <2>6, <3>2 DEF ReportReady, NotReady, Answer, EndJob, Questions
      <4>4. CASE ReportReady
        BY <2>1, <2>2, <4>2, <4>3, <4>4 DEF ReportReady, Left
      <4>5. CASE NotReady
        BY <2>1, <2>2, <2>6, <4>2, <4>3, <4>5 DEF NotReady, EndJob, Left
      <4>6. CASE Answer
        <5>1. Len(answers') = Len(answers) + 1
          BY <4>6 DEF Answer, JobInv, ConnectorInv
        <5>2. root' = root /\ polls' = polls /\ root # 0
          BY <4>6 DEF Answer
        <5> QED
          BY <2>1, <2>2, <4>2, <4>3, <5>1, <5>2 DEF Left
      <4> QED
        BY <3>2, <4>4, <4>5, <4>6
    <3> QED
      BY <2>6, <3>1, <3>2 DEF ConnectorStep
  <2>7. \/ kind' = "idle" \/ (Advance /\ UNCHANGED connectors)
        \/ (ConnectorStep /\ UNCHANGED market)
    BY DEF Next, Step, RequestRaises, BeginJob, EndJob, CommitActivity, CommitPortal, CommitHistory,
           Refresh
  <2> QED
    BY <2>4, <2>5, <2>6, <2>7
<1> QED
  BY <1>1, JobsReadTheBroker, PTL DEF Spec, StepsMakeProgress

-----------------------------------------------------------------------------
(* The views of a history import.                                          *)

LEMMA SumIsOnDomain ==
  ASSUME NEW S, NEW f, DOMAIN f = S
  PROVE  SumFunction(f) = SumFunctionOnSet(f, S)
BY DEF SumFunction

LEMMA PairsAre ==
  ASSUME NEW A, NEW B, NEW x \in A \X B
  PROVE  x = <<x[1], x[2]>> /\ x[1] \in A /\ x[2] \in B
OBVIOUS

Column(S, d) == {<<x, d>> : x \in S}
Row(S, d)    == {<<d, x>> : x \in S}

LEMMA ColumnIs ==
  ASSUME NEW S, NEW d, NEW T,
         \A x \in S : <<x, d>> \in T, \A y \in T : y[1] \in S /\ y = <<y[1], d>>
  PROVE  T = Column(S, d)
BY DEF Column

LEMMA SumOfColumn ==
  ASSUME NEW S, IsFiniteSet(S), NEW d, NEW f, NEW g, \A x \in S : g[x] \in Int /\ f[<<x, d>>] = g[x]
  PROVE  SumFunctionOnSet(f, Column(S, d)) = SumFunctionOnSet(g, S)
<1> DEFINE h == [x \in S |-> <<x, d>>]
<1>1. \A x, y \in S : h[x] = h[y] => x = y
  OBVIOUS
<1>2. \A x \in S : f[h[x]] = g[x] /\ g[x] \in Int
  OBVIOUS
<1>3. {h[x] : x \in S} = Column(S, d)
  BY DEF Column
<1> HIDE DEF h
<1>4. SumFunctionOnSet(f, {h[x] : x \in S}) = SumFunctionOnSet(g, S)
  BY <1>1, <1>2, SumRenamed
<1> QED
  BY <1>3, <1>4

LEMMA SumOfRow ==
  ASSUME NEW S, IsFiniteSet(S), NEW d, NEW f, NEW g, \A x \in S : g[x] \in Int /\ f[<<d, x>>] = g[x]
  PROVE  SumFunctionOnSet(f, Row(S, d)) = SumFunctionOnSet(g, S)
<1> DEFINE h == [x \in S |-> <<d, x>>]
<1>1. \A x, y \in S : h[x] = h[y] => x = y
  OBVIOUS
<1>2. \A x \in S : f[h[x]] = g[x] /\ g[x] \in Int
  OBVIOUS
<1>3. {h[x] : x \in S} = Row(S, d)
  BY DEF Row
<1> HIDE DEF h
<1>4. SumFunctionOnSet(f, {h[x] : x \in S}) = SumFunctionOnSet(g, S)
  BY <1>1, <1>2, SumRenamed
<1> QED
  BY <1>3, <1>4

RowSums(f, A, B) == [a \in A |-> SumFunctionOnSet(f, Row(B, a))]

LEMMA SumByRows ==
  ASSUME NEW A, IsFiniteSet(A), NEW B, IsFiniteSet(B), NEW f, \A x \in A \X B : f[x] \in Int
  PROVE  SumFunctionOnSet(f, A \X B) = SumFunctionOnSet(RowSums(f, A, B), A)
<1> DEFINE h == [x \in A \X B |-> x[1]]
           S == A \X B
<1>1. IsFiniteSet(S)
  BY FS_Product
<1>2. \A x \in S : h[x] \in A /\ f[x] \in Int
  OBVIOUS
<1>3. \A a \in A : Group(h, S, a) = Row(B, a)
  <2> SUFFICES ASSUME NEW a \in A PROVE Group(h, S, a) = Row(B, a)
    OBVIOUS
  <2>1. \A y \in B : <<a, y>> \in S /\ <<a, y>>[1] = a
    OBVIOUS
  <2>2. \A x \in S : x = <<x[1], x[2]>> /\ x[2] \in B
    BY PairsAre
  <2> QED
    BY <2>1, <2>2 DEF Group, Row
<1> HIDE DEF h, S
<1>4. SumFunctionOnSet(f, S) = SumFunctionOnSet(Grouped(f, h, S, A), A)
  BY <1>1, <1>2, SumGrouped
<1>5. Grouped(f, h, S, A) = RowSums(f, A, B)
  BY <1>3 DEF Grouped, RowSums
<1> QED
  BY <1>4, <1>5 DEF S

LEMMA EarningsAreWhole ==
  ASSUME MarketInv, NEW key, NEW d \in 0..LastDay
  PROVE  EarnedOn(key, d) \in Int
<1> DEFINE es == TradesOf(key, ExecutedBy(Close(d)))
           f  == [e \in es |-> Earned(e, d)]
<1>1. IsFiniteSet(es)
  BY HoldingsAreTyped
<1>2. \A t \in Times : Price[t] \in Nat
  BY BrokerAssumption
<1>3. ASSUME NEW e \in es PROVE Earned(e, d) \in Int
  <2>1. e \in executed /\ e.at \in Times /\ e.fill.quantity \in Int
    BY TradesAreTyped DEF TradesOf, ExecutedBy
  <2>2. e.at \in Nat \ {0} /\ d \in Nat /\ LastDay \in Nat
    <3>1. e.at \in Nat \ {0}
      BY <2>1, TimesAreNat
    <3>2. LastDay \in Nat
      BY BrokerAssumption
    <3> QED
      BY <3>1, <3>2
  <2>3. Close(d) \in Times /\ (d > 0 => Close(d - 1) \in Times) /\ Close(d - 1) \in Int
    <3>1. \A x \in 0..LastDay : Close(x) \in Times
      BY TimesAreNat
    <3>2. d > 0 => d - 1 \in 0..LastDay
      BY <2>2
    <3>3. Close(d - 1) \in Int
      BY <2>2 DEF Close
    <3> QED
      BY <3>1, <3>2, <3>3
  <2>4. d = 0 => Close(d - 1) < e.at
    BY <2>2 DEF Close
  <2> DEFINE from == Max({e.at, Close(d - 1)})
  <2>5. from \in {e.at, Close(d - 1)} /\ from >= e.at
    <3>1. {e.at, Close(d - 1)} = {e.at} \cup {Close(d - 1)} /\ IsFiniteSet({e.at})
      BY FS_Singleton
    <3>2. IsFiniteSet({e.at, Close(d - 1)}) /\ \A x \in {e.at, Close(d - 1)} : x \in Int
      BY <2>2, <2>3, <3>1, FS_AddElement
    <3> QED
      BY <2>2, <2>3, <3>2, MaxIsThere
  <2>6. from \in Times
    BY <2>1, <2>2, <2>3, <2>4, <2>5
  <2> HIDE DEF from
  <2>7. Price[Close(d)] \in Nat /\ Price[from] \in Nat
    BY <1>2, <2>3, <2>6
  <2> QED
    BY <2>1, <2>7 DEF Earned, from
<1>4. DOMAIN f = es /\ \A e \in es : f[e] \in Int
  BY <1>3
<1>5. EarnedOn(key, d) = SumFunction(f)
  BY DEF EarnedOn
<1> HIDE DEF f, es
<1>6. SumFunction(f) = SumFunctionOnSet(f, es)
  BY <1>4, SumIsOnDomain
<1> QED
  BY <1>1, <1>4, <1>5, <1>6, SumIsInt

\* What the imports of a history query of these accounts have written.
HistoryIs(as, days) ==
  /\ DOMAIN navs = as \X days /\ \A x \in as \X days : navs[x] = DailyNav(x[1], x[2])
  /\ DOMAIN pnl = (as \X Instruments) \X days
  /\ \A x \in (as \X Instruments) \X days : pnl[x] = EarnedOn(x[1], x[2])
  /\ \A s \in snapshots : s.id[1] = "history" => s.nav = DaySnapshot(as, s.id[2], s.id[3]).nav

HistoryInv(as) == \E days \in SUBSET (0..LastDay) : HistoryIs(as, days)

EndingOn(c, d) ==
  LET own == {x \in DOMAIN navs : navs[x].currency = c /\ x[2] = d} IN
  SumFunction([x \in own |-> navs[x].ending])

\* A day's value by accounts, added up by either view.
LEMMA DaysAgree ==
  ASSUME MarketInv, NEW as \in SUBSET Accounts, NEW days \in SUBSET (0..LastDay),
         HistoryIs(as, days), NEW c, NEW d \in days
  PROVE  EndingOn(c, d) = DaySnapshot(as, c, d).nav
<1> DEFINE accounts == {a \in as : AccountCurrency[a] = c}
           own == {x \in DOMAIN navs : navs[x].currency = c /\ x[2] = d}
           f == [x \in own |-> navs[x].ending]
           g == [a \in accounts |-> ValueAt(a, Close(d))]
<1>1. IsFiniteSet(accounts)
  BY BrokerAssumption, FS_Subset
<1>2. \A a \in accounts : g[a] \in Int
  BY DaysAreValued
<1>3. \A x \in as \X days : x = <<x[1], x[2]>> /\ navs[x].currency = AccountCurrency[x[1]]
                              /\ navs[x].ending = ValueAt(x[1], Close(x[2]))
  <2> SUFFICES ASSUME NEW x \in as \X days
               PROVE  x = <<x[1], x[2]>> /\ navs[x].currency = AccountCurrency[x[1]]
                      /\ navs[x].ending = ValueAt(x[1], Close(x[2]))
    OBVIOUS
  <2>1. x = <<x[1], x[2]>>
    BY PairsAre
  <2>2. navs[x] = DailyNav(x[1], x[2])
    BY DEF HistoryIs
  <2>3. \A a, e : /\ DailyNav(a, e).currency = AccountCurrency[a]
                  /\ DailyNav(a, e).ending = ValueAt(a, Close(e))
    BY DEF DailyNav
  <2>4. navs[x].currency = AccountCurrency[x[1]] /\ navs[x].ending = ValueAt(x[1], Close(x[2]))
    BY <2>2, <2>3
  <2> QED
    BY <2>1, <2>4
<1>4. /\ \A a \in accounts : <<a, d>> \in own
      /\ \A x \in own : x[1] \in accounts /\ x = <<x[1], d>>
  <2>1. \A a \in accounts : <<a, d>> \in as \X days /\ <<a, d>>[1] = a /\ <<a, d>>[2] = d
    OBVIOUS
  <2>2. \A x \in own : x \in as \X days
    BY DEF HistoryIs
  <2>3. \A x \in own : x[1] \in accounts /\ x = <<x[1], d>>
    BY <1>3, <2>2, PairsAre
  <2>4. \A a \in accounts : <<a, d>> \in own
    BY <1>3, <2>1 DEF HistoryIs
  <2> QED
    BY <2>3, <2>4
<1>5. \A a \in accounts : f[<<a, d>>] = g[a]
  <2> SUFFICES ASSUME NEW a \in accounts PROVE f[<<a, d>>] = g[a]
    OBVIOUS
  <2>1. <<a, d>> \in as \X days /\ <<a, d>> \in own /\ <<a, d>>[1] = a /\ <<a, d>>[2] = d
    BY <1>4
  <2> QED
    BY <1>3, <2>1
<1>6. /\ DOMAIN f = own /\ DOMAIN g = accounts /\ DaySnapshot(as, c, d).nav = SumFunction(g)
      /\ EndingOn(c, d) = SumFunction(f)
  BY DEF DaySnapshot, EndingOn
<1> HIDE DEF f, g, own, accounts
<1>7. \A a \in accounts : g[a] \in Int /\ f[<<a, d>>] = g[a]
  BY <1>2, <1>5
<1>8. own = Column(accounts, d)
  BY <1>4, ColumnIs
<1>9. SumFunctionOnSet(f, Column(accounts, d)) = SumFunctionOnSet(g, accounts)
  BY <1>1, <1>7, SumOfColumn
<1> QED
  BY <1>6, <1>8, <1>9, SumIsOnDomain

\* A day's profits by securities, added up by account or at once.
LEMMA ProfitsAgree ==
  ASSUME MarketInv, NEW as \in SUBSET Accounts, NEW days \in SUBSET (0..LastDay),
         HistoryIs(as, days), NEW d \in days
  PROVE  Contributors(d) = SumFunction([x \in {y \in DOMAIN navs : y[2] = d} |-> navs[x].mtm])
<1> DEFINE keys  == as \X Instruments
           earned == [key \in keys |-> EarnedOn(key, d)]
           mtm   == [a \in as |-> DailyNav(a, d).mtm]
           pnls  == {y \in DOMAIN pnl : y[2] = d}
           f     == [x \in pnls |-> pnl[x]]
           accts == {y \in DOMAIN navs : y[2] = d}
           g     == [x \in accts |-> navs[x].mtm]
<1>0. d \in 0..LastDay
  OBVIOUS
<1>1. IsFiniteSet(as) /\ IsFiniteSet(Instruments) /\ IsFiniteSet(keys)
  BY BrokerAssumption, FS_Subset, FS_Product
<1>2. \A key \in keys : earned[key] \in Int /\ key[1] \in as
  BY EarningsAreWhole
<1>3. Contributors(d) = SumFunctionOnSet(earned, keys)
  <2>1. /\ \A key \in keys : <<key, d>> \in pnls
        /\ \A y \in pnls : y[1] \in keys /\ y = <<y[1], d>>
    <3>1. DOMAIN pnl = keys \X days
      BY DEF HistoryIs
    <3> HIDE DEF keys
    <3>2. \A key \in keys : <<key, d>> \in pnls
      BY <3>1
    <3>3. \A y \in pnls : y[1] \in keys /\ y = <<y[1], d>>
      BY <3>1, PairsAre
    <3> QED
      BY <3>2, <3>3
  <2>2. \A key \in keys : f[<<key, d>>] = earned[key]
    <3> SUFFICES ASSUME NEW key \in keys PROVE f[<<key, d>>] = earned[key]
      OBVIOUS
    <3>1. <<key, d>> \in keys \X days /\ <<key, d>>[1] = key /\ <<key, d>>[2] = d
      OBVIOUS
    <3>2. <<key, d>> \in pnls
      BY <2>1
    <3> QED
      BY <3>1, <3>2 DEF HistoryIs
  <2>3. Contributors(d) = SumFunction(f) /\ DOMAIN f = pnls
    BY DEF Contributors
  <2> HIDE DEF f, pnls, keys, earned
  <2>4. \A key \in keys : earned[key] \in Int /\ f[<<key, d>>] = earned[key]
    BY <1>2, <2>2
  <2>5. pnls = Column(keys, d)
    BY <2>1, ColumnIs
  <2>6. SumFunctionOnSet(f, Column(keys, d)) = SumFunctionOnSet(earned, keys)
    BY <1>1, <2>4, SumOfColumn
  <2> QED
    BY <2>3, <2>5, <2>6, SumIsOnDomain
<1>4. \A a \in as : /\ mtm[a] = SumFunctionOnSet(earned, Row(Instruments, a)) /\ mtm[a] \in Int
  <2> SUFFICES ASSUME NEW a \in as
               PROVE  mtm[a] = SumFunctionOnSet(earned, Row(Instruments, a)) /\ mtm[a] \in Int
    OBVIOUS
  <2> DEFINE own == [i \in Instruments |-> EarnedOn(<<a, i>>, d)]
  <2>2. \A i \in Instruments : own[i] \in Int /\ earned[<<a, i>>] = own[i]
    <3>1. \A i \in Instruments : <<a, i>> \in keys /\ <<a, i>>[1] = a /\ <<a, i>>[2] = i
      OBVIOUS
    <3> QED
      BY <3>1, EarningsAreWhole
  <2>3. mtm[a] = SumFunction(own) /\ DOMAIN own = Instruments
    BY DEF DailyNav
  <2> HIDE DEF own, earned
  <2>4. SumFunctionOnSet(earned, Row(Instruments, a)) = SumFunctionOnSet(own, Instruments)
    BY <1>1, <2>2, SumOfRow
  <2>5. SumFunction(own) = SumFunctionOnSet(own, Instruments)
    BY <2>3, SumIsOnDomain
  <2>6. SumFunctionOnSet(own, Instruments) \in Int
    BY <1>1, <2>2, SumIsInt
  <2> QED
    BY <2>3, <2>4, <2>5, <2>6
<1>5. SumFunctionOnSet(earned, keys) = SumFunctionOnSet(mtm, as)
  <2> DEFINE sums == RowSums(earned, as, Instruments)
  <2>1. \A a \in as : sums[a] = mtm[a]
    BY <1>4 DEF RowSums
  <2> HIDE DEF earned, mtm
  <2>2. SumFunctionOnSet(earned, keys) = SumFunctionOnSet(sums, as)
    BY <1>1, <1>2, SumByRows
  <2> HIDE DEF sums
  <2>3. SumFunctionOnSet(sums, as) = SumFunctionOnSet(mtm, as)
    BY <1>1, <2>1, SumsAgree
  <2> QED
    BY <2>2, <2>3
<1>6. SumFunction(g) = SumFunctionOnSet(mtm, as)
  <2>1. /\ \A a \in as : <<a, d>> \in accts
        /\ \A y \in accts : y[1] \in as /\ y = <<y[1], d>>
    <3>1. DOMAIN navs = as \X days
      BY DEF HistoryIs
    <3>2. \A a \in as : <<a, d>> \in accts
      BY <3>1
    <3>3. \A y \in accts : y \in as \X days /\ y[2] = d
      BY <3>1
    <3>4. ASSUME NEW y \in accts PROVE y[1] \in as /\ y = <<y[1], d>>
      <4>1. y \in as \X days /\ y[2] = d
        BY <3>3
      <4>2. y = <<y[1], y[2]>> /\ y[1] \in as
        BY <4>1, PairsAre
      <4> QED
        BY <4>1, <4>2
    <3> QED
      BY <3>2, <3>4
  <2>2. \A a \in as : g[<<a, d>>] = mtm[a]
    <3> SUFFICES ASSUME NEW a \in as PROVE g[<<a, d>>] = mtm[a]
      OBVIOUS
    <3>1. <<a, d>> \in as \X days /\ <<a, d>>[1] = a /\ <<a, d>>[2] = d /\ <<a, d>> \in accts
      BY <2>1
    <3> QED
      BY <3>1 DEF HistoryIs
  <2>3. DOMAIN g = accts
    OBVIOUS
  <2> HIDE DEF g, accts, mtm
  <2>4. \A a \in as : mtm[a] \in Int /\ g[<<a, d>>] = mtm[a]
    BY <1>4, <2>2
  <2>5. accts = Column(as, d)
    BY <2>1 DEF Column
  <2>6. SumFunctionOnSet(g, Column(as, d)) = SumFunctionOnSet(mtm, as)
    BY <1>1, <2>4, SumOfColumn
  <2> QED
    BY <2>3, <2>5, <2>6, SumIsOnDomain
<1> QED
  BY <1>3, <1>5, <1>6

\* The views depend on the trades alone, whenever they are asked for.
LEMMA ViewsAreFixed ==
  ASSUME executed' = executed
  PROVE  /\ \A a, d : DailyNav(a, d)' = DailyNav(a, d)
         /\ \A key, d : EarnedOn(key, d)' = EarnedOn(key, d)
         /\ \A as, c, d : DaySnapshot(as, c, d)' = DaySnapshot(as, c, d)
<1>1. \A key, d : EarnedOn(key, d)' = EarnedOn(key, d)
  BY DEF EarnedOn, TradesOf, ExecutedBy
<1>2. \A key, t : Held(key, t)' = Held(key, t)
  BY DEF Held, ExecutedBy
<1>3. \A t : Holdings(t)' = Holdings(t)
  BY <1>2 DEF Holdings
<1>4. \A a, t : HoldingsOf(a, t)' = HoldingsOf(a, t)
  BY <1>3 DEF HoldingsOf
<1>5. \A a, t : ValueAt(a, t)' = ValueAt(a, t)
  BY <1>2, <1>4 DEF ValueAt
<1>6. \A a, d : DailyNav(a, d)' = DailyNav(a, d)
  BY <1>1, <1>5 DEF DailyNav
<1>7. ASSUME NEW as, NEW c, NEW d
      PROVE  DaySnapshot(as, c, d)' = DaySnapshot(as, c, d)
  <2> DEFINE own  == {a \in as : AccountCurrency[a] = c}
             nav  == SumFunction([a \in own |-> ValueAt(a, Close(d))])
             held == UNION {HoldingsOf(a, Close(d)) : a \in own}
  <2>1. nav' = nav /\ held' = held
    BY <1>4, <1>5
  <2>2. /\ DaySnapshot(as, c, d)
            = [id |-> <<"history", c, d>>, at |-> Midnight(d), currency |-> c, nav |-> nav,
               count |-> Cardinality(held), valued |-> Cardinality(held)]
        /\ DaySnapshot(as, c, d)'
            = [id |-> <<"history", c, d>>, at |-> Midnight(d), currency |-> c, nav |-> nav',
               count |-> Cardinality(held'), valued |-> Cardinality(held')]
    BY DEF DaySnapshot
  <2> QED
    BY <2>1, <2>2
<1> QED
  BY <1>1, <1>6, <1>7

LEMMA ViewsAreKept ==
  ASSUME NEW as, NEW days, executed' = executed,
         DOMAIN navs' = as \X days, \A x \in as \X days : navs'[x] = DailyNav(x[1], x[2]),
         DOMAIN pnl' = (as \X Instruments) \X days,
         \A x \in (as \X Instruments) \X days : pnl'[x] = EarnedOn(x[1], x[2]),
         \A s \in snapshots' : s.id[1] = "history" => s.nav = DaySnapshot(as, s.id[2], s.id[3]).nav
  PROVE  HistoryIs(as, days)'
<1>1. ASSUME NEW x \in as \X days PROVE navs'[x] = DailyNav(x[1], x[2])'
  <2>1. DailyNav(x[1], x[2])' = DailyNav(x[1], x[2])
    BY ViewsAreFixed
  <2> QED
    BY <2>1
<1>2. ASSUME NEW x \in (as \X Instruments) \X days PROVE pnl'[x] = EarnedOn(x[1], x[2])'
  <2>1. EarnedOn(x[1], x[2])' = EarnedOn(x[1], x[2])
    BY ViewsAreFixed
  <2> QED
    BY <2>1
<1>3. ASSUME NEW s \in snapshots', s.id[1] = "history"
      PROVE  s.nav = DaySnapshot(as, s.id[2], s.id[3])'.nav
  <2>1. DaySnapshot(as, s.id[2], s.id[3])' = DaySnapshot(as, s.id[2], s.id[3])
    BY ViewsAreFixed
  <2> QED
    BY <1>3, <2>1
<1>4. (\A x \in as \X days : navs[x] = DailyNav(x[1], x[2]))'
  BY <1>1
<1>5. (\A x \in (as \X Instruments) \X days : pnl[x] = EarnedOn(x[1], x[2]))'
  BY <1>2
<1>6. (\A s \in snapshots : s.id[1] = "history"
           => s.nav = DaySnapshot(as, s.id[2], s.id[3]).nav)'
  BY <1>3
<1> QED
  BY <1>4, <1>5, <1>6 DEF HistoryIs

LEMMA HistoryIsKept ==
  ASSUME NEW as, HistoryInv(as), UNCHANGED <<navs, pnl, executed>>,
         \A s \in snapshots' : s \in snapshots \/ s.id[1] # "history"
  PROVE  HistoryInv(as)'
<1>1. PICK days \in SUBSET (0..LastDay) : HistoryIs(as, days)
  BY DEF HistoryInv
<1>2. /\ DOMAIN navs' = as \X days /\ \A x \in as \X days : navs'[x] = DailyNav(x[1], x[2])
      /\ DOMAIN pnl' = (as \X Instruments) \X days
      /\ \A x \in (as \X Instruments) \X days : pnl'[x] = EarnedOn(x[1], x[2])
      /\ \A s \in snapshots' : s.id[1] = "history"
                                  => s.nav = DaySnapshot(as, s.id[2], s.id[3]).nav
  BY <1>1 DEF HistoryIs
<1>3. HistoryIs(as, days)'
  BY <1>2, ViewsAreKept
<1> QED
  BY <1>3 DEF HistoryInv

LEMMA HistoryIsImported ==
  ASSUME NEW as \in SUBSET Accounts, Queries \subseteq {as}, JobInv, HistoryInv(as), CommitHistory
  PROVE  HistoryInv(as)'
<1>1. PICK old \in SUBSET (0..LastDay) : HistoryIs(as, old)
  BY DEF HistoryInv
<1> DEFINE days == StatementDays(since)
           newNavs == [x \in as \X days |-> DailyNav(x[1], x[2])]
           newPnl  == [x \in (as \X Instruments) \X days |-> EarnedOn(x[1], x[2])]
           newSnaps == {DaySnapshot(as, AccountCurrency[x[1]], x[2]) : x \in as \X days}
<1>2. Fetched /\ kind = "history" /\ executed' = executed
  BY DEF CommitHistory, market
<1>3. answers[1] = since
  BY <1>2, ReportsAreOfTheBeginning
<1>4. /\ navs' = Upserted(navs, newNavs) /\ pnl' = Upserted(pnl, newPnl)
      /\ snapshots' = Replaced(snapshots, newSnaps)
  <2>1. PICK q \in Queries :
          /\ navs' = Upserted(navs, [x \in q \X days |-> DailyNav(x[1], x[2])])
          /\ pnl'  = Upserted(pnl, [x \in (q \X Instruments) \X days |-> EarnedOn(x[1], x[2])])
          /\ snapshots' = Replaced(snapshots,
               {DaySnapshot(q, AccountCurrency[x[1]], x[2]) : x \in q \X days})
    BY <1>3 DEF CommitHistory
  <2>2. q = as
    OBVIOUS
  <2> QED
    BY <2>1, <2>2
<1>s. PICK all \in SUBSET (0..LastDay) : all = old \cup days
  BY DEF StatementDays
<1>6. DOMAIN navs' = as \X all /\ \A x \in as \X all : navs'[x] = DailyNav(x[1], x[2])
  <2>1. DOMAIN navs = as \X old /\ \A x \in as \X old : navs[x] = DailyNav(x[1], x[2])
    BY <1>1 DEF HistoryIs
  <2>2. DOMAIN newNavs = as \X days /\ \A x \in as \X days : newNavs[x] = DailyNav(x[1], x[2])
    OBVIOUS
  <2>3. (as \X old) \cup (as \X days) = as \X all
    BY <1>s
  <2> HIDE DEF newNavs, days
  <2>4. DOMAIN navs' = DOMAIN navs \cup DOMAIN newNavs
    BY <1>4 DEF Upserted
  <2>5. \A x \in DOMAIN navs' : navs'[x] = IF x \in DOMAIN newNavs THEN newNavs[x] ELSE navs[x]
    BY <1>4 DEF Upserted
  <2> QED
    BY <2>1, <2>2, <2>3, <2>4, <2>5
<1>7. /\ DOMAIN pnl' = (as \X Instruments) \X all
      /\ \A x \in (as \X Instruments) \X all : pnl'[x] = EarnedOn(x[1], x[2])
  <2> DEFINE keys == as \X Instruments
  <2>1. DOMAIN pnl = keys \X old /\ \A x \in keys \X old : pnl[x] = EarnedOn(x[1], x[2])
    BY <1>1 DEF HistoryIs
  <2>2. DOMAIN newPnl = keys \X days /\ \A x \in keys \X days : newPnl[x] = EarnedOn(x[1], x[2])
    OBVIOUS
  <2> HIDE DEF keys
  <2>3. (keys \X old) \cup (keys \X days) = keys \X all
    BY <1>s
  <2> HIDE DEF newPnl, days
  <2>4. DOMAIN pnl' = DOMAIN pnl \cup DOMAIN newPnl
    BY <1>4 DEF Upserted
  <2>5. \A x \in DOMAIN pnl' : pnl'[x] = IF x \in DOMAIN newPnl THEN newPnl[x] ELSE pnl[x]
    BY <1>4 DEF Upserted
  <2>6. /\ DOMAIN pnl' = keys \X all
        /\ \A x \in keys \X all : pnl'[x] = EarnedOn(x[1], x[2])
    BY <2>1, <2>2, <2>3, <2>4, <2>5
  <2> QED
    BY <2>6 DEF keys
<1>8. \A s \in snapshots' : s.id[1] = "history" => s.nav = DaySnapshot(as, s.id[2], s.id[3]).nav
  <2> SUFFICES ASSUME NEW s \in snapshots', s.id[1] = "history"
               PROVE  s.nav = DaySnapshot(as, s.id[2], s.id[3]).nav
    OBVIOUS
  <2>1. s \in snapshots \/ s \in newSnaps
    BY <1>4 DEF Replaced
  <2>2. CASE s \in snapshots
    BY <1>1, <2>2 DEF HistoryIs
  <2>3. CASE s \in newSnaps
    <3>1. PICK x \in as \X days : s = DaySnapshot(as, AccountCurrency[x[1]], x[2])
      BY <2>3
    <3>2. s.id = <<"history", AccountCurrency[x[1]], x[2]>>
      BY <3>1 DEF DaySnapshot
    <3>3. s.id[2] = AccountCurrency[x[1]] /\ s.id[3] = x[2]
      BY <3>2
    <3> QED
      BY <3>1, <3>3
  <2> QED
    BY <2>1, <2>2, <2>3
<1>9. HistoryIs(as, all)'
  BY <1>2, <1>6, <1>7, <1>8, ViewsAreKept
<1> QED
  BY <1>9 DEF HistoryInv

LEMMA HistoryViews ==
  ASSUME MarketInv, NEW as \in SUBSET Accounts, HistoryInv(as)
  PROVE  HistoryViewsAgree
<1> SUFFICES ASSUME DOMAIN navs # {}
             PROVE  LET days   == BrokerDays(DOMAIN navs)
                        newest == Max({x[2] : x \in DOMAIN navs}) IN
                    /\ \A s \in snapshots : \A d \in DOMAIN days :
                         s.id = <<"history", BrokerCurrency(DOMAIN navs), d>> => s.nav = days[d].nav
                    /\ Contributors(newest)
                         = SumFunction([x \in {y \in DOMAIN navs : y[2] = newest} |-> navs[x].mtm])
  BY DEF HistoryViewsAgree
<1>1. PICK all \in SUBSET (0..LastDay) : HistoryIs(as, all)
  BY DEF HistoryInv
<1>2. DOMAIN navs = as \X all
  BY <1>1 DEF HistoryIs
<1> DEFINE newest == Max({x[2] : x \in DOMAIN navs})
           c == BrokerCurrency(DOMAIN navs)
<1>3. newest \in all
  <2>1. {x[2] : x \in DOMAIN navs} \subseteq all /\ {x[2] : x \in DOMAIN navs} # {}
    BY <1>2
  <2>2. LastDay \in Nat /\ IsFiniteSet(0..LastDay)
    BY BrokerAssumption, FS_Interval
  <2>3. IsFiniteSet({x[2] : x \in DOMAIN navs})
    BY <2>1, <2>2, FS_Subset
  <2>4. \A d \in {x[2] : x \in DOMAIN navs} : d \in Int
    <3>1. \A d \in all : d \in Int
      OBVIOUS
    <3> QED
      BY <2>1, <3>1
  <2> QED
    BY <2>1, <2>3, <2>4, MaxIsThere
<1>4. Contributors(newest)
        = SumFunction([x \in {y \in DOMAIN navs : y[2] = newest} |-> navs[x].mtm])
  <2> HIDE DEF newest
  <2> QED
    BY <1>1, <1>3, ProfitsAgree
<1>5. ASSUME NEW s \in snapshots, NEW d \in DOMAIN BrokerDays(DOMAIN navs), s.id = <<"history", c, d>>
      PROVE  s.nav = BrokerDays(DOMAIN navs)[d].nav
  <2> HIDE DEF c
  <2> DEFINE own == {x \in DOMAIN navs : navs[x].currency = c}
             both == {x \in DOMAIN navs : navs[x].currency = c /\ x[2] = d}
  <2>1. d \in {x[2] : x \in own}
        /\ BrokerDays(DOMAIN navs)[d].nav = SumFunction([x \in {y \in own : y[2] = d} |-> navs[x].ending])
    BY DEF BrokerDays, c
  <2>2. d \in all
    BY <1>2, <2>1
  <2>3. {y \in own : y[2] = d} = both
    OBVIOUS
  <2>4. EndingOn(c, d) = DaySnapshot(as, c, d).nav
    BY <1>1, <2>2, DaysAgree
  <2>7. EndingOn(c, d) = SumFunction([x \in both |-> navs[x].ending])
    BY DEF EndingOn
  <2>5. s.id[1] = "history" /\ s.id[2] = c /\ s.id[3] = d
    BY <1>5
  <2>6. s.nav = DaySnapshot(as, c, d).nav
    BY <1>1, <2>5 DEF HistoryIs
  <2> QED
    BY <2>1, <2>3, <2>4, <2>6, <2>7
<1> QED
  BY <1>4, <1>5

\* The views of a history import agree, where one query is configured,
\* whatever its accounts: the day's snapshot and the broker's daily profit and
\* loss give it one value, and its securities add up to its accounts.
THEOREM HistoryViewsAlwaysAgree ==
  ASSUME NEW as \in SUBSET Accounts, Queries \subseteq {as}
  PROVE  Spec => []HistoryViewsAgree
<1>1. Init => HistoryInv(as)
  <2> SUFFICES ASSUME Init PROVE HistoryInv(as)
    OBVIOUS
  <2>1. DOMAIN navs = {} /\ DOMAIN pnl = {} /\ snapshots = {}
    BY DEF Init, LedgerInit, Empty
  <2>2. HistoryIs(as, {})
    BY <2>1 DEF HistoryIs
  <2> QED
    BY <2>2 DEF HistoryInv
<1>2. JobInv /\ HistoryInv(as) /\ [Next]_vars => HistoryInv(as)'
  <2> SUFFICES ASSUME JobInv, HistoryInv(as), [Next]_vars PROVE HistoryInv(as)'
    OBVIOUS
  <2>1. CASE Kept \/ CommitActivity \/ CommitPortal
    <3>1. UNCHANGED <<navs, pnl, snapshots, executed>>
      BY <2>1 DEF Kept, tables, CommitActivity, CommitPortal, market
    <3> QED
      BY <3>1, HistoryIsKept
  <2>2. CASE CommitHistory
    BY <2>2, HistoryIsImported
  <2>3. ASSUME NEW c \in Currencies, Refresh(c) PROVE HistoryInv(as)'
    <3>1. UNCHANGED <<navs, pnl, executed>>
      BY <2>3 DEF Refresh, market
    <3>2. PICK s : snapshots' = Replaced(snapshots, {s}) /\ s.id = <<"review", refreshes>>
      <4>1. PICK used :
              snapshots' = Replaced(snapshots, {PortfolioSnapshot(<<"review", refreshes>>, c, used)})
        BY <2>3 DEF Refresh
      <4>2. PortfolioSnapshot(<<"review", refreshes>>, c, used).id = <<"review", refreshes>>
        BY DEF PortfolioSnapshot
      <4> QED
        BY <4>1, <4>2
    <3>3. s.id[1] = "review"
      BY <3>2
    <3>4. \A o \in snapshots' : o \in snapshots \/ o.id[1] # "history"
      BY <3>2, <3>3 DEF Replaced
    <3> QED
      BY <3>1, <3>4, HistoryIsKept
  <2> QED
    BY <2>1, <2>2, <2>3, WhatHappens
<1>3. JobInv /\ HistoryInv(as) => HistoryViewsAgree
  BY HistoryViews DEF JobInv
<1> QED
  BY <1>1, <1>2, <1>3, JobsReadTheBroker, PTL DEF Spec

-----------------------------------------------------------------------------
(* Sets in order.                                                          *)

\* A sequence that has every member of a set at its rank.
InPlace(R, S, q) ==
  /\ q \in [1..Cardinality(S) -> S]
  /\ \A i \in 1..Cardinality(S) : RankIn(R, S, q[i]) = i - 1

LEMMA PlacesAre ==
  ASSUME NEW S, IsFiniteSet(S), NEW R, StrictOrder(R, S), NEW q, InPlace(R, S, q)
  PROVE  /\ q \in Seq(S) /\ Len(q) = Cardinality(S) /\ Cardinality(S) \in Nat
         /\ \A x \in S : /\ RankIn(R, S, x) + 1 \in 1..Cardinality(S)
                         /\ q[RankIn(R, S, x) + 1] = x
<1> DEFINE n == Cardinality(S)
<1>1. n \in Nat
  BY FS_CardinalityType
<1>2. q \in [1..n -> S] /\ \A i \in 1..n : RankIn(R, S, q[i]) = i - 1
  BY DEF InPlace
<1> HIDE DEF n
<1>3. ASSUME NEW x \in S
      PROVE  RankIn(R, S, x) + 1 \in 1..n /\ q[RankIn(R, S, x) + 1] = x
  <2>1. RankIn(R, S, x) \in 0..(n - 1)
    BY RanksGrow DEF n
  <2>2. RankIn(R, S, x) + 1 \in 1..n /\ (RankIn(R, S, x) + 1) - 1 = RankIn(R, S, x)
    BY <1>1, <2>1
  <2>3. q[RankIn(R, S, x) + 1] \in S /\ RankIn(R, S, q[RankIn(R, S, x) + 1]) = RankIn(R, S, x)
    BY <1>2, <2>2
  <2> QED
    BY <2>2, <2>3, RanksGrow
<1>4. q \in Seq(S) /\ Len(q) = n
  BY <1>1, <1>2
<1> QED
  BY <1>1, <1>3, <1>4 DEF n

LEMMA PlacesOnce ==
  ASSUME NEW S, IsFiniteSet(S), NEW R, StrictOrder(R, S), NEW q, InPlace(R, S, q)
  PROVE  IsInjective(q) /\ ToSet(q) = S
<1>1. /\ q \in [1..Cardinality(S) -> S] /\ Cardinality(S) \in Nat
      /\ \A i \in 1..Cardinality(S) : RankIn(R, S, q[i]) = i - 1
      /\ \A x \in S : /\ RankIn(R, S, x) + 1 \in 1..Cardinality(S)
                      /\ q[RankIn(R, S, x) + 1] = x
  BY PlacesAre, FS_CardinalityType DEF InPlace
<1>2. IsInjective(q)
  BY <1>1 DEF IsInjective
<1>3. ToSet(q) = S
  BY <1>1 DEF ToSet
<1> QED
  BY <1>2, <1>3

LEMMA JoinedOnce ==
  ASSUME NEW S, NEW T, NEW q \in Seq(S), NEW r \in Seq(T), IsInjective(q), IsInjective(r),
         ToSet(q) = S, ToSet(r) = T, S \cap T = {}
  PROVE  IsInjective(q \o r) /\ ToSet(q \o r) = S \cup T
<1> DEFINE m == Len(q)
           n == Len(r)
           s == q \o r
<1>1. /\ m \in Nat /\ n \in Nat /\ DOMAIN q = 1..m /\ DOMAIN r = 1..n
      /\ DOMAIN s = 1..(m + n)
      /\ \A i \in 1..(m + n) : s[i] = IF i <= m THEN q[i] ELSE r[i - m]
  OBVIOUS
<1>2. /\ \A i \in 1..m : q[i] \in S /\ \A j \in 1..m : q[i] = q[j] => i = j
      /\ \A i \in 1..n : r[i] \in T /\ \A j \in 1..n : r[i] = r[j] => i = j
  BY <1>1 DEF IsInjective
<1>3. /\ \A x \in S : \E i \in 1..m : q[i] = x
      /\ \A x \in T : \E i \in 1..n : r[i] = x
  BY <1>1 DEF ToSet
<1>0. m \in Nat /\ n \in Nat
  BY <1>1
<1> HIDE DEF m, n, s
<1>4. ASSUME NEW i \in 1..(m + n)
      PROVE  /\ i <= m => i \in 1..m /\ s[i] = q[i] /\ s[i] \in S
             /\ ~(i <= m) => i - m \in 1..n /\ s[i] = r[i - m] /\ s[i] \in T
  <2>1. CASE i <= m
    BY <1>1, <1>2, <2>1
  <2>2. CASE ~(i <= m)
    <3>1. i - m \in 1..n
      BY <1>1, <2>2
    <3> QED
      BY <1>1, <1>2, <2>2, <3>1
  <2> QED
    BY <2>1, <2>2
<1>5. ASSUME NEW i \in 1..(m + n), NEW j \in 1..(m + n), s[i] = s[j] PROVE i = j
  <2>1. /\ i <= m => i \in 1..m /\ s[i] = q[i] /\ s[i] \in S
        /\ ~(i <= m) => i - m \in 1..n /\ s[i] = r[i - m] /\ s[i] \in T
        /\ j <= m => j \in 1..m /\ s[j] = q[j] /\ s[j] \in S
        /\ ~(j <= m) => j - m \in 1..n /\ s[j] = r[j - m] /\ s[j] \in T
    BY <1>4
  <2>2. (i <= m) <=> (j <= m)
    BY <1>5, <2>1
  <2>3. CASE i <= m
    <3>1. i \in 1..m /\ j \in 1..m /\ q[i] = q[j]
      BY <1>5, <2>1, <2>2, <2>3
    <3> QED
      BY <1>2, <3>1
  <2>4. CASE ~(i <= m)
    <3>1. i - m \in 1..n /\ j - m \in 1..n /\ r[i - m] = r[j - m]
      BY <1>5, <2>1, <2>2, <2>4
    <3>2. i - m = j - m
      BY <1>2, <3>1
    <3> QED
      BY <1>1, <3>2
  <2> QED
    BY <2>3, <2>4
<1>6. \A x \in S \cup T : \E i \in 1..(m + n) : s[i] = x
  <2>1. ASSUME NEW x \in S PROVE \E i \in 1..(m + n) : s[i] = x
    <3>1. PICK i \in 1..m : q[i] = x
      BY <1>3
    <3>2. i \in 1..(m + n) /\ i <= m
      BY <1>1
    <3> QED
      BY <1>1, <3>1, <3>2
  <2>2. ASSUME NEW x \in T PROVE \E i \in 1..(m + n) : s[i] = x
    <3>1. PICK i \in 1..n : r[i] = x
      BY <1>3
    <3>2. m + i \in 1..(m + n) /\ ~(m + i <= m) /\ (m + i) - m = i
      BY <1>1
    <3> QED
      BY <1>1, <3>1, <3>2
  <2> QED
    BY <2>1, <2>2
<1>7. IsInjective(s)
  BY <1>1, <1>5 DEF IsInjective
<1>8. ToSet(s) = S \cup T
  <2>1. \A i \in 1..(m + n) : s[i] \in S \cup T
    BY <1>4
  <2>2. ToSet(s) = {s[i] : i \in 1..(m + n)}
    BY <1>1 DEF ToSet
  <2> QED
    BY <1>6, <2>1, <2>2
<1> QED
  BY <1>7, <1>8 DEF s

-----------------------------------------------------------------------------
(* Charts.                                                                 *)

LEMMA MinIsThere ==
  ASSUME NEW S, IsFiniteSet(S), S # {}, \A x \in S : x \in Int
  PROVE  Min(S) \in S /\ \A y \in S : Min(S) <= y
<1> DEFINE Q == {T \in SUBSET S : T # {} => \E x \in T : \A y \in T : x =< y}
<1>1. {} \in Q
  OBVIOUS
<1>2. ASSUME NEW T \in SUBSET S, NEW z \in S, T \in Q, z \notin T PROVE T \cup {z} \in Q
  <2>1. CASE T = {}
    BY <2>1
  <2>2. CASE T # {}
    <3>1. PICK x \in T : \A y \in T : x =< y
      BY <1>2, <2>2
    <3>2. CASE x =< z
      BY <3>1, <3>2
    <3>3. CASE ~(x =< z)
      BY <3>1, <3>3
    <3> QED
      BY <3>2, <3>3
  <2> QED
    BY <2>1, <2>2
<1> HIDE DEF Q
<1>3. S \in Q
  BY <1>1, <1>2, GrowUp
<1>4. \E x \in S : \A y \in S : x =< y
  BY <1>3 DEF Q
<1> QED
  BY <1>4, Zenon DEF Min

\* Where every member of a set of positions is charted.
ChartOrder == {pair \in Keys \X Keys : ListedBefore(pair[1], pair[2])}

LEMMA ChartsAreOrdered ==
  ASSUME MarketInv, TradesInv, NEW S \in SUBSET Keys
  PROVE  StrictOrder(ChartOrder, S)
<1>1. \A key \in Keys : LatestExecution(key) \in Int
  <2> SUFFICES ASSUME NEW key \in Keys PROVE LatestExecution(key) \in Int
    OBVIOUS
  <2> DEFINE ats == {e.at : e \in ExecutionsOf(key)}
  <2>1. ats \subseteq Times
    BY TradesAreTyped DEF ExecutionsOf, TradesOf, TradesInv, ExecutedBy
  <2>2. IsFiniteSet({0} \cup ats)
    BY <2>1, TimesAreNat, FS_Subset, FS_Union, FS_Singleton
  <2> HIDE DEF ats
  <2>3. \A x \in {0} \cup ats : x \in Int
    <3>1. Times \subseteq Int
      BY TimesAreNat
    <3> QED
      BY <2>1, <3>1
  <2>4. Max({0} \cup ats) \in {0} \cup ats
    BY <2>2, <2>3, MaxIsThere
  <2> QED
    BY <2>3, <2>4 DEF LatestExecution, ats
<1>2. /\ \A key \in Keys : key[1] \in Int /\ key[2] \in Int
      /\ \A key, other \in Keys : key[1] = other[1] /\ key[2] = other[2] => key = other
  BY KeysAreFinite
<1>3. \A k, l \in S : <<k, l>> \in ChartOrder <=> ListedBefore(k, l)
  BY DEF ChartOrder
<1>4. \A k \in S : ~ListedBefore(k, k)
  BY <1>1, <1>2 DEF ListedBefore
<1>5. \A k, l \in S : k # l => ListedBefore(k, l) \/ ListedBefore(l, k)
  BY <1>1, <1>2 DEF ListedBefore
<1>6. ASSUME NEW j \in S, NEW k \in S, NEW l \in S, ListedBefore(j, k), ListedBefore(k, l)
      PROVE  ListedBefore(j, l)
  BY <1>1, <1>2, <1>6 DEF ListedBefore
<1> QED
  BY <1>3, <1>4, <1>5, <1>6 DEF StrictOrder

LEMMA ChartsAreInPlace ==
  ASSUME MarketInv, TradesInv, NEW S \in SUBSET Keys
  PROVE  InPlace(ChartOrder, S, InOrder(S, ListedBefore))
<1> DEFINE q == InOrder(S, ListedBefore)
<1>1. IsFiniteSet(S) /\ StrictOrder(ChartOrder, S) /\ Cardinality(S) \in Nat
  BY KeysAreFinite, FS_Subset, FS_CardinalityType, ChartsAreOrdered
<1>2. ASSUME NEW x \in S
      PROVE  RankIn(ChartOrder, S, x) = Cardinality({y \in S : ListedBefore(y, x)})
  <2>1. Below(ChartOrder, S, x) = {y \in S : ListedBefore(y, x)}
    BY DEF Below, ChartOrder
  <2> QED
    BY <2>1 DEF RankIn
<1>3. ASSUME NEW i \in 1..Cardinality(S)
      PROVE  q[i] \in S /\ RankIn(ChartOrder, S, q[i]) = i - 1
  <2>1. i - 1 \in 0..(Cardinality(S) - 1)
    BY <1>1
  <2>2. \E x \in S : RankIn(ChartOrder, S, x) = i - 1
    BY <1>1, <2>1, RanksFill
  <2>3. \E x \in S : Cardinality({y \in S : ListedBefore(y, x)}) = i - 1
    BY <1>2, <2>2
  <2>4. q[i] = CHOOSE x \in S : Cardinality({y \in S : ListedBefore(y, x)}) = i - 1
    BY DEF InOrder
  <2> HIDE DEF q
  <2>5. q[i] \in S /\ Cardinality({y \in S : ListedBefore(y, q[i])}) = i - 1
    BY <2>3, <2>4, Zenon
  <2> QED
    BY <1>2, <2>5
<1>4. q \in [1..Cardinality(S) -> S]
  BY <1>3 DEF InOrder
<1> QED
  BY <1>3, <1>4 DEF InPlace

LEMMA ChartsListAll ==
  ASSUME MarketInv, TradesInv, DOMAIN positions \subseteq Keys
  PROVE  /\ IsInjective(Charted)
         /\ ToSet(Charted) = DOMAIN positions
                               \cup {KeyOf(transactions[i].fill) : i \in DOMAIN transactions}
<1> DEFINE S == DOMAIN positions
           T == ClosedKeys
           q == InOrder(S, ListedBefore)
           r == InOrder(T, ListedBefore)
<1>1. T \subseteq Keys
  BY TradesAreTyped DEF ClosedKeys, TradesInv, ExecutedBy
<1>2. S \cap T = {}
  BY DEF ClosedKeys
<1>3. S \cup T = S \cup {KeyOf(transactions[i].fill) : i \in DOMAIN transactions}
  BY DEF ClosedKeys
<1>4. Charted = q \o r
  BY DEF Charted
<1> HIDE DEF S, T
<1>5. /\ IsFiniteSet(S) /\ StrictOrder(ChartOrder, S) /\ InPlace(ChartOrder, S, q)
      /\ IsFiniteSet(T) /\ StrictOrder(ChartOrder, T) /\ InPlace(ChartOrder, T, r)
  <2>1. S \subseteq Keys
    BY DEF S
  <2> QED
    BY <1>1, <2>1, KeysAreFinite, FS_Subset, ChartsAreOrdered, ChartsAreInPlace
<1> HIDE DEF q, r
<1>6. /\ q \in Seq(S) /\ IsInjective(q) /\ ToSet(q) = S
      /\ r \in Seq(T) /\ IsInjective(r) /\ ToSet(r) = T
  BY <1>5, PlacesAre, PlacesOnce
<1>7. IsInjective(q \o r) /\ ToSet(q \o r) = S \cup T
  BY <1>2, <1>6, JoinedOnce
<1> QED
  BY <1>3, <1>4, <1>7 DEF S

\* The exchange's day is at most one away from the program's.
LEMMA LocalDaysAreNear ==
  ASSUME NEW t \in Times
  PROVE  /\ LocalDay(t) \in Int /\ Day(t) \in Int
         /\ Day(t) - 1 <= LocalDay(t) /\ LocalDay(t) <= Day(t) + 1
<1>1. t \in Nat
  BY TimesAreNat
<1>2. ZoneOffset \in -2..2
  BY ReadsAssumption
<1> QED
  BY <1>1, <1>2 DEF LocalDay, Day

LEMMA MarketPricesMatch ==
  ASSUME NEW times \in SUBSET Times, NEW t \in times
  PROVE  LET range == {Price[u] : u \in times} IN
         Min(range) <= Price[t] /\ Price[t] <= Max(range)
<1> DEFINE range == {Price[u] : u \in times}
<1>1. times \subseteq Times /\ t \in times
  OBVIOUS
<1>2. IsFiniteSet(times)
  BY <1>1, TimesAreNat, FS_Subset
<1>3. \A u \in Times : Price[u] \in Nat
  BY BrokerAssumption
<1>4. Price[t] \in range /\ \A x \in range : x \in Int
  BY <1>1, <1>3
<1>5. IsFiniteSet(range)
  <2> DEFINE price == [u \in times |-> Price[u]]
  <2>1. price \in Surjection(times, range)
    BY DEF Surjection
  <2> HIDE DEF price, range
  <2> QED
    BY <1>2, <2>1, FS_Surjection
<1> HIDE DEF range
<1>6. Min(range) <= Price[t] /\ Price[t] <= Max(range)
  BY <1>4, <1>5, MinIsThere, MaxIsThere
<1> QED
  BY <1>6 DEF range

\* The candles of a series are of local days of its window.
LEMMA SeriesAreOfTheWindow ==
  ASSUME now \in Times, NEW range \in Ranges, NEW series \in Series(range), series # NoSeries
  PROVE  /\ series.starts # {} /\ IsFiniteSet(series.starts)
         /\ series.starts \in SUBSET {u \in Times : u <= now}
         /\ DaysBack(range) \in Nat
         /\ Max(series.starts) \in series.starts
         /\ LastSession(series) \in (Day(now) - DaysBack(range))..Day(now)
         /\ Trimmed(range, series).interval = series.interval
         /\ Trimmed(range, series).starts =
              IF range = "1d" THEN {u \in series.starts : LocalDay(u) = LastSession(series)}
              ELSE series.starts
<1>1. PICK interval \in Shown, starts \in Sessions :
        /\ series = [interval |-> interval, starts |-> Within(range, starts)]
        /\ Within(range, starts) # {}
  BY DEF Series
<1>2. /\ series.starts # {} /\ starts \subseteq Times
      /\ \A u \in series.starts :
           /\ u \in Times /\ u <= now
           /\ LocalDay(u) \in (Day(now) - DaysBack(range))..Day(now)
  BY <1>1, ReadsAssumption DEF Within
<1>3. IsFiniteSet(series.starts) /\ \A u \in series.starts : u \in Int
  <2>1. series.starts \subseteq Times /\ Times \subseteq Int
    BY <1>2, TimesAreNat
  <2> QED
    BY <2>1, TimesAreNat, FS_Subset
<1>4. Max(series.starts) \in series.starts
  BY <1>2, <1>3, MaxIsThere
<1>5. DaysBack(range) \in Nat
  BY ReadsAssumption DEF DaysBack
<1>6. LastSession(series) \in (Day(now) - DaysBack(range))..Day(now)
  BY <1>2, <1>4 DEF LastSession
<1>7. /\ Trimmed(range, series).interval = series.interval
      /\ Trimmed(range, series).starts =
           IF range = "1d" THEN {u \in series.starts : LocalDay(u) = LastSession(series)}
           ELSE series.starts
  BY <1>1 DEF Trimmed
<1> QED
  BY <1>2, <1>3, <1>4, <1>5, <1>6, <1>7

LEMMA CandlesAreOfTheirDay ==
  ASSUME NEW u \in Times, NEW t \in Times, NEW interval
  PROVE  /\ interval \in {"1d", "1wk", "1mo"} /\ LocalDay(t) = LocalDay(u)
              => InCandle(interval, u, t)
         /\ interval \notin {"1d", "1wk", "1mo"} => (InCandle(interval, u, t) <=> t = u)
<1>1. LocalDay(u) \in Int /\ LocalDay(t) \in Int
  BY LocalDaysAreNear
<1>2. CASE interval = "1d"
  BY <1>2 DEF InCandle
<1>3. CASE interval = "1wk"
  BY <1>1, <1>3 DEF InCandle
<1>4. CASE interval = "1mo"
  BY <1>4 DEF InCandle
<1>5. CASE interval \notin {"1d", "1wk", "1mo"}
  BY <1>5 DEF InCandle
<1> QED
  BY <1>2, <1>3, <1>4, <1>5

\* The chart of one day keeps a candle for every execution it had one for.
LEMMA SessionsKeepTheirCandles ==
  ASSUME now \in Times, NEW range \in Ranges, NEW series \in Series(range), series # NoSeries,
         NEW e, e.at \in Times, e.at <= now, Matching(e, series) # {},
         range = "1d" => LocalDay(e.at) = LastSession(series)
  PROVE  Matching(e, Trimmed(range, series)) # {}
<1> DEFINE kept == Trimmed(range, series)
           last_ == Max(series.starts)
<1>1. /\ series.starts \subseteq Times /\ last_ \in series.starts
      /\ kept.interval = series.interval
      /\ kept.starts = IF range = "1d" THEN {u \in series.starts : LocalDay(u) = LastSession(series)}
                       ELSE series.starts
  BY SeriesAreOfTheWindow
<1>2. LocalDay(last_) = LastSession(series)
  BY DEF LastSession
<1> HIDE DEF kept, last_
<1>3. CASE range # "1d"
  BY <1>1, <1>3 DEF Matching, kept
<1>4. CASE range = "1d"
  <2>1. PICK u \in series.starts : e.at \in CandleTimes(series.interval, u)
    BY DEF Matching
  <2>2. CASE series.interval \in {"1d", "1wk", "1mo"}
    <3>1. InCandle(series.interval, last_, e.at) /\ last_ \in kept.starts
      BY <1>1, <1>2, <1>4, <2>2, CandlesAreOfTheirDay
    <3> QED
      BY <1>1, <3>1 DEF Matching, CandleTimes, kept
  <2>3. CASE series.interval \notin {"1d", "1wk", "1mo"}
    <3>1. e.at = u
      BY <1>1, <2>1, <2>3, CandlesAreOfTheirDay DEF CandleTimes
    <3>2. u \in kept.starts
      BY <1>1, <1>4, <3>1
    <3> QED
      BY <1>1, <2>1, <3>2 DEF Matching, kept
  <2> QED
    BY <2>2, <2>3
<1> QED
  BY <1>3, <1>4

LEMMA ExecutionsAreMatched ==
  ASSUME now \in Times, NEW range \in Ranges, NEW series \in Series(range),
         NEW e, e.at \in Times, e.at <= now,
         series # NoSeries /\ range = "1d" => LocalDay(e.at) = LastSession(series)
  PROVE  Status(e, Trimmed(range, series))
           = IF Matching(e, series) = {} THEN "unavailable" ELSE "matched"
<1> DEFINE kept == Trimmed(range, series)
<1>1. CASE series = NoSeries
  BY <1>1 DEF Status, Trimmed, Matching, NoSeries
<1>2. CASE series # NoSeries
  <2>1. /\ series.starts \subseteq Times /\ IsFiniteSet(series.starts)
        /\ kept.interval = series.interval /\ kept.starts \subseteq series.starts
    BY <1>2, SeriesAreOfTheWindow
  <2>2. Matching(e, kept) \subseteq Matching(e, series)
    BY <2>1 DEF Matching
  <2> HIDE DEF kept
  <2>3. CASE Matching(e, series) = {}
    BY <2>2, <2>3 DEF Status, kept
  <2>4. CASE Matching(e, series) # {}
    <3>1. Matching(e, kept) # {}
      BY <1>2, <2>4, SessionsKeepTheirCandles DEF kept
    <3> DEFINE candle == Min(Matching(e, kept))
               times  == CandleTimes(kept.interval, candle)
               range_ == {Price[u] : u \in times}
    <3>2. candle \in Matching(e, kept)
      <4>1. Matching(e, kept) \subseteq series.starts
        BY <2>1 DEF Matching
      <4>2. IsFiniteSet(Matching(e, kept)) /\ \A u \in Matching(e, kept) : u \in Int
        <5>1. Times \subseteq Int
          BY TimesAreNat
        <5> QED
          BY <2>1, <4>1, <5>1, FS_Subset
      <4> QED
        BY <3>1, <4>2, MinIsThere
    <3>3. times \in SUBSET Times /\ e.at \in times
      BY <3>2 DEF Matching, CandleTimes
    <3> HIDE DEF times, candle
    <3>4. Min(range_) <= Price[e.at] /\ Price[e.at] <= Max(range_)
      BY <3>3, MarketPricesMatch
    <3>5. Status(e, kept) = "matched"
      BY <3>1, <3>4 DEF Status, times, candle
    <3> QED
      BY <2>4, <3>5 DEF kept
  <2> QED
    BY <2>3, <2>4
<1> QED
  BY <1>1, <1>2

LEMMA ExecutionsAreShown ==
  ASSUME MarketInv, TradesInv, NEW key, NEW range \in Ranges, NEW series \in Series(range)
  PROVE  LET executions == ExecutionsOf(key)
             spared     == Spared(executions, range)
             shown      == Relevant(spared, range, series)
             due        == {e \in executions : LocalDay(e.at) \in DaysShown(range, series)} IN
         /\ due \subseteq shown
         /\ series # NoSeries => shown = due
         /\ \A e \in shown :
              Status(e, Trimmed(range, series))
                = IF Matching(e, series) = {} THEN "unavailable" ELSE "matched"
<1> DEFINE executions == ExecutionsOf(key)
           spared     == Spared(executions, range)
           shown      == Relevant(spared, range, series)
           due        == {e \in executions : LocalDay(e.at) \in DaysShown(range, series)}
<1>1. \A e \in executions : e.at \in Times /\ e.at <= now
  BY TradesAreTyped DEF ExecutionsOf, TradesOf, TradesInv, ExecutedBy
<1>2. now \in Times /\ Day(now) \in Int /\ DaysBack(range) \in Nat
  BY TimesAreNat, ReadsAssumption DEF MarketInv, Day, DaysBack
<1>3. DaysShown(range, series) \subseteq (Day(now) - DaysBack(range))..Day(now)
  <2>1. CASE range = "1d" /\ series # NoSeries
    BY <1>2, <2>1, SeriesAreOfTheWindow DEF DaysShown
  <2>2. CASE ~(range = "1d" /\ series # NoSeries)
    BY <2>2 DEF DaysShown
  <2> QED
    BY <2>1, <2>2
<1> HIDE DEF executions
<1>4. ASSUME NEW e \in due PROVE e \in spared
  <2>1. Day(e.at) \in (Day(now) - DaysBack(range) - 1)..(Day(now) + 1)
    BY <1>1, <1>2, <1>3, LocalDaysAreNear
  <2> QED
    BY <2>1 DEF Spared
<1>5. due \subseteq shown
  BY <1>4 DEF Relevant, DaysShown, DaysBack, Ranges
<1>6. series # NoSeries => shown = due
  BY <1>5 DEF Relevant, Spared, DaysShown, DaysBack, Ranges
<1>7. ASSUME NEW e \in shown
      PROVE  Status(e, Trimmed(range, series))
               = IF Matching(e, series) = {} THEN "unavailable" ELSE "matched"
  <2>1. e \in executions
    BY DEF Relevant, Spared
  <2>2. series # NoSeries /\ range = "1d" => LocalDay(e.at) = LastSession(series)
    BY DEF Relevant
  <2> QED
    BY <1>1, <1>2, <2>1, <2>2, ExecutionsAreMatched
<1> QED
  BY <1>5, <1>6, <1>7 DEF executions

\* Everything open and everything ever executed has exactly one chart, with the
\* executions of its days by the exchange's calendar or of the provider's last
\* session; an execution is unavailable exactly where the provider has no candle
\* of its time, at whatever interval, and matches where it has one
\* (PositionChartService, for every zone, window, price and answer).
THEOREM ChartsAlwaysShowTheLedger == Spec => []ChartsShowTheLedger
<1>1. JobInv /\ TradesInv /\ ValuesInv => ChartsShowTheLedger
  <2> SUFFICES ASSUME JobInv, TradesInv, ValuesInv PROVE ChartsShowTheLedger
    OBVIOUS
  <2>1. MarketInv /\ DOMAIN positions \subseteq Keys
    BY DEF JobInv, ValuesInv
  <2> QED
    BY <2>1, ChartsListAll, ExecutionsAreShown DEF ChartsShowTheLedger
<1> QED
  BY <1>1, JobsReadTheBroker, TradesAreOnFile, ValuesAreTyped, PTL

-----------------------------------------------------------------------------
(* Snapshots.                                                              *)

\* A snapshot is of a refresh, whose time no other snapshot has, or of the
\* midnight and the currency its id names; none is of the future.
SnapshotsInv ==
  /\ refreshes \in Nat
  /\ IsFiniteSet(snapshots) /\ snapshots \subseteq SnapshotRows
  /\ \A s \in snapshots :
       /\ s.at <= now
       /\ \/ s.at \in Times
          \/ \E d \in 0..LastDay : s.at = Midnight(d) /\ s.id = <<"history", s.currency, d>>
  /\ \A s, o \in snapshots : s.at = o.at /\ s.currency = o.currency => s = o

LEMMA MidnightsAreQuiet ==
  ASSUME NEW d \in Int
  PROVE  Midnight(d) \notin Times /\ Day(Midnight(d)) = d
BY DEF Midnight, Times, Day

LEMMA SnapshotsAreKept ==
  ASSUME SnapshotsInv, UNCHANGED <<snapshots, refreshes>>, now \in Nat, now' \in Nat, now <= now'
  PROVE  SnapshotsInv'
<1>1. \A s \in snapshots : s.at <= now'
  BY DEF SnapshotsInv, SnapshotRows
<1> QED
  BY <1>1 DEF SnapshotsInv

LEMMA DaySnapshotsAreRows ==
  ASSUME MarketInv, NEW as \in SUBSET Accounts, NEW c \in Currencies, NEW d \in 0..LastDay
  PROVE  /\ DaySnapshot(as, c, d) \in SnapshotRows
         /\ DaySnapshot(as, c, d).id = <<"history", c, d>>
         /\ DaySnapshot(as, c, d).at = Midnight(d)
         /\ DaySnapshot(as, c, d).currency = c
<1> DEFINE s == DaySnapshot(as, c, d)
           held == UNION {HoldingsOf(a, Close(d)) : a \in {b \in as : AccountCurrency[b] = c}}
<1>1. s.nav \in Int
  BY DaySnapshotsAreTyped DEF SnapshotTyped
<1>2. Cardinality(held) \in Nat
  <2>1. held \subseteq Keys
    BY HoldingsAreTyped
  <2> HIDE DEF held
  <2> QED
    BY <2>1, KeysAreFinite, FS_Subset, FS_CardinalityType
<1>3. s = [id |-> <<"history", c, d>>, at |-> Midnight(d), currency |-> c, nav |-> s.nav,
           count |-> Cardinality(held), valued |-> Cardinality(held)]
  BY DEF DaySnapshot
<1>4. Midnight(d) \in Nat /\ <<"history", c, d>> \in {"history"} \X Currencies \X (0..LastDay)
  BY DEF Midnight
<1> HIDE DEF s, held
<1>5. s \in SnapshotRows
  BY <1>1, <1>2, <1>3, <1>4 DEF SnapshotRows
<1>6. s.id = <<"history", c, d>> /\ s.at = Midnight(d) /\ s.currency = c
  BY <1>3
<1> QED
  BY <1>5, <1>6 DEF s

LEMMA SnapshotsAreImported ==
  ASSUME JobInv, SnapshotsInv, CommitHistory
  PROVE  SnapshotsInv'
<1> DEFINE days == StatementDays(since)
<1>1. /\ Fetched /\ kind = "history" /\ UNCHANGED <<now, refreshes>> /\ answers[1] = since
      /\ since \in Times /\ now \in Nat /\ since \in Nat /\ since <= now
  BY ReportsAreOfTheBeginning DEF CommitHistory, market
<1>2. PICK as \in Queries :
        snapshots' = Replaced(snapshots,
             {DaySnapshot(as, AccountCurrency[x[1]], x[2]) : x \in as \X days})
  BY <1>1 DEF CommitHistory
<1> DEFINE of == [x \in as \X days |-> DaySnapshot(as, AccountCurrency[x[1]], x[2])]
           new == {DaySnapshot(as, AccountCurrency[x[1]], x[2]) : x \in as \X days}
<1>3. snapshots' = {s \in snapshots : \A n \in new : s.id # n.id} \cup new
  <2>1. snapshots' = Replaced(snapshots, new)
    BY <1>2
  <2> HIDE DEF new
  <2> QED
    BY <2>1 DEF Replaced
<1>4. /\ as \in SUBSET Accounts /\ IsFiniteSet(as) /\ days \subseteq 0..LastDay /\ IsFiniteSet(days)
      /\ \A d \in days : d \in 0..LastDay /\ Midnight(d) <= now
      /\ \A a \in as : AccountCurrency[a] \in Currencies
  <2>1. as \in SUBSET Accounts /\ days \subseteq 0..LastDay
    BY LedgerAssumption DEF StatementDays
  <2>2. IsFiniteSet(as) /\ IsFiniteSet(days)
    <3>1. LastDay \in Nat /\ IsFiniteSet(Accounts)
      BY BrokerAssumption
    <3>2. IsFiniteSet(0..LastDay)
      BY <3>1, FS_Interval
    <3> HIDE DEF days
    <3> QED
      BY <2>1, <3>1, <3>2, FS_Subset
  <2>3. \A d \in days : Midnight(d) <= now
    BY <1>1, TimesAreNat DEF StatementDays, Midnight
  <2>4. \A a \in as : AccountCurrency[a] \in Currencies
    BY <2>1, LedgerAssumption
  <2> QED
    BY <2>1, <2>2, <2>3, <2>4
<1> HIDE DEF days
<1>5. \A n \in new : \E c \in Currencies, d \in 0..LastDay :
        /\ n = DaySnapshot(as, c, d) /\ n \in SnapshotRows /\ Midnight(d) <= now
        /\ n.id = <<"history", c, d>> /\ n.at = Midnight(d) /\ n.currency = c
  <2> SUFFICES ASSUME NEW n \in new
               PROVE  \E c \in Currencies, d \in 0..LastDay :
                 /\ n = DaySnapshot(as, c, d) /\ n \in SnapshotRows /\ Midnight(d) <= now
                 /\ n.id = <<"history", c, d>> /\ n.at = Midnight(d) /\ n.currency = c
    OBVIOUS
  <2>1. PICK a \in as, d \in days : n = DaySnapshot(as, AccountCurrency[a], d)
    OBVIOUS
  <2>2. AccountCurrency[a] \in Currencies /\ d \in 0..LastDay /\ Midnight(d) <= now
    BY <1>4
  <2> DEFINE c == AccountCurrency[a]
  <2> HIDE DEF new, c
  <2>3. c \in Currencies /\ n = DaySnapshot(as, c, d)
    BY <2>1, <2>2 DEF c
  <2>4. n \in SnapshotRows /\ n.id = <<"history", c, d>> /\ n.at = Midnight(d) /\ n.currency = c
    BY <1>4, <2>2, <2>3, DaySnapshotsAreRows DEF JobInv
  <2> QED
    BY <2>2, <2>3, <2>4
<1>6. IsFiniteSet(new)
  <2>1. of \in Surjection(as \X days, new)
    <3>1. of \in [as \X days -> new] /\ new = {of[x] : x \in as \X days}
      OBVIOUS
    <3> HIDE DEF of, new
    <3> QED
      BY <3>1 DEF Surjection
  <2>2. IsFiniteSet(as \X days)
    BY <1>4, FS_Product
  <2> HIDE DEF of, new
  <2> QED
    BY <2>1, <2>2, FS_Surjection
<1> HIDE DEF of, new
<1>7. IsFiniteSet(snapshots') /\ snapshots' \subseteq SnapshotRows
  <2>1. IsFiniteSet({s \in snapshots : \A n \in new : s.id # n.id})
    BY FS_Subset DEF SnapshotsInv
  <2> QED
    BY <1>3, <1>5, <1>6, <2>1, FS_Union DEF SnapshotsInv
<1>8. \A s \in snapshots' :
        /\ s.at <= now
        /\ \/ s.at \in Times
           \/ \E d \in 0..LastDay : s.at = Midnight(d) /\ s.id = <<"history", s.currency, d>>
  BY <1>3, <1>5 DEF SnapshotsInv
<1>9. ASSUME NEW s \in snapshots', NEW o \in new, s.at = o.at, s.currency = o.currency
      PROVE  s = o
  <2>1. PICK c \in Currencies, d \in 0..LastDay :
          /\ o = DaySnapshot(as, c, d)
          /\ o.id = <<"history", c, d>> /\ o.at = Midnight(d) /\ o.currency = c
    BY <1>5
  <2>2. s.at \notin Times /\ d \in Int
    BY <1>9, <2>1, MidnightsAreQuiet
  <2>3. CASE s \in new
    <3>1. PICK b \in Currencies, e \in 0..LastDay :
            s = DaySnapshot(as, b, e) /\ s.at = Midnight(e) /\ s.currency = b
      BY <1>5, <2>3
    <3>2. e = d
      <4>1. Midnight(e) = Midnight(d) /\ LastDay \in Nat
        BY <1>9, <2>1, <3>1, BrokerAssumption
      <4> QED
        BY <4>1 DEF Midnight
    <3>3. b = c
      BY <1>9, <2>1, <3>1
    <3> QED
      BY <2>1, <3>1, <3>2, <3>3
  <2>4. CASE s \in snapshots /\ s.id # o.id
    <3>1. PICK e \in 0..LastDay : s.at = Midnight(e) /\ s.id = <<"history", s.currency, e>>
      BY <2>2, <2>4 DEF SnapshotsInv
    <3>2. e = d
      BY <1>9, <2>1, <3>1 DEF Midnight
    <3> QED
      BY <1>9, <2>1, <2>4, <3>1, <3>2
  <2> QED
    BY <1>3, <2>3, <2>4
<1>10. \A s, o \in snapshots' : s.at = o.at /\ s.currency = o.currency => s = o
  BY <1>3, <1>9 DEF SnapshotsInv
<1> QED
  BY <1>1, <1>7, <1>8, <1>10 DEF SnapshotsInv

\* What a refresh does: one more snapshot, the only one of its time.
LEMMA SnapshotsAreRefreshed ==
  ASSUME JobInv, ValuesInv, SnapshotsInv, NEW c \in Currencies, Refresh(c)
  PROVE  /\ SnapshotsInv' /\ now' = now /\ positions' = positions
         /\ base' = c
         /\ \E fetched \in FetchedRates(c) :
              /\ rates' = Persisted(fetched) /\ review'.rates = Resolved(c, fetched)
              /\ review'.snapshot = PortfolioSnapshot(<<"review", refreshes>>, c, review'.rates)
         /\ review'.snapshot \in snapshots' /\ review'.snapshot.at = now
         /\ review'.snapshot.currency = c
         /\ review'.previous = Previous(snapshots', review'.snapshot)
         /\ \A o \in snapshots' : o # review'.snapshot => o.at < now
<1>1. /\ base' = c /\ positions' = positions /\ now' = now /\ refreshes' = refreshes + 1
      /\ now \in Times /\ now \in Nat /\ \A o \in snapshots : o.at # now
  BY TimesAreNat DEF Refresh, JobInv, MarketInv, market
<1>2. PICK fetched \in FetchedRates(c) :
        LET used == Resolved(c, fetched)
            s    == PortfolioSnapshot(<<"review", refreshes>>, c, used) IN
        /\ rates' = Persisted(fetched)
        /\ snapshots' = Replaced(snapshots, {s})
        /\ review' = [snapshot |-> s, previous |-> Previous(snapshots', s), rates |-> used,
                      signals |-> Signals(c, used, s.nav)]
  BY DEF Refresh
<1> DEFINE used == Resolved(c, fetched)
           s    == PortfolioSnapshot(<<"review", refreshes>>, c, used)
<1>3. \A pair \in DOMAIN used : used[pair] \in Times
  BY RatesAreResolved
<1>4. /\ snapshots' = Replaced(snapshots, {s}) /\ rates' = Persisted(fetched)
      /\ review'.rates = used /\ review'.snapshot = s
      /\ review'.previous = Previous(snapshots', s)
  BY <1>2
<1>5. s \in SnapshotRows /\ s.at = now /\ s.currency = c
  <2>1. SnapshotTyped(s)
    BY <1>1, <1>3, PortfoliosAreTyped
  <2>2. Cardinality(DOMAIN positions) \in Nat
    BY KeysAreFinite, FS_Subset, FS_CardinalityType DEF ValuesInv
  <2>3. s = [id |-> <<"review", refreshes>>, at |-> now, currency |-> c, nav |-> s.nav,
             count |-> Cardinality(DOMAIN positions), valued |-> s.valued]
    BY DEF PortfolioSnapshot
  <2>4. <<"review", refreshes>> \in {"review"} \X Nat
    BY DEF SnapshotsInv
  <2> HIDE DEF s
  <2>5. s.nav \in Int /\ s.valued \in Nat /\ s.count = Cardinality(DOMAIN positions)
    BY <2>1, <2>2, <2>3 DEF SnapshotTyped
  <2> QED
    BY <1>1, <2>2, <2>3, <2>4, <2>5 DEF SnapshotRows
<1> HIDE DEF s
<1>7. snapshots' = {o \in snapshots : o.id # s.id} \cup {s}
  BY <1>4 DEF Replaced
<1>8. \A o \in snapshots' : o = s \/ (o \in snapshots /\ o.at < now)
  BY <1>1, <1>7 DEF SnapshotsInv, SnapshotRows
<1>9. IsFiniteSet(snapshots') /\ s \in snapshots'
  <2>1. IsFiniteSet({o \in snapshots : o.id # s.id})
    BY FS_Subset DEF SnapshotsInv
  <2> QED
    BY <1>7, <2>1, FS_AddElement
<1>10. SnapshotsInv'
  <2>1. snapshots' \subseteq SnapshotRows
    BY <1>5, <1>8 DEF SnapshotsInv
  <2>2. \A o \in snapshots' :
          /\ o.at <= now
          /\ \/ o.at \in Times
             \/ \E d \in 0..LastDay : o.at = Midnight(d) /\ o.id = <<"history", o.currency, d>>
    BY <1>1, <1>5, <1>8 DEF SnapshotsInv
  <2>3. \A o, p \in snapshots' : o.at = p.at /\ o.currency = p.currency => o = p
    BY <1>1, <1>5, <1>8 DEF SnapshotsInv
  <2> QED
    BY <1>1, <1>9, <2>1, <2>2, <2>3 DEF SnapshotsInv
<1> QED
  BY <1>1, <1>4, <1>5, <1>8, <1>9, <1>10 DEF s

\* Snapshots no two of which are of one time and currency, from the first to
\* the last.
Timed(D) ==
  /\ IsFiniteSet(D) /\ \A s \in D : s.at \in Int /\ s.currency \in Int
  /\ \A s, o \in D : s.at = o.at /\ s.currency = o.currency => s = o

TimeOrder(D) == {pair \in D \X D : Earlier(pair[1], pair[2])}

LEMMA TimesAreOrdered ==
  ASSUME NEW D, Timed(D)
  PROVE  StrictOrder(TimeOrder(D), D)
<1>1. /\ \A s \in D : s.at \in Int /\ s.currency \in Int
      /\ \A s, o \in D : s.at = o.at /\ s.currency = o.currency => s = o
  BY DEF Timed
<1>2. \A s, o \in D : <<s, o>> \in TimeOrder(D) <=> Earlier(s, o)
  BY DEF TimeOrder
<1>3. \A s \in D : ~Earlier(s, s)
  BY <1>1 DEF Earlier
<1>4. \A s, o \in D : s # o => Earlier(s, o) \/ Earlier(o, s)
  BY <1>1 DEF Earlier
<1>5. ASSUME NEW j \in D, NEW k \in D, NEW l \in D, Earlier(j, k), Earlier(k, l)
      PROVE  Earlier(j, l)
  BY <1>1, <1>5 DEF Earlier
<1> QED
  BY <1>2, <1>3, <1>4, <1>5 DEF StrictOrder

LEMMA TimesAreInPlace ==
  ASSUME NEW D, Timed(D)
  PROVE  InPlace(TimeOrder(D), D, InTimeOrder(D))
<1> DEFINE q == InTimeOrder(D)
<1>1. IsFiniteSet(D) /\ StrictOrder(TimeOrder(D), D) /\ Cardinality(D) \in Nat
  BY FS_CardinalityType, TimesAreOrdered DEF Timed
<1>2. ASSUME NEW x \in D
      PROVE  RankIn(TimeOrder(D), D, x) = Cardinality({y \in D : Earlier(y, x)})
  <2>1. Below(TimeOrder(D), D, x) = {y \in D : Earlier(y, x)}
    BY DEF Below, TimeOrder
  <2> QED
    BY <2>1 DEF RankIn
<1>3. ASSUME NEW i \in 1..Cardinality(D)
      PROVE  q[i] \in D /\ RankIn(TimeOrder(D), D, q[i]) = i - 1
  <2>1. i - 1 \in 0..(Cardinality(D) - 1)
    BY <1>1
  <2>2. \E x \in D : RankIn(TimeOrder(D), D, x) = i - 1
    BY <1>1, <2>1, RanksFill
  <2>3. \E x \in D : Cardinality({y \in D : Earlier(y, x)}) = i - 1
    BY <1>2, <2>2
  <2>4. q[i] = CHOOSE x \in D : Cardinality({y \in D : Earlier(y, x)}) = i - 1
    BY DEF InOrder, InTimeOrder
  <2> HIDE DEF q
  <2>5. q[i] \in D /\ Cardinality({y \in D : Earlier(y, q[i])}) = i - 1
    BY <2>3, <2>4, Zenon
  <2> QED
    BY <1>2, <2>5
<1>4. q \in [1..Cardinality(D) -> D]
  BY <1>3 DEF InOrder, InTimeOrder
<1> QED
  BY <1>3, <1>4 DEF InPlace

LEMMA TimesAreSorted ==
  ASSUME NEW D, Timed(D)
  PROVE  LET n == Cardinality(D) q == InTimeOrder(D) IN
         /\ n \in Nat /\ q \in Seq(D) /\ Len(q) = n /\ DOMAIN q = 1..n
         /\ \A i \in 1..n : q[i] \in D
         /\ \A x \in D : \E i \in 1..n : q[i] = x
         /\ \A i, j \in 1..n : i < j <=> Earlier(q[i], q[j])
<1> DEFINE n == Cardinality(D)
           q == InTimeOrder(D)
           R == TimeOrder(D)
<1>1. IsFiniteSet(D) /\ StrictOrder(R, D) /\ InPlace(R, D, q)
  BY TimesAreOrdered, TimesAreInPlace DEF Timed
<1>2. \A s, o \in D : <<s, o>> \in R <=> Earlier(s, o)
  BY DEF TimeOrder
<1> HIDE DEF q, R
<1>3. /\ q \in Seq(D) /\ Len(q) = n /\ n \in Nat
      /\ \A x \in D : RankIn(R, D, x) + 1 \in 1..n /\ q[RankIn(R, D, x) + 1] = x
  BY <1>1, PlacesAre
<1>4. q \in [1..n -> D] /\ \A i \in 1..n : RankIn(R, D, q[i]) = i - 1
  BY <1>1 DEF InPlace
<1> HIDE DEF n
<1>5. ASSUME NEW i \in 1..n, NEW j \in 1..n PROVE i < j <=> Earlier(q[i], q[j])
  <2>1. q[i] \in D /\ q[j] \in D /\ RankIn(R, D, q[i]) = i - 1 /\ RankIn(R, D, q[j]) = j - 1
    BY <1>4
  <2>2. <<q[i], q[j]>> \in R <=> RankIn(R, D, q[i]) < RankIn(R, D, q[j])
    BY <1>1, <2>1, RanksGrow
  <2>3. i < j <=> i - 1 < j - 1
    BY <1>3
  <2> QED
    BY <1>2, <2>1, <2>2, <2>3
<1> QED
  BY <1>3, <1>4, <1>5 DEF n, q

LEMMA SnapshotsAreTimed ==
  ASSUME SnapshotsInv
  PROVE  Timed(snapshots) /\ snapshots \subseteq SnapshotRows
<1>1. \A s \in snapshots : s.at \in Nat /\ s.currency \in Nat
  BY LedgerAssumption DEF SnapshotsInv, SnapshotRows
<1> QED
  BY <1>1 DEF Timed, SnapshotsInv

LEMMA PartsAreTimed ==
  ASSUME NEW ss, Timed(ss), NEW part \in SUBSET ss
  PROVE  /\ Timed(part)
         /\ LatestPerDay(part) \subseteq part /\ Timed(LatestPerDay(part))
<1>1. LatestPerDay(part) \subseteq part
  BY DEF LatestPerDay
<1>2. \A t \in SUBSET ss : IsFiniteSet(t)
  BY FS_Subset DEF Timed
<1>3. \A t \in SUBSET ss : Timed(t)
  BY <1>2 DEF Timed
<1> QED
  BY <1>1, <1>3

LEMMA NewestIsThere ==
  ASSUME NEW ss, IsFiniteSet(ss), ss # {}, \A s \in ss : s.at \in Int
  PROVE  NewestOf(ss) \in ss /\ \A o \in ss : o.at <= NewestOf(ss).at
<1> DEFINE at == [s \in ss |-> s.at]
           ats == {at[s] : s \in ss}
<1>1. IsFiniteSet(ats)
  <2>1. at \in [ss -> ats]
    OBVIOUS
  <2>2. at \in Surjection(ss, ats)
    <3> HIDE DEF at
    <3> QED
      BY <2>1 DEF Surjection
  <2> HIDE DEF at, ats
  <2> QED
    BY <2>2, FS_Surjection
<1>2. /\ \A s \in ss : s.at \in ats
      /\ \A x \in ats : x \in Int /\ \E s \in ss : s.at = x
  OBVIOUS
<1>3. ats # {}
  BY <1>2
<1> HIDE DEF ats
<1>4. PICK s \in ss : \A o \in ss : o.at <= s.at
  BY <1>1, <1>2, <1>3, MaxIsThere
<1>5. {o \in ss : \A p \in ss : p.at <= o.at} # {}
  BY <1>4
<1>6. NewestOf(ss) \in {o \in ss : \A p \in ss : p.at <= o.at}
  BY <1>5 DEF NewestOf
<1> QED
  BY <1>6

LEMMA DaysGoBy ==
  /\ \A t \in Int : Day(t) \in Int
  /\ \A t, u \in Int : t <= u => Day(t) <= Day(u)
BY DEF Day

\* The last day of the newest snapshot's currency is its own, the one before it
\* that of the snapshot it is compared with.
LEMMA ChangesAgree ==
  ASSUME NEW ss, Timed(ss), ss \subseteq SnapshotRows, NEW s \in ss,
         \A o \in ss : o # s => o.at < s.at
  PROVE  LET point == Last(Indicative(ss).points) previous == Previous(ss, s) IN
         /\ point.at = s.at
         /\ IF previous = None THEN point.against = None
            ELSE point.against = Day(previous.at) /\ point.amount = s.nav - previous.nav
<1> DEFINE own    == {o \in ss : o.currency = s.currency}
           D      == LatestPerDay(own)
           n      == Cardinality(D)
           q      == InTimeOrder(D)
           prior  == {o \in ss : o.currency = s.currency /\ Day(o.at) < Day(s.at)}
           points == [i \in DOMAIN q |->
                       [day |-> Day(q[i].at), at |-> q[i].at, nav |-> q[i].nav,
                        against |-> IF i = 1 THEN None ELSE Day(q[i - 1].at),
                        amount  |-> IF i = 1 THEN None ELSE q[i].nav - q[i - 1].nav]]
<1>1. /\ \A o \in ss : o.at \in Int /\ Day(o.at) \in Int
      /\ \A o, p \in ss : o.at <= p.at => Day(o.at) <= Day(p.at)
  BY DaysGoBy DEF Timed
<1>2. NewestOf(ss) = s
  <2>1. NewestOf(ss) \in ss /\ s.at <= NewestOf(ss).at
    BY NewestIsThere DEF Timed
  <2> QED
    BY <1>1, <2>1
<1>3. Indicative(ss).points = points
  BY <1>2 DEF Indicative
<1>4. /\ D \subseteq own /\ Timed(D) /\ Timed(prior)
      /\ \A o \in own : o \in D <=> \A p \in own : Day(p.at) = Day(o.at) => p.at <= o.at
  BY PartsAreTimed DEF LatestPerDay
<1>5. s \in D /\ \A o \in D : o = s \/ (Earlier(o, s) /\ o \in prior)
  <2>1. s \in D
    BY <1>1, <1>4
  <2>2. ASSUME NEW o \in D, o # s PROVE Earlier(o, s) /\ o \in prior
    <3>1. o \in own /\ o.at < s.at /\ Day(o.at) <= Day(s.at)
      BY <1>1, <1>4, <2>2
    <3>2. Day(o.at) # Day(s.at)
      BY <1>1, <1>4, <3>1
    <3> QED
      BY <1>1, <3>1, <3>2 DEF Earlier
  <2> QED
    BY <2>1, <2>2
<1>6. /\ n \in Nat /\ q \in Seq(D) /\ Len(q) = n /\ DOMAIN q = 1..n
      /\ \A i \in 1..n : q[i] \in D
      /\ \A x \in D : \E i \in 1..n : q[i] = x
      /\ \A i, j \in 1..n : i < j <=> Earlier(q[i], q[j])
  BY <1>4, TimesAreSorted
<1>8. \A o \in ss : o.at \in Int /\ ~Earlier(o, o)
  BY <1>1 DEF Earlier, Timed
<1>9. Previous(ss, s) = IF prior = {} THEN None ELSE NewestOf(prior)
  BY DEF Previous
<1> HIDE DEF D, q, n
<1>7. Len(points) = n /\ Last(points) = points[n]
  <2>1. DOMAIN points = 1..n
    BY <1>6
  <2> HIDE DEF points
  <2>2. Len(points) = n
    BY <1>6, <2>1
  <2> QED
    BY <2>2 DEF Last
<1>10. n \in 1..n /\ q[n] = s
  <2>1. PICK k \in 1..n : q[k] = s
    BY <1>5, <1>6
  <2>2. n \in 1..n
    BY <1>6
  <2>3. ~(k < n)
    <3>1. q[n] = s \/ Earlier(q[n], s)
      BY <1>5, <1>6, <2>2
    <3>2. ~(n < k)
      BY <1>6
    <3>3. ~Earlier(q[n], q[k])
      BY <1>6, <2>2, <3>2
    <3>4. q[n] = s
      BY <2>1, <3>1, <3>3
    <3> QED
      BY <1>6, <1>8, <2>1, <2>2, <3>4
  <2>4. k = n
    BY <1>6, <2>3
  <2> QED
    BY <2>1, <2>2, <2>4
<1>11. n \in DOMAIN q /\ Last(points).at = s.at
  BY <1>6, <1>7, <1>10
<1>12. CASE prior = {}
  <2>1. n = 1
    <3> SUFFICES ASSUME n # 1 PROVE FALSE
      OBVIOUS
    <3>1. 1 \in 1..n /\ 1 < n
      BY <1>6, <1>10
    <3>2. Earlier(q[1], q[n]) /\ q[1] \in D
      BY <1>6, <1>10, <3>1
    <3> QED
      BY <1>4, <1>5, <1>8, <1>10, <1>12, <3>2
  <2>2. Last(points).against = None
    BY <1>6, <1>7, <1>11, <2>1
  <2> QED
    BY <1>3, <1>9, <1>11, <1>12, <2>2
<1>13. CASE prior # {}
  <2> DEFINE p == NewestOf(prior)
  <2>1. p \in prior /\ \A o \in prior : o.at <= p.at
    BY <1>4, <1>13, NewestIsThere DEF Timed
  <2> HIDE DEF p
  <2>2. p \in own /\ Day(p.at) < Day(s.at)
    BY <2>1
  <2>3. p \in D
    <3>1. ASSUME NEW o \in own, Day(o.at) = Day(p.at) PROVE o.at <= p.at
      BY <2>1, <2>2, <3>1
    <3> QED
      BY <1>4, <2>2, <3>1
  <2>4. \A o \in D : o = s \/ o = p \/ Earlier(o, p)
    <3> SUFFICES ASSUME NEW o \in D, o # s, o # p PROVE Earlier(o, p)
      OBVIOUS
    <3>1. o \in prior /\ o.at <= p.at /\ o.currency = s.currency /\ p.currency = s.currency
      BY <1>4, <1>5, <2>1, <2>2
    <3>2. o.at # p.at
      BY <1>4, <2>3, <3>1 DEF Timed
    <3> QED
      BY <1>1, <2>1, <3>1, <3>2 DEF Earlier
  <2>5. PICK k \in 1..n : q[k] = p
    BY <1>6, <2>3
  <2>6. k < n
    <3>1. p # s
      BY <1>1, <2>2
    <3> QED
      BY <1>6, <1>10, <2>5, <3>1
  <2>7. n - 1 \in 1..n /\ n # 1 /\ q[n - 1] = p
    <3>1. n - 1 \in 1..n /\ n - 1 < n /\ n # 1 /\ ~(n - 1 < k)
      BY <1>6, <2>6
    <3>2. Earlier(q[n - 1], q[n]) /\ q[n - 1] \in D /\ ~Earlier(q[n - 1], q[k])
      BY <1>6, <1>10, <3>1
    <3>3. q[n - 1] # s
      BY <1>4, <1>8, <1>10, <3>2
    <3> QED
      BY <2>4, <2>5, <3>1, <3>2, <3>3
  <2>8. Last(points).against = Day(p.at) /\ Last(points).amount = s.nav - p.nav
    BY <1>6, <1>7, <1>10, <1>11, <2>7
  <2>9. p # None
    BY <2>2, NoneAssumption
  <2> QED
    BY <1>3, <1>9, <1>11, <1>13, <2>8, <2>9 DEF p
<1> QED
  BY <1>12, <1>13

LEMMA SnapshotsAreSound == Spec => []SnapshotsInv
<1>1. Init => SnapshotsInv
  <2> SUFFICES ASSUME Init PROVE SnapshotsInv
    OBVIOUS
  <2>1. snapshots = {} /\ refreshes = 0
    BY DEF Init, LedgerInit
  <2> QED
    BY <2>1, FS_EmptySet DEF SnapshotsInv
<1>2. JobInv /\ JobInv' /\ ValuesInv /\ SnapshotsInv /\ [Next]_vars => SnapshotsInv'
  <2> SUFFICES ASSUME JobInv, JobInv', ValuesInv, SnapshotsInv, [Next]_vars PROVE SnapshotsInv'
    OBVIOUS
  <2>0. now' \in Nat /\ now \in Nat
    BY TimesAreNat DEF JobInv, MarketInv
  <2>1. CASE Kept \/ CommitActivity \/ CommitPortal
    <3>1. UNCHANGED <<snapshots, refreshes>> /\ now <= now'
      BY <2>0, <2>1 DEF Kept, CommitActivity, CommitPortal, tables, market
    <3> QED
      BY <2>0, <3>1, SnapshotsAreKept
  <2>2. CASE CommitHistory
    BY <2>2, SnapshotsAreImported
  <2>3. ASSUME NEW c \in Currencies, Refresh(c) PROVE SnapshotsInv'
    BY <2>3, SnapshotsAreRefreshed
  <2> QED
    BY <2>1, <2>2, <2>3, WhatHappens
<1> QED
  BY <1>1, <1>2, JobsReadTheBroker, ValuesAreTyped, PTL DEF Spec

\* Where no rate on file is newer than what was answered, the newest on file
\* are the ones the refresh used.
LEMMA ResolvedAreNewest ==
  ASSUME ValuesInv, NEW c \in Currencies, NEW fetched \in FetchedRates(c),
         \A r \in Persisted(fetched) :
           r.pair \in DOMAIN Resolved(c, fetched) => r.at <= Resolved(c, fetched)[r.pair]
  PROVE  Newest(Pairs(DOMAIN positions, c), Persisted(fetched)) = Resolved(c, fetched)
<1> DEFINE pairs == Pairs(DOMAIN positions, c)
           known == {p \in pairs : PointsOf(p, rates) # {}}
           file  == Persisted(fetched)
           used  == Resolved(c, fetched)
<1>1. /\ RatesTyped(file) /\ RatesTyped(rates)
      /\ DOMAIN fetched \subseteq pairs /\ \A pair \in DOMAIN fetched : fetched[pair] \in Times
  BY RatesAreResolved DEF ValuesInv
<1>2. used = [p \in known \cup DOMAIN fetched |->
                IF p \in DOMAIN fetched THEN fetched[p] ELSE Max(PointsOf(p, rates))]
  BY DEF Resolved, Upserted, Newest
<1>3. \A p : PointsOf(p, file)
                = PointsOf(p, rates) \cup {fetched[q] : q \in {d \in DOMAIN fetched : d = p}}
  <2> SUFFICES ASSUME NEW p
               PROVE  PointsOf(p, file)
                        = PointsOf(p, rates) \cup {fetched[q] : q \in {d \in DOMAIN fetched : d = p}}
    OBVIOUS
  <2>1. PointsOf(p, file) = PointsOf(p, rates)
          \cup PointsOf(p, {[pair |-> q, at |-> fetched[q]] : q \in DOMAIN fetched})
    BY DEF PointsOf, Persisted
  <2>2. PointsOf(p, {[pair |-> q, at |-> fetched[q]] : q \in DOMAIN fetched})
          = {fetched[q] : q \in {d \in DOMAIN fetched : d = p}}
    <3> DEFINE new == {[pair |-> q, at |-> fetched[q]] : q \in DOMAIN fetched}
    <3>1. ASSUME NEW t \in PointsOf(p, new)
          PROVE  t \in {fetched[q] : q \in {d \in DOMAIN fetched : d = p}}
      <4>1. PICK r \in new : r.pair = p /\ t = r.at
        BY <3>1 DEF PointsOf
      <4>2. PICK q \in DOMAIN fetched : r = [pair |-> q, at |-> fetched[q]]
        BY <4>1
      <4> QED
        BY <4>1, <4>2
    <3>2. ASSUME NEW q \in DOMAIN fetched, q = p PROVE fetched[q] \in PointsOf(p, new)
      <4>1. [pair |-> q, at |-> fetched[q]] \in new
        OBVIOUS
      <4> HIDE DEF new
      <4> QED
        BY <3>2, <4>1 DEF PointsOf
    <3> HIDE DEF new
    <3>3. PointsOf(p, new) = {fetched[q] : q \in {d \in DOMAIN fetched : d = p}}
      BY <3>1, <3>2
    <3> QED
      BY <3>3 DEF new
  <2> QED
    BY <2>1, <2>2
<1>4. \A p, rs : RatesTyped(rs) =>
        /\ IsFiniteSet(PointsOf(p, rs)) /\ \A t \in PointsOf(p, rs) : t \in Int
  <2> SUFFICES ASSUME NEW p, NEW rs, RatesTyped(rs)
               PROVE  IsFiniteSet(PointsOf(p, rs)) /\ \A t \in PointsOf(p, rs) : t \in Int
    OBVIOUS
  <2>1. PointsOf(p, rs) \subseteq Times
    BY DEF PointsOf, RatesTyped
  <2>2. Times \subseteq Int
    BY TimesAreNat
  <2> QED
    BY <2>1, <2>2, TimesAreNat, FS_Subset
<1>5. {p \in pairs : PointsOf(p, file) # {}} = known \cup DOMAIN fetched
  BY <1>1, <1>3
<1>6. ASSUME NEW p \in known \cup DOMAIN fetched PROVE Max(PointsOf(p, file)) = used[p]
  <2>1. used[p] \in PointsOf(p, file)
    <3>1. CASE p \in DOMAIN fetched
      BY <1>2, <1>3, <3>1
    <3>2. CASE p \notin DOMAIN fetched
      <4>1. used[p] = Max(PointsOf(p, rates)) /\ PointsOf(p, rates) # {}
        BY <1>2, <3>2
      <4>2. Max(PointsOf(p, rates)) \in PointsOf(p, rates)
        BY <1>1, <1>4, <4>1, MaxIsThere
      <4> QED
        BY <1>3, <4>1, <4>2
    <3> QED
      BY <3>1, <3>2
  <2>2. \A t \in PointsOf(p, file) : t <= used[p]
    BY <1>2 DEF PointsOf
  <2>3. /\ Max(PointsOf(p, file)) \in PointsOf(p, file)
        /\ \A t \in PointsOf(p, file) : t <= Max(PointsOf(p, file))
    BY <1>1, <1>4, <2>1, MaxIsThere
  <2>4. used[p] \in Int /\ Max(PointsOf(p, file)) \in Int
    BY <1>1, <1>4, <2>1, <2>3
  <2> HIDE DEF used, file
  <2> QED
    BY <2>1, <2>2, <2>3, <2>4
<1>7. Newest(pairs, file) = [p \in known \cup DOMAIN fetched |-> Max(PointsOf(p, file))]
  BY <1>5 DEF Newest
<1>8. used = [p \in known \cup DOMAIN fetched |-> used[p]]
  BY <1>2
<1> HIDE DEF used, file, known, pairs
<1>9. Newest(pairs, file) = used
  BY <1>6, <1>7, <1>8
<1> QED
  BY <1>9 DEF used, file, pairs

\* Valued again at the rates on file, the portfolio is worth the same.
LEMMA PortfolioIsWorthTheReview ==
  ASSUME NEW c, NEW used, NEW id, now' = now, positions' = positions, base' = c,
         used = Newest(Pairs(DOMAIN positions, c), rates')
  PROVE  CurrentNav' = PortfolioSnapshot(id, c, used).nav
<1>1. Newest(Pairs(DOMAIN positions, base), rates)' = used
  BY DEF Newest, Pairs, PointsOf, LocalCurrency
<1>2. \A key : Worth(key, c, used)' = Worth(key, c, used)
  BY DEF Worth, UnitPrice
<1>3. PortfolioSnapshot("current", base, Newest(Pairs(DOMAIN positions, base), rates))'.nav
        = SumFunction([key \in Valued(DOMAIN positions, c, used) |-> Worth(key, c, used)])
  BY <1>1, <1>2 DEF PortfolioSnapshot
<1>4. PortfolioSnapshot(id, c, used).nav
        = SumFunction([key \in Valued(DOMAIN positions, c, used) |-> Worth(key, c, used)])
  BY DEF PortfolioSnapshot
<1> QED
  BY <1>3, <1>4 DEF CurrentNav

\* The refresh, the dashboard's daily change and the current portfolio are
\* computed by different code and say the same of every review just committed,
\* whatever imports and other refreshes stored before it: the change always,
\* the value unless a rate on file is newer than the one the provider answered
\* (refresh_and_sync.py:282-302, repositories.py:859-881, daily_pnl.py).
THEOREM ReadsAlwaysAgreeWithReview == Spec => ReadsAgreeWithReview
<1>1. ASSUME JobInv, ValuesInv, SnapshotsInv, NEW c \in Currencies, Refresh(c)
      PROVE  (LET point == Last(Indicative(snapshots).points) IN
              /\ point.at = review.snapshot.at
              /\ IF review.previous = None THEN point.against = None
                 ELSE /\ point.against = Day(review.previous.at)
                      /\ point.amount = review.snapshot.nav - review.previous.nav
              /\ (\A r \in rates : r.pair \in DOMAIN review.rates => r.at <= review.rates[r.pair])
                   => CurrentNav = review.snapshot.nav)'
  <2> DEFINE ss == snapshots'
             s  == review'.snapshot
  <2>1. /\ SnapshotsInv' /\ s \in ss /\ s.at = now /\ \A o \in ss : o # s => o.at < now
        /\ review'.previous = Previous(ss, s) /\ now' = now /\ positions' = positions
    BY <1>1, SnapshotsAreRefreshed
  <2>2. Timed(ss) /\ ss \subseteq SnapshotRows
    <3>1. (SnapshotsInv => Timed(snapshots) /\ snapshots \subseteq SnapshotRows)'
      BY SnapshotsAreTimed, PTL
    <3> QED
      BY <2>1, <3>1 DEF Timed
  <2>3. PICK t : t = ss
    OBVIOUS
  <2>4. PICK r : r = s
    OBVIOUS
  <2>5. /\ Timed(t) /\ t \subseteq SnapshotRows /\ r \in t /\ \A o \in t : o # r => o.at < r.at
        /\ review'.previous = Previous(t, r)
    BY <2>1, <2>2, <2>3, <2>4
  <2>6. LET point == Last(Indicative(t).points) previous == Previous(t, r) IN
        /\ point.at = r.at
        /\ IF previous = None THEN point.against = None
           ELSE point.against = Day(previous.at) /\ point.amount = r.nav - previous.nav
    BY <2>5, ChangesAgree
  <2>7. Indicative(snapshots)' = Indicative(t)
    BY <2>3
  <2>8. ASSUME \A x \in rates' : x.pair \in DOMAIN review'.rates => x.at <= review'.rates[x.pair]
        PROVE  CurrentNav' = r.nav
    <3>1. PICK fetched \in FetchedRates(c) :
            /\ base' = c
            /\ rates' = Persisted(fetched) /\ review'.rates = Resolved(c, fetched)
            /\ s = PortfolioSnapshot(<<"review", refreshes>>, c, review'.rates)
      BY <1>1, SnapshotsAreRefreshed
    <3>2. PICK used : used = Resolved(c, fetched)
      OBVIOUS
    <3>3. PICK id : id = <<"review", refreshes>>
      OBVIOUS
    <3>4. used = Newest(Pairs(DOMAIN positions, c), rates')
      BY <1>1, <2>8, <3>1, <3>2, ResolvedAreNewest
    <3>5. CurrentNav' = PortfolioSnapshot(id, c, used).nav
      BY <2>1, <3>1, <3>4, PortfolioIsWorthTheReview
    <3> QED
      BY <2>4, <3>1, <3>2, <3>3, <3>5
  <2> QED
    BY <2>4, <2>5, <2>6, <2>7, <2>8
<1>2. JobInv /\ [Next]_vars => refreshes' = refreshes \/ \E c \in Currencies : Refresh(c)
  <2> SUFFICES ASSUME JobInv, [Next]_vars
               PROVE  refreshes' = refreshes \/ \E c \in Currencies : Refresh(c)
    OBVIOUS
  <2> QED
    BY WhatHappens DEF Kept, CommitActivity, CommitPortal, CommitHistory
<1> DEFINE Agreed == (LET point == Last(Indicative(snapshots).points) IN
                      /\ point.at = review.snapshot.at
                      /\ IF review.previous = None THEN point.against = None
                         ELSE /\ point.against = Day(review.previous.at)
                              /\ point.amount = review.snapshot.nav - review.previous.nav
                      /\ (\A r \in rates :
                            r.pair \in DOMAIN review.rates => r.at <= review.rates[r.pair])
                           => CurrentNav = review.snapshot.nav)
<1>3. JobInv /\ ValuesInv /\ SnapshotsInv /\ [Next]_vars => [refreshes' # refreshes => Agreed']_vars
  BY <1>1, <1>2
<1>4. ReadsAgreeWithReview <=> [][refreshes' # refreshes => Agreed']_vars
  BY DEF ReadsAgreeWithReview
<1> HIDE DEF Agreed
<1> QED
  BY <1>3, <1>4, JobsReadTheBroker, ValuesAreTyped, SnapshotsAreSound, PTL DEF Spec

-----------------------------------------------------------------------------
(* Histories.                                                              *)

\* The days of a history, one after the other, as the dashboard shows them.
DayPoints(q) ==
  [i \in DOMAIN q |->
     [day |-> Day(q[i].at), at |-> q[i].at, nav |-> q[i].nav,
      against |-> IF i = 1 THEN None ELSE Day(q[i - 1].at),
      amount  |-> IF i = 1 THEN None ELSE q[i].nav - q[i - 1].nav]]

CurrencyDays(ss, c) == LatestPerDay({s \in ss : s.currency = c})

LEMMA HistoriesAre ==
  ASSUME NEW ss
  PROVE  Indicative(ss).points = DayPoints(InTimeOrder(CurrencyDays(ss, NewestOf(ss).currency)))
BY DEF Indicative, DayPoints, CurrencyDays

\* The members from some time on are the last ones.
LEMMA LateOnesAreLast ==
  ASSUME NEW D, Timed(D), NEW k \in Int, NEW E, E = {s \in D : s.at >= k}
  PROVE  LET q == InTimeOrder(D) r == InTimeOrder(E) cut == Cardinality(D) - Cardinality(E) IN
         /\ cut \in Nat
         /\ \A i \in 1..Cardinality(E) : cut + i \in 1..Cardinality(D) /\ r[i] = q[cut + i]
<1> DEFINE q == InTimeOrder(D)
           r == InTimeOrder(E)
           m == Cardinality(D)
           n == Cardinality(E)
           R == TimeOrder(D)
           T == TimeOrder(E)
<1>1. E \subseteq D /\ Timed(E) /\ IsFiniteSet(D) /\ IsFiniteSet(E) /\ \A s \in D : s.at \in Int
  <2>1. E \subseteq D
    OBVIOUS
  <2> QED
    BY <2>1, PartsAreTimed DEF Timed
<1>2. m \in Nat /\ n \in Nat /\ IsFiniteSet(D \ E) /\ Cardinality(D \ E) = m - n
      /\ Cardinality(D \ E) \in Nat
  <2>1. D \cap E = E
    BY <1>1
  <2>2. IsFiniteSet(D \ E) /\ Cardinality(D \ E) = Cardinality(D) - Cardinality(D \cap E)
    BY <1>1, FS_Difference
  <2>3. m \in Nat /\ n \in Nat /\ Cardinality(D \ E) \in Nat
    BY <1>1, <2>2, FS_CardinalityType
  <2> QED
    BY <2>1, <2>2, <2>3
<1>3. ASSUME NEW x \in E PROVE RankIn(R, D, x) = (m - n) + RankIn(T, E, x)
  <2>1. Below(R, D, x) = (D \ E) \cup Below(T, E, x)
    <3>1. \A y \in D \ E : Earlier(y, x)
      BY <1>1 DEF Earlier
    <3> QED
      BY <1>1, <3>1 DEF Below, TimeOrder
  <2>2. (D \ E) \cap Below(T, E, x) = {} /\ IsFiniteSet(Below(T, E, x))
    BY <1>1, FS_Subset DEF Below
  <2>3. Cardinality({}) = 0 /\ Cardinality(Below(T, E, x)) \in Nat
    BY <2>2, FS_EmptySet, FS_CardinalityType
  <2>4. Cardinality(Below(R, D, x))
          = Cardinality(D \ E) + Cardinality(Below(T, E, x)) - Cardinality({})
    BY <1>2, <2>1, <2>2, FS_Union
  <2> QED
    BY <1>2, <2>3, <2>4 DEF RankIn
<1>4. InPlace(R, D, q) /\ InPlace(T, E, r) /\ StrictOrder(R, D)
  BY <1>1, TimesAreOrdered, TimesAreInPlace
<1> HIDE DEF q, r, R, T
<1>5. \A x \in D : RankIn(R, D, x) + 1 \in 1..m /\ q[RankIn(R, D, x) + 1] = x
  BY <1>1, <1>4, PlacesAre
<1>6. r \in [1..n -> E] /\ \A i \in 1..n : RankIn(T, E, r[i]) = i - 1
  BY <1>4 DEF InPlace
<1> HIDE DEF m, n
<1>7. ASSUME NEW i \in 1..n PROVE (m - n) + i \in 1..m /\ r[i] = q[(m - n) + i]
  <2>1. r[i] \in E /\ r[i] \in D /\ RankIn(T, E, r[i]) = i - 1
    BY <1>1, <1>6
  <2>2. RankIn(R, D, r[i]) = (m - n) + (i - 1)
    BY <1>3, <2>1
  <2>3. RankIn(R, D, r[i]) + 1 \in 1..m /\ q[RankIn(R, D, r[i]) + 1] = r[i]
    BY <1>5, <2>1
  <2>4. RankIn(R, D, r[i]) + 1 = (m - n) + i
    BY <1>2, <2>2
  <2> QED
    BY <2>3, <2>4
<1> QED
  BY <1>2, <1>7 DEF m, n, q, r

\* Cutting a history at a time changes no day that is still shown.
LEMMA HistoriesAreCut ==
  ASSUME NEW ss, Timed(ss), NEW k \in Int, NEW part, part = {s \in ss : s.at >= k}, part # {}
  PROVE  ShorterHistory(Indicative(ss).points, Indicative(part).points)
<1>1. \A s \in ss : s.at \in Int
  BY DEF Timed
<1>2. NewestOf(part) = NewestOf(ss)
  <2>1. {o \in part : \A p \in part : p.at <= o.at} = {o \in ss : \A p \in ss : p.at <= o.at}
    <3>1. PICK x \in part : x \in ss /\ x.at >= k
      OBVIOUS
    <3>2. ASSUME NEW o \in part, \A p \in part : p.at <= o.at PROVE \A p \in ss : p.at <= o.at
      BY <1>1, <3>2
    <3>3. ASSUME NEW o \in ss, \A p \in ss : p.at <= o.at
          PROVE  o \in part /\ \A p \in part : p.at <= o.at
      BY <1>1, <3>1, <3>3
    <3> QED
      BY <3>2, <3>3
  <2> QED
    BY <2>1 DEF NewestOf
<1> DEFINE c == NewestOf(ss).currency
           D == CurrencyDays(ss, c)
           E == CurrencyDays(part, c)
           q == InTimeOrder(D)
           r == InTimeOrder(E)
           m == Cardinality(D)
           n == Cardinality(E)
           cut == m - n
<1>3. Indicative(ss).points = DayPoints(q) /\ Indicative(part).points = DayPoints(r)
  BY <1>2, HistoriesAre
<1> HIDE DEF c
<1>4. E = {s \in D : s.at >= k}
  <2> DEFINE own == {s \in ss : s.currency = c}
             late == {s \in part : s.currency = c}
  <2>1. /\ D = {s \in own : \A o \in own : o.currency = s.currency /\ Day(o.at) = Day(s.at)
                                             => o.at <= s.at}
        /\ E = {s \in late : \A o \in late : o.currency = s.currency /\ Day(o.at) = Day(s.at)
                                               => o.at <= s.at}
    BY DEF CurrencyDays, LatestPerDay
  <2>2. late = {s \in own : s.at >= k} /\ \A s \in own : s.at \in Int
    BY <1>1
  <2> HIDE DEF own, late, D, E
  <2> QED
    BY <2>1, <2>2
<1>5. Timed(D) /\ Timed(E)
  <2>1. {s \in ss : s.currency = c} \in SUBSET ss /\ {s \in part : s.currency = c} \in SUBSET ss
    OBVIOUS
  <2> QED
    BY <2>1, PartsAreTimed DEF CurrencyDays
<1> HIDE DEF D, E
<1>6. /\ m \in Nat /\ n \in Nat
      /\ Len(q) = m /\ DOMAIN q = 1..m
      /\ Len(r) = n /\ DOMAIN r = 1..n
  BY <1>5, TimesAreSorted
<1>7. /\ cut \in Nat
      /\ \A i \in 1..n : cut + i \in 1..m /\ r[i] = q[cut + i]
  BY <1>4, <1>5, LateOnesAreLast
<1> DEFINE all == DayPoints(q)
           shown == DayPoints(r)
<1> HIDE DEF q, r, m, n
<1>8. /\ DOMAIN all = 1..m /\ DOMAIN shown = 1..n
      /\ \A i \in DOMAIN q : all[i] =
           [day |-> Day(q[i].at), at |-> q[i].at, nav |-> q[i].nav,
            against |-> IF i = 1 THEN None ELSE Day(q[i - 1].at),
            amount  |-> IF i = 1 THEN None ELSE q[i].nav - q[i - 1].nav]
      /\ \A i \in DOMAIN r : shown[i] =
           [day |-> Day(r[i].at), at |-> r[i].at, nav |-> r[i].nav,
            against |-> IF i = 1 THEN None ELSE Day(r[i - 1].at),
            amount  |-> IF i = 1 THEN None ELSE r[i].nav - r[i - 1].nav]
  BY <1>6 DEF DayPoints
<1>9. Len(all) = m /\ Len(shown) = n
  <2> HIDE DEF all, shown
  <2> QED
    BY <1>6, <1>8
<1> HIDE DEF all, shown, cut
<1>10. ASSUME NEW i \in 1..n
       PROVE  shown[i].nav = all[cut + i].nav /\ (i > 1 => shown[i] = all[cut + i])
  <2>1. cut + i \in 1..m /\ r[i] = q[cut + i]
    BY <1>7
  <2>2. shown[i].nav = r[i].nav /\ all[cut + i].nav = q[cut + i].nav
    BY <1>6, <1>8, <2>1
  <2>3. CASE i > 1
    <3>1. i - 1 \in 1..n /\ i # 1 /\ cut + i # 1 /\ cut + (i - 1) = (cut + i) - 1
      BY <1>6, <1>7, <2>3
    <3>2. r[i - 1] = q[(cut + i) - 1]
      BY <1>7, <3>1
    <3> QED
      BY <1>6, <1>8, <2>1, <2>2, <3>1, <3>2
  <2> QED
    BY <2>1, <2>2, <2>3
<1> QED
  <2>1. cut = Len(all) - Len(shown)
    BY <1>9 DEF cut
  <2>2. ShorterHistory(all, shown)
    BY <1>7, <1>8, <1>10, <2>1 DEF ShorterHistory
  <2> QED
    BY <1>3, <2>2 DEF all, shown

-----------------------------------------------------------------------------
(* Drawdowns.                                                              *)

\* A function that keeps the peak and the worst fall of a history day by day.
Falls(g, v) ==
  g = [i \in 0..Len(v) |->
         IF i = 0 THEN [top |-> v[1], worst |-> [fall |-> 0, peak |-> 1]]
         ELSE Fallen(g[i - 1], v[i])]

Falling(v) == CHOOSE g : Falls(g, v)

Unfallen(v) == [top |-> v[1], worst |-> [fall |-> 0, peak |-> 1]]

\* One that does up to the n-th day.
FallsTo(g, v, n) ==
  /\ g = [i \in 0..Len(v) |-> g[i]]
  /\ \A i \in 0..Len(v) : i <= n => g[i] = IF i = 0 THEN Unfallen(v) ELSE Fallen(g[i - 1], v[i])

LEMMA DrawdownIsFalling ==
  ASSUME NEW v
  PROVE  Drawdown(v) = Falling(v)[Len(v)].worst
BY Zenon DEF Drawdown, Falling, Falls

LEMMA FallsExist ==
  ASSUME NEW v, Len(v) \in Nat
  PROVE  Falls(Falling(v), v)
<1> DEFINE unfallen == Unfallen(v)
           N == {n \in Nat : \E g : FallsTo(g, v, n)}
<1>1. 0 \in N
  <2> DEFINE g == [i \in 0..Len(v) |-> unfallen]
  <2>1. g = [i \in 0..Len(v) |-> g[i]]
    OBVIOUS
  <2>2. \A i \in 0..Len(v) : i <= 0 => i = 0 /\ g[i] = unfallen
    OBVIOUS
  <2>3. FallsTo(g, v, 0)
    BY <2>1, <2>2 DEF FallsTo
  <2> QED
    BY <2>3
<1>2. ASSUME NEW n \in Nat, n \in N PROVE n + 1 \in N
  <2>1. PICK g : FallsTo(g, v, n)
    BY <1>2
  <2> DEFINE h == [i \in 0..Len(v) |-> IF i = n + 1 THEN Fallen(g[n], v[i]) ELSE g[i]]
  <2>2. h = [i \in 0..Len(v) |-> h[i]]
    OBVIOUS
  <2>3. ASSUME NEW i \in 0..Len(v), i <= n + 1
        PROVE  h[i] = IF i = 0 THEN unfallen ELSE Fallen(h[i - 1], v[i])
    <3>1. CASE i = n + 1
      <4>1. i # 0 /\ i - 1 = n /\ n \in 0..Len(v) /\ n # n + 1
        BY <3>1
      <4>2. h[n] = g[n] /\ h[i] = Fallen(g[n], v[i])
        BY <3>1, <4>1
      <4> HIDE DEF h
      <4> QED
        BY <4>1, <4>2
    <3>2. CASE i # n + 1
      <4>1. i <= n /\ h[i] = g[i]
        BY <2>3, <3>2
      <4>2. i # 0 => i - 1 \in 0..Len(v) /\ i - 1 # n + 1 /\ h[i - 1] = g[i - 1]
        BY <2>3
      <4> HIDE DEF h
      <4> QED
        BY <2>1, <4>1, <4>2 DEF FallsTo
    <3> QED
      BY <3>1, <3>2
  <2> HIDE DEF h
  <2>4. FallsTo(h, v, n + 1)
    BY <2>2, <2>3 DEF FallsTo
  <2> QED
    BY <2>4
<1> HIDE DEF N
<1>3. Len(v) \in N
  BY <1>1, <1>2, CountUp
<1>4. PICK g : FallsTo(g, v, Len(v))
  BY <1>3 DEF N
<1>5. \A i \in 0..Len(v) : g[i] = IF i = 0 THEN unfallen ELSE Fallen(g[i - 1], v[i])
  <2>1. \A i \in 0..Len(v) : i <= Len(v)
    OBVIOUS
  <2> HIDE DEF unfallen
  <2> QED
    BY <1>4, <2>1, Zenon DEF FallsTo, unfallen
<1>6. g = [i \in 0..Len(v) |-> g[i]]
  BY <1>4 DEF FallsTo
<1>7. g = [i \in 0..Len(v) |-> IF i = 0 THEN unfallen ELSE Fallen(g[i - 1], v[i])]
  BY <1>5, <1>6
<1>8. Falls(g, v)
  BY <1>7 DEF Falls, Unfallen
<1> QED
  BY <1>8 DEF Falling

LEMMA LargerOfTwo ==
  ASSUME NEW a \in Int, NEW b \in Int
  PROVE  Max({a, b}) = IF a >= b THEN a ELSE b
<1>1. IsFiniteSet({a, b})
  <2>1. {a, b} = {a} \cup {b} /\ IsFiniteSet({a})
    BY FS_Singleton
  <2> QED
    BY <2>1, FS_AddElement
<1>2. Max({a, b}) \in {a, b} /\ Max({a, b}) >= a /\ Max({a, b}) >= b
  BY <1>1, MaxIsThere
<1> QED
  BY <1>2

LEMMA ProductsGrow ==
  ASSUME NEW a \in Int, NEW b \in Int, a <= b, NEW c \in Nat
  PROVE  a * c <= b * c /\ c * a <= c * b
OBVIOUS

LEMMA FactorsShrink ==
  ASSUME NEW a \in Int, NEW b \in Int, NEW c \in Nat \ {0}, c * a <= c * b
  PROVE  a <= b
OBVIOUS

\* x/y is at most z/w, z/w at most u/t.
LEMMA RatiosCompare ==
  ASSUME NEW x \in Int, NEW y \in Nat, NEW z \in Nat, NEW w \in Nat \ {0},
         NEW u \in Nat, NEW t \in Nat \ {0}, x * w <= z * y, z * t <= u * w
  PROVE  x * t <= u * y
<1>1. x * w \in Int /\ z * y \in Nat /\ z * t \in Nat /\ u * w \in Nat /\ x * t \in Int
      /\ u * y \in Nat
  OBVIOUS
<1>2. (x * w) * t <= (z * y) * t
  BY <1>1, ProductsGrow
<1>3. (z * t) * y <= (u * w) * y
  BY <1>1, ProductsGrow
<1>4. (x * w) * t = w * (x * t) /\ (z * y) * t = (z * t) * y /\ (u * w) * y = w * (u * y)
  OBVIOUS
<1>5. w * (x * t) <= w * (u * y)
  BY <1>1, <1>2, <1>3, <1>4
<1> QED
  BY <1>1, <1>5, FactorsShrink

\* After n days: the peak so far, and the worst fall, of two of its days, that
\* no other two exceed.
WorstUpTo(v, n, a) ==
  /\ a.top \in Nat /\ \E i \in 1..n : v[i] = a.top
  /\ \A i \in 1..n : v[i] <= a.top
  /\ a.worst = [fall |-> a.worst.fall, peak |-> a.worst.peak]
  /\ a.worst.fall \in Nat /\ a.worst.peak \in Nat \ {0}
  /\ \/ a.worst.fall = 0
     \/ \E i, j \in 1..n : i < j /\ a.worst = [fall |-> v[i] - v[j], peak |-> v[i]]
  /\ \A i, j \in 1..n : i < j => (v[i] - v[j]) * a.worst.peak <= a.worst.fall * v[i]

LEMMA WorseIsOneOfThem ==
  ASSUME NEW a, NEW b, a.fall \in Nat, a.peak \in Nat \ {0}, b.fall \in Nat, b.peak \in Nat \ {0}
  PROVE  LET w == Worse(a, b) IN
         /\ w = a \/ (w = b /\ b.fall > 0)
         /\ a.fall * w.peak <= w.fall * a.peak /\ b.fall * w.peak <= w.fall * b.peak
<1>1. /\ b.fall * a.peak \in Nat /\ a.fall * b.peak \in Nat
      /\ a.fall * a.peak \in Nat /\ b.fall * b.peak \in Nat
  OBVIOUS
<1>2. CASE b.fall * a.peak > a.fall * b.peak
  <2>1. b.fall > 0
    BY <1>1, <1>2
  <2>2. Worse(a, b) = b
    BY <1>2 DEF Worse
  <2> QED
    BY <1>1, <1>2, <2>1, <2>2
<1>3. CASE ~(b.fall * a.peak > a.fall * b.peak)
  <2>1. Worse(a, b) = a
    BY <1>3 DEF Worse
  <2> QED
    BY <1>1, <1>3, <2>1
<1> QED
  BY <1>2, <1>3

LEMMA WorstStays ==
  ASSUME NEW n \in Nat \ {0}, NEW v, \A i \in 1..(n + 1) : v[i] \in Nat,
         NEW a, WorstUpTo(v, n, a)
  PROVE  WorstUpTo(v, n + 1, Fallen(a, v[n + 1]))
<1> DEFINE x   == v[n + 1]
           top == IF a.top >= x THEN a.top ELSE x
           W   == a.worst
           B   == [fall |-> top - x, peak |-> top]
           V   == IF top = 0 THEN W ELSE Worse(W, B)
<1>1. /\ n + 1 \in 1..(n + 1) /\ 1..n \subseteq 1..(n + 1)
      /\ \A i \in 1..(n + 1) : i \in 1..n \/ i = n + 1
  OBVIOUS
<1>2. /\ x \in Nat /\ a.top \in Nat /\ \A i \in 1..n : v[i] \in Nat /\ v[i] <= a.top
      /\ W = [fall |-> W.fall, peak |-> W.peak] /\ W.fall \in Nat /\ W.peak \in Nat \ {0}
      /\ \E i \in 1..n : v[i] = a.top
  BY <1>1 DEF WorstUpTo
<1>3. top \in Nat /\ a.top <= top /\ x <= top /\ (top = a.top \/ top = x)
  BY <1>2
<1>4. Fallen(a, x) = [top |-> top, worst |-> V]
  <2>1. Max({a.top, x}) = top
    BY <1>2, LargerOfTwo
  <2> QED
    BY <2>1 DEF Fallen
<1>5. /\ \A i \in 1..(n + 1) : v[i] <= top
      /\ \E i \in 1..(n + 1) : v[i] = top
  BY <1>1, <1>2, <1>3
<1>6. /\ W.fall = 0 \/ \E i, j \in 1..n : i < j /\ W = [fall |-> v[i] - v[j], peak |-> v[i]]
      /\ \A i, j \in 1..n : i < j => (v[i] - v[j]) * W.peak <= W.fall * v[i]
  BY DEF WorstUpTo
<1>7. B = [fall |-> B.fall, peak |-> B.peak] /\ B.fall \in Nat /\ B.peak \in Nat
      /\ B.fall = top - x /\ B.peak = top
  BY <1>2, <1>3
<1>8. /\ V = W \/ (V = B /\ B.fall > 0 /\ top # 0)
      /\ W.fall * V.peak <= V.fall * W.peak
      /\ top # 0 => B.fall * V.peak <= V.fall * top
  <2>1. CASE top = 0
    BY <1>2, <2>1
  <2>2. CASE top # 0
    <3> HIDE DEF W, B, top
    <3>1. B.peak \in Nat \ {0}
      BY <1>7, <2>2
    <3> QED
      BY <1>2, <1>7, <2>2, <3>1, WorseIsOneOfThem
  <2> QED
    BY <2>1, <2>2
<1> HIDE DEF W, B, V, top
<1>9. V = [fall |-> V.fall, peak |-> V.peak] /\ V.fall \in Nat /\ V.peak \in Nat \ {0}
  BY <1>2, <1>7, <1>8
<1>10. \/ V.fall = 0
       \/ \E i, j \in 1..(n + 1) : i < j /\ V = [fall |-> v[i] - v[j], peak |-> v[i]]
  <2>1. CASE V = W
    BY <1>1, <1>6, <2>1
  <2>2. CASE V = B /\ B.fall > 0
    <3>1. top = a.top
      BY <1>2, <1>3, <1>7, <2>2
    <3>2. PICK i \in 1..n : v[i] = top
      BY <1>2, <3>1
    <3>3. i \in 1..(n + 1) /\ i < n + 1
      BY <1>1
    <3>4. V = [fall |-> v[i] - v[n + 1], peak |-> v[i]]
      BY <1>7, <2>2, <3>2
    <3> QED
      BY <1>1, <3>3, <3>4
  <2> QED
    BY <1>8, <2>1, <2>2
<1>11. ASSUME NEW i \in 1..(n + 1), NEW j \in 1..(n + 1), i < j
       PROVE  (v[i] - v[j]) * V.peak <= V.fall * v[i]
  <2>1. i \in 1..n /\ v[i] \in Nat /\ v[j] \in Nat /\ v[i] - v[j] \in Int
    BY <1>1, <1>2, <1>11
  <2>2. CASE j \in 1..n
    <3>1. (v[i] - v[j]) * W.peak <= W.fall * v[i]
      BY <1>6, <1>11, <2>1, <2>2
    <3> QED
      BY <1>2, <1>8, <1>9, <2>1, <3>1, RatiosCompare
  <2>3. CASE j = n + 1
    <3>1. v[i] - v[j] = v[i] - x /\ v[i] <= top
      BY <1>5, <2>3
    <3>2. CASE top = 0
      <4>1. v[i] = 0 /\ v[i] - v[j] = 0
        BY <1>2, <1>3, <2>1, <3>1, <3>2
      <4> QED
        BY <1>9, <4>1
    <3>3. CASE top # 0
      <4>1. x * v[i] <= x * top
        BY <1>2, <1>3, <2>1, <3>1, ProductsGrow
      <4>2. (v[i] - x) * top = v[i] * top - x * top /\ (top - x) * v[i] = v[i] * top - x * v[i]
        BY <1>2, <1>3, <2>1
      <4>3. (v[i] - v[j]) * top <= B.fall * v[i]
        BY <1>2, <1>3, <1>7, <2>1, <3>1, <4>1, <4>2
      <4>4. top \in Nat \ {0} /\ B.fall * V.peak <= V.fall * top
        BY <1>3, <1>8, <3>3
      <4> QED
        BY <1>7, <1>9, <2>1, <4>3, <4>4, RatiosCompare
    <3> QED
      BY <3>2, <3>3
  <2> QED
    BY <1>1, <2>2, <2>3
<1>12. WorstUpTo(v, n + 1, [top |-> top, worst |-> V])
  BY <1>3, <1>5, <1>9, <1>10, <1>11 DEF WorstUpTo
<1> QED
  BY <1>4, <1>12

LEMMA DrawdownsAreWorst ==
  ASSUME NEW v \in Seq(Nat), v # <<>>
  PROVE  WorstFall(v, Drawdown(v))
<1> DEFINE L == Len(v)
           g == Falling(v)
           N == {n \in Nat : n + 1 <= L => WorstUpTo(v, n + 1, g[n + 1])}
<1>1. L \in Nat \ {0} /\ DOMAIN v = 1..L /\ \A i \in 1..L : v[i] \in Nat
  OBVIOUS
<1>2. /\ g[0] = [top |-> v[1], worst |-> [fall |-> 0, peak |-> 1]]
      /\ \A i \in 1..L : g[i] = Fallen(g[i - 1], v[i])
  <2>1. Falls(g, v)
    BY <1>1, FallsExist
  <2>2. g = [i \in 0..L |-> IF i = 0 THEN [top |-> v[1], worst |-> [fall |-> 0, peak |-> 1]]
                            ELSE Fallen(g[i - 1], v[i])]
    BY <2>1 DEF Falls
  <2> HIDE DEF g
  <2>3. \A i \in 0..L : g[i] = IF i = 0 THEN [top |-> v[1], worst |-> [fall |-> 0, peak |-> 1]]
                               ELSE Fallen(g[i - 1], v[i])
    BY <2>2
  <2>4. 0 \in 0..L /\ \A i \in 1..L : i \in 0..L /\ i # 0
    BY <1>1
  <2> HIDE DEF L
  <2> QED
    BY <2>3, <2>4
<1> HIDE DEF L, g
<1>3. WorstUpTo(v, 1, g[1])
  <2>1. 1 \in 1..L /\ v[1] \in Nat /\ 1 - 1 = 0
    BY <1>1
  <2>2. Max({v[1], v[1]}) = v[1]
    BY <2>1, LargerOfTwo
  <2>3. g[1] = Fallen([top |-> v[1], worst |-> [fall |-> 0, peak |-> 1]], v[1])
    <3>1. g[1] = Fallen(g[1 - 1], v[1])
      BY <1>2, <2>1
    <3> QED
      BY <1>2, <2>1, <3>1
  <2>4. Worse([fall |-> 0, peak |-> 1], [fall |-> v[1] - v[1], peak |-> v[1]])
          = [fall |-> 0, peak |-> 1]
    BY <2>1 DEF Worse
  <2>5. g[1] = [top |-> v[1], worst |-> [fall |-> 0, peak |-> 1]]
    BY <2>2, <2>3, <2>4 DEF Fallen
  <2>6. 1..1 = {1}
    OBVIOUS
  <2> QED
    BY <2>1, <2>5, <2>6 DEF WorstUpTo
<1>4. ASSUME NEW n \in Nat, n \in N PROVE n + 1 \in N
  <2> SUFFICES ASSUME (n + 1) + 1 <= L PROVE WorstUpTo(v, (n + 1) + 1, g[(n + 1) + 1])
    OBVIOUS
  <2> DEFINE m == n + 1
  <2>1. m \in Nat \ {0} /\ m + 1 \in 1..L /\ (m + 1) - 1 = m /\ m <= L
        /\ \A i \in 1..(m + 1) : i \in 1..L
    BY <1>1
  <2>2. WorstUpTo(v, m, g[m])
    BY <1>4, <2>1
  <2> HIDE DEF m
  <2>3. \A i \in 1..(m + 1) : v[i] \in Nat
    BY <1>1, <2>1
  <2>4. WorstUpTo(v, m + 1, Fallen(g[m], v[m + 1]))
    BY <2>1, <2>2, <2>3, WorstStays
  <2>5. g[m + 1] = Fallen(g[m], v[m + 1])
    BY <1>2, <2>1
  <2>6. WorstUpTo(v, m + 1, g[m + 1])
    BY <2>4, <2>5
  <2> QED
    BY <2>6 DEF m
<1>5. WorstUpTo(v, L, g[L])
  <2>1. 0 \in N
    BY <1>3
  <2> HIDE DEF N
  <2>2. Nat \subseteq N
    BY <1>4, <2>1, CountUp
  <2>3. L - 1 \in Nat /\ (L - 1) + 1 = L
    BY <1>1
  <2> QED
    BY <2>2, <2>3 DEF N
<1>6. Drawdown(v) = g[L].worst
  BY DrawdownIsFalling DEF g, L
<1>7. 1 \in 1..L
  BY <1>1
<1>8. /\ \/ g[L].worst.fall = 0
         \/ \E i, j \in 1..L : i < j /\ g[L].worst = [fall |-> v[i] - v[j], peak |-> v[i]]
      /\ \A i, j \in 1..L : i < j => (v[i] - v[j]) * g[L].worst.peak <= g[L].worst.fall * v[i]
  BY <1>5, Zenon DEF WorstUpTo
<1> QED
  BY <1>1, <1>6, <1>7, <1>8 DEF WorstFall

\* A shorter history ends with the same days as the whole one, and the maximum
\* drawdown is the worst fall from any day of a history to any later one
\* (build_indicative_daily_pnl, build_performance_history: for every window and
\* every sequence of values that are not negative).
THEOREM PerformanceIsAlwaysOfItsDays == Spec => []PerformanceIsOfItsDays
<1>1. JobInv /\ ValuesInv /\ SnapshotsInv => PerformanceIsOfItsDays
  <2> SUFFICES ASSUME JobInv, ValuesInv, SnapshotsInv,
                      NEW w \in Windows, SnapshotsWithin(w) # {}
               PROVE  LET values == Performance(w) IN
                      /\ ShorterHistory(Indicative(snapshots).points,
                                        Indicative(SnapshotsWithin(w)).points)
                      /\ (\A i \in DOMAIN values : values[i] >= 0)
                           => WorstFall(values, Drawdown(values))
    BY DEF PerformanceIsOfItsDays
  <2> DEFINE part == SnapshotsWithin(w)
             values == Performance(w)
  <2>1. now \in Nat /\ Timed(snapshots) /\ \A s \in snapshots : s.at \in Nat /\ s.nav \in Int
    BY TimesAreNat, SnapshotsAreTimed DEF JobInv, MarketInv, SnapshotsInv, SnapshotRows
  <2>2. \E k \in Int : part = {s \in snapshots : s.at >= k}
    <3>1. CASE w = None
      <4>1. part = {s \in snapshots : s.at >= 0}
        BY <2>1, <3>1 DEF SnapshotsWithin
      <4> QED
        BY <4>1
    <3>2. CASE w # None
      <4>1. w \in Nat
        BY <3>2, ReadsAssumption
      <4>2. now - 3 * w \in Int
        BY <2>1, <4>1
      <4>3. part = {s \in snapshots : s.at >= now - 3 * w}
        BY <3>2 DEF SnapshotsWithin
      <4> QED
        BY <4>2, <4>3
    <3> QED
      BY <3>1, <3>2
  <2>3. part \subseteq snapshots /\ part # {}
    BY <2>2
  <2> HIDE DEF part
  <2>4. ShorterHistory(Indicative(snapshots).points, Indicative(part).points)
    BY <2>1, <2>2, <2>3, HistoriesAreCut
  <2>5. ASSUME \A i \in DOMAIN values : values[i] >= 0 PROVE WorstFall(values, Drawdown(values))
    <3> DEFINE D == LatestPerDay(part)
               q == InTimeOrder(D)
               n == Cardinality(D)
    <3>1. values = [i \in DOMAIN q |-> q[i].nav]
      BY DEF Performance, part
    <3>2. D \subseteq part /\ Timed(D)
      BY <2>1, <2>3, PartsAreTimed
    <3>3. D # {}
      <4>1. Timed(part) /\ \A s \in part : s.at \in Int
        BY <2>1, <2>3, PartsAreTimed
      <4>2. NewestOf(part) \in part /\ \A o \in part : o.at <= NewestOf(part).at
        BY <2>3, <4>1, NewestIsThere DEF Timed
      <4>3. NewestOf(part) \in D
        BY <4>2 DEF LatestPerDay
      <4> QED
        BY <4>3
    <3> HIDE DEF D
    <3>4. n \in Nat /\ DOMAIN q = 1..n /\ (\A i \in 1..n : q[i] \in D)
          /\ \A x \in D : \E i \in 1..n : q[i] = x
      BY <3>2, TimesAreSorted
    <3> HIDE DEF q, n
    <3>5. DOMAIN values = 1..n /\ \A i \in 1..n : values[i] = q[i].nav
      BY <3>1, <3>4
    <3>6. \A i \in 1..n : values[i] \in Nat
      BY <2>1, <2>3, <2>5, <3>2, <3>4, <3>5
    <3>7. 1 \in 1..n
      BY <3>3, <3>4
    <3>8. values = [i \in 1..n |-> values[i]]
      BY <3>1, <3>4
    <3> HIDE DEF values
    <3>9. values \in Seq(Nat) /\ values # <<>>
      <4>1. values \in [1..n -> Nat]
        BY <3>6, <3>8
      <4>2. DOMAIN <<>> = 1..0 /\ 1 \notin 1..0
        OBVIOUS
      <4> QED
        BY <3>4, <3>5, <3>7, <4>1, <4>2
    <3> QED
      BY <3>9, DrawdownsAreWorst
  <2> QED
    BY <2>4, <2>5 DEF part
<1> QED
  BY <1>1, JobsReadTheBroker, ValuesAreTyped, SnapshotsAreSound, PTL
===============================================================================
