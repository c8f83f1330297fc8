----------------------------- MODULE SumProofs ------------------------------
(***************************************************************************)
(* Laws of Total, for every finite domain and every integer function.      *)
(* Induction is over the elements of a set A (take {T \in SUBSET S : ...}  *)
(* for it), by a smallest counterexample.                                  *)
(***************************************************************************)
EXTENDS Sums, FiniteSetTheorems, WellFoundedInduction, TLAPS

LEMMA LeastNat ==
  ASSUME NEW D \in SUBSET Nat, D # {}
  PROVE  \E x \in D : \A y \in D : ~(y < x)
  <1> DEFINE Less == OpToRel(<, Nat)
  <1>1. PICK x \in D : \A y \in D : ~(<<y, x>> \in Less)
    <2>1. IsWellFoundedOn(Less, Nat)
      BY NatLessThanWellFounded
    <2> HIDE DEF Less
    <2> QED
      BY <2>1, WFMin
  <1>2. \A y \in D : ~(y < x)
    BY <1>1 DEF OpToRel
  <1> QED
    BY <1>2

LEMMA NumberInduction ==
  ASSUME NEW A, 0 \in A, \A n \in Nat : n \in A => n + 1 \in A
  PROVE  Nat \subseteq A
  <1> DEFINE D == Nat \ A
  <1> SUFFICES ASSUME D # {} PROVE FALSE
    OBVIOUS
  <1>1. PICK x \in D : \A y \in D : ~(y < x)
    <2> HIDE DEF D
    <2>1. D \in SUBSET Nat
      BY DEF D
    <2> QED
      BY <2>1, LeastNat
  <1>2. x \in Nat /\ x # 0 /\ x - 1 \in Nat /\ x - 1 < x
    OBVIOUS
  <1>3. x - 1 \in A
    BY <1>1, <1>2
  <1>4. (x - 1) + 1 \in A
    BY <1>2, <1>3
  <1> QED
    BY <1>2, <1>4

LEMMA SubsetInduction ==
  ASSUME NEW S, IsFiniteSet(S), NEW A,
         \A T \in SUBSET S : (\A U \in SUBSET T : U # T => U \in A) => T \in A
  PROVE  \A T \in SUBSET S : T \in A
  <1> DEFINE Bad == (SUBSET S) \ A
             D == {Cardinality(T) : T \in Bad}
  <1> SUFFICES ASSUME Bad # {} PROVE FALSE
    OBVIOUS
  <1>1. \A T \in SUBSET S : IsFiniteSet(T) /\ Cardinality(T) \in Nat
    BY FS_Subset, FS_CardinalityType
  <1>2. PICK x \in D : \A y \in D : ~(y < x)
    <2>1. D \in SUBSET Nat /\ D # {}
      BY <1>1
    <2> HIDE DEF D
    <2> QED
      BY <2>1, LeastNat
  <1>3. PICK T \in Bad : x = Cardinality(T)
    OBVIOUS
  <1>4. PICK U \in SUBSET T : U # T /\ U \notin A
    OBVIOUS
  <1>5. U \in Bad /\ Cardinality(U) \in D
    BY <1>4
  <1>6. Cardinality(U) <= Cardinality(T) /\ Cardinality(U) # Cardinality(T)
    BY <1>1, <1>3, <1>4, FS_Subset
  <1> HIDE DEF D
  <1> QED
    BY <1>1, <1>2, <1>3, <1>5, <1>6

----------------------------------------------------------------------------
(* Total is defined by a recursion that picks an element at a time.          *)
Pick(s) == CHOOSE x \in s : TRUE
Rest(s) == s \ {Pick(s)}
StepOf(f, it) == [s \in SUBSET (DOMAIN f) |->
                    IF s = {} THEN 0 ELSE f[Pick(s)] + it[s \ {Pick(s)}]]

LEMMA Unfold ==
  ASSUME NEW f
  PROVE  Total(f) = (CHOOSE it : it = StepOf(f, it))[DOMAIN f]
  BY DEF Total, StepOf, Pick, MapThenSumSet, MapThenFoldSet

LEMMA PickIn == ASSUME NEW s, s # {} PROVE Pick(s) \in s
  BY DEF Pick

(* A function that satisfies the recursion on the subsets up to a size.       *)
Solves(f, S, g) ==
  \A s \in SUBSET S : g[s] = IF s = {} THEN 0 ELSE f[Pick(s)] + g[Rest(s)]

LEMMA RestSmaller ==
  ASSUME NEW S, IsFiniteSet(S), NEW s \in SUBSET S, s # {}
  PROVE  /\ Rest(s) \in SUBSET S /\ Rest(s) # s /\ Pick(s) \in S
         /\ IsFiniteSet(s) /\ Cardinality(s) \in Nat /\ Cardinality(Rest(s)) \in Nat
         /\ Cardinality(s) = Cardinality(Rest(s)) + 1
  <1>1. Pick(s) \in s
    BY PickIn
  <1>2. IsFiniteSet(s) /\ IsFiniteSet(Rest(s))
    BY FS_Subset, FS_RemoveElement DEF Rest
  <1>3. Cardinality(Rest(s)) = Cardinality(s) - 1
    BY <1>1, <1>2, FS_RemoveElement DEF Rest
  <1>4. Cardinality(s) \in Nat /\ Cardinality(Rest(s)) \in Nat
    BY <1>2, FS_CardinalityType
  <1> QED
    BY <1>1, <1>2, <1>3, <1>4 DEF Rest

LEMMA SolutionExists ==
  ASSUME NEW S, IsFiniteSet(S), NEW f \in [S -> Int]
  PROVE  \E g \in [SUBSET S -> Int] : Solves(f, S, g)
  <1> DEFINE Upto(n, g) ==
               \A s \in SUBSET S : Cardinality(s) <= n =>
                 g[s] = IF s = {} THEN 0 ELSE f[Pick(s)] + g[Rest(s)]
             A == {n \in Nat : \E g \in [SUBSET S -> Int] : Upto(n, g)}
  <1>1. \A s \in SUBSET S : /\ IsFiniteSet(s) /\ Cardinality(s) \in Nat
                            /\ Cardinality(s) <= Cardinality(S)
                            /\ Cardinality(s) = 0 <=> s = {}
    BY FS_Subset, FS_CardinalityType, FS_EmptySet
  <1>2. 0 \in A
    <2> DEFINE g == [s \in SUBSET S |-> 0]
    <2>1. g \in [SUBSET S -> Int] /\ Upto(0, g)
      BY <1>1
    <2> QED
      BY <2>1
  <1>3. ASSUME NEW n \in Nat, n \in A PROVE n + 1 \in A
    <2>1. PICK g \in [SUBSET S -> Int] : Upto(n, g)
      BY <1>3
    <2> DEFINE h == [s \in SUBSET S |-> IF s = {} THEN 0 ELSE f[Pick(s)] + g[Rest(s)]]
    <2>2. h \in [SUBSET S -> Int]
      <3>1. ASSUME NEW s \in SUBSET S, s # {} PROVE f[Pick(s)] + g[Rest(s)] \in Int
        BY <3>1, RestSmaller
      <3> QED
        BY <3>1
    <2>3. ASSUME NEW s \in SUBSET S, s # {}, Cardinality(s) <= n + 1
          PROVE  h[s] = f[Pick(s)] + h[Rest(s)]
      <3>1. Rest(s) \in SUBSET S /\ Cardinality(Rest(s)) <= n
        BY <2>3, RestSmaller
      <3>2. g[Rest(s)] = h[Rest(s)]
        BY <2>1, <3>1
      <3> QED
        BY <2>3, <3>2
    <2>4. Upto(n + 1, h)
      BY <2>3
    <2> HIDE DEF h, Upto
    <2> QED
      BY <2>2, <2>4
  <1>4. Cardinality(S) \in A
    <2> HIDE DEF A
    <2>1. Nat \subseteq A
      BY <1>2, <1>3, NumberInduction
    <2> QED
      BY <1>1, <2>1
  <1>5. PICK g \in [SUBSET S -> Int] : Upto(Cardinality(S), g)
    BY <1>4
  <1>6. Solves(f, S, g)
    BY <1>1, <1>5 DEF Solves
  <1> QED
    BY <1>6

(* Any two solutions agree where both are defined.                           *)
LEMMA SolutionUnique ==
  ASSUME NEW S, IsFiniteSet(S), NEW T \in SUBSET S, NEW e, NEW f, NEW g, NEW h,
         Solves(e, S, g), Solves(f, T, h), \A x \in T : e[x] = f[x]
  PROVE  \A U \in SUBSET T : g[U] = h[U]
  <1> DEFINE A == {U \in SUBSET T : g[U] = h[U]}
  <1>0. IsFiniteSet(T)
    BY FS_Subset
  <1>1. ASSUME NEW U \in SUBSET T, \A V \in SUBSET U : V # U => V \in A
        PROVE  U \in A
    <2>1. CASE U = {}
      BY <2>1 DEF Solves
    <2>2. CASE U # {}
      <3>1. Rest(U) \in SUBSET U /\ Rest(U) # U /\ Pick(U) \in T
        BY <1>0, <2>2, RestSmaller DEF Rest
      <3>2. g[Rest(U)] = h[Rest(U)]
        BY <1>1, <3>1
      <3>3. /\ g[U] = e[Pick(U)] + g[Rest(U)]
            /\ h[U] = f[Pick(U)] + h[Rest(U)]
        BY <2>2 DEF Solves
      <3> QED
        BY <3>1, <3>2, <3>3
    <2> QED
      BY <2>1, <2>2
  <1>2. \A U \in SUBSET T : U \in A
    <2> HIDE DEF A
    <2> QED
      BY <1>0, <1>1, SubsetInduction
  <1> QED
    BY <1>2

(* One solution holds every partial sum.                                     *)
Tabulates(f, S, g) ==
  /\ g \in [SUBSET S -> Int]
  /\ Solves(f, S, g)
  /\ \A T \in SUBSET S : Total(Restrict(f, T)) = g[T]

LEMMA PartialSums ==
  ASSUME NEW S, IsFiniteSet(S), NEW f \in [S -> Int]
  PROVE  \E g : Tabulates(f, S, g)
  <1>1. PICK g \in [SUBSET S -> Int] : Solves(f, S, g)
    BY SolutionExists
  <1>2. ASSUME NEW T \in SUBSET S PROVE Total(Restrict(f, T)) = g[T]
    <2> DEFINE e == Restrict(f, T)
               it == CHOOSE i : i = StepOf(e, i)
    <2>1. IsFiniteSet(T) /\ e \in [T -> Int] /\ DOMAIN e = T
      BY FS_Subset DEF Restrict
    <2>2. PICK h \in [SUBSET T -> Int] : Solves(e, T, h)
      <3> HIDE DEF e
      <3> QED
        BY <2>1, SolutionExists
    <2>3. h = StepOf(e, h)
      <3> HIDE DEF e
      <3> QED
        BY <2>1, <2>2 DEF Solves, StepOf, Rest
    <2>4. it = StepOf(e, it)
      <3> HIDE DEF e
      <3> QED
        BY <2>3
    <2>5. Solves(e, T, it)
      <3> HIDE DEF e, it
      <3>1. \A s \in SUBSET T : StepOf(e, it)[s] =
                IF s = {} THEN 0 ELSE e[Pick(s)] + it[s \ {Pick(s)}]
        BY <2>1 DEF StepOf
      <3> QED
        BY <2>4, <3>1 DEF Solves, Rest
    <2>6. \A x \in T : f[x] = e[x]
      BY DEF Restrict
    <2>7. g[T] = it[T]
      <3> HIDE DEF e, it
      <3> QED
        BY <1>1, <2>5, <2>6, SolutionUnique
    <2>8. Total(e) = it[T]
      <3> HIDE DEF e
      <3> QED
        BY <2>1, Unfold
    <2> QED
      BY <2>7, <2>8
  <1> QED
    BY <1>1, <1>2 DEF Tabulates

----------------------------------------------------------------------------
(* The laws.                                                                *)

LEMMA SumEmpty == ASSUME NEW f, DOMAIN f = {} PROVE Total(f) = 0
  <1>1. StepOf(f, [s \in SUBSET {} |-> 0]) = [s \in SUBSET {} |-> 0]
    BY SMT DEF StepOf
  <1>2. (CHOOSE i : i = StepOf(f, i)) = StepOf(f, CHOOSE i : i = StepOf(f, i))
    BY <1>1
  <1>3. StepOf(f, CHOOSE i : i = StepOf(f, i))[{}] = 0
    BY DEF StepOf
  <1> QED
    BY <1>2, <1>3, Unfold

LEMMA SumType ==
  ASSUME NEW S, IsFiniteSet(S), NEW f \in [S -> Int]
  PROVE  Total(f) \in Int
  <1>1. PICK g : Tabulates(f, S, g)
    BY PartialSums
  <1>2. f = Restrict(f, S) /\ g[S] \in Int
    BY <1>1 DEF Restrict, Tabulates
  <1>3. Total(Restrict(f, S)) = g[S]
    BY <1>1 DEF Tabulates
  <1> QED
    BY <1>2, <1>3

(* Any element may be taken out.                                             *)
LEMMA SumRemove ==
  ASSUME NEW S, IsFiniteSet(S), NEW f \in [S -> Int], NEW x \in S
  PROVE  Total(f) = f[x] + Total(Restrict(f, S \ {x}))
  <1>0. PICK g : Tabulates(f, S, g)
    BY PartialSums
  <1>1. /\ g \in [SUBSET S -> Int]
        /\ Solves(f, S, g)
        /\ \A T \in SUBSET S : Total(Restrict(f, T)) = g[T]
    BY <1>0 DEF Tabulates
  <1> DEFINE A == {T \in SUBSET S : \A y \in T : g[T] = f[y] + g[T \ {y}]}
  <1>2. ASSUME NEW T \in SUBSET S, \A U \in SUBSET T : U # T => U \in A
        PROVE  T \in A
    <2> SUFFICES ASSUME NEW y \in T PROVE g[T] = f[y] + g[T \ {y}]
      OBVIOUS
    <2> DEFINE p == Pick(T)
    <2>1. p \in T /\ g[T] = f[p] + g[T \ {p}]
      BY <1>1, PickIn DEF Solves, Rest
    <2>2. CASE y = p
      BY <2>1, <2>2
    <2>3. CASE y # p
      <3> DEFINE U == T \ {p}
                 V == T \ {y}
      <3>1. y \in U /\ U \in A
        BY <1>2, <2>1, <2>3
      <3>2. p \in V /\ V \in A
        BY <1>2, <2>1, <2>3
      <3>3. U \ {y} = V \ {p}
        OBVIOUS
      <3>4. g[U] = f[y] + g[U \ {y}] /\ g[V] = f[p] + g[V \ {p}]
        BY <3>1, <3>2
      <3>5. g[U \ {y}] \in Int /\ f[y] \in Int /\ f[p] \in Int
        BY <1>1, <2>1
      <3>6. g[T] = f[p] + g[U]
        BY <2>1
      <3>7. g[T] = f[y] + g[V]
        <4>1. PICK c \in Int : c = g[U \ {y}]
          BY <3>5
        <4>2. g[T] = f[p] + (f[y] + c)
          BY <3>4, <3>6, <4>1
        <4>3. g[V] = f[p] + c
          BY <3>3, <3>4, <4>1
        <4> QED
          BY <3>5, <4>2, <4>3
      <3> QED
        BY <3>7 DEF V
    <2> QED
      BY <2>2, <2>3
  <1>3. S \in A
    <2> HIDE DEF A
    <2>1. \A T \in SUBSET S : T \in A
      BY <1>2, SubsetInduction
    <2> QED
      BY <2>1
  <1>4. g[S] = f[x] + g[S \ {x}]
    BY <1>3
  <1>5. f = Restrict(f, S)
    BY DEF Restrict
  <1> QED
    BY <1>1, <1>4, <1>5

(* A column with one more row.                                               *)
LEMMA SumOneMore ==
  ASSUME NEW S, IsFiniteSet(S), NEW x \in S, NEW g \in [S -> Int],
         NEW f \in [S \ {x} -> Int], \A y \in S \ {x} : f[y] = g[y]
  PROVE  /\ Total(f) \in Int /\ Total(g) \in Int
         /\ Total(g) = g[x] + Total(f)
  <1>1. f = Restrict(g, S \ {x})
    BY DEF Restrict
  <1>2. IsFiniteSet(S \ {x})
    BY FS_RemoveElement
  <1>3. Total(f) \in Int /\ Total(g) \in Int
    BY <1>2, SumType
  <1>4. Total(g) = g[x] + Total(Restrict(g, S \ {x}))
    BY SumRemove
  <1> QED
    BY <1>1, <1>3, <1>4

(* What a relation between sums needs: it holds for the empty set and survives *)
(* one more element.                                                         *)
LEMMA AddInduction ==
  ASSUME NEW S, IsFiniteSet(S), NEW A, {} \in A,
         \A T \in SUBSET S : \A x \in S \ T : T \in A => T \cup {x} \in A
  PROVE  S \in A
  <1>1. ASSUME NEW T \in SUBSET S, \A U \in SUBSET T : U # T => U \in A
        PROVE  T \in A
    <2>1. CASE T = {}
      BY <2>1
    <2>2. CASE T # {}
      <3>1. PICK x \in T : TRUE
        BY <2>2
      <3>2. T \ {x} \in SUBSET S /\ T \ {x} \in A /\ x \in S \ (T \ {x})
        BY <1>1
      <3>3. (T \ {x}) \cup {x} = T
        OBVIOUS
      <3> QED
        BY <3>2, <3>3
    <2> QED
      BY <2>1, <2>2
  <1>2. \A T \in SUBSET S : T \in A
    BY <1>1, SubsetInduction
  <1> QED
    BY <1>2

(* A sum over one more element.                                              *)
LEMMA SumAdd ==
  ASSUME NEW S, IsFiniteSet(S), NEW f \in [S -> Int],
         NEW T \in SUBSET S, NEW x \in S \ T
  PROVE  /\ Total(Restrict(f, T)) \in Int
         /\ Total(Restrict(f, T \cup {x})) = f[x] + Total(Restrict(f, T))
  <1> DEFINE U == T \cup {x}
             e == Restrict(f, U)
  <1>1. IsFiniteSet(U) /\ IsFiniteSet(T)
    BY FS_Subset
  <1>2. /\ e \in [U -> Int] /\ Restrict(f, T) \in [T -> Int] /\ x \in U
        /\ Restrict(e, U \ {x}) = Restrict(f, T) /\ e[x] = f[x]
    BY DEF Restrict
  <1>3. Total(e) = e[x] + Total(Restrict(e, U \ {x}))
    <2> HIDE DEF e, U
    <2> QED
      BY <1>1, <1>2, SumRemove
  <1>4. Total(Restrict(f, T)) \in Int
    BY <1>1, <1>2, SumType
  <1> QED
    BY <1>2, <1>3, <1>4

(* The sum over nothing.                                                     *)
LEMMA SumNothing == ASSUME NEW f PROVE Total(Restrict(f, {})) = 0
  <1>1. DOMAIN Restrict(f, {}) = {}
    BY DEF Restrict
  <1> QED
    BY <1>1, SumEmpty

(* Two columns add up row by row.                                            *)
AddsUp(S, f, g, h) == \A x \in S : h[x] = f[x] + g[x]

LEMMA SumPlus ==
  ASSUME NEW S, IsFiniteSet(S), NEW f \in [S -> Int], NEW g \in [S -> Int],
         NEW h \in [S -> Int], AddsUp(S, f, g, h)
  PROVE  Total(h) = Total(f) + Total(g)
  <1> DEFINE A == {T \in SUBSET S : Total(Restrict(h, T))
                      = Total(Restrict(f, T)) + Total(Restrict(g, T))}
  <1>1. {} \in A
    BY SumNothing
  <1>2. ASSUME NEW T \in SUBSET S, NEW x \in S \ T, T \in A PROVE T \cup {x} \in A
    <2>1. ASSUME NEW e \in [S -> Int]
          PROVE  /\ Total(Restrict(e, T)) \in Int
                 /\ Total(Restrict(e, T \cup {x})) = e[x] + Total(Restrict(e, T))
      <3> HIDE DEF A
      <3> QED
        BY SumAdd
    <2>2. PICK i \in Int, j \in Int : i = Total(Restrict(f, T)) /\ j = Total(Restrict(g, T))
      BY <2>1
    <2>3. Total(Restrict(h, T)) = i + j /\ f[x] \in Int /\ g[x] \in Int
      BY <1>2, <2>2
    <2>4. h[x] = f[x] + g[x]
      BY DEF AddsUp
    <2>5. /\ Total(Restrict(f, T \cup {x})) = f[x] + i
          /\ Total(Restrict(g, T \cup {x})) = g[x] + j
          /\ Total(Restrict(h, T \cup {x})) = (f[x] + g[x]) + (i + j)
      BY <2>1, <2>2, <2>3, <2>4
    <2>6. Total(Restrict(h, T \cup {x}))
            = Total(Restrict(f, T \cup {x})) + Total(Restrict(g, T \cup {x}))
      BY <2>3, <2>5
    <2> QED
      BY <2>6
  <1>3. S \in A
    <2> HIDE DEF A
    <2> QED
      BY <1>1, <1>2, AddInduction
  <1>4. f = Restrict(f, S) /\ g = Restrict(g, S) /\ h = Restrict(h, S)
    BY DEF Restrict
  <1> QED
    BY <1>3, <1>4

(* A smaller column has a smaller sum.                                       *)
LEMMA SumMonotone ==
  ASSUME NEW S, IsFiniteSet(S), NEW f \in [S -> Int], NEW g \in [S -> Int],
         \A x \in S : f[x] <= g[x]
  PROVE  Total(f) <= Total(g)
  <1> DEFINE A == {T \in SUBSET S : Total(Restrict(f, T)) <= Total(Restrict(g, T))}
  <1>1. {} \in A
    BY SumNothing
  <1>2. ASSUME NEW T \in SUBSET S, NEW x \in S \ T, T \in A PROVE T \cup {x} \in A
    <2>1. ASSUME NEW e \in [S -> Int]
          PROVE  /\ Total(Restrict(e, T)) \in Int
                 /\ Total(Restrict(e, T \cup {x})) = e[x] + Total(Restrict(e, T))
      <3> HIDE DEF A
      <3> QED
        BY SumAdd
    <2> QED
      BY <1>2, <2>1
  <1>3. S \in A
    <2> HIDE DEF A
    <2> QED
      BY <1>1, <1>2, AddInduction
  <1>4. f = Restrict(f, S) /\ g = Restrict(g, S)
    BY DEF Restrict
  <1> QED
    BY <1>3, <1>4

(* A column of zeros, and one without a negative entry.                      *)
LEMMA SumZero ==
  ASSUME NEW S, IsFiniteSet(S), NEW f \in [S -> {0}]
  PROVE  Total(f) = 0
  <1>1. f \in [S -> Int] /\ AddsUp(S, f, f, f)
    BY DEF AddsUp
  <1>2. Total(f) \in Int /\ Total(f) = Total(f) + Total(f)
    BY <1>1, SumType, SumPlus
  <1>3. PICK n \in Int : n = Total(f)
    BY <1>2
  <1>4. n = n + n
    BY <1>2, <1>3
  <1>5. n = 0
    BY <1>4
  <1> QED
    BY <1>3, <1>5

LEMMA SumNatural ==
  ASSUME NEW S, IsFiniteSet(S), NEW f \in [S -> Nat]
  PROVE  Total(f) \in Nat
  <1> DEFINE z == [x \in S |-> 0]
  <1>1. f \in [S -> Int] /\ z \in [S -> {0}] /\ z \in [S -> Int]
        /\ \A x \in S : z[x] <= f[x]
    OBVIOUS
  <1>2. Total(z) = 0
    <2> HIDE DEF z
    <2> QED
      BY <1>1, SumZero
  <1>3. Total(z) <= Total(f) /\ Total(f) \in Int
    <2> HIDE DEF z
    <2> QED
      BY <1>1, SumType, SumMonotone
  <1> QED
    BY <1>2, <1>3

(* A sum over two disjoint parts.                                            *)
LEMMA SumDisjoint ==
  ASSUME NEW S, IsFiniteSet(S), NEW f \in [S -> Int],
         NEW T \in SUBSET S, NEW U \in SUBSET S, T \cap U = {}
  PROVE  Total(Restrict(f, T \cup U)) = Total(Restrict(f, T)) + Total(Restrict(f, U))
  <1> DEFINE A == {V \in SUBSET U : Total(Restrict(f, T \cup V))
                      = Total(Restrict(f, T)) + Total(Restrict(f, V))}
  <1>0. IsFiniteSet(U) /\ IsFiniteSet(T) /\ Restrict(f, T) \in [T -> Int]
    BY FS_Subset DEF Restrict
  <1>1. Total(Restrict(f, T)) \in Int
    BY <1>0, SumType
  <1>2. {} \in A
    <2>1. T \cup {} = T
      OBVIOUS
    <2> QED
      BY <1>1, <2>1, SumNothing
  <1>3. ASSUME NEW V \in SUBSET U, NEW x \in U \ V, V \in A PROVE V \cup {x} \in A
    <2> DEFINE W == T \cup V
    <2>1. W \in SUBSET S /\ x \in S \ W /\ V \in SUBSET S /\ x \in S \ V
      OBVIOUS
    <2>2. T \cup (V \cup {x}) = W \cup {x}
      OBVIOUS
    <2>3. /\ Total(Restrict(f, W)) \in Int /\ Total(Restrict(f, V)) \in Int
          /\ Total(Restrict(f, W \cup {x})) = f[x] + Total(Restrict(f, W))
          /\ Total(Restrict(f, V \cup {x})) = f[x] + Total(Restrict(f, V))
      <3> HIDE DEF W
      <3> QED
        BY <2>1, SumAdd
    <2>4. Total(Restrict(f, W)) = Total(Restrict(f, T)) + Total(Restrict(f, V))
      BY <1>3
    <2>5. f[x] \in Int
      BY <2>1
    <2>6. PICK i \in Int, j \in Int : i = Total(Restrict(f, T)) /\ j = Total(Restrict(f, V))
      BY <1>1, <2>3
    <2>7. Total(Restrict(f, V \cup {x})) = f[x] + j
      BY <2>3, <2>6
    <2>8. Total(Restrict(f, W \cup {x})) = f[x] + (i + j)
      BY <2>3, <2>4, <2>6
    <2>9. Total(Restrict(f, W \cup {x}))
            = Total(Restrict(f, T)) + Total(Restrict(f, V \cup {x}))
      BY <2>5, <2>6, <2>7, <2>8
    <2> QED
      BY <2>2, <2>9
  <1>4. U \in A
    <2> HIDE DEF A
    <2> QED
      BY <1>0, <1>2, <1>3, AddInduction
  <1> QED
    BY <1>4

(* A column changed in one row.                                              *)
LEMMA SumChange ==
  ASSUME NEW S, IsFiniteSet(S), NEW f \in [S -> Int], NEW g \in [S -> Int], NEW x \in S,
         \A y \in S \ {x} : g[y] = f[y]
  PROVE  Total(g) = Total(f) + g[x] - f[x]
  <1>1. Restrict(f, S \ {x}) = Restrict(g, S \ {x})
    BY DEF Restrict
  <1>2. Total(f) = f[x] + Total(Restrict(f, S \ {x}))
    BY SumRemove
  <1>3. Total(g) = g[x] + Total(Restrict(g, S \ {x}))
    BY SumRemove
  <1>4. Total(Restrict(f, S \ {x})) \in Int
    BY SumAdd
  <1> QED
    BY <1>1, <1>2, <1>3, <1>4

(* Rows grouped by a class: GROUP BY adds up to the same total.              *)
LEMMA SumGroups ==
  ASSUME NEW S, IsFiniteSet(S), NEW f \in [S -> Int],
         NEW K, IsFiniteSet(K), NEW c \in [S -> K]
  PROVE  Total([k \in K |-> Total(Restrict(f, {x \in S : c[x] = k}))]) = Total(f)
  <1> DEFINE G(T) == [k \in K |-> Total(Restrict(f, {x \in T : c[x] = k}))]
             A == {T \in SUBSET S : Total(G(T)) = Total(Restrict(f, T))}
  <1>1. {} \in A
    <2>1. \A k \in K : {x \in {} : c[x] = k} = {}
      OBVIOUS
    <2>2. G({}) \in [K -> {0}]
      BY <2>1, SumNothing
    <2>3. Total(G({})) = 0
      <3> HIDE DEF G
      <3> QED
        BY <2>2, SumZero
    <2> QED
      BY <2>3, SumNothing
  <1>2. ASSUME NEW T \in SUBSET S, NEW x \in S \ T, T \in A PROVE T \cup {x} \in A
    <2> DEFINE U == T \cup {x}
               At(V, k) == {y \in V : c[y] = k}
    <2>1. \A k \in K : k # c[x] => At(U, k) = At(T, k)
      OBVIOUS
    <2>2. /\ At(U, c[x]) = At(T, c[x]) \cup {x} /\ x \in S \ At(T, c[x])
          /\ At(T, c[x]) \in SUBSET S /\ c[x] \in K
      OBVIOUS
    <2>3. \A V \in SUBSET S : G(V) \in [K -> Int]
      <3>1. ASSUME NEW V \in SUBSET S, NEW k \in K
            PROVE  Total(Restrict(f, At(V, k))) \in Int
        <4>1. IsFiniteSet(At(V, k)) /\ Restrict(f, At(V, k)) \in [At(V, k) -> Int]
          BY FS_Subset DEF Restrict
        <4> HIDE DEF At
        <4> QED
          BY <4>1, SumType
      <3> QED
        BY <3>1
    <2>4. G(U)[c[x]] = f[x] + G(T)[c[x]]
      <3>1. Total(Restrict(f, At(T, c[x]) \cup {x})) = f[x] + Total(Restrict(f, At(T, c[x])))
        <4> HIDE DEF At
        <4> QED
          BY <2>2, SumAdd
      <3>2. /\ G(U)[c[x]] = Total(Restrict(f, At(U, c[x])))
            /\ G(T)[c[x]] = Total(Restrict(f, At(T, c[x])))
        OBVIOUS
      <3> HIDE DEF G, At
      <3> QED
        BY <2>2, <3>1, <3>2
    <2>5. \A k \in K \ {c[x]} : G(U)[k] = G(T)[k]
      BY <2>1
    <2>6. Total(G(U)) = Total(G(T)) + G(U)[c[x]] - G(T)[c[x]]
      <3>1. G(U) \in [K -> Int] /\ G(T) \in [K -> Int] /\ c[x] \in K
        BY <2>2, <2>3
      <3> HIDE DEF G, U
      <3> QED
        BY <2>5, <3>1, SumChange
    <2>7. /\ Total(Restrict(f, T)) \in Int
          /\ Total(Restrict(f, U)) = f[x] + Total(Restrict(f, T))
      BY SumAdd
    <2>8. Total(G(T)) = Total(Restrict(f, T))
      BY <1>2
    <2>9. G(T)[c[x]] \in Int /\ f[x] \in Int
      BY <2>2, <2>3
    <2>10. Total(G(U)) = Total(Restrict(f, U))
      <3> HIDE DEF G, U
      <3> QED
        BY <2>4, <2>6, <2>7, <2>8, <2>9
    <2> QED
      BY <2>10
  <1>3. S \in A
    <2> HIDE DEF A
    <2> QED
      BY <1>1, <1>2, AddInduction
  <1>4. f = Restrict(f, S)
    BY DEF Restrict
  <1> QED
    BY <1>3, <1>4

(* The same, the groups given as the rows of a table.                        *)
LEMMA SumByKey ==
  ASSUME NEW S, IsFiniteSet(S), NEW f \in [S -> Int],
         NEW K, IsFiniteSet(K), NEW key \in [S -> K],
         NEW g \in [K -> Int],
         \A k \in K : g[k] = Total([x \in {y \in S : key[y] = k} |-> f[x]])
  PROVE  Total(g) = Total(f)
<1> DEFINE At(k) == {y \in S : key[y] = k}
<1>1. \A k \in K : g[k] = Total(Restrict(f, At(k)))
  BY DEF Restrict
<1>2. g = [k \in K |-> Total(Restrict(f, At(k)))]
  <2> HIDE DEF At
  <2> QED BY <1>1
<1> QED BY <1>2, SumGroups

(* A set has as many elements as it sums ones.                               *)
LEMMA SumOfOnes ==
  ASSUME NEW S, IsFiniteSet(S)
  PROVE  /\ Total([x \in S |-> 1]) = Cardinality(S)
         /\ Cardinality(S) \in Nat
<1> DEFINE one == [x \in S |-> 1]
           A == {T \in SUBSET S : Total(Restrict(one, T)) = Cardinality(T)}
<1>1. {} \in A
  BY SumNothing, FS_EmptySet
<1>2. ASSUME NEW T \in SUBSET S, NEW x \in S \ T, T \in A PROVE T \cup {x} \in A
  <2>1. one \in [S -> Int] /\ one[x] = 1
    OBVIOUS
  <2>2. Total(Restrict(one, T \cup {x})) = 1 + Total(Restrict(one, T))
    <3> HIDE DEF one
    <3> QED BY <2>1, SumAdd
  <2>3. IsFiniteSet(T) /\ Cardinality(T) \in Nat
    BY FS_Subset, FS_CardinalityType
  <2>4. Cardinality(T \cup {x}) = Cardinality(T) + 1
    BY <2>3, FS_AddElement
  <2>5. Total(Restrict(one, T)) = Cardinality(T)
    BY <1>2
  <2>6. Total(Restrict(one, T \cup {x})) = Cardinality(T \cup {x})
    <3> HIDE DEF one
    <3> QED BY <2>2, <2>3, <2>4, <2>5
  <2> QED BY <2>6
<1>3. S \in A
  <2> HIDE DEF A
  <2> QED BY <1>1, <1>2, AddInduction
<1>4. Restrict(one, S) = one
  BY DEF Restrict
<1> QED BY <1>3, <1>4, FS_CardinalityType

LEMMA CountByKey ==
  ASSUME NEW S, IsFiniteSet(S), NEW K, IsFiniteSet(K), NEW key \in [S -> K],
         NEW g \in [K -> Int],
         \A k \in K : g[k] = Cardinality({y \in S : key[y] = k})
  PROVE  Total(g) = Cardinality(S)
<1> DEFINE one == [x \in S |-> 1]
           At(k) == {y \in S : key[y] = k}
<1>1. one \in [S -> Int]
  OBVIOUS
<1>2. \A k \in K : IsFiniteSet(At(k)) /\ [x \in At(k) |-> one[x]] = [x \in At(k) |-> 1]
  BY FS_Subset
<1>3. \A k \in K : g[k] = Total([x \in At(k) |-> one[x]])
  <2> HIDE DEF At, one
  <2>1. ASSUME NEW k \in K PROVE g[k] = Total([x \in At(k) |-> one[x]])
    <3>1. Total([x \in At(k) |-> 1]) = Cardinality(At(k)) /\ Cardinality(At(k)) \in Nat
      BY <1>2, SumOfOnes
    <3>2. g[k] = Cardinality(At(k))
      BY DEF At
    <3> QED BY <1>2, <3>1, <3>2
  <2> QED BY <2>1
<1>5. Total(g) = Total(one)
  <2> HIDE DEF one
  <2> QED BY <1>1, <1>3, SumByKey DEF At
<1> QED BY <1>5, SumOfOnes

(* The values of a function on a finite set.                                 *)
LEMMA ImageFinite ==
  ASSUME NEW S, IsFiniteSet(S), NEW f, DOMAIN f = S
  PROVE  IsFiniteSet({f[x] : x \in S})
<1> DEFINE g == [x \in S |-> f[x]]
           K == {f[x] : x \in S}
<1>1. g \in [S -> K] /\ \A k \in K : \E x \in S : g[x] = k
  OBVIOUS
<1>2. g \in Surjection(S, K)
  <2> HIDE DEF g, K
  <2> QED BY <1>1 DEF Surjection
<1> QED BY <1>2, FS_Surjection

(* A sum of one, and the sum of a column whose rows were renamed.             *)
LEMMA SumSingle ==
  ASSUME NEW x, NEW f \in [{x} -> Int]
  PROVE  Total(f) = f[x]
<1>1. IsFiniteSet({x}) /\ x \in {x}
  BY FS_Singleton
<1>2. Total(f) = f[x] + Total(Restrict(f, {x} \ {x}))
  BY <1>1, SumRemove
<1>3. {x} \ {x} = {} /\ f[x] \in Int
  OBVIOUS
<1> QED BY <1>2, <1>3, SumNothing

LEMMA SumRenamed ==
  ASSUME NEW S, IsFiniteSet(S), NEW f \in [S -> Int],
         NEW T, IsFiniteSet(T), NEW g \in [T -> Int], NEW name \in [S -> T],
         \A y \in T : \E x \in S : name[x] = y /\ g[y] = f[x]
                                /\ \A z \in S : name[z] = y => z = x
  PROVE  Total(g) = Total(f)
<1>1. ASSUME NEW y \in T
      PROVE  g[y] = Total([x \in {z \in S : name[z] = y} |-> f[x]])
  <2>1. PICK x \in S : name[x] = y /\ g[y] = f[x] /\ \A z \in S : name[z] = y => z = x
    OBVIOUS
  <2>2. {z \in S : name[z] = y} = {x}
    BY <2>1
  <2> DEFINE h == [z \in {x} |-> f[z]]
  <2>3. h \in [{x} -> Int] /\ h[x] = f[x]
    OBVIOUS
  <2> HIDE DEF h
  <2>4. Total(h) = f[x]
    BY <2>3, SumSingle
  <2> QED BY <2>1, <2>2, <2>4 DEF h
<1> QED BY <1>1, SumByKey

(* A column split in two, and the rows of zero left out.                      *)
LEMMA SumSplit ==
  ASSUME NEW S, IsFiniteSet(S), NEW f \in [S -> Int], NEW T \in SUBSET S
  PROVE  /\ Total(f) = Total(Restrict(f, T)) + Total(Restrict(f, S \ T))
         /\ Total(Restrict(f, T)) \in Int /\ Total(Restrict(f, S \ T)) \in Int
<1>1. T \cap (S \ T) = {} /\ T \cup (S \ T) = S /\ (S \ T) \in SUBSET S
  OBVIOUS
<1>2. Total(Restrict(f, T \cup (S \ T))) = Total(Restrict(f, T)) + Total(Restrict(f, S \ T))
  BY <1>1, SumDisjoint
<1>3. Restrict(f, S) = f
  BY DEF Restrict
<1>4. ASSUME NEW U \in SUBSET S PROVE Total(Restrict(f, U)) \in Int
  <2>1. IsFiniteSet(U) /\ Restrict(f, U) \in [U -> Int]
    BY FS_Subset DEF Restrict
  <2> QED BY <2>1, SumType
<1> QED BY <1>1, <1>2, <1>3, <1>4

LEMMA SumWithoutZeros ==
  ASSUME NEW S, IsFiniteSet(S), NEW f \in [S -> Int], NEW T \in SUBSET S,
         \A x \in S \ T : f[x] = 0
  PROVE  Total(Restrict(f, T)) = Total(f)
<1>1. Restrict(f, S \ T) \in [S \ T -> {0}] /\ IsFiniteSet(S \ T)
  BY FS_Subset DEF Restrict
<1>2. Total(Restrict(f, S \ T)) = 0
  BY <1>1, SumZero
<1> QED BY <1>2, SumSplit

(* A column with every sign turned.                                           *)
LEMMA SumNegated ==
  ASSUME NEW S, IsFiniteSet(S), NEW f \in [S -> Int], NEW g \in [S -> Int],
         \A x \in S : g[x] = -f[x]
  PROVE  Total(g) = -Total(f) /\ Total(f) \in Int
<1> DEFINE z == [x \in S |-> 0]
<1>1. z \in [S -> {0}] /\ z \in [S -> Int] /\ AddsUp(S, f, g, z)
  BY DEF AddsUp
<1> HIDE DEF z
<1>2. Total(z) = 0 /\ Total(f) \in Int /\ Total(g) \in Int
  BY <1>1, SumZero, SumType
<1>3. Total(z) = Total(f) + Total(g)
  BY <1>1, SumPlus
<1> QED BY <1>2, <1>3

----------------------------------------------------------------------------
(* Ranks: the place of a row in an ordered result is how many come before it. *)

Orders(R, S) ==
  /\ \A x \in S : <<x, x>> \notin R
  /\ \A x, y \in S : x # y => <<x, y>> \in R \/ <<y, x>> \in R
  /\ \A x, y, z \in S : <<x, y>> \in R /\ <<y, z>> \in R => <<x, z>> \in R

Places(place, R, S) ==
  /\ place \in [S -> Nat]
  /\ \A x \in S : place[x] = Cardinality({y \in S : <<y, x>> \in R})

LEMMA RanksNumber ==
  ASSUME NEW S, IsFiniteSet(S), NEW R, Orders(R, S), NEW place, Places(place, R, S)
  PROVE  /\ Cardinality(S) \in Nat
         /\ \A x \in S : place[x] \in 0 .. Cardinality(S) - 1
         /\ \A x, y \in S : <<x, y>> \in R <=> place[x] < place[y]
         /\ \A x, y \in S : place[x] = place[y] => x = y
         /\ place \in Surjection(S, 0 .. Cardinality(S) - 1)
<1> DEFINE Below(x) == {y \in S : <<y, x>> \in R}
           N == Cardinality(S)
<1>1. N \in Nat
  BY FS_CardinalityType
<1>2. \A x \in S : Below(x) \in SUBSET S /\ x \notin Below(x)
  BY DEF Orders
<1>3. \A x \in S : IsFiniteSet(Below(x)) /\ Cardinality(Below(x)) \in Nat
  BY <1>2, FS_Subset, FS_CardinalityType
<1>4. \A x, y \in S : <<x, y>> \in R => Below(x) \in SUBSET Below(y) /\ x \in Below(y)
  BY DEF Orders
<1>5. \A x \in S : place[x] = Cardinality(Below(x))
  BY DEF Places
<1> HIDE DEF Below
<1>o. /\ \A x, y \in S : x # y => <<x, y>> \in R \/ <<y, x>> \in R
      /\ \A x \in S : <<x, x>> \notin R
  BY DEF Orders
<1>p. place \in [S -> Nat] /\ \A x \in S : place[x] \in Nat
  BY DEF Places
<1>6. ASSUME NEW x \in S PROVE place[x] \in Nat /\ place[x] < N
  <2>1. Cardinality(Below(x)) <= N /\ (N = Cardinality(Below(x)) => S = Below(x))
    BY <1>2, FS_Subset
  <2>2. Below(x) # S
    BY <1>2
  <2>3. place[x] = Cardinality(Below(x)) /\ Cardinality(Below(x)) \in Nat
    BY <1>3, <1>5
  <2>4. Cardinality(Below(x)) # N
    BY <2>1, <2>2
  <2> HIDE DEF N
  <2> QED BY <1>1, <2>1, <2>3, <2>4
<1>7. ASSUME NEW x \in S, NEW y \in S, <<x, y>> \in R PROVE place[x] < place[y]
  <2>1. Below(x) \in SUBSET Below(y) /\ Below(x) # Below(y)
    BY <1>2, <1>4, <1>7
  <2>2. IsFiniteSet(Below(y)) /\ Cardinality(Below(x)) \in Nat /\ Cardinality(Below(y)) \in Nat
    BY <1>3
  <2>3. Cardinality(Below(x)) <= Cardinality(Below(y))
        /\ (Cardinality(Below(y)) = Cardinality(Below(x)) => Below(y) = Below(x))
    BY <2>1, <2>2, FS_Subset
  <2>4. place[x] = Cardinality(Below(x)) /\ place[y] = Cardinality(Below(y))
    BY <1>5
  <2> QED BY <2>1, <2>2, <2>3, <2>4
<1>q. \A x, y \in S : <<x, y>> \in R => place[x] < place[y]
  BY <1>7
<1>8. \A x, y \in S : x # y => place[x] # place[y]
  <2> SUFFICES ASSUME NEW x \in S, NEW y \in S, x # y PROVE place[x] # place[y]
    OBVIOUS
  <2>1. place[x] < place[y] \/ place[y] < place[x]
    BY <1>o, <1>q
  <2> QED BY <1>p, <2>1
<1>9. \A x, y \in S : place[x] < place[y] => <<x, y>> \in R
  <2> SUFFICES ASSUME NEW x \in S, NEW y \in S, place[x] < place[y] PROVE <<x, y>> \in R
    OBVIOUS
  <2>1. x # y /\ ~(place[y] < place[x])
    BY <1>p
  <2> QED BY <1>o, <1>q, <2>1
<1>10. place \in [S -> 0 .. N - 1]
  BY <1>1, <1>p, <1>6
<1>11. place \in Injection(S, 0 .. N - 1)
  BY <1>8, <1>10 DEF Injection, IsInjective
<1>12. IsFiniteSet(0 .. N - 1) /\ Cardinality(0 .. N - 1) = N
  BY <1>1, FS_Interval
<1>13. place \in Surjection(S, 0 .. N - 1)
  BY <1>11, <1>12, FS_Injection
<1> QED BY <1>1, <1>6, <1>q, <1>8, <1>9, <1>13
=============================================================================
