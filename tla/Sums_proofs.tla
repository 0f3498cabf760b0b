---------------------------- MODULE Sums_proofs -----------------------------
(***************************************************************************)
(* What the sums of module Sums do, for natural terms over any finite set: *)
(* change with a term, add up, split, scale and compare.  The fold that    *)
(* MapThenSumSet is takes the terms out in an order that CHOOSE picks; the *)
(* proofs go through a set with as many elements as the sum, whose size    *)
(* depends on no order.                                                    *)
(*                                                                         *)
(* Induction is stated over a set G of the sets (or numbers) that have the *)
(* property, and rests on the well-founded order of the subsets of a       *)
(* finite set.                                                             *)
(***************************************************************************)
EXTENDS Sums, FiniteSetTheorems, WellFoundedInduction, TLAPS

-----------------------------------------------------------------------------
(***************************************************************************)
(* Induction                                                               *)
(***************************************************************************)
(* A finite set has a property that every one of its subsets has when all
   of its own proper subsets do. *)
LEMMA StrongInduction ==
    ASSUME NEW S, IsFiniteSet(S), NEW G,
           \A T \in SUBSET S : (\A U \in SUBSET T : U # T => U \in G) => T \in G
    PROVE  S \in G
<1>1. IsWellFoundedOn(StrictSubsetOrdering(S), SUBSET S)
  BY FS_StrictSubsetOrderingWellFounded, FS_FiniteSubsetsOfFinite
<1> SUFFICES ASSUME S \notin G PROVE FALSE
  OBVIOUS
<1> DEFINE Bad == {T \in SUBSET S : T \notin G}
<1>2. PICK T \in Bad : \A U \in Bad : <<U, T>> \notin StrictSubsetOrdering(S)
  <2>1. Bad \subseteq SUBSET S /\ Bad # {}
    OBVIOUS
  <2> HIDE DEF Bad
  <2>. QED
    BY <1>1, <2>1, WFMin
<1>3. PICK U \in SUBSET T : U # T /\ U \notin G
  OBVIOUS
<1>4. <<U, T>> \in StrictSubsetOrdering(S)
  BY <1>3 DEF StrictSubsetOrdering
<1>. QED
  BY <1>2, <1>3, <1>4

(* Finite sets are reached from the empty set by adding elements. *)
LEMMA FiniteInduction ==
    ASSUME NEW S, IsFiniteSet(S), NEW G, {} \in G,
           \A T \in SUBSET S : \A x \in S \ T : T \in G => T \cup {x} \in G
    PROVE  S \in G
<1>1. ASSUME NEW T \in SUBSET S, \A U \in SUBSET T : U # T => U \in G
      PROVE  T \in G
  <2>1. CASE T = {}
    BY <2>1
  <2>2. CASE T # {}
    <3>1. PICK x \in T : TRUE
      BY <2>2
    <3>2. T \ {x} \in SUBSET T /\ T \ {x} # T /\ x \in S \ (T \ {x})
      BY <3>1
    <3>3. (T \ {x}) \cup {x} \in G
      BY <1>1, <3>2
    <3>4. (T \ {x}) \cup {x} = T
      BY <3>1
    <3>. QED
      BY <3>3, <3>4
  <2>. QED
    BY <2>1, <2>2
<1>. QED
  BY <1>1, StrongInduction

(* Naturals are reached from zero by adding one. *)
LEMMA StepInduction ==
    ASSUME NEW G, 0 \in G, \A m \in Nat : m \in G => m + 1 \in G, NEW n \in Nat
    PROVE  n \in G
<1> DEFINE I == 0..n
           H == {T \in SUBSET I : \A m \in Nat : T = 0..m => m \in G}
<1>1. ASSUME NEW T \in SUBSET I, \A U \in SUBSET T : U # T => U \in H
      PROVE  T \in H
  <2> SUFFICES ASSUME NEW m \in Nat, T = 0..m PROVE m \in G
    OBVIOUS
  <2>1. CASE m = 0
    BY <2>1
  <2>2. CASE m # 0
    <3>1. m - 1 \in Nat /\ (m - 1) + 1 = m
      BY <2>2
    <3>2. 0..(m - 1) \in SUBSET T /\ m \in T /\ m \notin 0..(m - 1)
      BY <3>1
    <3>3. 0..(m - 1) \in H
      BY <1>1, <3>2
    <3>4. m - 1 \in G
      BY <3>1, <3>3
    <3>. QED
      BY <3>1, <3>4
  <2>. QED
    BY <2>1, <2>2
<1>2. IsFiniteSet(I)
  BY FS_Interval
<1>3. I \in H
  <2> HIDE DEF I, H
  <2>. QED
    BY <1>1, <1>2, StrongInduction
<1>. QED
  BY <1>3

-----------------------------------------------------------------------------
(***************************************************************************)
(* Multiplication and division                                             *)
(***************************************************************************)
(* Division rounds down. *)
LEMMA DivBounds ==
    ASSUME NEW a \in Nat, NEW w \in Nat \ {0}
    PROVE  /\ a \div w \in Nat
           /\ (a \div w) * w <= a
           /\ a < (a \div w) * w + w
  BY SMT

(* A common factor can be divided out of a comparison. *)
LEMMA FactorOut ==
    ASSUME NEW a \in Nat, NEW b \in Nat, NEW w \in Nat \ {0}, a * w <= b * w
    PROVE  a <= b
<1> SUFFICES ASSUME a >= b + 1 PROVE FALSE
  BY SMT
<1>1. a * w >= (b + 1) * w
  BY SMT
<1>2. (b + 1) * w = b * w + w
  BY SMT
<1>. QED
  BY <1>1, <1>2, SMT

(* Dividing a multiple gives it back. *)
LEMMA MultipleDiv ==
    ASSUME NEW k \in Nat, NEW w \in Nat \ {0}
    PROVE  k * w \in Nat /\ (k * w) \div w = k
<1> DEFINE q == (k * w) \div w
<1>1. k * w \in Nat
  BY SMT
<1>2. q \in Nat /\ q * w <= k * w /\ k * w < q * w + w
  BY <1>1, DivBounds
<1> HIDE DEF q
<1>3. q <= k
  BY <1>2, FactorOut
<1>4. k * w <= (q + 1) * w => k <= q + 1
  BY <1>2, FactorOut
<1>5. (q + 1) * w = q * w + w
  BY <1>2, SMT
<1>6. k # q + 1
  BY <1>1, <1>2, <1>5, SMT
<1>7. q = k
  BY <1>2, <1>3, <1>4, <1>5, <1>6, <1>1, SMT
<1>. QED
  BY <1>1, <1>7 DEF q

(* Multiplication is monotonic. *)
LEMMA ProductMonotone ==
    ASSUME NEW a \in Nat, NEW b \in Nat, NEW w \in Nat, a <= b
    PROVE  /\ a * w <= b * w
           /\ w * a <= w * b
           /\ a * w \in Nat /\ b * w \in Nat
  BY SMT

(* Division is monotonic in the dividend. *)
LEMMA DivMonotone ==
    ASSUME NEW a \in Nat, NEW b \in Nat, NEW w \in Nat \ {0}, a <= b
    PROVE  a \div w <= b \div w
<1> DEFINE p == a \div w
           q == b \div w
<1>1. p \in Nat /\ p * w <= a
  BY DivBounds
<1>2. q \in Nat /\ b < q * w + w
  BY DivBounds
<1> HIDE DEF p, q
<1> SUFFICES ASSUME p >= q + 1 PROVE FALSE
  BY <1>1, <1>2, SMT DEF p, q
<1>3. p * w >= (q + 1) * w
  BY <1>1, <1>2, SMT
<1>4. (q + 1) * w = q * w + w
  BY <1>2, SMT
<1> QED
  BY <1>1, <1>2, <1>3, <1>4, SMT

-----------------------------------------------------------------------------
(***************************************************************************)
(* A set as large as the sum                                               *)
(***************************************************************************)
\* As many pairs for every x of T as the term f[x] is large.
Units(f, T) == UNION {{x} \X (1 .. f[x]) : x \in T}

(* With one more term there are as many more units. *)
LEMMA UnitsOfOneMore ==
    ASSUME NEW f, NEW T, NEW x, x \notin T, f[x] \in Nat,
           IsFiniteSet(Units(f, T))
    PROVE  /\ IsFiniteSet(Units(f, T \cup {x}))
           /\ Cardinality(Units(f, T \cup {x})) = f[x] + Cardinality(Units(f, T))
<1> DEFINE new == {x} \X (1 .. f[x])
<1>1. Units(f, T \cup {x}) = Units(f, T) \cup new
  BY DEF Units
<1>2. Units(f, T) \cap new = {}
  BY DEF Units
<1>3. IsFiniteSet({x}) /\ Cardinality({x}) = 1
  BY FS_Singleton
<1>4. IsFiniteSet(1 .. f[x]) /\ Cardinality(1 .. f[x]) = f[x]
  BY FS_Interval
<1>5. IsFiniteSet(new) /\ Cardinality(new) = 1 * f[x]
  BY <1>3, <1>4, FS_Product
<1> HIDE DEF new
<1>6. Cardinality(Units(f, T)) \in Nat /\ Cardinality({}) = 0
  BY FS_CardinalityType, FS_EmptySet
<1>7. /\ IsFiniteSet(Units(f, T) \cup new)
      /\ Cardinality(Units(f, T) \cup new) = Cardinality(Units(f, T)) + Cardinality(new) - Cardinality({})
  BY <1>2, <1>5, FS_Union
<1>8. Cardinality(Units(f, T)) + 1 * f[x] - 0 = f[x] + Cardinality(Units(f, T))
  BY <1>6
<1>. QED
  BY <1>1, <1>5, <1>6, <1>7, <1>8, Zenon

(* There are finitely many units. *)
LEMMA UnitsFinite ==
    ASSUME NEW S, IsFiniteSet(S), NEW f \in [S -> Nat], NEW T \in SUBSET S
    PROVE  IsFiniteSet(Units(f, T)) /\ Cardinality(Units(f, T)) \in Nat
<1> DEFINE G == {V \in SUBSET T : IsFiniteSet(Units(f, V))}
<1>1. {} \in G
  <2>1. Units(f, {}) = {}
    BY DEF Units
  <2>. QED
    BY <2>1, FS_EmptySet
<1>2. ASSUME NEW V \in SUBSET T, NEW x \in T \ V, V \in G PROVE V \cup {x} \in G
  <2>1. f[x] \in Nat
    OBVIOUS
  <2>. QED
    BY <1>2, <2>1, UnitsOfOneMore
<1>3. IsFiniteSet(T)
  BY FS_Subset
<1>4. T \in G
  <2> HIDE DEF G
  <2>. QED
    BY <1>1, <1>2, <1>3, FiniteInduction
<1>. QED
  BY <1>4, FS_CardinalityType

(* The units of the term that is taken out, and those that are left. *)
LEMMA UnitsWithout ==
    ASSUME NEW S, IsFiniteSet(S), NEW f \in [S -> Nat], NEW T \in SUBSET S, NEW x \in T
    PROVE  Cardinality(Units(f, T)) = f[x] + Cardinality(Units(f, T \ {x}))
<1>1. IsFiniteSet(Units(f, T \ {x}))
  BY UnitsFinite
<1>2. (T \ {x}) \cup {x} = T /\ x \notin T \ {x} /\ f[x] \in Nat
  OBVIOUS
<1>. QED
  BY <1>1, <1>2, UnitsOfOneMore

\* h is the recursive function by which MapThenFoldSet sums f.
IsFold(f, h) ==
    h = [s \in SUBSET DOMAIN f |->
            IF s = {} THEN 0
            ELSE f[CHOOSE x \in s : TRUE] + h[s \ {CHOOSE x \in s : TRUE}]]

(* Counting units satisfies that recursion, ... *)
LEMMA CountIsFold ==
    ASSUME NEW S, IsFiniteSet(S), NEW f \in [S -> Nat]
    PROVE  IsFold(f, [s \in SUBSET S |-> Cardinality(Units(f, s))])
<1> DEFINE h == [s \in SUBSET S |-> Cardinality(Units(f, s))]
<1>1. DOMAIN f = S
  OBVIOUS
<1>2. ASSUME NEW s \in SUBSET S
      PROVE  h[s] = IF s = {} THEN 0
                    ELSE f[CHOOSE x \in s : TRUE] + h[s \ {CHOOSE x \in s : TRUE}]
  <2>1. CASE s = {}
    <3>1. Units(f, s) = {}
      BY <2>1 DEF Units
    <3>. QED
      BY <2>1, <3>1, FS_EmptySet
  <2>2. CASE s # {}
    <3> DEFINE x == CHOOSE x \in s : TRUE
    <3>1. x \in s
      BY <2>2
    <3> HIDE DEF x
    <3>2. s \ {x} \in SUBSET S
      OBVIOUS
    <3>3. h[s] = f[x] + h[s \ {x}]
      BY <3>1, <3>2, UnitsWithout
    <3>. QED
      BY <2>2, <3>3 DEF x
  <2>. QED
    BY <2>1, <2>2
<1>. QED
  BY <1>1, <1>2 DEF IsFold

(* ... and whatever satisfies it counts units. *)
LEMMA FoldIsCount ==
    ASSUME NEW S, IsFiniteSet(S), NEW f \in [S -> Nat], NEW h, IsFold(f, h)
    PROVE  h[S] = Cardinality(Units(f, S))
<1> DEFINE G == {T \in SUBSET S : h[T] = Cardinality(Units(f, T))}
<1>1. DOMAIN f = S
  OBVIOUS
<1>2. ASSUME NEW T \in SUBSET S, \A U \in SUBSET T : U # T => U \in G
      PROVE  T \in G
  <2>1. CASE T = {}
    <3>1. Units(f, T) = {} /\ h[T] = 0
      BY <1>1, <2>1 DEF Units, IsFold
    <3>. QED
      BY <3>1, FS_EmptySet
  <2>2. CASE T # {}
    <3> DEFINE x == CHOOSE y \in T : TRUE
    <3>1. h[T] = f[x] + h[T \ {x}]
      BY <1>1, <2>2 DEF IsFold
    <3>2. x \in T
      BY <2>2
    <3> HIDE DEF x
    <3>3. T \ {x} \in SUBSET T /\ T \ {x} # T
      BY <3>2
    <3>4. h[T \ {x}] = Cardinality(Units(f, T \ {x}))
      BY <1>2, <3>3
    <3>. QED
      BY <3>1, <3>2, <3>4, UnitsWithout
  <2>. QED
    BY <2>1, <2>2
<1>3. S \in G
  <2> HIDE DEF G
  <2>. QED
    BY <1>2, StrongInduction
<1>. QED
  BY <1>3

(* The sum is such a recursion, ... *)
LEMMA TotalIsFold == ASSUME NEW f PROVE Total(f) = (CHOOSE h : IsFold(f, h))[DOMAIN f]
  BY DEF Total, MapThenSumSet, MapThenFoldSet, IsFold

(* ... so it counts the units. *)
LEMMA TotalIsCount ==
    ASSUME NEW S, IsFiniteSet(S), NEW f \in [S -> Nat]
    PROVE  Total(f) = Cardinality(Units(f, S))
<1>1. IsFold(f, CHOOSE h : IsFold(f, h))
  BY CountIsFold
<1>2. DOMAIN f = S
  OBVIOUS
<1>. QED
  BY <1>1, <1>2, TotalIsFold, FoldIsCount

-----------------------------------------------------------------------------
(***************************************************************************)
(* Sums of naturals                                                        *)
(***************************************************************************)
(* A sum of naturals is one. *)
LEMMA TotalType ==
    ASSUME NEW S, IsFiniteSet(S), NEW f \in [S -> Nat]
    PROVE  Total(f) \in Nat
  BY TotalIsCount, UnitsFinite

(* A term can be taken out of a sum. *)
LEMMA TotalWithout ==
    ASSUME NEW S, IsFiniteSet(S), NEW f \in [S -> Nat], NEW x \in S
    PROVE  Total(f) = f[x] + Total([y \in S \ {x} |-> f[y]])
<1> DEFINE g == [y \in S \ {x} |-> f[y]]
<1>1. Total(f) = f[x] + Cardinality(Units(f, S \ {x}))
  BY TotalIsCount, UnitsWithout
<1>2. Units(f, S \ {x}) = Units(g, S \ {x})
  BY DEF Units
<1>3. IsFiniteSet(S \ {x}) /\ g \in [S \ {x} -> Nat]
  BY FS_Subset
<1>4. Total(g) = Cardinality(Units(g, S \ {x}))
  <2> HIDE DEF g
  <2>. QED
    BY <1>3, TotalIsCount
<1>. QED
  BY <1>1, <1>2, <1>4

(* Changing one term changes the sum by as much. *)
LEMMA TotalUpdate ==
    ASSUME NEW S, IsFiniteSet(S), NEW f \in [S -> Nat], NEW g \in [S -> Nat],
           NEW x \in S, \A y \in S \ {x} : g[y] = f[y]
    PROVE  Total(g) = Total(f) - f[x] + g[x]
<1> DEFINE r == [y \in S \ {x} |-> f[y]]
<1>1. r = [y \in S \ {x} |-> g[y]]
  OBVIOUS
<1>2. IsFiniteSet(S \ {x}) /\ r \in [S \ {x} -> Nat]
  BY FS_Subset
<1>3. Total(f) = f[x] + Total(r) /\ Total(g) = g[x] + Total(r)
  BY <1>1, TotalWithout
<1> HIDE DEF r
<1>4. Total(r) \in Nat /\ f[x] \in Nat /\ g[x] \in Nat
  BY <1>2, TotalType
<1>. QED
  BY <1>3, <1>4

(* Sums of larger terms are larger. *)
LEMMA TotalMonotone ==
    ASSUME NEW S, IsFiniteSet(S), NEW f \in [S -> Nat], NEW g \in [S -> Nat],
           \A x \in S : f[x] <= g[x]
    PROVE  Total(f) <= Total(g)
<1>1. Units(f, S) \subseteq Units(g, S)
  BY DEF Units
<1>. QED
  BY <1>1, TotalIsCount, UnitsFinite, FS_Subset

(* Nothing adds up to nothing. *)
LEMMA TotalZero ==
    ASSUME NEW S, IsFiniteSet(S), NEW f \in [S -> Nat], \A x \in S : f[x] = 0
    PROVE  Total(f) = 0
<1>1. Units(f, S) = {}
  BY DEF Units
<1>. QED
  BY <1>1, TotalIsCount, FS_EmptySet

(* A term is within the sum. *)
LEMMA TotalTerm ==
    ASSUME NEW S, IsFiniteSet(S), NEW f \in [S -> Nat], NEW x \in S
    PROVE  f[x] <= Total(f)
<1> DEFINE r == [y \in S \ {x} |-> f[y]]
<1>1. IsFiniteSet(S \ {x}) /\ r \in [S \ {x} -> Nat]
  BY FS_Subset
<1>2. Total(f) = f[x] + Total(r)
  BY TotalWithout
<1> HIDE DEF r
<1>3. Total(r) \in Nat
  BY <1>1, TotalType
<1>. QED
  BY <1>2, <1>3

(* The terms of a part of the set and those of the rest make up the sum. *)
LEMMA TotalSplit ==
    ASSUME NEW S, IsFiniteSet(S), NEW f \in [S -> Nat], NEW T \in SUBSET S
    PROVE  Total(f) = Total([x \in T |-> f[x]]) + Total([x \in S \ T |-> f[x]])
<1> DEFINE a == [x \in T |-> f[x]]
           b == [x \in S \ T |-> f[x]]
<1>1. IsFiniteSet(T) /\ IsFiniteSet(S \ T)
  BY FS_Subset
<1>2. a \in [T -> Nat] /\ b \in [S \ T -> Nat]
  OBVIOUS
<1>3. Units(a, T) = Units(f, T) /\ Units(b, S \ T) = Units(f, S \ T)
  BY DEF Units
<1>4. Units(f, S) = Units(f, T) \cup Units(f, S \ T)
  BY DEF Units
<1>5. Units(f, T) \cap Units(f, S \ T) = {}
  BY DEF Units
<1> HIDE DEF a, b
<1>6. Total(a) = Cardinality(Units(f, T)) /\ Total(b) = Cardinality(Units(f, S \ T))
  BY <1>1, <1>2, <1>3, TotalIsCount
<1>7. /\ IsFiniteSet(Units(f, T)) /\ Cardinality(Units(f, T)) \in Nat
      /\ IsFiniteSet(Units(f, S \ T)) /\ Cardinality(Units(f, S \ T)) \in Nat
  BY UnitsFinite
<1>8. Cardinality(Units(f, S)) = Cardinality(Units(f, T)) + Cardinality(Units(f, S \ T))
  <2>1. Cardinality(Units(f, T) \cup Units(f, S \ T))
          = Cardinality(Units(f, T)) + Cardinality(Units(f, S \ T)) - Cardinality({})
    BY <1>5, <1>7, FS_Union
  <2>2. Cardinality({}) = 0
    BY FS_EmptySet
  <2>. QED
    BY <1>4, <1>7, <2>1, <2>2
<1>. QED
  BY <1>6, <1>8, TotalIsCount DEF a, b

(* The sum of sums. *)
LEMMA TotalPlus ==
    ASSUME NEW S, IsFiniteSet(S), NEW f \in [S -> Nat], NEW g \in [S -> Nat],
           NEW h \in [S -> Nat], \A x \in S : h[x] = f[x] + g[x]
    PROVE  Total(h) = Total(f) + Total(g)
<1> DEFINE Of(k, T) == Cardinality(Units(k, T))
           G == {T \in SUBSET S : Of(h, T) = Of(f, T) + Of(g, T)}
<1>1. {} \in G
  <2>1. Units(f, {}) = {} /\ Units(g, {}) = {} /\ Units(h, {}) = {}
    BY DEF Units
  <2>2. Of(f, {}) = 0 /\ Of(g, {}) = 0 /\ Of(h, {}) = 0
    BY <2>1, FS_EmptySet
  <2> HIDE DEF Of
  <2>. QED
    BY <2>2
<1>2. ASSUME NEW T \in SUBSET S, NEW x \in S \ T, T \in G
      PROVE  T \cup {x} \in G
  <2>1. T \cup {x} \in SUBSET S /\ (T \cup {x}) \ {x} = T
    OBVIOUS
  <2>2. /\ Of(h, T \cup {x}) = h[x] + Of(h, T)
        /\ Of(f, T \cup {x}) = f[x] + Of(f, T)
        /\ Of(g, T \cup {x}) = g[x] + Of(g, T)
    BY <2>1, UnitsWithout
  <2>3. Of(h, T) \in Nat /\ Of(f, T) \in Nat /\ Of(g, T) \in Nat
    BY UnitsFinite
  <2>4. h[x] = f[x] + g[x] /\ f[x] \in Nat /\ g[x] \in Nat
    OBVIOUS
  <2>5. Of(h, T) = Of(f, T) + Of(g, T)
    BY <1>2
  <2> HIDE DEF Of
  <2>. QED
    BY <2>1, <2>2, <2>3, <2>4, <2>5
<1>3. S \in G
  <2> HIDE DEF G
  <2>. QED
    BY <1>1, <1>2, FiniteInduction
<1>. QED
  BY <1>3, TotalIsCount

(* The sum of multiples is the multiple of the sum. *)
LEMMA TotalScaled ==
    ASSUME NEW S, IsFiniteSet(S), NEW f \in [S -> Nat], NEW k \in Nat,
           NEW h \in [S -> Nat], \A x \in S : h[x] = k * f[x]
    PROVE  Total(h) = k * Total(f)
<1> DEFINE Of(e, T) == Cardinality(Units(e, T))
           G == {T \in SUBSET S : Of(h, T) = k * Of(f, T)}
<1>1. {} \in G
  <2>1. Units(f, {}) = {} /\ Units(h, {}) = {}
    BY DEF Units
  <2>2. Of(f, {}) = 0 /\ Of(h, {}) = 0
    BY <2>1, FS_EmptySet
  <2> HIDE DEF Of
  <2>. QED
    BY <2>2
<1>2. ASSUME NEW T \in SUBSET S, NEW x \in S \ T, T \in G
      PROVE  T \cup {x} \in G
  <2>1. T \cup {x} \in SUBSET S /\ (T \cup {x}) \ {x} = T
    OBVIOUS
  <2>2. /\ Of(h, T \cup {x}) = h[x] + Of(h, T)
        /\ Of(f, T \cup {x}) = f[x] + Of(f, T)
    BY <2>1, UnitsWithout
  <2>3. Of(h, T) \in Nat /\ Of(f, T) \in Nat
    BY UnitsFinite
  <2>4. h[x] = k * f[x] /\ f[x] \in Nat
    OBVIOUS
  <2>5. Of(h, T) = k * Of(f, T)
    BY <1>2
  <2> HIDE DEF Of
  <2>6. k * f[x] + k * Of(f, T) = k * (f[x] + Of(f, T))
    BY <2>3, <2>4
  <2>. QED
    BY <2>1, <2>2, <2>4, <2>5, <2>6, Zenon
<1>3. S \in G
  <2> HIDE DEF G
  <2>. QED
    BY <1>1, <1>2, FiniteInduction
<1>. QED
  BY <1>3, TotalIsCount

(* A finite set of naturals that is not empty has a largest element. *)
LEMMA MaxIsLargest ==
    ASSUME NEW S \in SUBSET Nat, IsFiniteSet(S), S # {}
    PROVE  Max(S) \in S /\ \A y \in S : Max(S) >= y
<1> DEFINE G == {T \in SUBSET S : T # {} => \E x \in T : \A y \in T : x >= y}
<1>1. {} \in G
  OBVIOUS
<1>2. ASSUME NEW T \in SUBSET S, NEW z \in S \ T, T \in G
      PROVE  T \cup {z} \in G
  <2>1. CASE T = {}
    BY <2>1
  <2>2. CASE T # {}
    <3>1. PICK x \in T : \A y \in T : x >= y
      BY <1>2, <2>2
    <3>2. x \in Nat /\ z \in Nat /\ T \subseteq Nat
      OBVIOUS
    <3>3. CASE x >= z
      BY <3>1, <3>3
    <3>4. CASE ~(x >= z)
      <4>1. z >= z /\ \A y \in T : z >= y
        BY <3>1, <3>2, <3>4, SMT
      <4> QED
        BY <4>1
    <3> QED
      BY <3>3, <3>4
  <2> QED
    BY <2>1, <2>2
<1>3. S \in G
  <2> HIDE DEF G
  <2> QED
    BY <1>1, <1>2, FiniteInduction
<1>4. \E x \in S : \A y \in S : x >= y
  BY <1>3
<1> QED
  BY <1>4 DEF Max

(* Terms outside a part of the set that are nothing do not count. *)
LEMMA TotalOfPart ==
    ASSUME NEW S, IsFiniteSet(S), NEW f \in [S -> Nat], NEW T \in SUBSET S,
           \A x \in S \ T : f[x] = 0
    PROVE  Total(f) = Total([x \in T |-> f[x]])
<1> DEFINE a == [x \in T |-> f[x]]
           b == [x \in S \ T |-> f[x]]
<1>1. IsFiniteSet(T) /\ IsFiniteSet(S \ T) /\ a \in [T -> Nat] /\ b \in [S \ T -> Nat]
  BY FS_Subset
<1>2. Total(f) = Total(a) + Total(b)
  BY TotalSplit
<1>3. \A x \in S \ T : b[x] = 0
  OBVIOUS
<1> HIDE DEF a, b
<1>4. Total(b) = 0 /\ Total(a) \in Nat
  BY <1>1, <1>3, TotalZero, TotalType
<1>5. Total(f) = Total(a)
  BY <1>2, <1>4, SMT
<1> QED
  BY <1>5 DEF a

(* The same amount for every element of a part of the set. *)
LEMMA TotalOfEqual ==
    ASSUME NEW S, IsFiniteSet(S), NEW T \in SUBSET S, NEW p \in Nat
    PROVE  Total([x \in S |-> IF x \in T THEN p ELSE 0]) = p * Cardinality(T)
<1> DEFINE h(V) == [x \in S |-> IF x \in V THEN p ELSE 0]
           G == {V \in SUBSET T : Total(h(V)) = p * Cardinality(V)}
<1>0. IsFiniteSet(T)
  BY FS_Subset
<1>1. {} \in G
  <2> DEFINE e == h({})
  <2>1. e \in [S -> Nat] /\ \A x \in S : e[x] = 0
    OBVIOUS
  <2> HIDE DEF e
  <2>2. Total(e) = 0
    BY <2>1, TotalZero
  <2>3. Cardinality({}) = 0
    BY FS_EmptySet
  <2>4. p * 0 = 0
    BY SMT
  <2> QED
    BY <2>2, <2>3, <2>4 DEF e
<1>2. ASSUME NEW V \in SUBSET T, NEW z \in T \ V, V \in G
      PROVE  V \cup {z} \in G
  <2> DEFINE a == h(V)
             b == h(V \cup {z})
  <2>1. /\ a \in [S -> Nat] /\ b \in [S -> Nat] /\ z \in S
        /\ \A x \in S \ {z} : b[x] = a[x]
        /\ a[z] = 0 /\ b[z] = p
    OBVIOUS
  <2>2. Total(a) = p * Cardinality(V)
    BY <1>2
  <2>3. IsFiniteSet(V) /\ Cardinality(V) \in Nat
    BY <1>0, FS_Subset, FS_CardinalityType
  <2>4. Cardinality(V \cup {z}) = Cardinality(V) + 1
    BY <2>3, FS_AddElement
  <2>5. V \cup {z} \in SUBSET T
    OBVIOUS
  <2> HIDE DEF a, b, h
  <2>6. Total(b) = Total(a) - a[z] + b[z]
    BY <2>1, TotalUpdate
  <2>7. Total(b) = Total(a) + p
    <3>1. Total(a) \in Nat
      BY <2>1, TotalType
    <3> QED
      BY <2>1, <2>6, <3>1, SMT
  <2>8. p * (Cardinality(V) + 1) = p * Cardinality(V) + p
    BY <2>3, SMT
  <2>9. Total(b) = p * Cardinality(V \cup {z})
    BY <2>2, <2>4, <2>7, <2>8
  <2> QED
    BY <2>5, <2>9 DEF b
<1>3. T \in G
  <2> HIDE DEF G
  <2> QED
    BY <1>0, <1>1, <1>2, FiniteInduction
<1> QED
  BY <1>3

(* Shares, rounded down, of an amount are together within it. *)
LEMMA SharesWithin ==
    ASSUME NEW S, IsFiniteSet(S), NEW f \in [S -> Nat], NEW b \in Nat, Total(f) > 0
    PROVE  /\ \A x \in S : (b * f[x]) \div Total(f) \in Nat
           /\ Total([x \in S |-> (b * f[x]) \div Total(f)]) <= b
<1>0. PICK V : V = Total(f)
  OBVIOUS
<1>1. V \in Nat \ {0}
  <2>1. Total(f) \in Nat
    BY TotalType
  <2> QED
    BY <1>0, <2>1, SMT
<1>2. ASSUME NEW x \in S
      PROVE  /\ b * f[x] \in Nat
             /\ (b * f[x]) \div V \in Nat
             /\ V * ((b * f[x]) \div V) \in Nat
             /\ V * ((b * f[x]) \div V) <= b * f[x]
  <2>1. b * f[x] \in Nat
    <3>1. f[x] \in Nat
      OBVIOUS
    <3> QED
      BY <3>1, SMT
  <2>2. PICK m \in Nat : m = b * f[x]
    BY <2>1
  <2>3. m \div V \in Nat /\ (m \div V) * V <= m
    BY <1>1, DivBounds
  <2>4. V * (m \div V) \in Nat /\ V * (m \div V) = (m \div V) * V
    BY <1>1, <2>3, SMT
  <2> QED
    BY <2>1, <2>2, <2>3, <2>4
<1> DEFINE h == [x \in S |-> (b * f[x]) \div V]
           k == [x \in S |-> V * h[x]]
           m == [x \in S |-> b * f[x]]
<1>3. /\ h \in [S -> Nat] /\ k \in [S -> Nat] /\ m \in [S -> Nat]
      /\ \A x \in S : k[x] = V * h[x]
      /\ \A x \in S : m[x] = b * f[x]
      /\ \A x \in S : k[x] <= m[x]
  BY <1>2
<1>4. Total(k) = V * Total(h) /\ Total(m) = b * V /\ Total(k) <= Total(m)
  <2> HIDE DEF h, k, m
  <2>1. Total(k) = V * Total(h)
    BY <1>1, <1>3, TotalScaled
  <2>2. Total(m) = b * Total(f)
    BY <1>3, TotalScaled
  <2>3. Total(k) <= Total(m)
    BY <1>3, TotalMonotone
  <2> QED
    BY <1>0, <2>1, <2>2, <2>3
<1>5. Total(h) \in Nat
  <2> HIDE DEF h, k, m
  <2> QED
    BY <1>3, TotalType
<1>6. Total(h) <= b
  <2> HIDE DEF h, k, m
  <2>1. Total(h) * V <= b * V
    BY <1>1, <1>4, <1>5, SMT
  <2> QED
    BY <1>1, <1>5, <2>1, FactorOut
<1> QED
  BY <1>0, <1>2, <1>6

(* The recursion has one solution. *)
LEMMA FoldsAgree ==
    ASSUME NEW S, IsFiniteSet(S), NEW f, DOMAIN f = S,
           NEW h, IsFold(f, h), NEW k, IsFold(f, k)
    PROVE  h[S] = k[S]
<1> DEFINE G == {T \in SUBSET S : h[T] = k[T]}
<1>1. ASSUME NEW T \in SUBSET S, \A U \in SUBSET T : U # T => U \in G
      PROVE  T \in G
  <2>1. CASE T = {}
    BY <2>1 DEF IsFold
  <2>2. CASE T # {}
    <3> DEFINE x == CHOOSE y \in T : TRUE
    <3>1. h[T] = f[x] + h[T \ {x}] /\ k[T] = f[x] + k[T \ {x}]
      BY <2>2 DEF IsFold
    <3>2. x \in T
      BY <2>2
    <3> HIDE DEF x
    <3>3. T \ {x} \in SUBSET T /\ T \ {x} # T
      BY <3>2
    <3>. QED
      BY <1>1, <3>1, <3>3
  <2>. QED
    BY <2>1, <2>2
<1>2. S \in G
  <2> HIDE DEF G
  <2>. QED
    BY <1>1, StrongInduction
<1>. QED
  BY <1>2

(* The sum of the negatives is the negative of the sum. *)
LEMMA TotalNegated ==
    ASSUME NEW S, IsFiniteSet(S), NEW g \in [S -> Nat], NEW f, DOMAIN f = S,
           \A x \in S : f[x] = 0 - g[x]
    PROVE  Total(f) = 0 - Total(g)
<1> DEFINE h == [s \in SUBSET S |-> 0 - Cardinality(Units(g, s))]
<1>1. ASSUME NEW s \in SUBSET S
      PROVE  h[s] = IF s = {} THEN 0
                    ELSE f[CHOOSE x \in s : TRUE] + h[s \ {CHOOSE x \in s : TRUE}]
  <2>1. CASE s = {}
    <3>1. Units(g, s) = {}
      BY <2>1 DEF Units
    <3>2. Cardinality(Units(g, s)) = 0 /\ 0 - 0 = 0
      BY <3>1, FS_EmptySet, SMT
    <3>. QED
      BY <2>1, <3>2
  <2>2. CASE s # {}
    <3> DEFINE x == CHOOSE x \in s : TRUE
               c == Cardinality(Units(g, s))
               d == Cardinality(Units(g, s \ {x}))
    <3>1. x \in s
      BY <2>2
    <3> HIDE DEF x
    <3>2. s \ {x} \in SUBSET S /\ x \in S
      BY <3>1
    <3>3. c = g[x] + d /\ c \in Nat /\ d \in Nat
      BY <3>1, <3>2, UnitsWithout, UnitsFinite
    <3>4. h[s] = 0 - c /\ h[s \ {x}] = 0 - d /\ f[x] = 0 - g[x] /\ g[x] \in Nat
      BY <3>2
    <3> HIDE DEF h, c, d
    <3>5. h[s] = f[x] + h[s \ {x}]
      BY <3>3, <3>4, SMT
    <3>. QED
      BY <2>2, <3>5 DEF x
  <2>. QED
    BY <2>1, <2>2
<1>2. IsFold(f, h)
  BY <1>1 DEF IsFold
<1>3. IsFold(f, CHOOSE k : IsFold(f, k))
  <2> HIDE DEF h
  <2>. QED
    BY <1>2, Zenon
<1>4. h[S] = 0 - Cardinality(Units(g, S))
  OBVIOUS
<1> HIDE DEF h
<1>5. (CHOOSE k : IsFold(f, k))[S] = h[S]
  BY <1>2, <1>3, FoldsAgree
<1>. QED
  BY <1>4, <1>5, TotalIsFold, TotalIsCount
=============================================================================
