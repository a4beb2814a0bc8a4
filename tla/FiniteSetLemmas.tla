-------------------------- MODULE FiniteSetLemmas --------------------------
(***************************************************************************)
(* Facts about finite sets that the proofs of this project share: the      *)
(* smallest and the largest of a set of numbers, and the sizes of sets     *)
(* that are put together from others.  A total over the members of a set   *)
(* is stated as the size of a family of sets, one for every member.        *)
(***************************************************************************)
EXTENDS Integers, FiniteSetTheorems, WellFoundedInduction, TLAPS

(* A non-empty set of natural numbers has a smallest element.              *)
LEMMA SmallestOfSet ==
    ASSUME NEW S \in SUBSET Nat, S # {}
    PROVE  \E x \in S : \A y \in S : x <= y
<1> DEFINE below(x) == {y \in S : y < x}
           T == {below(x) : x \in S}
<1>0. \A x \in S : x \in Nat
  OBVIOUS
<1>1. \A x \in S : below(x) \in FiniteSubsetsOf(Nat)
  <2> TAKE x \in S
  <2>1. x \in Nat
    BY <1>0
  <2>a. ASSUME NEW z \in below(x) PROVE z \in 0 .. x
    <3>1. z \in Nat /\ z < x
      BY <1>0
    <3> QED BY <2>1, <3>1
  <2>b. below(x) \subseteq 0 .. x
    BY <2>a
  <2>2. IsFiniteSet(0 .. x)
    BY <2>1, FS_Interval
  <2>3. IsFiniteSet(below(x))
    BY <2>b, <2>2, FS_Subset
  <2> QED BY <2>3 DEF FiniteSubsetsOf
<1>2. PICK x \in S : \A y \in S : <<below(y), below(x)>> \notin StrictSubsetOrdering(Nat)
  <2>1. T \subseteq FiniteSubsetsOf(Nat) /\ T # {}
    BY <1>1
  <2>2. \E B \in T : \A C \in T : <<C, B>> \notin StrictSubsetOrdering(Nat)
    <3> HIDE DEF T
    <3> QED BY <2>1, FS_StrictSubsetOrderingWellFounded, WFMin
  <2> QED BY <2>2
<1>3. \A y \in S : x <= y
  <2> SUFFICES ASSUME NEW y \in S, y < x PROVE FALSE
    BY <1>0
  <2>0. x \in Nat /\ y \in Nat
    BY <1>0
  <2>a. ASSUME NEW z \in below(y) PROVE z \in below(x)
    <3>1. z \in S /\ z \in Nat /\ z < y
      BY <1>0
    <3>2. z < x
      BY <2>0, <3>1
    <3> QED BY <3>1, <3>2
  <2>1. below(y) \subseteq below(x) /\ y \in below(x) /\ y \notin below(y)
    <3>1. below(y) \subseteq below(x)
      BY <2>a
    <3>2. y \in below(x)
      OBVIOUS
    <3>3. ~ (y < y)
      BY <2>0
    <3>4. y \notin below(y)
      BY <3>3
    <3> QED BY <3>1, <3>2, <3>4
  <2>2. <<below(y), below(x)>> \in StrictSubsetOrdering(Nat)
    <3> below(x) \in SUBSET Nat /\ below(y) \in SUBSET Nat
      OBVIOUS
    <3> HIDE DEF below
    <3> QED BY <2>1 DEF StrictSubsetOrdering
  <2> QED BY <2>2, <1>2
<1> QED BY <1>3

(* A non-empty set of numbers up to n has a largest element.               *)
LEMMA LargestOfSet ==
    ASSUME NEW n \in Nat, NEW S \in SUBSET (0 .. n), S # {}
    PROVE  \E x \in S : \A y \in S : x >= y
<1> DEFINE mirror == {n - s : s \in S}
<1>1. \A s \in S : s \in Nat /\ s <= n /\ n - s \in Nat
  OBVIOUS
<1>2. mirror \in SUBSET Nat /\ mirror # {}
  BY <1>1
<1>3. PICK m \in mirror : \A y \in mirror : m <= y
  <2> HIDE DEF mirror
  <2> QED BY <1>2, SmallestOfSet
<1>4. PICK x \in S : m = n - x
  BY <1>3
<1>5. ASSUME NEW y \in S PROVE x >= y
  <2>1. n - x <= n - y
    BY <1>3, <1>4
  <2>2. x \in Nat /\ y \in Nat
    BY <1>1
  <2> QED BY <2>1, <2>2
<1> QED BY <1>5

-----------------------------------------------------------------------------
(* Sizes of sets put together.                                             *)

(* Sets that share nothing add up.                                         *)
LEMMA DisjointUnion ==
    ASSUME NEW S, NEW T, IsFiniteSet(S), IsFiniteSet(T), S \cap T = {}
    PROVE  /\ IsFiniteSet(S \cup T)
           /\ Cardinality(S \cup T) = Cardinality(S) + Cardinality(T)
<1>1. Cardinality(S \cap T) = 0
  BY FS_EmptySet
<1>2. Cardinality(S) \in Nat /\ Cardinality(T) \in Nat
  BY FS_CardinalityType
<1>3. /\ IsFiniteSet(S \cup T)
      /\ Cardinality(S \cup T) = Cardinality(S) + Cardinality(T) - Cardinality(S \cap T)
  BY FS_Union
<1> QED
  BY <1>1, <1>2, <1>3

(* A set is as large as a part of it and the rest.                         *)
LEMMA PartAndRest ==
    ASSUME NEW S, IsFiniteSet(S), NEW T \in SUBSET S
    PROVE  /\ IsFiniteSet(T) /\ IsFiniteSet(S \ T)
           /\ Cardinality(T) \in Nat /\ Cardinality(S \ T) \in Nat
           /\ Cardinality(S) = Cardinality(S \ T) + Cardinality(T)
<1>1. IsFiniteSet(T) /\ IsFiniteSet(S \ T)
  BY FS_Subset, FS_Difference
<1>2. S = (S \ T) \cup T /\ (S \ T) \cap T = {}
  OBVIOUS
<1>3. Cardinality(S) = Cardinality(S \ T) + Cardinality(T)
  BY <1>1, <1>2, DisjointUnion
<1> QED
  BY <1>1, <1>3, FS_CardinalityType

(* A set without one of its members.                                       *)
LEMMA OneLess ==
    ASSUME NEW S, IsFiniteSet(S), NEW x \in S
    PROVE  /\ IsFiniteSet(S \ {x}) /\ Cardinality(S \ {x}) \in Nat
           /\ Cardinality(S) = Cardinality(S \ {x}) + 1
<1>1. IsFiniteSet(S \ {x}) /\ Cardinality(S \ {x}) = Cardinality(S) - 1
  BY FS_RemoveElement
<1>2. Cardinality(S) \in Nat /\ Cardinality(S \ {x}) \in Nat
  BY <1>1, FS_CardinalityType
<1> QED
  BY <1>1, <1>2

(* A set whose members another one names, each by one of its own, is as    *)
(* large as that one.                                                      *)
LEMMA MappedSet ==
    ASSUME NEW S, NEW T, NEW f \in [S -> T], IsFiniteSet(S),
           \A x, y \in S : f[x] = f[y] => x = y,
           \A t \in T : \E x \in S : f[x] = t
    PROVE  IsFiniteSet(T) /\ Cardinality(T) = Cardinality(S)
<1>1. IsInjective(f)
  BY DEF IsInjective
<1>2. f \in Injection(S, T) /\ f \in Surjection(S, T)
  BY <1>1 DEF Injection, Surjection
<1>3. ExistsBijection(S, T)
  BY <1>2 DEF Bijection, ExistsBijection
<1> QED
  BY <1>3, FS_Bijection

(* n segments, or n numbers, are n.                                        *)
LEMMA CountTo == ASSUME NEW n \in Nat PROVE IsFiniteSet(1..n) /\ Cardinality(1..n) = n
BY FS_Interval

(* The members of the sets f[a], each with its a.                          *)
Family(A, f) == UNION {{a} \X f[a] : a \in A}

IsFiniteFamily(A, f) == IsFiniteSet(A) /\ \A a \in A : IsFiniteSet(f[a])

(* A set is as large with a tag on every member.                           *)
LEMMA TaggedSet ==
    ASSUME NEW a, NEW S, IsFiniteSet(S)
    PROVE  IsFiniteSet({a} \X S) /\ Cardinality({a} \X S) = Cardinality(S)
<1>1. IsFiniteSet({a}) /\ Cardinality({a}) = 1
  BY FS_Singleton
<1>2. /\ IsFiniteSet({a} \X S)
      /\ Cardinality({a} \X S) = Cardinality({a}) * Cardinality(S)
  BY <1>1, FS_Product
<1>3. Cardinality(S) \in Nat
  BY FS_CardinalityType
<1> QED
  BY <1>1, <1>2, <1>3

(* A finite family is a finite set.                                        *)
LEMMA FamilyFinite ==
    ASSUME NEW A, NEW f, IsFiniteFamily(A, f)
    PROVE  IsFiniteSet(Family(A, f)) /\ Cardinality(Family(A, f)) \in Nat
<1> DEFINE tagged == [a \in A |-> {a} \X f[a]]
           parts == {tagged[a] : a \in A}
<1>1. \A a \in A : IsFiniteSet(tagged[a])
  BY TaggedSet DEF IsFiniteFamily
<1>0. \A T \in parts : IsFiniteSet(T)
  BY <1>1
<1>2. tagged \in Surjection(A, parts)
  BY DEF Surjection
<1>3. IsFiniteSet(parts)
  <2> HIDE DEF parts, tagged
  <2> QED
    BY <1>2, FS_Surjection DEF IsFiniteFamily
<1>4. Family(A, f) = UNION parts
  BY DEF Family
<1>5. IsFiniteSet(UNION parts)
  <2> HIDE DEF parts
  <2> QED
    BY <1>0, <1>3, FS_UNION
<1> QED
  BY <1>4, <1>5, FS_CardinalityType

(* A member more adds its set.                                             *)
LEMMA FamilyAdd ==
    ASSUME NEW A, NEW f, NEW a, a \notin A, IsFiniteFamily(A, f), IsFiniteSet(f[a])
    PROVE  /\ IsFiniteFamily(A \cup {a}, f)
           /\ Cardinality(Family(A \cup {a}, f)) = Cardinality(Family(A, f)) + Cardinality(f[a])
<1>1. Family(A \cup {a}, f) = Family(A, f) \cup ({a} \X f[a])
  BY DEF Family
<1>2. Family(A, f) \cap ({a} \X f[a]) = {}
  BY DEF Family
<1>3. IsFiniteSet(Family(A, f))
  BY FamilyFinite
<1>4. IsFiniteSet({a} \X f[a]) /\ Cardinality({a} \X f[a]) = Cardinality(f[a])
  BY TaggedSet
<1>5. IsFiniteFamily(A \cup {a}, f)
  BY FS_AddElement DEF IsFiniteFamily
<1> QED
  BY <1>1, <1>2, <1>3, <1>4, <1>5, DisjointUnion

(* A member less takes its set away.                                       *)
LEMMA FamilyRemove ==
    ASSUME NEW A, NEW f, NEW a \in A, IsFiniteFamily(A, f)
    PROVE  /\ IsFiniteFamily(A \ {a}, f)
           /\ Cardinality(Family(A, f)) = Cardinality(Family(A \ {a}, f)) + Cardinality(f[a])
<1> DEFINE rest == A \ {a}
<1>1. A = rest \cup {a} /\ a \notin rest
  OBVIOUS
<1>2. IsFiniteFamily(rest, f) /\ IsFiniteSet(f[a])
  <2>1. IsFiniteSet(rest)
    BY FS_Difference DEF IsFiniteFamily
  <2> QED
    BY <2>1 DEF IsFiniteFamily
<1>3. Cardinality(Family(rest \cup {a}, f)) = Cardinality(Family(rest, f)) + Cardinality(f[a])
  <2> HIDE DEF rest
  <2> QED
    BY <1>1, <1>2, FamilyAdd
<1> QED
  BY <1>1, <1>2, <1>3

(* Families with the same sets are the same.                               *)
LEMMA FamilySame ==
    ASSUME NEW A, NEW f, NEW g, \A a \in A : f[a] = g[a]
    PROVE  Family(A, f) = Family(A, g)
BY DEF Family

(* One set of a family is exchanged.                                       *)
LEMMA FamilyChange ==
    ASSUME NEW A, NEW f, NEW g, NEW a \in A,
           IsFiniteFamily(A, f), IsFiniteSet(g[a]),
           \A b \in A : b # a => g[b] = f[b]
    PROVE  /\ IsFiniteFamily(A, g)
           /\ Cardinality(Family(A, g)) + Cardinality(f[a])
                = Cardinality(Family(A, f)) + Cardinality(g[a])
<1> DEFINE rest == A \ {a}
<1>1. IsFiniteFamily(A, g)
  <2> SUFFICES ASSUME NEW b \in A PROVE IsFiniteSet(g[b])
    BY DEF IsFiniteFamily
  <2> QED
    BY DEF IsFiniteFamily
<1>2. /\ IsFiniteFamily(rest, f)
      /\ Cardinality(Family(A, f)) = Cardinality(Family(rest, f)) + Cardinality(f[a])
  BY FamilyRemove
<1>3. Cardinality(Family(A, g)) = Cardinality(Family(rest, g)) + Cardinality(g[a])
  BY <1>1, FamilyRemove
<1>4. Family(rest, f) = Family(rest, g)
  <2>1. \A b \in rest : f[b] = g[b]
    OBVIOUS
  <2> QED
    BY <2>1, FamilySame
<1>5. /\ Cardinality(Family(rest, f)) \in Nat
      /\ Cardinality(f[a]) \in Nat /\ Cardinality(g[a]) \in Nat
  BY <1>2, FamilyFinite, FS_CardinalityType DEF IsFiniteFamily
<1> QED
  BY <1>1, <1>2, <1>3, <1>4, <1>5

-----------------------------------------------------------------------------
(* A total of numbers, as a size: the number x weighs x + 1.               *)
UpTo == [x \in Nat |-> 0 .. x]
Weights(X) == Family(X, UpTo)

(* A finite set of numbers has a total.                                    *)
LEMMA WeightsFinite ==
    ASSUME NEW X \in SUBSET Nat, IsFiniteSet(X)
    PROVE  /\ IsFiniteFamily(X, UpTo)
           /\ IsFiniteSet(Weights(X)) /\ Cardinality(Weights(X)) \in Nat
<1>1. ASSUME NEW x \in X PROVE IsFiniteSet(UpTo[x])
  <2>1. x \in Int /\ UpTo[x] = 0 .. x
    BY DEF UpTo
  <2>2. IsFiniteSet(0 .. x)
    BY <2>1, FS_Interval
  <2> QED
    BY <2>1, <2>2
<1>2. IsFiniteFamily(X, UpTo)
  BY <1>1 DEF IsFiniteFamily
<1> QED
  BY <1>2, FamilyFinite DEF Weights

(* Totals of sets that share nothing add up.                               *)
LEMMA WeightsAdd ==
    ASSUME NEW X \in SUBSET Nat, NEW Y \in SUBSET Nat,
           IsFiniteSet(X), IsFiniteSet(Y), X \cap Y = {}
    PROVE  Cardinality(Weights(X \cup Y)) = Cardinality(Weights(X)) + Cardinality(Weights(Y))
<1>1. IsFiniteSet(Weights(X)) /\ IsFiniteSet(Weights(Y))
  BY WeightsFinite
<1>2. Weights(X \cup Y) = Weights(X) \cup Weights(Y)
  BY DEF Weights, Family
<1>3. Weights(X) \cap Weights(Y) = {}
  BY DEF Weights, Family
<1> QED
  BY <1>1, <1>2, <1>3, DisjointUnion

(* A set without one of the numbers weighs less.                           *)
LEMMA WeightsGrow ==
    ASSUME NEW Y \in SUBSET Nat, IsFiniteSet(Y), NEW X \in SUBSET Y, X # Y
    PROVE  Cardinality(Weights(X)) < Cardinality(Weights(Y))
<1>1. PICK y \in Y : y \notin X
  OBVIOUS
<1>2. IsFiniteSet(Weights(Y)) /\ IsFiniteSet(X)
  BY WeightsFinite, FS_Subset
<1>3. Weights(X) \subseteq Weights(Y)
  BY DEF Weights, Family
<1>4. <<y, 0>> \in Weights(Y) /\ <<y, 0>> \notin Weights(X)
  <2>1. y \in Nat /\ 0 \in UpTo[y]
    BY <1>1 DEF UpTo
  <2> QED
    BY <1>1, <2>1 DEF Weights, Family
<1>5. Weights(X) # Weights(Y)
  BY <1>4
<1>6. /\ Cardinality(Weights(Y)) \in Nat /\ Cardinality(Weights(X)) \in Nat
      /\ Cardinality(Weights(X)) <= Cardinality(Weights(Y))
      /\ Cardinality(Weights(X)) # Cardinality(Weights(Y))
  <2> DEFINE V == Weights(X)
             W == Weights(Y)
  <2>1. IsFiniteSet(W) /\ V \in SUBSET W /\ V # W
    BY <1>2, <1>3, <1>5
  <2> HIDE DEF V, W
  <2>2. IsFiniteSet(V) /\ Cardinality(V) <= Cardinality(W) /\ Cardinality(V) # Cardinality(W)
    BY <2>1, FS_Subset
  <2>3. Cardinality(V) \in Nat /\ Cardinality(W) \in Nat
    BY <2>1, <2>2, FS_CardinalityType
  <2> QED
    BY <2>2, <2>3 DEF V, W
<1> QED
  BY <1>6

(* The numbers below n: the pairs of them and their mirror image make up a *)
(* rectangle.                                                              *)
LEMMA WeightsBelow ==
    ASSUME NEW n \in Nat
    PROVE  2 * Cardinality(Weights(0 .. n - 1)) = n * (n + 1)
<1> DEFINE A == 0 .. n - 1
           B == 0 .. n
           P == {p \in A \X B : p[2] <= p[1]}
           Q == (A \X B) \ P
           mirror == [p \in P |-> <<n - 1 - p[1], n - p[2]>>]
<1>1. Weights(A) = P
  <2>1. \A x \in A : UpTo[x] = 0 .. x
    BY DEF UpTo
  <2>2. ASSUME NEW x \in A, NEW y \in 0 .. x PROVE <<x, y>> \in P
    BY <2>2
  <2>3. ASSUME NEW p \in P PROVE p[1] \in A /\ p[2] \in 0 .. p[1] /\ p = <<p[1], p[2]>>
    BY <2>3
  <2> HIDE DEF A, P
  <2>4. Weights(A) = UNION {{x} \X (0 .. x) : x \in A}
    BY <2>1 DEF Weights, Family
  <2>5. Weights(A) \subseteq P
    BY <2>2, <2>4
  <2>6. ASSUME NEW p \in P PROVE p \in Weights(A)
    <3>1. p \in {p[1]} \X (0 .. p[1])
      BY <2>3
    <3> QED
      BY <2>3, <2>4, <3>1
  <2> QED
    BY <2>5, <2>6
<1>2. /\ IsFiniteSet(A) /\ Cardinality(A) = n
      /\ IsFiniteSet(B) /\ Cardinality(B) = n + 1
  BY FS_Interval
<1>3. IsFiniteSet(A \X B) /\ Cardinality(A \X B) = n * (n + 1)
  <2> HIDE DEF A, B
  <2> QED
    BY <1>2, FS_Product
<1>4. /\ IsFiniteSet(P) /\ Cardinality(P) \in Nat /\ Cardinality(Q) \in Nat
      /\ Cardinality(A \X B) = Cardinality(Q) + Cardinality(P)
  <2> DEFINE R == A \X B
  <2>1. P \in SUBSET R /\ IsFiniteSet(R) /\ Q = R \ P
    BY <1>3
  <2> HIDE DEF P, R, Q
  <2> QED
    BY <2>1, PartAndRest DEF R
<1>5. ASSUME NEW p \in P
      PROVE  <<n - 1 - p[1], n - p[2]>> \in Q
  OBVIOUS
<1>6. mirror \in [P -> Q]
  BY <1>5
<1>7. ASSUME NEW p \in P, NEW q \in P, mirror[p] = mirror[q] PROVE p = q
  <2>1. n - 1 - p[1] = n - 1 - q[1] /\ n - p[2] = n - q[2]
    BY <1>7
  <2>2. p[1] = q[1] /\ p[2] = q[2]
    BY <2>1
  <2> QED
    BY <2>2
<1>8. ASSUME NEW q \in Q PROVE \E p \in P : mirror[p] = q
  <2> DEFINE p == <<n - 1 - q[1], n - q[2]>>
  <2>1. q[1] \in A /\ q[2] \in B /\ ~(q[2] <= q[1]) /\ q = <<q[1], q[2]>>
    OBVIOUS
  <2>2. p \in P
    BY <2>1
  <2>3. n - 1 - (n - 1 - q[1]) = q[1] /\ n - (n - q[2]) = q[2]
    BY <2>1
  <2>4. mirror[p] = q
    BY <2>1, <2>2, <2>3
  <2> QED
    BY <2>2, <2>4
<1>9. Cardinality(Q) = Cardinality(P)
  <2> HIDE DEF mirror, P, Q
  <2> QED
    BY <1>4, <1>6, <1>7, <1>8, MappedSet
<1> HIDE DEF A, B, P, Q
<1>10. 2 * Cardinality(P) = n * (n + 1)
  BY <1>3, <1>4, <1>9
<1> QED
  BY <1>1, <1>10 DEF A
=============================================================================
