-------------------------- MODULE ArithmeticTheorems --------------------------
(***************************************************************************)
(* Facts about numbers that the proofs of several components need:         *)
(* induction, least and greatest elements, products and quotients, and the *)
(* sums of module Functions.  The rules of induction are stated for sets   *)
(* here, not for predicates, so that the provers can use them: to show P   *)
(* for all numbers, take {n \in Nat : P}.                                  *)
(***************************************************************************)
EXTENDS Functions, FiniteSetTheorems, WellFoundedInduction, TLAPS

-----------------------------------------------------------------------------
(* Induction *)

\* A set of natural numbers that has 0 and every successor has all of them.
LEMMA Induction ==
    ASSUME NEW T \in SUBSET Nat, 0 \in T, \A n \in T : n + 1 \in T
    PROVE  \A n \in Nat : n \in T
<1> SUFFICES ASSUME Nat \ T # {} PROVE FALSE
  OBVIOUS
<1> DEFINE R == OpToRel(<, Nat)
<1>1. IsWellFoundedOn(R, Nat)
  BY NatLessThanWellFounded
<1>2. PICK n \in Nat \ T : \A m \in Nat \ T : <<m, n>> \notin R
  <2> HIDE DEF R
  <2> QED  BY <1>1, WFMin
<1>3. n \in Nat /\ n # 0 /\ n - 1 \in Nat
  <2>1. n \in Nat /\ n # 0
    BY <1>2
  <2>2. QED  BY <2>1
<1>4. <<n - 1, n>> \in R
  BY <1>2, <1>3 DEF OpToRel
<1>5. n - 1 \in T
  BY <1>2, <1>3, <1>4
<1>6. n - 1 + 1 \in T /\ n - 1 + 1 = n
  BY <1>3, <1>5
<1>7. QED  BY <1>2, <1>6

\* A family of subsets of a finite set that has the empty set, and with every
\* set those of one element more, has all of them.
LEMMA SubsetInduction ==
    ASSUME NEW S, IsFiniteSet(S), NEW F \in SUBSET SUBSET S, {} \in F,
           \A A \in F : \A x \in S \ A : A \cup {x} \in F
    PROVE  \A A \in SUBSET S : A \in F
<1> DEFINE T == {n \in Nat : \A A \in SUBSET S : Cardinality(A) = n => A \in F}
<1>1. \A A \in SUBSET S : IsFiniteSet(A) /\ Cardinality(A) \in Nat
  BY FS_Subset, FS_CardinalityType
<1>2. 0 \in T
  BY <1>1, FS_EmptySet
<1>3. ASSUME NEW n \in T PROVE n + 1 \in T
  <2>1. ASSUME NEW A \in SUBSET S, Cardinality(A) = n + 1 PROVE A \in F
    <3>1. PICK x \in A : TRUE
      BY <1>1, <2>1, FS_EmptySet
    <3>2. Cardinality(A \ {x}) = n
      BY <1>1, <2>1, FS_RemoveElement, SMTT(30)
    <3>3. A \ {x} \in F /\ x \in S \ (A \ {x}) /\ (A \ {x}) \cup {x} = A
      BY <3>2
    <3>4. QED  BY <3>3
  <2>2. QED  BY <2>1
<1>4. \A n \in Nat : n \in T
  <2> HIDE DEF T
  <2> QED  BY <1>2, <1>3, Induction DEF T
<1>5. QED  BY <1>1, <1>4

-----------------------------------------------------------------------------
(* Least and greatest elements *)

\* A set of natural numbers has a least element, if it has any.
LEMMA Least ==
    ASSUME NEW T \in SUBSET Nat, T # {}
    PROVE  \E n \in T : \A m \in T : n <= m
<1> DEFINE R == OpToRel(<, Nat)
<1>1. IsWellFoundedOn(R, Nat)
  BY NatLessThanWellFounded
<1>2. PICK n \in T : \A m \in T : <<m, n>> \notin R
  <2> HIDE DEF R
  <2> QED  BY <1>1, WFMin
<1>3. \A m \in T : ~(m < n)
  BY <1>2 DEF OpToRel
<1>4. QED  BY <1>3

\* It has a greatest one, if there is a bound.
LEMMA Greatest ==
    ASSUME NEW b \in Nat, NEW T \in SUBSET (0 .. b), T # {}
    PROVE  \E n \in T : \A m \in T : m <= n
<1> DEFINE D == {k \in 0 .. b : b - k \in T}
<1>1. D \in SUBSET Nat /\ D # {}
  <2>1. PICK m \in T : TRUE
    OBVIOUS
  <2>2. b - m \in 0 .. b /\ b - (b - m) = m
    BY <2>1
  <2> HIDE DEF D
  <2>3. b - m \in D
    <3>1. b - (b - m) \in T
      BY <2>1, <2>2
    <3>2. QED  BY <2>2, <3>1 DEF D
  <2>4. D \subseteq Nat
    BY DEF D
  <2>5. QED  BY <2>3, <2>4
<1>2. PICK k \in D : \A j \in D : k <= j
  <2> HIDE DEF D
  <2> QED  BY <1>1, Least
<1>3. ASSUME NEW m \in T PROVE m <= b - k
  <2>1. m \in 0 .. b /\ b - m \in 0 .. b /\ b - (b - m) = m
    OBVIOUS
  <2>2. k <= b - m
    BY <1>2, <2>1
  <2>3. k \in Int
    OBVIOUS
  <2>4. QED  BY <2>1, <2>2, <2>3
<1>4. QED  BY <1>3

-----------------------------------------------------------------------------
(* Products and quotients *)

\* A product with a natural number is distributive and monotonic.
LEMMA Products ==
    ASSUME NEW p \in Nat, NEW a \in Int, NEW b \in Int
    PROVE  /\ p * (a + 1) = p * a + p
           /\ p * (a + b) = p * a + p * b /\ p * a \in Int
           /\ a <= b => p * a <= p * b
OBVIOUS

\* A quotient and its remainder.
LEMMA Division ==
    ASSUME NEW p \in Nat, p > 0, NEW n \in Nat
    PROVE  \E q, r \in Int : n = p * q + r /\ n % p = r
<1> DEFINE q == n \div p
           r == n % p
<1>1. p \in Nat /\ p > 0 /\ q = n \div p /\ r = n % p /\ q \in Int /\ r \in Int
  OBVIOUS
<1> HIDE DEF q, r
<1>2. n = p * q + r
  BY <1>1, SMTT(30)
<1>3. QED  BY <1>1, <1>2

\* A quotient lies between what it rounds and one less.
LEMMA QuotientBounds ==
    ASSUME NEW p \in Nat, p > 0, NEW n \in Nat
    PROVE  /\ n \div p \in Nat
           /\ p * (n \div p) <= n /\ n < p * (n \div p) + p
<1> DEFINE q == n \div p
<1>1. q \in Nat /\ p * q <= n /\ n < p * (q + 1)
  BY Z3
<1> HIDE DEF q
<1>2. p * (q + 1) = p * q + p
  BY <1>1, Products
<1>3. QED  BY <1>1, <1>2 DEF q

-----------------------------------------------------------------------------
(* Sums *)

\* The element of a set that the sum takes out of it first.
First(A) == CHOOSE x \in A : TRUE

\* A table of the sums of f over the subsets of S of at most n elements.
Table(S, n) == {A \in SUBSET S : Cardinality(A) <= n}
SumsUp(f, g, D) ==
    g = [A \in D |-> IF A = {} THEN 0 ELSE f[First(A)] + g[A \ {First(A)}]]

\* Taking out the first element leaves a smaller set.
LEMMA FirstElement ==
    ASSUME NEW A, IsFiniteSet(A), A # {}
    PROVE  /\ First(A) \in A /\ IsFiniteSet(A \ {First(A)})
           /\ Cardinality(A) \in Nat \ {0}
           /\ Cardinality(A \ {First(A)}) = Cardinality(A) - 1
<1>1. First(A) \in A
  BY DEF First
<1> HIDE DEF First
<1>2. QED  BY <1>1, FS_RemoveElement, FS_CardinalityType, FS_EmptySet

\* The recursion that defines a sum has a solution ...
LEMMA SumsExist ==
    ASSUME NEW S, IsFiniteSet(S), NEW f
    PROVE  \E g : SumsUp(f, g, SUBSET S)
<1> DEFINE T == {n \in Nat : \E g : SumsUp(f, g, Table(S, n))}
<1>1. \A A \in SUBSET S : IsFiniteSet(A) /\ Cardinality(A) \in Nat
  BY FS_Subset, FS_CardinalityType
<1>2. 0 \in T
  <2>1. \A A \in Table(S, 0) : A = {}
    BY <1>1, FS_EmptySet DEF Table
  <2>2. SumsUp(f, [A \in Table(S, 0) |-> 0], Table(S, 0))
    BY <2>1 DEF SumsUp
  <2>3. QED  BY <2>2
<1>3. ASSUME NEW n \in T PROVE n + 1 \in T
  <2>1. PICK g : SumsUp(f, g, Table(S, n))
    OBVIOUS
  <2> DEFINE D == Table(S, n + 1)
             h == [A \in D |-> IF A = {} THEN 0 ELSE f[First(A)] + g[A \ {First(A)}]]
  <2>2. ASSUME NEW A \in D, A # {}
        PROVE  h[A \ {First(A)}] = g[A \ {First(A)}]
    <3> DEFINE B == A \ {First(A)}
    <3>1. B \in SUBSET S /\ Cardinality(B) \in Nat /\ Cardinality(B) <= n
      BY <1>1, <2>2, FirstElement DEF Table
    <3>2. B \in Table(S, n) /\ B \in D
      BY <3>1 DEF Table
    <3> HIDE DEF B, D
    <3>3. g[B] = IF B = {} THEN 0 ELSE f[First(B)] + g[B \ {First(B)}]
      BY <2>1, <3>2 DEF SumsUp
    <3>4. h[B] = IF B = {} THEN 0 ELSE f[First(B)] + g[B \ {First(B)}]
      BY <3>2
    <3>5. QED  BY <3>3, <3>4 DEF B
  <2>3. SumsUp(f, h, D)
    <3> HIDE DEF D
    <3>1. h = [A \in D |-> IF A = {} THEN 0 ELSE f[First(A)] + h[A \ {First(A)}]]
      BY <2>2
    <3> HIDE DEF h
    <3>2. QED  BY <3>1 DEF SumsUp
  <2>4. QED  BY <2>3
<1>4. \A n \in Nat : n \in T
  <2> HIDE DEF T
  <2> QED  BY <1>2, <1>3, Induction DEF T
<1>5. Table(S, Cardinality(S)) = SUBSET S
  BY FS_Subset, <1>1 DEF Table
<1>6. Cardinality(S) \in T
  BY <1>1, <1>4
<1>7. QED  BY <1>5, <1>6

\* ... and one only, whatever else it is defined on.
LEMMA SumsAgree ==
    ASSUME NEW S, IsFiniteSet(S), NEW U, NEW f, NEW g, NEW h, SUBSET S \subseteq U,
           SumsUp(f, g, SUBSET S), SumsUp(f, h, U)
    PROVE  g[S] = h[S]
<1> DEFINE T == {n \in Nat : \A A \in SUBSET S : Cardinality(A) = n => g[A] = h[A]}
<1>1. \A A \in SUBSET S : IsFiniteSet(A) /\ Cardinality(A) \in Nat
  BY FS_Subset, FS_CardinalityType
<1>2. ASSUME NEW A \in SUBSET S
      PROVE  /\ g[A] = IF A = {} THEN 0 ELSE f[First(A)] + g[A \ {First(A)}]
             /\ h[A] = IF A = {} THEN 0 ELSE f[First(A)] + h[A \ {First(A)}]
  BY DEF SumsUp
<1>3. 0 \in T
  BY <1>1, <1>2, FS_EmptySet
<1>4. ASSUME NEW n \in T PROVE n + 1 \in T
  <2>1. ASSUME NEW A \in SUBSET S, Cardinality(A) = n + 1 PROVE g[A] = h[A]
    <3>1. IsFiniteSet(A) /\ A # {}
      BY <1>1, <2>1, FS_EmptySet
    <3>2. Cardinality(A \ {First(A)}) = n /\ A \ {First(A)} \in SUBSET S
      BY <2>1, <3>1, FirstElement
    <3>3. g[A \ {First(A)}] = h[A \ {First(A)}]
      BY <3>2
    <3>4. QED  BY <1>2, <3>1, <3>3
  <2>2. QED  BY <2>1
<1>5. \A n \in Nat : n \in T
  <2> HIDE DEF T
  <2> QED  BY <1>3, <1>4, Induction DEF T
<1>6. QED  BY <1>1, <1>5

\* A sum is the solution of its recursion.
LEMMA SumDefined ==
    ASSUME NEW S, IsFiniteSet(S), NEW f
    PROVE  \E g : SumsUp(f, g, SUBSET S) /\ SumFunctionOnSet(f, S) = g[S]
<1> DEFINE g == CHOOSE g : SumsUp(f, g, SUBSET S)
<1>1. SumsUp(f, g, SUBSET S)
  BY SumsExist
<1>2. SumFunctionOnSet(f, S) = g[S]
  BY DEF SumFunctionOnSet, FoldFunctionOnSet, MapThenFoldSet, SumsUp, First
<1>3. QED  BY <1>1, <1>2

\* The sum over no element.
LEMMA SumEmpty == \A f : SumFunctionOnSet(f, {}) = 0
<1> SUFFICES ASSUME NEW f PROVE SumFunctionOnSet(f, {}) = 0
  OBVIOUS
<1>1. PICK g : SumsUp(f, g, SUBSET {}) /\ SumFunctionOnSet(f, {}) = g[{}]
  BY FS_EmptySet, SumDefined
<1>2. QED  BY <1>1 DEF SumsUp

\* The sum takes out the first element.
LEMMA SumFirst ==
    ASSUME NEW S, IsFiniteSet(S), S # {}, NEW f
    PROVE  SumFunctionOnSet(f, S)
             = f[First(S)] + SumFunctionOnSet(f, S \ {First(S)})
<1> DEFINE R == S \ {First(S)}
<1>1. First(S) \in S /\ IsFiniteSet(R) /\ SUBSET R \subseteq SUBSET S
  BY FirstElement
<1>2. PICK g : SumsUp(f, g, SUBSET S) /\ SumFunctionOnSet(f, S) = g[S]
  BY SumDefined
<1>3. PICK h : SumsUp(f, h, SUBSET R) /\ SumFunctionOnSet(f, R) = h[R]
  BY <1>1, SumDefined
<1>4. h[R] = g[R]
  <2> HIDE DEF R
  <2> QED  BY <1>1, <1>2, <1>3, SumsAgree
<1>5. g[S] = f[First(S)] + g[R]
  BY <1>2 DEF SumsUp
<1>6. QED  BY <1>2, <1>3, <1>4, <1>5

\* Sums of integers are integers, and any element may be taken out of them.
LEMMA SumInt ==
    ASSUME NEW S, IsFiniteSet(S), NEW f, \A x \in S : f[x] \in Int
    PROVE  SumFunctionOnSet(f, S) \in Int
<1> DEFINE T == {n \in Nat : \A A \in SUBSET S :
                   Cardinality(A) = n => SumFunctionOnSet(f, A) \in Int}
<1>1. \A A \in SUBSET S : IsFiniteSet(A) /\ Cardinality(A) \in Nat
  BY FS_Subset, FS_CardinalityType
<1>2. 0 \in T
  BY <1>1, SumEmpty, FS_EmptySet
<1>3. ASSUME NEW n \in T PROVE n + 1 \in T
  <2>1. ASSUME NEW A \in SUBSET S, Cardinality(A) = n + 1
        PROVE  SumFunctionOnSet(f, A) \in Int
    <3>1. IsFiniteSet(A) /\ A # {}
      BY <1>1, <2>1, FS_EmptySet
    <3>2. First(A) \in A /\ Cardinality(A \ {First(A)}) = Cardinality(A) - 1
      BY <3>1, FirstElement
    <3>3. Cardinality(A \ {First(A)}) = n
      BY <2>1, <3>2
    <3>4. f[First(A)] \in Int /\ SumFunctionOnSet(f, A \ {First(A)}) \in Int
      BY <3>2, <3>3
    <3>5. SumFunctionOnSet(f, A) = f[First(A)] + SumFunctionOnSet(f, A \ {First(A)})
      BY <3>1, SumFirst
    <3>6. QED  BY <3>4, <3>5
  <2>2. QED  BY <2>1
<1>4. \A n \in Nat : n \in T
  <2> HIDE DEF T
  <2> QED  BY <1>2, <1>3, Induction DEF T
<1>5. QED  BY <1>1, <1>4

LEMMA SumRemove ==
    ASSUME NEW S, IsFiniteSet(S), NEW f, \A x \in S : f[x] \in Int, NEW y \in S
    PROVE  SumFunctionOnSet(f, S) = f[y] + SumFunctionOnSet(f, S \ {y})
<1> DEFINE T == {n \in Nat : \A A \in SUBSET S : \A x \in A : Cardinality(A) = n =>
                   SumFunctionOnSet(f, A) = f[x] + SumFunctionOnSet(f, A \ {x})}
<1>1. \A A \in SUBSET S : /\ IsFiniteSet(A) /\ Cardinality(A) \in Nat
                         /\ SumFunctionOnSet(f, A) \in Int
  <2>1. ASSUME NEW A \in SUBSET S PROVE IsFiniteSet(A)
    BY FS_Subset
  <2>2. QED  BY <2>1, FS_CardinalityType, SumInt
<1>2. 0 \in T
  BY <1>1, FS_EmptySet
<1>3. ASSUME NEW n \in T PROVE n + 1 \in T
  <2>1. ASSUME NEW A \in SUBSET S, NEW x \in A, Cardinality(A) = n + 1
        PROVE  SumFunctionOnSet(f, A) = f[x] + SumFunctionOnSet(f, A \ {x})
    <3> DEFINE c == First(A)
    <3>1. IsFiniteSet(A) /\ A # {}
      BY <1>1
    <3>2. /\ c \in A /\ Cardinality(A \ {c}) = n
          /\ SumFunctionOnSet(f, A) = f[c] + SumFunctionOnSet(f, A \ {c})
      <4>1. c \in A /\ Cardinality(A \ {c}) = Cardinality(A) - 1
        BY <3>1, FirstElement
      <4>2. SumFunctionOnSet(f, A) = f[c] + SumFunctionOnSet(f, A \ {c})
        BY <3>1, SumFirst
      <4>3. QED  BY <2>1, <4>1, <4>2
    <3> HIDE DEF c
    <3>3. CASE x = c
      BY <3>2, <3>3
    <3>4. CASE x # c
      <4>1. x \in A \ {c} /\ c \in A \ {x} /\ A \ {c} \in SUBSET S /\ A \ {x} \in SUBSET S
        BY <3>2, <3>4
      <4>2. Cardinality(A \ {x}) = n
        <5>1. Cardinality(A \ {x}) = Cardinality(A) - 1
          BY <3>1, FS_RemoveElement
        <5>2. QED  BY <2>1, <5>1
      <4>3. /\ SumFunctionOnSet(f, A \ {c})
                 = f[x] + SumFunctionOnSet(f, (A \ {c}) \ {x})
            /\ SumFunctionOnSet(f, A \ {x})
                 = f[c] + SumFunctionOnSet(f, (A \ {x}) \ {c})
        BY <3>2, <4>1, <4>2
      <4>4. (A \ {c}) \ {x} = (A \ {x}) \ {c}
        OBVIOUS
      <4>5. /\ f[x] \in Int /\ f[c] \in Int
            /\ SumFunctionOnSet(f, (A \ {x}) \ {c}) \in Int
        BY <1>1, <3>2
      <4> DEFINE X == SumFunctionOnSet(f, (A \ {x}) \ {c})
      <4>6. /\ SumFunctionOnSet(f, A) = f[c] + (f[x] + X)
            /\ SumFunctionOnSet(f, A \ {x}) = f[c] + X
        BY <3>2, <4>3, <4>4
      <4>7. X \in Int
        BY <4>5
      <4> HIDE DEF X
      <4>8. f[c] + (f[x] + X) = f[x] + (f[c] + X)
        BY <4>5, <4>7
      <4>9. QED  BY <4>6, <4>8
    <3>5. QED  BY <3>3, <3>4
  <2>2. QED  BY <2>1
<1>4. \A n \in Nat : n \in T
  <2> HIDE DEF T
  <2> QED  BY <1>2, <1>3, Induction DEF T
<1>5. Cardinality(S) \in Nat /\ S \in SUBSET S
  BY FS_CardinalityType
<1>6. QED  BY <1>4, <1>5

\* An element is added to the set.
LEMMA SumInsert ==
    ASSUME NEW S, IsFiniteSet(S), NEW f, NEW y, y \notin S,
           \A x \in S \cup {y} : f[x] \in Int
    PROVE  SumFunctionOnSet(f, S \cup {y}) = f[y] + SumFunctionOnSet(f, S)
<1>1. IsFiniteSet(S \cup {y}) /\ y \in S \cup {y} /\ (S \cup {y}) \ {y} = S
  BY FS_AddElement
<1>2. QED  BY <1>1, SumRemove

\* Sums are monotonic: in particular they depend on the values in the set only.
LEMMA SumMonotonic ==
    ASSUME NEW S, IsFiniteSet(S), NEW f, NEW g,
           \A x \in S : f[x] \in Int /\ g[x] \in Int /\ f[x] <= g[x]
    PROVE  SumFunctionOnSet(f, S) <= SumFunctionOnSet(g, S)
<1> DEFINE F == {A \in SUBSET S : SumFunctionOnSet(f, A) <= SumFunctionOnSet(g, A)}
<1>1. {} \in F
  BY SumEmpty
<1>2. ASSUME NEW A \in F, NEW x \in S \ A PROVE A \cup {x} \in F
  <2>1. IsFiniteSet(A) /\ A \in SUBSET S
    BY FS_Subset
  <2>2. SumFunctionOnSet(f, A) \in Int /\ SumFunctionOnSet(g, A) \in Int
    BY <2>1, SumInt
  <2>3. /\ SumFunctionOnSet(f, A \cup {x}) = f[x] + SumFunctionOnSet(f, A)
        /\ SumFunctionOnSet(g, A \cup {x}) = g[x] + SumFunctionOnSet(g, A)
    BY <2>1, SumInsert
  <2>4. SumFunctionOnSet(f, A) <= SumFunctionOnSet(g, A)
    OBVIOUS
  <2>5. SumFunctionOnSet(f, A \cup {x}) <= SumFunctionOnSet(g, A \cup {x})
    BY <2>2, <2>3, <2>4
  <2>6. QED  BY <2>5
<1>3. S \in F
  <2> HIDE DEF F
  <2> QED  BY <1>1, <1>2, SubsetInduction DEF F
<1>4. QED  BY <1>3

LEMMA SumSame ==
    ASSUME NEW S, IsFiniteSet(S), NEW f, NEW g,
           \A x \in S : f[x] \in Int /\ g[x] = f[x]
    PROVE  SumFunctionOnSet(f, S) = SumFunctionOnSet(g, S)
<1>1. /\ SumFunctionOnSet(f, S) <= SumFunctionOnSet(g, S)
      /\ SumFunctionOnSet(g, S) <= SumFunctionOnSet(f, S)
  BY SumMonotonic
<1>2. SumFunctionOnSet(f, S) \in Int /\ SumFunctionOnSet(g, S) \in Int
  BY SumInt
<1>3. QED  BY <1>1, <1>2

\* Sums of natural numbers are natural numbers, and grow with the set.
LEMMA SumNat ==
    ASSUME NEW S, IsFiniteSet(S), NEW f, \A x \in S : f[x] \in Nat
    PROVE  /\ SumFunctionOnSet(f, S) \in Nat
           /\ \A A \in SUBSET S : SumFunctionOnSet(f, A) <= SumFunctionOnSet(f, S)
<1> DEFINE F == {A \in SUBSET S : SumFunctionOnSet(f, A) \in Nat}
<1>1. {} \in F
  BY SumEmpty
<1>2. ASSUME NEW A \in F, NEW x \in S \ A PROVE A \cup {x} \in F
  <2>1. IsFiniteSet(A) /\ A \in SUBSET S
    BY FS_Subset
  <2>2. x \notin A /\ \A y \in A \cup {x} : f[y] \in Int
    BY <2>1
  <2>3. SumFunctionOnSet(f, A \cup {x}) = f[x] + SumFunctionOnSet(f, A)
    BY <2>1, <2>2, SumInsert
  <2>4. QED  BY <2>3
<1>3. \A A \in SUBSET S : A \in F
  <2> HIDE DEF F
  <2> QED  BY <1>1, <1>2, SubsetInduction DEF F
<1>4. ASSUME NEW A \in SUBSET S
      PROVE  SumFunctionOnSet(f, A) <= SumFunctionOnSet(f, S)
  <2> DEFINE G == {B \in SUBSET (S \ A) :
                     SumFunctionOnSet(f, A) <= SumFunctionOnSet(f, A \cup B)}
  <2>1. {} \in G
    <3>1. A \cup {} = A /\ SumFunctionOnSet(f, A) \in Nat
      BY <1>3
    <3>2. QED  BY <3>1
  <2>2. ASSUME NEW B \in G, NEW x \in (S \ A) \ B PROVE B \cup {x} \in G
    <3>1. IsFiniteSet(A \cup B) /\ A \cup B \in SUBSET S /\ x \notin A \cup B
      BY FS_Subset
    <3>2. SumFunctionOnSet(f, (A \cup B) \cup {x}) = f[x] + SumFunctionOnSet(f, A \cup B)
      <4> DEFINE C == A \cup B
      <4>1. \A y \in C \cup {x} : f[y] \in Int
        BY <3>1
      <4> HIDE DEF C
      <4>2. QED  BY <3>1, <4>1, SumInsert DEF C
    <3>3. A \cup (B \cup {x}) = (A \cup B) \cup {x} /\ f[x] \in Nat
      OBVIOUS
    <3>4. /\ SumFunctionOnSet(f, A \cup B) \in Nat /\ SumFunctionOnSet(f, A) \in Nat
          /\ SumFunctionOnSet(f, A) <= SumFunctionOnSet(f, A \cup B)
      BY <1>3, <3>1
    <3>5. SumFunctionOnSet(f, A) <= f[x] + SumFunctionOnSet(f, A \cup B)
      BY <3>3, <3>4
    <3>6. B \cup {x} \in SUBSET (S \ A)
      OBVIOUS
    <3>7. QED  BY <3>2, <3>3, <3>5, <3>6
  <2>3. S \ A \in G
    <3>1. IsFiniteSet(S \ A)
      BY FS_Subset
    <3>2. G \in SUBSET SUBSET (S \ A)
      OBVIOUS
    <3> DEFINE D == S \ A
    <3>3. /\ G \in SUBSET SUBSET D /\ IsFiniteSet(D)
          /\ \A B \in G : \A x \in D \ B : B \cup {x} \in G
      BY <2>2, <3>1, <3>2
    <3> HIDE DEF G, D
    <3>4. D \in G
      BY <2>1, <3>3, SubsetInduction
    <3>5. QED  BY <3>4 DEF D
  <2>4. A \cup (S \ A) = S
    OBVIOUS
  <2>5. QED  BY <2>3, <2>4
<1>5. QED  BY <1>3, <1>4

\* One value changes by k, and so does the sum.
LEMMA SumChange ==
    ASSUME NEW S, IsFiniteSet(S), NEW f, NEW g, NEW y \in S, NEW k \in Int,
           \A x \in S : f[x] \in Int /\ g[x] = IF x = y THEN f[x] + k ELSE f[x]
    PROVE  SumFunctionOnSet(g, S) = SumFunctionOnSet(f, S) + k
<1>1. IsFiniteSet(S \ {y})
  BY FS_Subset
<1>2. SumFunctionOnSet(f, S \ {y}) = SumFunctionOnSet(g, S \ {y})
  BY <1>1, SumSame
<1>3. SumFunctionOnSet(f, S \ {y}) \in Int
  BY <1>1, SumInt
<1>4. /\ SumFunctionOnSet(f, S) = f[y] + SumFunctionOnSet(f, S \ {y})
      /\ SumFunctionOnSet(g, S) = g[y] + SumFunctionOnSet(g, S \ {y})
  BY SumRemove
<1>5. f[y] \in Int /\ g[y] = f[y] + k
  OBVIOUS
<1>6. QED  BY <1>2, <1>3, <1>4, <1>5

\* A common factor may be taken out of a sum.
LEMMA SumScaled ==
    ASSUME NEW S, IsFiniteSet(S), NEW f, NEW k \in Nat, \A x \in S : f[x] \in Int,
           NEW g, \A x \in S : g[x] = k * f[x]
    PROVE  SumFunctionOnSet(g, S) = k * SumFunctionOnSet(f, S)
<1> DEFINE F == {A \in SUBSET S : SumFunctionOnSet(g, A) = k * SumFunctionOnSet(f, A)}
<1>1. {} \in F
  BY SumEmpty
<1>2. ASSUME NEW A \in F, NEW x \in S \ A PROVE A \cup {x} \in F
  <2>1. IsFiniteSet(A) /\ A \in SUBSET S /\ x \notin A /\ x \in S
    BY FS_Subset
  <2>2. \A y \in A \cup {x} : f[y] \in Int /\ g[y] \in Int
    <3>1. ASSUME NEW y \in S PROVE f[y] \in Int /\ g[y] \in Int
      BY Products
    <3>2. QED  BY <2>1, <3>1
  <2>3. SumFunctionOnSet(f, A) \in Int
    BY <2>1, SumInt
  <2>4. /\ SumFunctionOnSet(f, A \cup {x}) = f[x] + SumFunctionOnSet(f, A)
        /\ SumFunctionOnSet(g, A \cup {x}) = g[x] + SumFunctionOnSet(g, A)
    BY <2>1, <2>2, SumInsert
  <2> DEFINE a == f[x]
             b == SumFunctionOnSet(f, A)
  <2>5. a \in Int /\ b \in Int /\ g[x] = k * a /\ SumFunctionOnSet(g, A) = k * b
    BY <2>3
  <2> HIDE DEF a, b
  <2>6. k * (a + b) = k * a + k * b
    BY <2>5, Products
  <2>7. SumFunctionOnSet(g, A \cup {x}) = k * SumFunctionOnSet(f, A \cup {x})
    BY <2>4, <2>5, <2>6 DEF a, b
  <2>8. QED  BY <2>1, <2>7
<1>3. S \in F
  <2>1. F \in SUBSET SUBSET S
    OBVIOUS
  <2> HIDE DEF F
  <2>2. QED  BY <1>1, <1>2, <2>1, SubsetInduction
<1>4. QED  BY <1>3

-----------------------------------------------------------------------------
(* Running totals *)

\* g has the totals of f[1], f[1] + f[2] and so on, up to the n-th.
RunningTotals(f, g, n) ==
    g = [i \in 0 .. n |-> IF i = 0 THEN 0 ELSE g[i - 1] + f[i]]

\* The recursion that defines the totals has a solution.
LEMMA TotalsExist ==
    ASSUME NEW f, NEW n \in Nat
    PROVE  \E g : RunningTotals(f, g, n)
<1> DEFINE T == {k \in Nat : \E g : RunningTotals(f, g, k)}
<1>1. 0 \in T
  <2>1. RunningTotals(f, [i \in 0 .. 0 |-> 0], 0)
    BY DEF RunningTotals
  <2>2. QED  BY <2>1
<1>2. ASSUME NEW k \in T PROVE k + 1 \in T
  <2>1. PICK g : RunningTotals(f, g, k)
    OBVIOUS
  <2> DEFINE h == [i \in 0 .. k + 1 |-> IF i = 0 THEN 0 ELSE g[i - 1] + f[i]]
  <2>2. ASSUME NEW i \in 0 .. k + 1, i # 0 PROVE h[i - 1] = g[i - 1]
    <3>1. i - 1 \in 0 .. k /\ i - 1 \in 0 .. k + 1
      BY <2>2
    <3> DEFINE j == i - 1
    <3>2. j \in 0 .. k /\ j \in 0 .. k + 1
      BY <3>1
    <3> HIDE DEF j
    <3>3. g[j] = IF j = 0 THEN 0 ELSE g[j - 1] + f[j]
      BY <2>1, <3>2 DEF RunningTotals
    <3>4. h[j] = IF j = 0 THEN 0 ELSE g[j - 1] + f[j]
      BY <3>2
    <3>5. QED  BY <3>3, <3>4 DEF j
  <2>3. h = [i \in 0 .. k + 1 |-> IF i = 0 THEN 0 ELSE h[i - 1] + f[i]]
    BY <2>2
  <2> HIDE DEF h
  <2>4. QED  BY <2>3 DEF RunningTotals
<1>3. \A k \in Nat : k \in T
  <2> HIDE DEF T
  <2> QED  BY <1>1, <1>2, Induction DEF T
<1>4. QED  BY <1>3

\* Totals of natural numbers are natural numbers and never decrease.
LEMMA TotalsMonotonic ==
    ASSUME NEW f, NEW g, NEW n \in Nat, RunningTotals(f, g, n),
           \A i \in 1 .. n : f[i] \in Nat
    PROVE  /\ g[0] = 0 /\ \A i \in 1 .. n : g[i] = g[i - 1] + f[i]
           /\ \A i \in 0 .. n : g[i] \in Nat
           /\ \A i, j \in 0 .. n : i <= j => g[i] <= g[j]
<1>1. g[0] = 0 /\ \A i \in 1 .. n : g[i] = g[i - 1] + f[i]
  <2>1. ASSUME NEW i \in 0 .. n PROVE g[i] = IF i = 0 THEN 0 ELSE g[i - 1] + f[i]
    BY DEF RunningTotals
  <2>2. 0 \in 0 .. n /\ \A i \in 1 .. n : i \in 0 .. n /\ i # 0
    OBVIOUS
  <2>3. QED  BY <2>1, <2>2
<1> DEFINE T == {k \in Nat : k <= n => /\ \A i \in 0 .. k : g[i] \in Nat
                                      /\ \A i \in 0 .. k : g[i] <= g[k]}
<1>2. 0 \in T
  BY <1>1
<1>3. ASSUME NEW k \in T PROVE k + 1 \in T
  <2>1. ASSUME k + 1 <= n
        PROVE  \A i \in 0 .. k + 1 : g[i] \in Nat /\ g[i] <= g[k + 1]
    <3>1. k \in Nat /\ k + 1 \in 1 .. n /\ k + 1 - 1 = k
      BY <2>1
    <3>2. g[k] \in Nat /\ \A i \in 0 .. k : g[i] \in Nat /\ g[i] <= g[k]
      BY <2>1, <3>1
    <3>3. g[k + 1] = g[k] + f[k + 1] /\ f[k + 1] \in Nat
      BY <1>1, <3>1
    <3>4. g[k + 1] \in Nat /\ g[k] <= g[k + 1]
      BY <3>2, <3>3
    <3>5. ASSUME NEW i \in 0 .. k PROVE g[i] <= g[k + 1]
      <4>1. g[i] <= g[k] /\ g[i] \in Nat
        BY <3>2
      <4>2. QED  BY <3>2, <3>4, <4>1
    <3>6. \A i \in 0 .. k + 1 : i \in 0 .. k \/ i = k + 1
      BY <3>1
    <3>7. QED  BY <3>2, <3>4, <3>5, <3>6
  <2>2. QED  BY <2>1
<1>4. \A k \in Nat : k \in T
  <2> HIDE DEF T
  <2> QED  BY <1>2, <1>3, Induction DEF T
<1>5. QED  BY <1>1, <1>4
=============================================================================
