-------------------------- MODULE ConfigurationProofs --------------------------
(***************************************************************************)
(* Proofs about the operators of Configuration, for any files: what a loop *)
(* that selects items keeps, that the search through proto files ends and  *)
(* finds what is reachable, and that parsed targets are what was declared. *)
(***************************************************************************)
EXTENDS Configuration, ArithmeticTheorems

-----------------------------------------------------------------------------
(* Sequences and the sets of their items *)

LEMMA Items ==
    ASSUME NEW S, NEW s \in Seq(S)
    PROVE  /\ DOMAIN s = 1 .. Len(s) /\ Len(s) \in Nat
           /\ ToSet(s) \subseteq S /\ (s # <<>> => Len(s) > 0)
           /\ ToSet(<<>>) = {} /\ Len(<<>>) = 0
<1>1. ToSet(s) \subseteq S
  BY DEF ToSet
<1>2. ToSet(<<>>) = {}
  BY DEF ToSet
<1>3. QED  BY <1>1, <1>2

LEMMA ItemsOfTail ==
    ASSUME NEW S, NEW s \in Seq(S), s # <<>>
    PROVE  /\ Head(s) \in S /\ Tail(s) \in Seq(S) /\ Len(Tail(s)) = Len(s) - 1
           /\ Len(s) \in Nat /\ Len(s) > 0
           /\ ToSet(s) = {Head(s)} \cup ToSet(Tail(s))
<1>1. /\ Head(s) \in S /\ Tail(s) \in Seq(S) /\ Len(Tail(s)) = Len(s) - 1
      /\ Len(s) \in Nat /\ Len(s) > 0 /\ Head(s) = s[1]
  OBVIOUS
<1>2. \A i \in 1 .. Len(s) - 1 : Tail(s)[i] = s[i + 1]
  OBVIOUS
<1>3. DOMAIN s = 1 .. Len(s) /\ DOMAIN Tail(s) = 1 .. Len(s) - 1
  BY <1>1
<1>4. ASSUME NEW x \in ToSet(s) PROVE x \in {Head(s)} \cup ToSet(Tail(s))
  <2>1. PICK i \in 1 .. Len(s) : x = s[i]
    BY <1>3 DEF ToSet
  <2>2. CASE i = 1
    BY <1>1, <2>1, <2>2
  <2>3. CASE i # 1
    <3>1. i - 1 \in 1 .. Len(s) - 1 /\ i - 1 + 1 = i
      BY <1>1, <2>3
    <3>2. Tail(s)[i - 1] = x
      BY <1>2, <2>1, <3>1
    <3>3. QED  BY <1>3, <3>1, <3>2 DEF ToSet
  <2>4. QED  BY <2>2, <2>3
<1>5. ASSUME NEW x \in ToSet(Tail(s)) PROVE x \in ToSet(s)
  <2>1. PICK i \in 1 .. Len(s) - 1 : x = Tail(s)[i]
    BY <1>3 DEF ToSet
  <2>2. i + 1 \in 1 .. Len(s) /\ x = s[i + 1]
    BY <1>1, <1>2, <2>1
  <2>3. QED  BY <1>3, <2>2 DEF ToSet
<1>6. Head(s) \in ToSet(s)
  <2>1. 1 \in 1 .. Len(s)
    BY <1>1
  <2>2. QED  BY <1>1, <1>3, <2>1 DEF ToSet
<1>7. QED  BY <1>1, <1>4, <1>5, <1>6

LEMMA ItemsOfBoth ==
    ASSUME NEW S, NEW s \in Seq(S), NEW t \in Seq(S)
    PROVE  s \o t \in Seq(S) /\ ToSet(s \o t) = ToSet(s) \cup ToSet(t)
<1>1. /\ s \o t \in Seq(S) /\ Len(s \o t) = Len(s) + Len(t)
      /\ Len(s) \in Nat /\ Len(t) \in Nat
      /\ \A i \in 1 .. Len(s) : (s \o t)[i] = s[i]
      /\ \A i \in Len(s) + 1 .. Len(s) + Len(t) : (s \o t)[i] = t[i - Len(s)]
  OBVIOUS
<1> DEFINE m == Len(s)
           n == Len(t)
           u == s \o t
<1>2. DOMAIN s = 1 .. m /\ DOMAIN t = 1 .. n /\ DOMAIN u = 1 .. m + n
  BY <1>1
<1> HIDE DEF m, n, u
<1>3. m \in Nat /\ n \in Nat /\ (\A i \in 1 .. m : u[i] = s[i])
      /\ (\A i \in m + 1 .. m + n : u[i] = t[i - m])
  BY <1>1 DEF m, n, u
<1>4. ASSUME NEW x \in ToSet(u) PROVE x \in ToSet(s) \cup ToSet(t)
  <2>1. PICK i \in 1 .. m + n : x = u[i]
    BY <1>2 DEF ToSet
  <2>2. CASE i \in 1 .. m
    BY <1>2, <1>3, <2>1, <2>2 DEF ToSet
  <2>3. CASE i \notin 1 .. m
    <3>1. i \in m + 1 .. m + n /\ i - m \in 1 .. n
      BY <1>3, <2>3
    <3>2. x = t[i - m]
      BY <1>3, <2>1, <3>1
    <3>3. QED  BY <1>2, <3>1, <3>2 DEF ToSet
  <2>4. QED  BY <2>2, <2>3
<1>5. ASSUME NEW x \in ToSet(s) PROVE x \in ToSet(u)
  <2>1. PICK i \in 1 .. m : x = s[i]
    BY <1>2 DEF ToSet
  <2>2. i \in 1 .. m + n /\ x = u[i]
    BY <1>3, <2>1
  <2>3. QED  BY <1>2, <2>2 DEF ToSet
<1>6. ASSUME NEW x \in ToSet(t) PROVE x \in ToSet(u)
  <2>1. PICK i \in 1 .. n : x = t[i]
    BY <1>2 DEF ToSet
  <2>2. m + i \in m + 1 .. m + n /\ m + i \in 1 .. m + n /\ m + i - m = i
    BY <1>3
  <2>3. x = u[m + i]
    BY <1>3, <2>1, <2>2
  <2>4. QED  BY <1>2, <2>2, <2>3 DEF ToSet
<1>7. QED  BY <1>1, <1>4, <1>5, <1>6 DEF u

LEMMA ItemsOfAppend ==
    ASSUME NEW S, NEW s \in Seq(S), NEW x \in S
    PROVE  Append(s, x) \in Seq(S) /\ ToSet(Append(s, x)) = ToSet(s) \cup {x}
<1> DEFINE n == Len(s)
           u == Append(s, x)
<1>1. /\ u \in Seq(S) /\ n \in Nat /\ Len(u) = n + 1
      /\ \A i \in 1 .. n : u[i] = s[i]
      /\ u[n + 1] = x
  OBVIOUS
<1>2. DOMAIN s = 1 .. n /\ DOMAIN u = 1 .. n + 1
  BY <1>1
<1> HIDE DEF n, u
<1>3. ASSUME NEW y \in ToSet(u) PROVE y \in ToSet(s) \cup {x}
  <2>1. PICK i \in 1 .. n + 1 : y = u[i]
    BY <1>2 DEF ToSet
  <2>2. CASE i \in 1 .. n
    BY <1>1, <1>2, <2>1, <2>2 DEF ToSet
  <2>3. CASE i \notin 1 .. n
    <3>1. i = n + 1
      BY <1>1, <2>3
    <3>2. QED  BY <1>1, <2>1, <3>1
  <2>4. QED  BY <2>2, <2>3
<1>4. ASSUME NEW y \in ToSet(s) PROVE y \in ToSet(u)
  <2>1. PICK i \in 1 .. n : y = s[i]
    BY <1>2 DEF ToSet
  <2>2. i \in 1 .. n + 1 /\ y = u[i]
    BY <1>1, <2>1
  <2>3. QED  BY <1>2, <2>2 DEF ToSet
<1>5. x \in ToSet(u)
  <2>1. n + 1 \in 1 .. n + 1
    BY <1>1
  <2>2. QED  BY <1>1, <1>2, <2>1 DEF ToSet
<1>6. QED  BY <1>1, <1>3, <1>4, <1>5 DEF u

-----------------------------------------------------------------------------
(* Loops that select *)

Selection(u, s, kept, n) ==
    u = [i \in 0 .. n |->
           IF i = 0 THEN <<>>
           ELSE IF i \in kept THEN Append(u[i - 1], s[i]) ELSE u[i - 1]]

\* The recursion of Selected has a solution ...
LEMMA SelectionExists ==
    ASSUME NEW s, NEW kept, NEW n \in Nat
    PROVE  \E u : Selection(u, s, kept, n)
<1> DEFINE T == {k \in Nat : \E u : Selection(u, s, kept, k)}
<1>1. 0 \in T
  <2>1. Selection([i \in 0 .. 0 |-> <<>>], s, kept, 0)
    BY DEF Selection
  <2>2. QED  BY <2>1
<1>2. ASSUME NEW k \in T PROVE k + 1 \in T
  <2>1. PICK u : Selection(u, s, kept, k)
    OBVIOUS
  <2> DEFINE next(i, v) == IF i \in kept THEN Append(v, s[i]) ELSE v
             h == [i \in 0 .. k + 1 |-> IF i = 0 THEN <<>> ELSE next(i, u[i - 1])]
  <2>2. ASSUME NEW i \in 0 .. k + 1, i # 0 PROVE h[i - 1] = u[i - 1]
    <3>1. i - 1 \in 0 .. k /\ i - 1 \in 0 .. k + 1
      BY <2>2
    <3> DEFINE j == i - 1
    <3>2. j \in 0 .. k /\ j \in 0 .. k + 1
      BY <3>1
    <3> HIDE DEF j
    <3>3. u[j] = IF j = 0 THEN <<>> ELSE next(j, u[j - 1])
      BY <2>1, <3>2 DEF Selection
    <3> HIDE DEF next
    <3>4. h[j] = IF j = 0 THEN <<>> ELSE next(j, u[j - 1])
      BY <3>2
    <3>5. QED  BY <3>3, <3>4 DEF j
  <2> HIDE DEF next
  <2>3. h = [i \in 0 .. k + 1 |-> IF i = 0 THEN <<>> ELSE next(i, h[i - 1])]
    BY <2>2
  <2> HIDE DEF h
  <2>4. Selection(h, s, kept, k + 1)
    BY <2>3 DEF Selection, next
  <2>5. QED  BY <2>4
<1>3. \A k \in Nat : k \in T
  <2> HIDE DEF T
  <2> QED  BY <1>1, <1>2, Induction DEF T
<1>4. QED  BY <1>3

\* ... which keeps what it is to keep.
LEMMA SelectionKeeps ==
    ASSUME NEW S, NEW s \in Seq(S), NEW kept \in SUBSET (DOMAIN s),
           NEW u, Selection(u, s, kept, Len(s))
    PROVE  u[Len(s)] \in Seq(S) /\ ToSet(u[Len(s)]) = {s[j] : j \in kept}
<1> DEFINE n == Len(s)
           upTo(i) == {j \in kept : j <= i}
           T == {i \in Nat : i <= n => /\ u[i] \in Seq(S)
                                      /\ ToSet(u[i]) = {s[j] : j \in upTo(i)}}
<1>1. n \in Nat /\ DOMAIN s = 1 .. n /\ \A i \in 1 .. n : s[i] \in S
  OBVIOUS
<1>2. \A i \in 0 .. n : u[i] = IF i = 0 THEN <<>>
          ELSE IF i \in kept THEN Append(u[i - 1], s[i]) ELSE u[i - 1]
  BY DEF Selection
<1> HIDE DEF n
<1>3. 0 \in T
  <2>1. upTo(0) = {}
    BY <1>1
  <2>2. <<>> \in Seq(S) /\ ToSet(<<>>) = {}
    BY Items
  <2>3. 0 \in 0 .. n
    BY <1>1
  <2>4. u[0] = <<>>
    BY <1>2, <2>3
  <2>5. QED  BY <2>1, <2>2, <2>4
<1>4. ASSUME NEW i \in T PROVE i + 1 \in T
  <2> SUFFICES ASSUME i + 1 <= n
               PROVE  /\ u[i + 1] \in Seq(S)
                      /\ ToSet(u[i + 1]) = {s[j] : j \in upTo(i + 1)}
    OBVIOUS
  <2>1. i \in Nat /\ i <= n
    BY <1>1
  <2>2. u[i] \in Seq(S) /\ ToSet(u[i]) = {s[j] : j \in upTo(i)}
    BY <2>1
  <2>3. upTo(i + 1) = IF i + 1 \in kept THEN upTo(i) \cup {i + 1} ELSE upTo(i)
    BY <1>1, <2>1
  <2> DEFINE k == i + 1
  <2>4. k \in 0 .. n /\ k \in 1 .. n /\ k # 0 /\ k - 1 = i
    BY <1>1, <2>1
  <2> HIDE DEF T, upTo, k
  <2>5. u[k] = IF k \in kept THEN Append(u[k - 1], s[k]) ELSE u[k - 1]
    BY <1>2, <2>4
  <2>6. u[k] = IF k \in kept THEN Append(u[i], s[k]) ELSE u[i]
    BY <2>4, <2>5
  <2>7. CASE k \in kept
    <3>1. s[k] \in S
      BY <1>1, <2>4
    <3>2. {s[j] : j \in upTo(k)} = {s[j] : j \in upTo(i)} \cup {s[k]}
      BY <2>3, <2>7 DEF k
    <3>3. Append(u[i], s[k]) \in Seq(S)
          /\ ToSet(Append(u[i], s[k])) = ToSet(u[i]) \cup {s[k]}
      BY <2>2, <3>1, ItemsOfAppend
    <3>4. u[k] \in Seq(S) /\ ToSet(u[k]) = {s[j] : j \in upTo(k)}
      BY <2>2, <2>6, <2>7, <3>2, <3>3
    <3>5. QED  BY <3>4 DEF k
  <2>8. CASE k \notin kept
    <3>1. u[k] = u[i] /\ upTo(k) = upTo(i)
      BY <2>3, <2>6, <2>8 DEF k
    <3>2. QED  BY <2>2, <3>1 DEF k
  <2>9. QED  BY <2>7, <2>8
<1>5. \A i \in Nat : i \in T
  <2> HIDE DEF T
  <2> QED  BY <1>3, <1>4, Induction DEF T
<1>6. upTo(n) = kept
  BY <1>1
<1>7. n \in T
  <2> HIDE DEF T
  <2> QED  BY <1>1, <1>5
<1>8. u[n] \in Seq(S) /\ ToSet(u[n]) = {s[j] : j \in upTo(n)}
  <2>1. n <= n
    BY <1>1
  <2>2. QED  BY <1>7, <2>1
<1>9. QED  BY <1>6, <1>8 DEF n

\* A selection from a sequence has the items at the positions kept, no others.
LEMMA SelectedItems ==
    ASSUME NEW S, NEW s \in Seq(S), NEW kept \in SUBSET (DOMAIN s)
    PROVE  Selected(s, kept) \in Seq(S) /\ ToSet(Selected(s, kept)) = {s[j] : j \in kept}
<1> DEFINE u == CHOOSE u : Selection(u, s, kept, Len(s))
<1>1. Selection(u, s, kept, Len(s))
  BY SelectionExists
<1>2. Selected(s, kept) = u[Len(s)]
  BY DEF Selected, Selection
<1> HIDE DEF u
<1>3. QED  BY <1>1, <1>2, SelectionKeeps

-----------------------------------------------------------------------------
(* Calls that end *)

\* f answers where the calls end, and elsewhere what the next call answers.
CallOf(f, ends, answer, next, s) == IF s \in ends THEN answer[s] ELSE f[next[s]]
Calls(f, S, ends, answer, next)  == f = [s \in S |-> CallOf(f, ends, answer, next, s)]

\* f does so for the calls whose measure is at most n.
CallsUpTo(f, n, m, S, ends, answer, next) ==
    \A s \in S : m[s] <= n => f[s] = CallOf(f, ends, answer, next, s)

LEMMA CallsUpToExist ==
    ASSUME NEW S, NEW m \in [S -> Nat], NEW next \in [S -> S], NEW ends, NEW answer,
           \A s \in S : s \notin ends => m[next[s]] < m[s]
    PROVE  \A n \in Nat : \E f : CallsUpTo(f, n, m, S, ends, answer, next)
<1> DEFINE T == {n \in Nat : \E f : CallsUpTo(f, n, m, S, ends, answer, next)}
<1>1. 0 \in T
  <2> DEFINE f == answer
  <2>1. ASSUME NEW s \in S, m[s] <= 0 PROVE s \in ends
    <3>1. m[s] \in Nat /\ m[next[s]] \in Nat
      OBVIOUS
    <3>2. QED  BY <2>1, <3>1
  <2>2. CallsUpTo(f, 0, m, S, ends, answer, next)
    BY <2>1 DEF CallsUpTo, CallOf
  <2>3. QED  BY <2>2
<1>2. ASSUME NEW n \in T PROVE n + 1 \in T
  <2>1. PICK f : CallsUpTo(f, n, m, S, ends, answer, next)
    OBVIOUS
  <2> DEFINE g == [s \in S |-> IF m[s] <= n THEN f[s] ELSE CallOf(f, ends, answer, next, s)]
  <2>2. ASSUME NEW s \in S, m[s] <= n + 1
        PROVE  g[s] = CallOf(g, ends, answer, next, s)
    <3>1. g[s] = CallOf(f, ends, answer, next, s)
      BY <2>1 DEF CallsUpTo
    <3>2. CASE s \in ends
      BY <3>1, <3>2 DEF CallOf
    <3>3. CASE s \notin ends
      <4>1. m[next[s]] <= n /\ next[s] \in S
        <5>1. m[next[s]] \in Nat /\ m[s] \in Nat /\ n \in Nat /\ next[s] \in S
          OBVIOUS
        <5>2. m[next[s]] < m[s]
          BY <3>3
        <5>3. QED  BY <2>2, <5>1, <5>2
      <4>2. g[next[s]] = f[next[s]]
        BY <4>1
      <4> HIDE DEF g
      <4>3. QED  BY <3>1, <3>3, <4>2 DEF CallOf
    <3>4. QED  BY <3>2, <3>3
  <2> HIDE DEF g
  <2>3. CallsUpTo(g, n + 1, m, S, ends, answer, next)
    BY <2>2 DEF CallsUpTo
  <2>4. QED  BY <2>3
<1>3. \A n \in Nat : n \in T
  <2> HIDE DEF T
  <2> QED  BY <1>1, <1>2, Induction DEF T
<1>4. QED  BY <1>3

\* Calls of which each has a smaller measure than the one before have answers.
LEMMA CallsExist ==
    ASSUME NEW S, NEW m \in [S -> Nat], NEW next \in [S -> S], NEW ends, NEW answer,
           \A s \in S : s \notin ends => m[next[s]] < m[s]
    PROVE  \E f : Calls(f, S, ends, answer, next)
<1> DEFINE F == [n \in Nat |-> CHOOSE f : CallsUpTo(f, n, m, S, ends, answer, next)]
           T == {n \in Nat : \A s \in S : m[s] <= n =>
                   \A k \in Nat : m[s] <= k => F[k][s] = F[m[s]][s]}
           h == [s \in S |-> F[m[s]][s]]
<1>1. ASSUME NEW k \in Nat, NEW s \in S, m[s] <= k
      PROVE  F[k][s] = CallOf(F[k], ends, answer, next, s)
  <2>1. CallsUpTo(F[k], k, m, S, ends, answer, next)
    BY CallsUpToExist
  <2> HIDE DEF F
  <2>2. QED  BY <1>1, <2>1 DEF CallsUpTo
<1> HIDE DEF F
<1>2. \A s \in S : m[s] \in Nat /\ next[s] \in S /\ m[next[s]] \in Nat
  OBVIOUS
<1>3. ASSUME NEW n \in Nat, NEW s \in S, m[s] <= n, NEW k \in Nat, m[s] <= k,
             s \notin ends => F[k][next[s]] = F[m[s]][next[s]]
      PROVE  F[k][s] = F[m[s]][s]
  <2>1. m[s] \in Nat /\ m[s] <= m[s]
    BY <1>2
  <2>2. F[k][s] = CallOf(F[k], ends, answer, next, s)
    BY <1>1, <1>3
  <2>3. F[m[s]][s] = CallOf(F[m[s]], ends, answer, next, s)
    BY <1>1, <2>1
  <2>4. QED  BY <1>3, <2>2, <2>3 DEF CallOf
<1>4. ASSUME NEW n \in Nat, NEW s \in S, m[s] <= n + 1, NEW k \in Nat, m[s] <= k,
             s \notin ends, n \in T
      PROVE  F[k][next[s]] = F[m[s]][next[s]]
  <2>1. m[s] \in Nat /\ next[s] \in S /\ m[next[s]] \in Nat /\ m[next[s]] < m[s]
    BY <1>2, <1>4
  <2>2. m[next[s]] <= n /\ m[next[s]] <= k /\ m[next[s]] <= m[s]
    BY <1>4, <2>1
  <2>3. F[k][next[s]] = F[m[next[s]]][next[s]]
    BY <1>4, <2>1, <2>2
  <2>4. F[m[s]][next[s]] = F[m[next[s]]][next[s]]
    BY <1>4, <2>1, <2>2
  <2>5. QED  BY <2>3, <2>4
<1>5. 0 \in T
  <2>1. ASSUME NEW s \in S, m[s] <= 0 PROVE s \in ends
    BY <1>2, <2>1
  <2>2. QED  BY <1>3, <2>1
<1>6. ASSUME NEW n \in T PROVE n + 1 \in T
  <2>1. n \in Nat /\ n + 1 \in Nat
    OBVIOUS
  <2>2. ASSUME NEW s \in S, m[s] <= n + 1, NEW k \in Nat, m[s] <= k
        PROVE  F[k][s] = F[m[s]][s]
    <3>1. s \notin ends => F[k][next[s]] = F[m[s]][next[s]]
      <4> HIDE DEF T
      <4> QED  BY <1>4, <2>1, <2>2
    <3>2. QED  BY <1>3, <2>1, <2>2, <3>1
  <2>3. QED  BY <2>1, <2>2
<1>7. \A n \in Nat : n \in T
  <2> HIDE DEF T
  <2> QED  BY <1>5, <1>6, Induction DEF T
<1>8. ASSUME NEW s \in S PROVE h[s] = CallOf(h, ends, answer, next, s)
  <2>1. m[s] \in Nat /\ next[s] \in S /\ m[next[s]] \in Nat /\ m[s] <= m[s]
    BY <1>2
  <2>2. h[s] = CallOf(F[m[s]], ends, answer, next, s)
    BY <1>1, <2>1
  <2>3. CASE s \in ends
    BY <2>2, <2>3 DEF CallOf
  <2>4. CASE s \notin ends
    <3>1. m[next[s]] < m[s] /\ m[next[s]] <= m[s] /\ m[next[s]] <= m[next[s]]
      BY <2>1, <2>4
    <3>2. m[next[s]] \in T
      <4> HIDE DEF T
      <4> QED  BY <1>7, <2>1
    <3>3. F[m[s]][next[s]] = F[m[next[s]]][next[s]]
      BY <2>1, <3>1, <3>2
    <3>4. h[next[s]] = F[m[next[s]]][next[s]]
      BY <2>1
    <3> HIDE DEF h
    <3>5. QED  BY <2>2, <2>4, <3>3, <3>4 DEF CallOf
  <2>5. QED  BY <2>3, <2>4
<1>9. Calls(h, S, ends, answer, next)
  <2>1. h = [s \in S |-> CallOf(h, ends, answer, next, s)]
    <3>1. h = [s \in S |-> h[s]]
      OBVIOUS
    <3> HIDE DEF h
    <3>2. QED  BY <1>8, <3>1
  <2>2. QED  BY <2>1 DEF Calls
<1>10. QED  BY <1>9

-----------------------------------------------------------------------------
(* The search through proto files *)

\* Numbers of finitely many things have a bound.
LEMMA Bounded ==
    ASSUME NEW D, IsFiniteSet(D), NEW n \in [D -> Nat]
    PROVE  \E b \in Nat : \A p \in D : n[p] <= b
<1> DEFINE F == {A \in SUBSET D : \E b \in Nat : \A p \in A : n[p] <= b}
<1>1. {} \in F
  <2>1. 0 \in Nat
    OBVIOUS
  <2>2. QED  BY <2>1
<1>2. ASSUME NEW A \in F, NEW x \in D \ A PROVE A \cup {x} \in F
  <2>1. PICK b \in Nat : \A p \in A : n[p] <= b
    OBVIOUS
  <2>2. n[x] \in Nat /\ \A p \in D : n[p] \in Nat
    OBVIOUS
  <2>3. \A p \in A \cup {x} : n[p] <= b + n[x]
    BY <2>1, <2>2
  <2>4. b + n[x] \in Nat
    BY <2>2
  <2>5. QED  BY <2>3, <2>4
<1>3. D \in F
  <2> HIDE DEF F
  <2>1. F \in SUBSET SUBSET D
    BY DEF F
  <2>2. QED  BY <1>1, <1>2, <2>1, SubsetInduction
<1>4. QED  BY <1>3

\* Proto files as they are on a disk.
IsDisk(disk) ==
    /\ IsFiniteSet(DOMAIN disk)
    /\ \A p \in DOMAIN disk : disk[p].imports \in Seq(DOMAIN disk)

\* Where the search ends, what it says there, and its next call elsewhere.
SearchEnds(service, disk) ==
    {s \in SearchStates(disk) :
       s.todo = <<>> \/ (/\ Head(s.todo) \notin s.visited
                         /\ service \in DOMAIN disk[Head(s.todo)].services)}

SearchSays(service, method, disk) ==
    [s \in SearchStates(disk) |->
       IF s.todo = <<>> THEN "no service" ELSE Found(service, method, disk[Head(s.todo)])]

SearchNext(s, disk) ==
    IF s.todo = <<>> THEN s
    ELSE IF Head(s.todo) \in s.visited THEN [todo |-> Tail(s.todo), visited |-> s.visited]
    ELSE [todo    |-> disk[Head(s.todo)].imports \o Tail(s.todo),
          visited |-> s.visited \cup {Head(s.todo)}]

SearchGoes(disk) == [s \in SearchStates(disk) |-> SearchNext(s, disk)]

\* The calls that are left are at most: one for every file that is still to be
\* done, b + 1 for every file that is not visited.
CallsLeft(b, disk) ==
    [s \in SearchStates(disk) |->
       Len(s.todo) + (b + 1) * Cardinality(DOMAIN disk \ s.visited)]

LEMMA SearchStep ==
    ASSUME NEW disk, IsDisk(disk), NEW s \in SearchStates(disk), s.todo # <<>>
    PROVE  /\ SearchNext(s, disk) \in SearchStates(disk)
           /\ Head(s.todo) \in DOMAIN disk
           /\ ToSet(s.todo) = {Head(s.todo)} \cup ToSet(Tail(s.todo))
           /\ Head(s.todo) \in s.visited =>
                /\ SearchNext(s, disk).visited = s.visited
                /\ SearchNext(s, disk).todo = Tail(s.todo)
           /\ Head(s.todo) \notin s.visited =>
                /\ SearchNext(s, disk).visited = s.visited \cup {Head(s.todo)}
                /\ SearchNext(s, disk).todo = disk[Head(s.todo)].imports \o Tail(s.todo)
                /\ ToSet(SearchNext(s, disk).todo) =
                     ToSet(disk[Head(s.todo)].imports) \cup ToSet(Tail(s.todo))
<1> DEFINE p == Head(s.todo)
           D == DOMAIN disk
           im == disk[p].imports
           r == Tail(s.todo)
<1>1. s.todo \in Seq(D) /\ s.visited \in SUBSET D
  BY DEF SearchStates
<1>2. p \in D /\ r \in Seq(D) /\ ToSet(s.todo) = {p} \cup ToSet(r)
  <2> HIDE DEF D
  <2> QED  BY <1>1, ItemsOfTail
<1>3. im \in Seq(D)
  BY <1>2 DEF IsDisk
<1>4. im \o r \in Seq(D) /\ ToSet(im \o r) = ToSet(im) \cup ToSet(r)
  <2> HIDE DEF D, im, r
  <2> QED  BY <1>2, <1>3, ItemsOfBoth
<1>5. SearchNext(s, disk) = IF p \in s.visited THEN [todo |-> r, visited |-> s.visited]
                            ELSE [todo |-> im \o r, visited |-> s.visited \cup {p}]
  BY DEF SearchNext
<1> HIDE DEF p, im, r
<1>6. SearchNext(s, disk) \in SearchStates(disk)
  BY <1>1, <1>2, <1>4, <1>5 DEF SearchStates
<1>7. p \in s.visited => /\ SearchNext(s, disk).visited = s.visited
                         /\ SearchNext(s, disk).todo = r
  BY <1>5
<1>8. p \notin s.visited => /\ SearchNext(s, disk).visited = s.visited \cup {p}
                            /\ SearchNext(s, disk).todo = im \o r
                            /\ ToSet(SearchNext(s, disk).todo) = ToSet(im) \cup ToSet(r)
  BY <1>4, <1>5
<1>9. QED  BY <1>2, <1>6, <1>7, <1>8 DEF p, im, r

LEMMA SearchEndsSoon ==
    ASSUME NEW disk, IsDisk(disk)
    PROVE  \E b \in Nat :
             /\ CallsLeft(b, disk) \in [SearchStates(disk) -> Nat]
             /\ \A s \in SearchStates(disk) : s.todo # <<>> =>
                  CallsLeft(b, disk)[SearchNext(s, disk)] < CallsLeft(b, disk)[s]
<1> DEFINE D == DOMAIN disk
           n == [p \in D |-> Len(disk[p].imports)]
           c(s) == Cardinality(D \ s.visited)
<1>1. \A p \in D : disk[p].imports \in Seq(D) /\ n[p] = Len(disk[p].imports) /\ n[p] \in Nat
  BY DEF IsDisk
<1>2. IsFiniteSet(D)
  BY DEF IsDisk
<1>3. PICK b \in Nat : \A p \in D : n[p] <= b
  <2>1. n \in [D -> Nat]
    BY <1>1
  <2> HIDE DEF n, D
  <2>2. QED  BY <1>2, <2>1, Bounded
<1>4. ASSUME NEW s \in SearchStates(disk)
      PROVE  /\ c(s) \in Nat /\ Len(s.todo) \in Nat /\ (b + 1) * c(s) \in Nat
             /\ CallsLeft(b, disk)[s] = Len(s.todo) + (b + 1) * c(s)
  <2>1. s.todo \in Seq(D) /\ s.visited \in SUBSET D
    BY DEF SearchStates
  <2>2. c(s) \in Nat
    BY <1>2, FS_Subset, FS_CardinalityType
  <2>3. Len(s.todo) \in Nat
    BY <2>1
  <2>4. CallsLeft(b, disk)[s] = Len(s.todo) + (b + 1) * c(s)
    BY DEF CallsLeft
  <2> HIDE DEF c
  <2>5. (b + 1) * c(s) \in Nat
    BY <2>2
  <2>6. QED  BY <2>2, <2>3, <2>4, <2>5
<1>5. CallsLeft(b, disk) \in [SearchStates(disk) -> Nat]
  <2>1. \A s \in SearchStates(disk) : CallsLeft(b, disk)[s] \in Nat
    <3> HIDE DEF c
    <3> QED  BY <1>4
  <2>2. CallsLeft(b, disk) = [s \in SearchStates(disk) |-> CallsLeft(b, disk)[s]]
    BY DEF CallsLeft
  <2>3. QED  BY <2>1, <2>2
<1>6. ASSUME NEW s \in SearchStates(disk), s.todo # <<>>
      PROVE  CallsLeft(b, disk)[SearchNext(s, disk)] < CallsLeft(b, disk)[s]
  <2> DEFINE p == Head(s.todo)
             u == SearchNext(s, disk)
  <2>1. u \in SearchStates(disk) /\ p \in D /\ s.todo \in Seq(D)
    BY <1>6, SearchStep DEF SearchStates
  <2>2. Len(Tail(s.todo)) = Len(s.todo) - 1 /\ Tail(s.todo) \in Seq(D)
    <3> HIDE DEF D
    <3> QED  BY <1>6, <2>1, ItemsOfTail
  <2>3. CASE p \in s.visited
    <3>1. u.visited = s.visited /\ Len(u.todo) = Len(s.todo) - 1
      BY <1>6, <2>2, <2>3, SearchStep
    <3>2. c(u) = c(s)
      BY <3>1
    <3> DEFINE x == (b + 1) * c(s)
               k == CallsLeft(b, disk)
    <3>3. /\ k[u] = Len(u.todo) + x /\ k[s] = Len(s.todo) + x
          /\ Len(s.todo) \in Nat /\ x \in Nat
      <4> HIDE DEF c, u, p
      <4> QED  BY <1>4, <2>1, <3>2
    <3> HIDE DEF c, u, p, x, k
    <3>4. k[u] < k[s]
      BY <3>1, <3>3
    <3>5. QED  BY <3>4 DEF u, k
  <2>4. CASE p \notin s.visited
    <3>1. u.visited = s.visited \cup {p} /\ u.todo = disk[p].imports \o Tail(s.todo)
      BY <1>6, <2>4, SearchStep
    <3>2. c(u) = c(s) - 1
      <4>1. D \ u.visited = (D \ s.visited) \ {p} /\ p \in D \ s.visited
        BY <2>1, <2>4, <3>1
      <4>2. IsFiniteSet(D \ s.visited)
        BY <1>2, FS_Subset
      <4> HIDE DEF D, u, p
      <4>3. QED  BY <4>1, <4>2, FS_RemoveElement
    <3>3. Len(u.todo) = n[p] + (Len(s.todo) - 1)
      <4>1. disk[p].imports \in Seq(D) /\ n[p] = Len(disk[p].imports)
        BY <1>1, <2>1
      <4> HIDE DEF D, n, u, p
      <4>2. Len(disk[p].imports \o Tail(s.todo)) = Len(disk[p].imports) + Len(Tail(s.todo))
        BY <2>2, <4>1
      <4>3. QED  BY <2>2, <3>1, <4>1, <4>2
    <3>4. n[p] <= b /\ n[p] \in Nat
      BY <1>1, <1>3, <2>1
    <3> HIDE DEF c, u, p, n
    <3>5. c(u) \in Nat /\ c(s) \in Nat /\ b + 1 \in Nat
      BY <1>4, <2>1
    <3>6. (b + 1) * c(s) = (b + 1) * c(u) + (b + 1)
      <4>1. c(s) = c(u) + 1
        BY <3>2, <3>5
      <4>2. QED  BY <3>5, <4>1, Products
    <3> DEFINE x == (b + 1) * c(u)
               y == (b + 1) * c(s)
               k == CallsLeft(b, disk)
    <3>7. /\ k[u] = Len(u.todo) + x
          /\ k[s] = Len(s.todo) + y
          /\ Len(s.todo) \in Nat /\ x \in Nat /\ y \in Nat /\ y = x + (b + 1)
      BY <1>4, <2>1, <3>6
    <3> HIDE DEF x, y, k
    <3>8. k[u] < k[s]
      <4>1. k[u] = n[p] + (Len(s.todo) - 1) + x /\ k[s] = Len(s.todo) + (x + (b + 1))
        BY <3>3, <3>7
      <4>2. \A i, j, z, c1 \in Nat : i <= c1 => i + (j - 1) + z < j + (z + (c1 + 1))
        OBVIOUS
      <4>3. n[p] + (Len(s.todo) - 1) + x < Len(s.todo) + (x + (b + 1))
        BY <3>4, <3>7, <4>2
      <4>4. QED  BY <4>1, <4>3
    <3>9. QED  BY <3>8 DEF u, k
  <2>5. QED  BY <2>3, <2>4
<1>7. QED  BY <1>5, <1>6

\* The search as a function that answers every call.
LEMMA SearchAnswers ==
    ASSUME NEW disk, IsDisk(disk), NEW service, NEW method, NEW roots \in Seq(DOMAIN disk)
    PROVE  \E f : /\ FindMethod(service, method, roots, disk) =
                       f[[todo |-> roots, visited |-> {}]]
                  /\ \A s \in SearchStates(disk) :
                       f[s] = IF s \in SearchEnds(service, disk)
                                THEN SearchSays(service, method, disk)[s]
                                ELSE f[SearchNext(s, disk)]
<1> DEFINE S == SearchStates(disk)
           E == SearchEnds(service, disk)
           A == SearchSays(service, method, disk)
           N == SearchGoes(disk)
           IsSearch(f) == f = [s \in S |-> SearchFile(f, service, method, disk, s)]
           f == CHOOSE f : IsSearch(f)
<1>1. PICK b \in Nat : /\ CallsLeft(b, disk) \in [S -> Nat]
                       /\ \A s \in S : s.todo # <<>> =>
                            CallsLeft(b, disk)[SearchNext(s, disk)] < CallsLeft(b, disk)[s]
  BY SearchEndsSoon
<1>2. ASSUME NEW s \in S, s \notin E
      PROVE  s.todo # <<>> /\ N[s] = SearchNext(s, disk) /\ N[s] \in S
             /\ CallsLeft(b, disk)[N[s]] < CallsLeft(b, disk)[s]
  <2>1. s.todo # <<>> /\ N[s] = SearchNext(s, disk)
    BY <1>2 DEF SearchEnds, SearchGoes
  <2> HIDE DEF N, S
  <2>2. N[s] \in S
    BY <2>1, SearchStep DEF S
  <2>3. QED  BY <1>1, <2>1, <2>2
<1>3. N \in [S -> S]
  <2>1. \A s \in S : SearchNext(s, disk) \in S
    <3>1. ASSUME NEW s \in S, s.todo = <<>> PROVE SearchNext(s, disk) \in S
      BY <3>1 DEF SearchNext
    <3>2. QED  BY <3>1, SearchStep
  <2>2. QED  BY <2>1 DEF SearchGoes
<1>4. \E g : Calls(g, S, E, A, N)
  <2> DEFINE m == CallsLeft(b, disk)
  <2>1. m \in [S -> Nat] /\ \A s \in S : s \notin E => m[N[s]] < m[s]
    <3> HIDE DEF S, E, N
    <3> QED  BY <1>1, <1>2
  <2> HIDE DEF S, E, N, A, m
  <2>2. QED  BY <1>3, <2>1, CallsExist
<1>5. ASSUME NEW g, NEW s \in S
      PROVE  SearchFile(g, service, method, disk, s) = CallOf(g, E, A, N, s)
  <2>1. A[s] = IF s.todo = <<>> THEN "no service" ELSE Found(service, method, disk[Head(s.todo)])
    BY DEF SearchSays
  <2>2. N[s] = SearchNext(s, disk)
    BY DEF SearchGoes
  <2>3. s \in E <=> s.todo = <<>> \/ (/\ Head(s.todo) \notin s.visited
                                      /\ service \in DOMAIN disk[Head(s.todo)].services)
    BY DEF SearchEnds
  <2> HIDE DEF S, E, A, N
  <2>4. CASE s.todo = <<>>
    BY <2>1, <2>3, <2>4 DEF SearchFile, CallOf
  <2>5. CASE s.todo # <<>> /\ Head(s.todo) \in s.visited
    BY <2>2, <2>3, <2>5 DEF SearchFile, CallOf, SearchNext
  <2>6. CASE s.todo # <<>> /\ Head(s.todo) \notin s.visited
             /\ service \in DOMAIN disk[Head(s.todo)].services
    BY <2>1, <2>3, <2>6 DEF SearchFile, CallOf
  <2>7. CASE s.todo # <<>> /\ Head(s.todo) \notin s.visited
             /\ service \notin DOMAIN disk[Head(s.todo)].services
    BY <2>2, <2>3, <2>7 DEF SearchFile, CallOf, SearchNext
  <2>8. QED  BY <2>4, <2>5, <2>6, <2>7
<1>6. \E g : IsSearch(g)
  <2>1. PICK g : Calls(g, S, E, A, N)
    BY <1>4
  <2> HIDE DEF S, E, A, N
  <2>2. g = [s \in S |-> CallOf(g, E, A, N, s)]
    BY <2>1 DEF Calls
  <2>3. [s \in S |-> CallOf(g, E, A, N, s)]
          = [s \in S |-> SearchFile(g, service, method, disk, s)]
    BY <1>5
  <2>4. IsSearch(g)
    BY <2>2, <2>3
  <2>5. QED  BY <2>4
<1>7. IsSearch(f)
  <2> HIDE DEF IsSearch
  <2> QED  BY <1>6
<1>8. FindMethod(service, method, roots, disk) = f[[todo |-> roots, visited |-> {}]]
  BY DEF FindMethod
<1>9. ASSUME NEW s \in S
      PROVE  f[s] = IF s \in E THEN A[s] ELSE f[SearchNext(s, disk)]
  <2>1. f[s] = SearchFile(f, service, method, disk, s)
    <3> HIDE DEF f
    <3> QED  BY <1>7
  <2> HIDE DEF f
  <2>2. f[s] = CallOf(f, E, A, N, s)
    BY <1>5, <2>1
  <2>3. N[s] = SearchNext(s, disk)
    BY DEF SearchGoes
  <2> HIDE DEF E, A, N
  <2>4. QED  BY <2>2, <2>3 DEF CallOf
<1> HIDE DEF f
<1>10. QED  BY <1>8, <1>9

\* What holds of the calls of a search: what it has to find is ahead of it.
Searching(s, roots, service, disk) ==
    /\ ToSet(roots) \subseteq s.visited \cup ToSet(s.todo)
    /\ \A q \in s.visited : /\ ToSet(disk[q].imports) \subseteq s.visited \cup ToSet(s.todo)
                            /\ service \notin DOMAIN disk[q].services
    /\ s.visited \cup ToSet(s.todo) \subseteq Reachable(roots, disk)

LEMMA SearchingStep ==
    ASSUME NEW disk, IsDisk(disk), NEW s \in SearchStates(disk), NEW roots, NEW service,
           Searching(s, roots, service, disk), s \notin SearchEnds(service, disk)
    PROVE  Searching(SearchNext(s, disk), roots, service, disk)
<1> DEFINE p == Head(s.todo)
           u == SearchNext(s, disk)
           t == ToSet(Tail(s.todo))
           im(q) == ToSet(disk[q].imports)
<1>1. s.todo # <<>> /\ (p \in s.visited \/ service \notin DOMAIN disk[p].services)
  BY DEF SearchEnds
<1>2. p \in DOMAIN disk /\ ToSet(s.todo) = {p} \cup t
  BY <1>1, SearchStep
<1>3. p \in s.visited => u.visited = s.visited /\ u.todo = Tail(s.todo)
  BY <1>1, SearchStep
<1>4. p \notin s.visited => /\ u.visited = s.visited \cup {p}
                            /\ ToSet(u.todo) = im(p) \cup t
  BY <1>1, SearchStep
<1>5. p \in Reachable(roots, disk) => im(p) \subseteq Reachable(roots, disk)
  <2>1. im(p) \subseteq DOMAIN disk
    <3> HIDE DEF p
    <3>1. disk[p].imports \in Seq(DOMAIN disk)
      BY <1>2 DEF IsDisk
    <3>2. QED  BY <3>1, Items
  <2> HIDE DEF p, u, t
  <2>2. QED  BY <2>1 DEF Reachable
<1> HIDE DEF p, u, t, im
<1>6. CASE p \in s.visited
  <2>1. ToSet(u.todo) = t
    BY <1>3, <1>6 DEF t
  <2>2. u.visited \cup ToSet(u.todo) = s.visited \cup ToSet(s.todo)
    BY <1>2, <1>3, <1>6, <2>1
  <2>3. QED  BY <1>3, <1>6, <2>2 DEF Searching, u
<1>7. CASE p \notin s.visited
  <2> DEFINE all == u.visited \cup ToSet(u.todo)
  <2>1. all = s.visited \cup ToSet(s.todo) \cup im(p)
    BY <1>2, <1>4, <1>7
  <2>2. service \notin DOMAIN disk[p].services
    BY <1>1, <1>7
  <2> HIDE DEF all
  <2>3. ToSet(roots) \subseteq all
    BY <2>1 DEF Searching
  <2>4. \A q \in u.visited : im(q) \subseteq all /\ service \notin DOMAIN disk[q].services
    <3>1. \A q \in s.visited : im(q) \subseteq all /\ service \notin DOMAIN disk[q].services
      BY <2>1 DEF Searching, im
    <3>2. QED  BY <1>4, <1>7, <2>1, <2>2, <3>1
  <2>5. all \subseteq Reachable(roots, disk)
    BY <1>2, <1>5, <2>1 DEF Searching
  <2>6. QED  BY <2>3, <2>4, <2>5 DEF Searching, all, u, im
<1>8. QED  BY <1>6, <1>7

\* Whatever the files and their imports, the search finds the method of the one
\* file that is reachable and declares the service.
LEMMA SearchFinds ==
    ASSUME NEW disk, IsDisk(disk), NEW service, NEW method, NEW roots \in Seq(DOMAIN disk),
           Compiles(roots, disk)
    PROVE  FindsTheMethod(service, method, roots, disk)
<1> DEFINE R == Reachable(roots, disk)
           with == {p \in R : service \in DOMAIN disk[p].services}
           answer == CASE with = {} -> "no service"
                       [] \E p \in with : method \in disk[p].services[service] -> "found"
                       [] OTHER -> "no method"
           S == SearchStates(disk)
           E == SearchEnds(service, disk)
           A == SearchSays(service, method, disk)
           P(s) == Searching(s, roots, service, disk)
<1>1. PICK f : /\ FindMethod(service, method, roots, disk) =
                    f[[todo |-> roots, visited |-> {}]]
               /\ \A s \in S : f[s] = IF s \in E THEN A[s] ELSE f[SearchNext(s, disk)]
  BY SearchAnswers
<1>2. PICK b \in Nat : /\ CallsLeft(b, disk) \in [S -> Nat]
                       /\ \A s \in S : s.todo # <<>> =>
                            CallsLeft(b, disk)[SearchNext(s, disk)] < CallsLeft(b, disk)[s]
  BY SearchEndsSoon
<1>3. R \subseteq DOMAIN disk
      /\ \A p, q \in R : p # q => DOMAIN disk[p].services \cap DOMAIN disk[q].services = {}
  BY DEF Reachable, Compiles
<1>4. ASSUME NEW s \in S, P(s), s \in E PROVE A[s] = answer
  <2>1. CASE s.todo = <<>>
    <3>1. A[s] = "no service"
      BY <2>1 DEF SearchSays
    <3>2. ToSet(s.todo) = {}
      BY <2>1, Items
    <3>3. /\ ToSet(roots) \subseteq s.visited
          /\ \A q \in s.visited : ToSet(disk[q].imports) \subseteq s.visited
          /\ s.visited \in SUBSET DOMAIN disk
      BY <1>4, <3>2 DEF Searching, SearchStates
    <3>4. R \subseteq s.visited
      BY <3>3 DEF Reachable
    <3>5. with = {}
      BY <1>4, <3>4 DEF Searching
    <3>6. QED  BY <3>1, <3>5
  <2>2. CASE s.todo # <<>>
    <3> DEFINE p == Head(s.todo)
    <3>1. service \in DOMAIN disk[p].services
      BY <1>4, <2>2 DEF SearchEnds
    <3>2. p \in R
      <4>1. p \in ToSet(s.todo)
        BY <2>2, SearchStep
      <4>2. QED  BY <1>4, <4>1 DEF Searching
    <3>3. A[s] = IF method \in disk[p].services[service] THEN "found" ELSE "no method"
      BY <2>2 DEF SearchSays, Found
    <3> HIDE DEF p, R
    <3>4. with = {p}
      BY <1>3, <3>1, <3>2
    <3> HIDE DEF with
    <3>5. QED  BY <3>3, <3>4
  <2>3. QED  BY <2>1, <2>2
<1> DEFINE m == CallsLeft(b, disk)
           T == {n \in Nat : \A s \in S : m[s] <= n /\ P(s) => f[s] = answer}
<1>5. ASSUME NEW s \in S, P(s), s \notin E
      PROVE  /\ SearchNext(s, disk) \in S /\ P(SearchNext(s, disk))
             /\ f[s] = f[SearchNext(s, disk)]
             /\ m[SearchNext(s, disk)] \in Nat /\ m[s] \in Nat /\ m[SearchNext(s, disk)] < m[s]
  <2>1. s.todo # <<>>
    BY <1>5 DEF SearchEnds
  <2>2. SearchNext(s, disk) \in S
    BY <2>1, SearchStep
  <2>3. P(SearchNext(s, disk))
    BY <1>5, SearchingStep
  <2> HIDE DEF S, E, P, A
  <2>4. QED  BY <1>1, <1>2, <1>5, <2>1, <2>2, <2>3
<1> HIDE DEF S, E, A, P, R, answer, m, with
<1>6. 0 \in T
  <2>1. ASSUME NEW s \in S, m[s] <= 0, P(s) PROVE f[s] = answer
    <3>1. s \in E
      BY <1>5, <2>1
    <3>2. QED  BY <1>1, <1>4, <2>1, <3>1
  <2>2. QED  BY <2>1
<1>7. ASSUME NEW n \in T PROVE n + 1 \in T
  <2>1. ASSUME NEW s \in S, m[s] <= n + 1, P(s) PROVE f[s] = answer
    <3>1. CASE s \in E
      BY <1>1, <1>4, <2>1, <3>1
    <3>2. CASE s \notin E
      <4> DEFINE u == SearchNext(s, disk)
      <4>1. u \in S /\ P(u) /\ f[s] = f[u] /\ m[u] \in Nat /\ m[s] \in Nat /\ m[u] < m[s]
        BY <1>5, <2>1, <3>2
      <4> HIDE DEF u
      <4>2. m[u] <= n
        BY <2>1, <4>1
      <4>3. QED  BY <4>1, <4>2
    <3>3. QED  BY <3>1, <3>2
  <2>2. QED  BY <2>1
<1>8. \A n \in Nat : n \in T
  <2> HIDE DEF T
  <2> QED  BY <1>6, <1>7, Induction DEF T
<1> DEFINE start == [todo |-> roots, visited |-> {}]
<1>9. start \in S
  BY DEF S, SearchStates
<1>10. P(start)
  <2>1. ToSet(roots) \subseteq R
    <3>1. ToSet(roots) \subseteq DOMAIN disk
      BY DEF Compiles
    <3>2. QED  BY <3>1 DEF R, Reachable
  <2>2. start.todo = roots /\ start.visited = {}
    OBVIOUS
  <2> HIDE DEF start
  <2>3. QED  BY <2>1, <2>2 DEF P, R, Searching
<1>11. f[start] = answer
  <2>1. m[start] \in Nat
    BY <1>2, <1>9 DEF m
  <2>2. m[start] \in T /\ m[start] <= m[start]
    <3> HIDE DEF T
    <3> QED  BY <1>8, <2>1
  <2> HIDE DEF start
  <2>3. QED  BY <1>9, <1>10, <2>2
<1>12. QED
  BY <1>1, <1>11 DEF FindsTheMethod, answer, with, R

-----------------------------------------------------------------------------
(* What the parsers make of raw targets *)

\* A sequence, of whatever it may be.
IsSeq(s) == \E S : s \in Seq(S)

LEMMA FunctionIsSeq ==
    ASSUME NEW s, NEW n \in Nat, DOMAIN s = 1 .. n, s = [i \in DOMAIN s |-> s[i]]
    PROVE  IsSeq(s) /\ Len(s) = n
<1>1. s \in Seq({s[i] : i \in 1 .. n})
  BY SMT
<1>2. QED  BY <1>1 DEF IsSeq

\* All strings of a slice, and no others, as a sequence.
LEMMA StringsKept ==
    ASSUME NEW raw, NEW field, IsRaw(raw)
    PROVE  /\ IsSeq(StringsOf(raw, field))
           /\ Is(raw, field, "slice") =>
                ToSet(StringsOf(raw, field)) =
                  {raw[field].items[i].text : i \in {j \in DOMAIN raw[field].items :
                     raw[field].items[j].go = "string"}}
<1>1. CASE ~Is(raw, field, "slice")
  <2>1. <<>> \in Seq({})
    OBVIOUS
  <2>2. QED  BY <1>1, <2>1 DEF StringsOf, IsSeq
<1>2. CASE Is(raw, field, "slice")
  <2> DEFINE items == raw[field].items
             S == ToSet(items)
             kept == {j \in DOMAIN items : items[j].go = "string"}
             texts == Selected(items, kept)
             f == [i \in DOMAIN texts |-> texts[i].text]
  <2>1. items \in Seq(S) /\ kept \in SUBSET (DOMAIN items)
    BY <1>2 DEF Is, IsRaw
  <2>2. StringsOf(raw, field) = f
    BY <1>2 DEF StringsOf
  <2> HIDE DEF items, kept, S
  <2>3. texts \in Seq(S) /\ ToSet(texts) = {items[j] : j \in kept}
    BY <2>1, SelectedItems
  <2> HIDE DEF texts
  <2>4. DOMAIN texts = 1 .. Len(texts) /\ Len(texts) \in Nat
    BY <2>3
  <2>5. DOMAIN f = DOMAIN texts /\ f = [i \in DOMAIN f |-> f[i]]
        /\ \A i \in DOMAIN texts : f[i] = texts[i].text
    OBVIOUS
  <2> HIDE DEF f
  <2>6. IsSeq(f)
    BY <2>4, <2>5, FunctionIsSeq
  <2>7. ASSUME NEW x \in ToSet(f) PROVE x \in {items[i].text : i \in kept}
    <3>1. PICK i \in DOMAIN texts : x = texts[i].text
      BY <2>5 DEF ToSet
    <3>2. texts[i] \in ToSet(texts)
      BY DEF ToSet
    <3>3. PICK j \in kept : texts[i] = items[j]
      BY <2>3, <3>2
    <3>4. QED  BY <3>1, <3>3
  <2>8. ASSUME NEW i \in kept PROVE items[i].text \in ToSet(f)
    <3>1. items[i] \in ToSet(texts)
      BY <2>3
    <3>2. PICK k \in DOMAIN texts : texts[k] = items[i]
      BY <3>1 DEF ToSet
    <3>3. QED  BY <2>5, <3>2 DEF ToSet
  <2>9. ToSet(f) = {items[i].text : i \in kept}
    BY <2>7, <2>8
  <2>10. QED  BY <2>2, <2>6, <2>9 DEF items, kept
<1>3. QED  BY <1>1, <1>2

\* The string entries of a map, whatever the type that yaml gave it.
LEMMA EntriesKept ==
    ASSUME NEW raw, NEW field, IsRaw(raw)
    PROVE  EntriesAsDeclared(raw, field, StringMap(raw, field))
<1> SUFFICES ASSUME IsMap(raw, field), NEW k \in DOMAIN raw[field].entries \ {NotAString},
                    raw[field].entries[k].go = "string"
             PROVE  /\ k \in DOMAIN StringMap(raw, field)
                    /\ StringMap(raw, field)[k] = raw[field].entries[k].text
  BY DEF EntriesAsDeclared
<1> DEFINE m == ExtractMap(raw, field)
<1>1. m # Nil
  <2>1. Nil \notin {raw[field].entries, StringKeys(raw[field].entries)}
    BY DEF IsRaw, IsMap, Is
  <2>2. QED  BY <2>1 DEF ExtractMap, IsMap
<1>2. k \in DOMAIN m /\ m[k] = raw[field].entries[k]
  <2>1. CASE Is(raw, field, "map[any]")
    BY <2>1 DEF ExtractMap, StringKeys, Is
  <2>2. CASE Is(raw, field, "map[string]")
    BY <2>2 DEF ExtractMap, Is
  <2>3. QED  BY <2>1, <2>2 DEF IsMap
<1> HIDE DEF m
<1>3. StringMap(raw, field) = [j \in {i \in DOMAIN m : m[i].go = "string"} |-> m[j].text]
  BY <1>1 DEF StringMap, m
<1>4. QED  BY <1>2, <1>3

\* A serializer has the schema of the source that the target names.
LEMMA SchemaKept ==
    ASSUME NEW raw, NEW key \in SchemaKeys, IsRaw(raw),
           NEW s \in Serializers(ParseSchemaRegistryConfig(raw), ParseSchemaConfig(raw, key))
    PROVE  SchemaAsDeclared(raw, key, s)
<1> DEFINE sr == ParseSchemaRegistryConfig(raw)
           sc == ParseSchemaConfig(raw, key)
           says == raw[key].entries
           m == ExtractMap(raw, key)
<1>1. CASE ~IsMap(raw, key)
  <2>1. m = Nil
    BY <1>1 DEF IsMap, ExtractMap
  <2>2. sc = Nil
    BY <2>1 DEF ParseSchemaConfig
  <2>3. s = Nil
    BY <2>2 DEF Serializers
  <2>4. QED  BY <1>1, <2>3 DEF SchemaAsDeclared
<1>2. CASE IsMap(raw, key)
  <2> DEFINE said == SchemaConfig(says)
  <2>1. /\ m # Nil /\ said # Nil /\ said.version \in Int
        /\ \A id \in SchemaIDs : Nil # NewSerializer(said.subject, VersionOf(said), id)
        /\ Nil # NewSerializer(said.file, 0, 0)
    <3>1. Nil \notin {says, StringKeys(says)}
      BY <1>2 DEF IsRaw, IsMap, Is
    <3>2. m # Nil
      BY <1>2, <3>1 DEF ExtractMap, IsMap
    <3> HIDE DEF m, said
    <3>3. QED  BY <1>2, <3>2 DEF IsRaw, said
  <2>2. \A x \in {"subject", "version", "file"} :
          /\ x \in DOMAIN m <=> x \in DOMAIN says
          /\ x \in DOMAIN says => m[x] = says[x]
    <3>1. NotAString \notin {"subject", "version", "file"}
      BY ConfigurationAssumption
    <3>2. CASE Is(raw, key, "map[any]")
      BY <3>1, <3>2 DEF ExtractMap, StringKeys, Is
    <3>3. CASE Is(raw, key, "map[string]")
      BY <3>3 DEF ExtractMap, Is
    <3>4. QED  BY <1>2, <3>2, <3>3 DEF IsMap
  <2> HIDE DEF m, says, sr
  <2>3. SchemaConfig(m) = said
    BY <2>2 DEF SchemaConfig, StringOf, IntOf, Is
  <2>4. sc = said
    BY <2>1, <2>3 DEF ParseSchemaConfig, m
  <2>5. /\ sc.subject = StringOf(says, "subject") /\ sc.version = IntOf(says, "version")
        /\ sc.file = StringOf(says, "file")
    BY <2>4 DEF SchemaConfig
  <2> HIDE DEF sc, said
  <2>6. CASE sc.subject # ""
    <3>1. PICK id \in SchemaIDs : s = NewSerializer(sc.subject, VersionOf(sc), id)
      BY <2>1, <2>4, <2>6 DEF Serializers, ResolveSchema, sc, sr
    <3>2. s # Nil
      BY <2>1, <2>4, <3>1
    <3>3. /\ s.from = sc.subject /\ s.version = VersionOf(sc) /\ s.header = (id > 0)
      BY <3>1 DEF NewSerializer
    <3>4. s.header
      <4>1. id > 0
        <5>1. id \in Nat \ {0}
          BY ConfigurationAssumption, Zenon
        <5>2. QED  BY <5>1
      <4>2. (id > 0) = TRUE
        BY <4>1
      <4>3. QED  BY <3>3, <4>2, Zenon
    <3>5. Is(says, "subject", "string") /\ says.subject.text = sc.subject
      BY <2>5, <2>6 DEF StringOf, Is
    <3>6. ASSUME Is(says, "version", "int"), says.version.n > 0
          PROVE  s.version = says.version.n
      <4>1. sc.version = says.version.n /\ sc.version \in Int /\ sc.version > 0
        BY <2>1, <2>4, <2>5, <3>6 DEF IntOf
      <4>2. VersionOf(sc) = sc.version
        BY <4>1 DEF VersionOf
      <4>3. QED  BY <3>3, <4>1, <4>2
    <3>7. QED
      BY <1>2, <2>6, <3>2, <3>3, <3>4, <3>5, <3>6 DEF SchemaAsDeclared, says
  <2>7. CASE sc.subject = ""
    <3>1. sc.file # "" /\ s = NewSerializer(sc.file, 0, 0)
      BY <2>1, <2>4, <2>7 DEF Serializers, ResolveSchema, sc, sr
    <3>2. s # Nil
      BY <2>1, <2>4, <3>1
    <3>3. s.from = sc.file /\ ~s.header
      <4>1. s.from = sc.file /\ s.header = (0 > 0)
        BY <3>1 DEF NewSerializer
      <4>2. (0 > 0) = FALSE
        OBVIOUS
      <4>3. QED  BY <4>1, <4>2, Zenon
    <3>4. sc.file = says.file.text
      BY <2>5, <3>1 DEF StringOf, Is
    <3>5. ~(Is(says, "subject", "string") /\ says.subject.text # "")
      BY <2>5, <2>7 DEF StringOf, Is
    <3>6. QED  BY <1>2, <3>2, <3>3, <3>4, <3>5 DEF SchemaAsDeclared, says
  <2>8. QED  BY <2>6, <2>7
<1>3. QED  BY <1>1, <1>2

=============================================================================
