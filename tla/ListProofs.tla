------------------------------ MODULE ListProofs ------------------------------
(* What a list comprehension returns, for any list and any condition, and     *)
(* that sums are numbers.  The functions that define them are recursive, so   *)
(* there is an induction on their argument: over sets of numbers, from the    *)
(* well-foundedness of <, as a theorem that speaks of every predicate could   *)
(* not be applied here.                                                       *)
EXTENDS Lists, WellFoundedInduction, SequenceTheorems, FiniteSetTheorems, TLAPS

\* Every set of numbers that is not empty has a least one.
LEMMA Least ==
    ASSUME NEW T \in SUBSET Nat, T # {}
    PROVE  \E x \in T : \A y \in T : x <= y
  <1>1. IsWellFoundedOn(OpToRel(<, Nat), Nat)
    BY NatLessThanWellFounded
  <1>2. PICK x \in T : \A y \in T : ~ (<<y, x>> \in OpToRel(<, Nat))
    BY <1>1, WFMin
  <1>3. ASSUME NEW y \in T PROVE x <= y
    <2>1. x \in Nat /\ y \in Nat
      OBVIOUS
    <2>2. y < x => <<y, x>> \in OpToRel(<, Nat)
      BY <2>1 DEF OpToRel
    <2>3. ~ (y < x)
      BY <1>2, <2>2, Zenon
    <2> QED
      BY <2>1, <2>3
  <1> QED
    BY <1>3

\* Induction over the natural numbers.
LEMMA SetInduction ==
    ASSUME NEW S, 0 \in S, \A n \in Nat : n \in S => n + 1 \in S
    PROVE  Nat \subseteq S
  <1> SUFFICES ASSUME Nat \ S # {} PROVE FALSE
    OBVIOUS
  <1>1. PICK x \in Nat \ S : \A y \in Nat \ S : x <= y
    BY Least
  <1>2. x - 1 \in Nat \ S
    BY <1>1
  <1> QED
    BY <1>1, <1>2

-------------------------------------------------------------------------------
\* f is the recursive function of Kept, as far as n.
UpTo(f, s, good, n) ==
    f = [i \in 0 .. n |-> IF i = 0 THEN <<>>
                          ELSE IF i \in good THEN Append(f[i - 1], s[i]) ELSE f[i - 1]]

\* The equation of the function at one argument.
LEMMA UpToAt ==
    ASSUME NEW f, NEW s, NEW good, NEW n \in Nat, UpTo(f, s, good, n), NEW i \in 0 .. n
    PROVE  f[i] = IF i = 0 THEN <<>>
                  ELSE IF i \in good THEN Append(f[i - 1], s[i]) ELSE f[i - 1]
  <1> DEFINE Body(j) == IF j = 0 THEN <<>>
                        ELSE IF j \in good THEN Append(f[j - 1], s[j]) ELSE f[j - 1]
  <1>1. f = [j \in 0 .. n |-> Body(j)]
    BY DEF UpTo
  <1> HIDE DEF Body
  <1>2. f[i] = Body(i)
    BY <1>1
  <1> QED
    BY <1>2 DEF Body

\* There is such a function: the recursion defines something.
LEMMA UpToExists ==
    ASSUME NEW s, NEW good
    PROVE  \A n \in Nat : \E f : UpTo(f, s, good, n)
  <1> DEFINE S == {n \in Nat : \E f : UpTo(f, s, good, n)}
  <1>1. 0 \in S
    <2> DEFINE f == [i \in 0 .. 0 |-> <<>>]
    <2>1. UpTo(f, s, good, 0)
      BY DEF UpTo
    <2> QED
      BY <2>1
  <1>2. ASSUME NEW n \in Nat, n \in S PROVE n + 1 \in S
    <2>1. PICK f : UpTo(f, s, good, n)
      BY <1>2
    <2> DEFINE g == [i \in 0 .. n + 1 |->
                        IF i = 0 THEN <<>>
                        ELSE IF i \in good THEN Append(f[i - 1], s[i]) ELSE f[i - 1]]
    <2>2. \A i \in 0 .. n : g[i] = f[i]
      BY <2>1, UpToAt
    <2>3. \A i \in 0 .. n + 1 : i # 0 => g[i - 1] = f[i - 1]
      <3> HIDE DEF g
      <3>1. \A i \in 0 .. n + 1 : i # 0 => i - 1 \in 0 .. n
        OBVIOUS
      <3> QED
        BY <2>2, <3>1
    <2>4. UpTo(g, s, good, n + 1)
      BY <2>3 DEF UpTo
    <2> QED
      BY <2>4
  <1> HIDE DEF S
  <1>3. Nat \subseteq S
    BY <1>1, <1>2, SetInduction
  <1> QED
    BY <1>3 DEF S

\* Kept(s, good) is its last value.
LEMMA KeptIsUpTo ==
    ASSUME NEW s, NEW good, Len(s) \in Nat
    PROVE  \E f : UpTo(f, s, good, Len(s)) /\ Kept(s, good) = f[Len(s)]
  <1> DEFINE f == CHOOSE f : UpTo(f, s, good, Len(s))
  <1>1. UpTo(f, s, good, Len(s))
    BY UpToExists
  <1>2. Kept(s, good) = f[Len(s)]
    BY DEF Kept, UpTo
  <1> QED
    BY <1>1, <1>2

\* list has the elements of s at the positions of good, each once, in their order;
\* pos says which position each came from.
Selects(list, s, good, pos) ==
    /\ pos \in [1 .. Len(list) -> good]
    /\ \A k \in 1 .. Len(list) : list[k] = s[pos[k]]
    /\ \A k, l \in 1 .. Len(list) : k < l => pos[k] < pos[l]
    /\ \A i \in good : \E k \in 1 .. Len(list) : pos[k] = i

\* The function selects from every initial part of s.
LEMMA UpToSelects ==
    ASSUME NEW S, NEW s \in Seq(S), NEW good, NEW f, UpTo(f, s, good, Len(s))
    PROVE  \A n \in 0 .. Len(s) :
              /\ f[n] \in Seq(S)
              /\ \E pos : Selects(f[n], s, good \cap (1 .. n), pos)
  <1> DEFINE P(n) == /\ f[n] \in Seq(S)
                     /\ \E pos : Selects(f[n], s, good \cap (1 .. n), pos)
             T == {n \in Nat : n <= Len(s) => P(n)}
  <1> HIDE DEF P
  <1>1. Len(s) \in Nat
    OBVIOUS
  <1>2. 0 \in T
    <2>1. f[0] = <<>>
      BY <1>1, UpToAt
    <2>2. Selects(<<>>, s, good \cap (1 .. 0), <<>>)
      BY DEF Selects
    <2>3. 1 .. 0 = {} /\ <<>> \in Seq(S)
      OBVIOUS
    <2>4. good \cap (1 .. 0) = {} /\ P(0)
      BY <2>1, <2>2, <2>3 DEF P
    <2> QED
      BY <2>4
  <1>3. ASSUME NEW n \in Nat, n \in T PROVE n + 1 \in T
    <2> SUFFICES ASSUME n + 1 <= Len(s) PROVE P(n + 1)
      OBVIOUS
    <2> P(n)
      BY <1>1, <1>3
    <2>1. f[n] \in Seq(S)
      BY DEF P
    <2>2. PICK pos : Selects(f[n], s, good \cap (1 .. n), pos)
      BY DEF P
    <2>3. n + 1 \in 0 .. Len(s) /\ n + 1 \in 1 .. Len(s) /\ s[n + 1] \in S
      BY <1>1
    <2>4. f[n + 1] = IF n + 1 \in good THEN Append(f[n], s[n + 1]) ELSE f[n]
      BY <1>1, <2>3, UpToAt
    <2>5. CASE n + 1 \notin good
      <3>1. good \cap (1 .. n + 1) = good \cap (1 .. n)
        BY <2>5
      <3> QED
        BY <2>1, <2>2, <2>4, <2>5, <3>1 DEF P
    <2>6. CASE n + 1 \in good
      <3> DEFINE m == Len(f[n])
                 list == Append(f[n], s[n + 1])
                 more == [k \in 1 .. m + 1 |-> IF k = m + 1 THEN n + 1 ELSE pos[k]]
                 wider == good \cap (1 .. n + 1)
      <3>1. /\ list \in Seq(S) /\ m \in Nat /\ Len(list) = m + 1
            /\ list[m + 1] = s[n + 1] /\ \A k \in 1 .. m : list[k] = f[n][k]
        BY <2>1, <2>3, AppendProperties
      <3> HIDE DEF list, m
      <3>2. /\ pos \in [1 .. m -> good \cap (1 .. n)]
            /\ \A k \in 1 .. m : f[n][k] = s[pos[k]]
            /\ \A k, l \in 1 .. m : k < l => pos[k] < pos[l]
            /\ \A i \in good \cap (1 .. n) : \E k \in 1 .. m : pos[k] = i
        BY <2>2 DEF Selects, m
      <3>3. \A k \in 1 .. m + 1 : k # m + 1 => k \in 1 .. m
        BY <3>1
      <3>4. more \in [1 .. m + 1 -> wider]
        BY <2>6, <3>1, <3>2, <3>3
      <3>5. \A k \in 1 .. m + 1 : list[k] = s[more[k]]
        BY <3>1, <3>2, <3>3
      <3>6. ASSUME NEW k \in 1 .. m + 1, NEW l \in 1 .. m + 1, k < l
            PROVE  more[k] < more[l]
        <4>1. k \in 1 .. m /\ k # m + 1 /\ pos[k] \in 1 .. n
          BY <3>1, <3>2, <3>6
        <4>2. CASE l = m + 1
          BY <4>1, <4>2
        <4>3. CASE l # m + 1
          BY <3>2, <3>3, <3>6, <4>1, <4>3
        <4> QED
          BY <4>2, <4>3
      <3>7. ASSUME NEW i \in wider PROVE \E k \in 1 .. m + 1 : more[k] = i
        <4>1. CASE i = n + 1
          BY <3>1, <4>1
        <4>2. CASE i # n + 1
          <5>1. i \in good \cap (1 .. n)
            BY <4>2
          <5>2. PICK k \in 1 .. m : pos[k] = i
            BY <3>2, <5>1
          <5> QED
            BY <3>1, <5>2
        <4> QED
          BY <4>1, <4>2
      <3>8. Selects(list, s, wider, more)
        BY <3>1, <3>4, <3>5, <3>6, <3>7 DEF Selects
      <3>9. f[n + 1] = list
        BY <2>4, <2>6 DEF list
      <3> QED
        BY <3>1, <3>8, <3>9 DEF P, wider
    <2> QED
      BY <2>5, <2>6
  <1> HIDE DEF T
  <1>4. Nat \subseteq T
    BY <1>2, <1>3, SetInduction
  <1>5. \A n \in 0 .. Len(s) : n \in T /\ n <= Len(s) /\ n \in Nat
    BY <1>1, <1>4
  <1> QED
    BY <1>5 DEF T, P

\* A list comprehension keeps the elements that satisfy its condition, all of them,
\* each once and in their order (main.py:351-355).
THEOREM KeptSelects ==
    ASSUME NEW S, NEW s \in Seq(S), NEW good \in SUBSET (1 .. Len(s))
    PROVE  /\ Kept(s, good) \in Seq(S)
           /\ \E pos : Selects(Kept(s, good), s, good, pos)
  <1>1. Len(s) \in Nat /\ Len(s) \in 0 .. Len(s)
    OBVIOUS
  <1>2. PICK f : UpTo(f, s, good, Len(s)) /\ Kept(s, good) = f[Len(s)]
    BY <1>1, KeptIsUpTo
  <1>3. good \cap (1 .. Len(s)) = good
    OBVIOUS
  <1>4. \A n \in 0 .. Len(s) :
            f[n] \in Seq(S) /\ \E pos : Selects(f[n], s, good \cap (1 .. n), pos)
    BY <1>2, UpToSelects
  <1>5. f[Len(s)] \in Seq(S) /\ \E pos : Selects(f[Len(s)], s, good \cap (1 .. Len(s)), pos)
    BY <1>1, <1>4
  <1> QED
    BY <1>2, <1>3, <1>5
-------------------------------------------------------------------------------
(* The sum of numbers over a finite set is a number.  It is a fold, so the     *)
(* function that computes it has to be shown to exist first.                   *)

\* f is the recursive function of a sum of the numbers v, for the sets of D.
Sums(f, v, D) ==
    f = [s \in D |-> IF s = {} THEN 0
                     ELSE LET x == CHOOSE x \in s : TRUE
                          IN  v[x] + f[s \ {x}]]

UpToSize(S, n) == {s \in SUBSET S : Cardinality(s) <= n}

\* The equation of the function at one argument.
LEMMA SumsAt ==
    ASSUME NEW f, NEW v, NEW D, Sums(f, v, D), NEW s \in D
    PROVE  f[s] = IF s = {} THEN 0
                  ELSE v[CHOOSE x \in s : TRUE] + f[s \ {CHOOSE x \in s : TRUE}]
  <1> DEFINE Body(t) == IF t = {} THEN 0
                        ELSE v[CHOOSE x \in t : TRUE] + f[t \ {CHOOSE x \in t : TRUE}]
  <1>1. f = [t \in D |-> Body(t)]
    BY DEF Sums
  <1> HIDE DEF Body
  <1>2. f[s] = Body(s)
    BY <1>1
  <1> QED
    BY <1>2 DEF Body

\* Taking one element away leaves a smaller set.
LEMMA OneLess ==
    ASSUME NEW S, IsFiniteSet(S), NEW n \in Nat, NEW s \in UpToSize(S, n + 1), s # {}
    PROVE  /\ (CHOOSE x \in s : TRUE) \in s
           /\ s \ {CHOOSE x \in s : TRUE} \in UpToSize(S, n)
  <1> DEFINE x == CHOOSE x \in s : TRUE
  <1>1. x \in s
    OBVIOUS
  <1> HIDE DEF x
  <1>2. IsFiniteSet(s) /\ Cardinality(s) <= n + 1
    BY FS_Subset DEF UpToSize
  <1>3. Cardinality(s \ {x}) = Cardinality(s) - 1 /\ Cardinality(s) \in Nat
    BY <1>1, <1>2, FS_RemoveElement, FS_CardinalityType
  <1>4. Cardinality(s \ {x}) <= n
    BY <1>2, <1>3
  <1> QED
    BY <1>1, <1>4 DEF UpToSize, x

\* The one set without elements.
LEMMA NothingToSum ==
    ASSUME NEW S, IsFiniteSet(S), NEW s \in UpToSize(S, 0)
    PROVE  s = {}
  <1>1. IsFiniteSet(s) /\ Cardinality(s) \in Nat /\ Cardinality(s) <= 0
    BY FS_Subset, FS_CardinalityType DEF UpToSize
  <1>2. Cardinality(s) = 0
    BY <1>1
  <1> QED
    BY <1>1, <1>2, FS_EmptySet

\* There is such a function, by the size of its arguments.
LEMMA SumsExist ==
    ASSUME NEW v, NEW S, IsFiniteSet(S)
    PROVE  \E f : Sums(f, v, SUBSET S)
  <1> DEFINE T == {n \in Nat : \E f : Sums(f, v, UpToSize(S, n))}
  <1>1. 0 \in T
    <2> DEFINE f == [s \in UpToSize(S, 0) |-> 0]
    <2>1. Sums(f, v, UpToSize(S, 0))
      BY NothingToSum DEF Sums
    <2> QED
      BY <2>1
  <1>2. ASSUME NEW n \in Nat, n \in T PROVE n + 1 \in T
    <2>1. PICK f : Sums(f, v, UpToSize(S, n))
      BY <1>2
    <2> DEFINE Body(s) == IF s = {} THEN 0
                          ELSE v[CHOOSE x \in s : TRUE] + f[s \ {CHOOSE x \in s : TRUE}]
               g == [s \in UpToSize(S, n + 1) |-> Body(s)]
    <2>2. \A s \in UpToSize(S, n) : s \in UpToSize(S, n + 1) /\ f[s] = Body(s)
      <3>1. \A s \in UpToSize(S, n) : f[s] = Body(s)
        BY <2>1, SumsAt
      <3>2. UpToSize(S, n) \subseteq UpToSize(S, n + 1)
        <4>1. \A s \in SUBSET S : Cardinality(s) \in Nat
          BY FS_Subset, FS_CardinalityType
        <4> QED
          BY <4>1 DEF UpToSize
      <3> QED
        BY <3>1, <3>2
    <2>3. \A s \in UpToSize(S, n) : g[s] = f[s]
      <3> HIDE DEF Body
      <3> QED
        BY <2>2
    <2>4. \A s \in UpToSize(S, n + 1) : s # {} =>
              g[s \ {CHOOSE x \in s : TRUE}] = f[s \ {CHOOSE x \in s : TRUE}]
      <3> HIDE DEF g
      <3> QED
        BY <2>3, OneLess
    <2>5. Sums(g, v, UpToSize(S, n + 1))
      <3> DEFINE Again(s) == IF s = {} THEN 0
                             ELSE v[CHOOSE x \in s : TRUE] + g[s \ {CHOOSE x \in s : TRUE}]
      <3> HIDE DEF g
      <3>1. \A s \in UpToSize(S, n + 1) : Body(s) = Again(s)
        BY <2>4
      <3> HIDE DEF Body, Again
      <3>2. g = [s \in UpToSize(S, n + 1) |-> Again(s)]
        BY <3>1 DEF g
      <3> QED
        BY <3>2 DEF Sums, Again
    <2> QED
      BY <2>5
  <1> HIDE DEF T
  <1>3. Nat \subseteq T
    BY <1>1, <1>2, SetInduction
  <1>4. UpToSize(S, Cardinality(S)) = SUBSET S /\ Cardinality(S) \in Nat
    BY FS_Subset, FS_CardinalityType DEF UpToSize
  <1> QED
    BY <1>3, <1>4 DEF T

\* What is closed under addition has the sums of its numbers.
LEMMA SumsAreNumbers ==
    ASSUME NEW v, NEW S, IsFiniteSet(S), NEW f, Sums(f, v, SUBSET S),
           NEW N, 0 \in N, \A a, b \in N : a + b \in N, \A i \in S : v[i] \in N
    PROVE  f[S] \in N
  <1> DEFINE T == {n \in Nat : \A s \in UpToSize(S, n) : f[s] \in N}
  <1>1. ASSUME NEW s \in SUBSET S, s = {} PROVE f[s] \in N
    <2>1. f[s] = IF s = {} THEN 0
                 ELSE v[CHOOSE x \in s : TRUE] + f[s \ {CHOOSE x \in s : TRUE}]
      BY SumsAt
    <2> QED
      BY <1>1, <2>1
  <1>2. 0 \in T
    BY <1>1, NothingToSum DEF UpToSize
  <1>3. ASSUME NEW n \in Nat, n \in T PROVE n + 1 \in T
    <2>1. ASSUME NEW s \in UpToSize(S, n + 1), s # {} PROVE f[s] \in N
      <3> DEFINE x == CHOOSE x \in s : TRUE
      <3>1. x \in s /\ s \ {x} \in UpToSize(S, n)
        BY <2>1, OneLess
      <3>2. s \in SUBSET S
        BY DEF UpToSize
      <3>3. f[s] = v[x] + f[s \ {x}]
        BY <2>1, <3>2, SumsAt
      <3> HIDE DEF x
      <3>4. v[x] \in N /\ f[s \ {x}] \in N
        BY <1>3, <3>1, <3>2
      <3> QED
        BY <3>3, <3>4
    <2>2. \A s \in UpToSize(S, n + 1) : f[s] \in N
      BY <1>1, <2>1 DEF UpToSize
    <2> QED
      BY <2>2
  <1> HIDE DEF T
  <1>4. Nat \subseteq T
    BY <1>2, <1>3, SetInduction
  <1>5. S \in UpToSize(S, Cardinality(S)) /\ Cardinality(S) \in Nat
    BY FS_CardinalityType DEF UpToSize
  <1> QED
    BY <1>4, <1>5 DEF T
===============================================================================
