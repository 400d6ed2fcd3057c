---------------------------- MODULE DataTheorems -----------------------------
(* Facts about the data the models are built from that the library's theorem *)
(* modules do not have: a sequence without one of its elements, and sums over*)
(* finite sets as the models take them, SumFunctionOnSet(f, S) being the sum *)
(* of the f[x], x in S.  Induction on a finite set is by its smallest subset *)
(* for which a fact fails.  At the end, what rounding a quotient costs.      *)
EXTENDS Integers, Functions, SequencesExt, SequenceTheorems, FiniteSetTheorems, WellFoundedInduction, TLAPS

\* What is left of a sequence without one of its elements.
LEMMA RemoveAtKeepsOthers ==
  ASSUME NEW S, NEW s \in Seq(S), NEW i \in DOMAIN s
  PROVE  /\ RemoveAt(s, i) \in Seq(S)
         /\ \A j \in DOMAIN RemoveAt(s, i) : \E m \in DOMAIN s : RemoveAt(s, i)[j] = s[m]
         /\ \A m \in DOMAIN s : m # i => \E j \in DOMAIN RemoveAt(s, i) : RemoveAt(s, i)[j] = s[m]
         /\ Len(RemoveAt(s, i)) = Len(s) - 1
<1> DEFINE a == SubSeq(s, 1, i - 1)
           b == SubSeq(s, i + 1, Len(s))
<1>1. DOMAIN s = 1..Len(s) /\ Len(s) \in Nat /\ i \in 1..Len(s)
  BY LenProperties
<1>2. /\ a \in Seq(S) /\ Len(a) = i - 1
      /\ \A j \in 1..(i - 1) : a[j] = s[j]
  BY <1>1, SubSeqProperties
<1>3. /\ b \in Seq(S) /\ Len(b) = Len(s) - i
      /\ \A j \in 1..(Len(s) - i) : b[j] = s[i + j]
  <2>1. \A j \in (i + 1)..Len(s) : s[j] \in S
    BY <1>1, ElementOfSeq
  <2>2. QED
    BY <1>1, <2>1, SubSeqProperties
<1>4. RemoveAt(s, i) = a \o b
  BY DEF RemoveAt
<1> HIDE DEF a, b
<1> DEFINE n == Len(s)
           k == i - 1
<1>5. n \in Nat /\ i \in 1..n /\ k \in Nat /\ k + 1 = i /\ Len(a) = k /\ Len(b) = n - i /\ k + (n - i) = n - 1
  BY <1>1, <1>2, <1>3
<1> HIDE DEF n, k
<1>6. /\ a \o b \in Seq(S) /\ Len(a \o b) = k + (n - i)
      /\ \A j \in 1..(k + (n - i)) : (a \o b)[j] = IF j <= k THEN a[j] ELSE b[j - k]
  <2>1. /\ a \o b \in Seq(S) /\ Len(a \o b) = Len(a) + Len(b)
        /\ \A j \in 1..(Len(a) + Len(b)) : (a \o b)[j] = IF j <= Len(a) THEN a[j] ELSE b[j - Len(a)]
    <3>1. a \in Seq(S) /\ b \in Seq(S)
      BY <1>2, <1>3
    <3>2. QED
      BY <3>1, ConcatProperties
  <2>2. QED
    BY <1>5, <2>1
<1>7. DOMAIN (a \o b) = 1..(n - 1)
  BY <1>5, <1>6, LenProperties
<1>8. ASSUME NEW j \in 1..k
      PROVE  j \in 1..(n - 1) /\ j \in 1..n /\ (a \o b)[j] = s[j]
  <2>1. j \in 1..(n - 1) /\ j \in 1..n /\ j <= k
    BY <1>5
  <2>2. (a \o b)[j] = a[j]
    BY <1>5, <1>6, <2>1
  <2>3. QED
    BY <1>2, <2>1, <2>2 DEF k
<1>9. ASSUME NEW j \in (k + 1)..(n - 1)
      PROVE  j \in 1..(n - 1) /\ j + 1 \in 1..n /\ (a \o b)[j] = s[j + 1]
  <2>1. j \in 1..(n - 1) /\ j + 1 \in 1..n /\ ~(j <= k) /\ j - k \in 1..(n - i) /\ i + (j - k) = j + 1
    <3>1. n \in Nat /\ k \in Nat /\ i = k + 1 /\ j \in Int /\ k + 1 <= j /\ j <= n - 1
      BY <1>5, <1>9
    <3>2. QED
      BY <3>1
  <2>2. (a \o b)[j] = b[j - k]
    BY <1>5, <1>6, <2>1
  <2>3. b[j - k] = s[i + (j - k)]
    BY <1>3, <2>1 DEF n
  <2>4. QED
    BY <2>1, <2>2, <2>3
<1>10. ASSUME NEW j \in 1..(n - 1)
       PROVE  \E m \in 1..n : (a \o b)[j] = s[m]
  <2>1. j \in 1..k \/ j \in (k + 1)..(n - 1)
    BY <1>5
  <2>2. QED
    BY <1>8, <1>9, <2>1
<1>11. ASSUME NEW m \in 1..n, m # i
       PROVE  \E j \in 1..(n - 1) : (a \o b)[j] = s[m]
  <2>1. CASE m < i
    <3>1. m \in 1..k
      BY <1>5, <2>1
    <3>2. QED
      BY <1>8, <3>1
  <2>2. CASE m > i
    <3>1. m - 1 \in (k + 1)..(n - 1) /\ (m - 1) + 1 = m
      BY <1>5, <2>2
    <3>2. QED
      BY <1>9, <3>1
  <2>3. QED
    BY <1>5, <1>11, <2>1, <2>2
<1>12. DOMAIN s = 1..n
  BY <1>1 DEF n
<1>13. Len(RemoveAt(s, i)) = Len(s) - 1
  BY <1>4, <1>5, <1>6 DEF n
<1>14. QED
  BY <1>4, <1>6, <1>7, <1>10, <1>11, <1>12, <1>13

\* Some set of subsets of a finite set has one that contains no other.
LEMMA SmallestSubset ==
  ASSUME NEW S, IsFiniteSet(S), NEW C, C \subseteq SUBSET S, C # {}
  PROVE  \E A \in C : \A B \in C : B \subseteq A => B = A
<1>1. IsWellFoundedOn(StrictSubsetOrdering(S), FiniteSubsetsOf(S)) /\ C \subseteq FiniteSubsetsOf(S)
  BY FS_StrictSubsetOrderingWellFounded, FS_FiniteSubsetsOfFinite
<1>2. PICK A \in C : \A B \in C : ~(<<B, A>> \in StrictSubsetOrdering(S))
  BY <1>1, WFMin
<1>3. \A B \in C : B \subseteq A => B = A
  BY <1>2 DEF StrictSubsetOrdering
<1>4. QED
  BY <1>3

\* Induction on a finite set: what holds of the empty set, and of a set once
\* it holds of all sets with one element less, holds of it.
LEMMA SubsetInduction ==
  ASSUME NEW S, IsFiniteSet(S), NEW P, {} \in P,
         \A s \in SUBSET S : s # {} /\ (\A x \in s : s \ {x} \in P) => s \in P
  PROVE  S \in P
<1> DEFINE C == {s \in SUBSET S : s \notin P}
<1>1. SUFFICES ASSUME C # {} PROVE FALSE
  OBVIOUS
<1>2. PICK s \in C : \A r \in C : r \subseteq s => r = s
  <2> HIDE DEF C
  <2>1. C \subseteq SUBSET S
    BY DEF C
  <2>2. QED
    BY <1>1, <2>1, SmallestSubset
<1>3. s # {} /\ s \notin P
  OBVIOUS
<1>4. ASSUME NEW x \in s PROVE s \ {x} \in P
  <2>1. s \ {x} \notin C
    BY <1>2
  <2>2. QED
    BY <2>1
<1>5. QED
  BY <1>3, <1>4

\* What the sum takes first of a set.
First(s) == CHOOSE x \in s : TRUE

LEMMA FirstIsIn == \A s : s # {} => First(s) \in s
BY DEF First

\* g gives the sums of f over the subsets of S.
Sums(f, S, g) == g = [s \in SUBSET S |-> IF s = {} THEN 0 ELSE f[First(s)] + g[s \ {First(s)}]]

LEMMA SumIsSums == \A f, S : SumFunctionOnSet(f, S) = (CHOOSE g : Sums(f, S, g))[S]
BY DEF SumFunctionOnSet, FoldFunctionOnSet, MapThenFoldSet, Sums, First
\* What such a g is at each subset.
LEMMA SumsAt ==
  ASSUME NEW f, NEW S, NEW g, Sums(f, S, g)
  PROVE  /\ g[{}] = 0
         /\ \A s \in SUBSET S : s # {} => g[s] = f[First(s)] + g[s \ {First(s)}]
BY DEF Sums

\* Two of them agree where both are given.
LEMMA SumsAgree ==
  ASSUME NEW f, NEW A, NEW B, NEW g, NEW h, Sums(f, A, g), Sums(f, B, h),
         NEW S, IsFiniteSet(S), S \subseteq A, S \subseteq B
  PROVE  g[S] = h[S]
<1> DEFINE C == {s \in SUBSET S : g[s] # h[s]}
<1>1. SUFFICES ASSUME C # {} PROVE FALSE
  OBVIOUS
<1>2. PICK s \in C : \A r \in C : r \subseteq s => r = s
  <2> HIDE DEF C
  <2>1. C \subseteq SUBSET S
    BY DEF C
  <2>2. QED
    BY <1>1, <2>1, SmallestSubset
<1>3. s \in SUBSET A /\ s \in SUBSET B
  OBVIOUS
<1>4. s # {}
  BY SumsAt
<1>5. First(s) \in s
  BY <1>4, FirstIsIn
<1>6. s \ {First(s)} \notin C
  BY <1>2, <1>5
<1>7. g[s \ {First(s)}] = h[s \ {First(s)}]
  BY <1>6
<1>8. g[s] = f[First(s)] + g[s \ {First(s)}] /\ h[s] = f[First(s)] + h[s \ {First(s)}]
  <2> HIDE DEF C
  <2>1. g[s] = f[First(s)] + g[s \ {First(s)}]
    BY <1>3, <1>4, SumsAt
  <2>2. h[s] = f[First(s)] + h[s \ {First(s)}]
    BY <1>3, <1>4, SumsAt
  <2>3. QED
    BY <2>1, <2>2
<1>9. QED
  BY <1>7, <1>8

\* Every finite set has one: built of those of its proper subsets.
LEMMA SumsExist ==
  ASSUME NEW f, NEW S, IsFiniteSet(S)
  PROVE  \E g : Sums(f, S, g)
<1> DEFINE C == {s \in SUBSET S : ~\E g : Sums(f, s, g)}
<1>1. SUFFICES ASSUME C # {} PROVE FALSE
  OBVIOUS
<1>2. PICK s \in C : \A r \in C : r \subseteq s => r = s
  <2> HIDE DEF C
  <2>1. C \subseteq SUBSET S
    BY DEF C
  <2>2. QED
    BY <1>1, <2>1, SmallestSubset
<1> DEFINE G(r) == CHOOSE g : Sums(f, r, g)
           proper(r) == G(r)[r]
           h == [r \in SUBSET s |-> IF r = {} THEN 0 ELSE f[First(r)] + proper(r \ {First(r)})]
<1>3. \A r \in SUBSET s : r # s => Sums(f, r, G(r))
  <2> HIDE DEF G
  <2>1. ASSUME NEW r \in SUBSET s, r # s PROVE \E g : Sums(f, r, g)
    BY <1>2, <2>1
  <2>2. QED
    BY <2>1 DEF G
<1>4. ASSUME NEW r \in SUBSET s, r # s
      PROVE  h[r] = proper(r)
  <2> HIDE DEF G
  <2>1. CASE r = {}
    BY <1>3, <1>4, <2>1, SumsAt
  <2>2. CASE r # {}
    <3> DEFINE q == r \ {First(r)}
    <3>1. First(r) \in r /\ q \in SUBSET s /\ q # s /\ q \in SUBSET r
      BY <1>4, <2>2, FirstIsIn
    <3>2. Sums(f, r, G(r)) /\ Sums(f, q, G(q))
      BY <1>3, <1>4, <3>1
    <3>3. G(r)[r] = f[First(r)] + G(r)[q]
      BY <2>2, <3>2, SumsAt
    <3>4. IsFiniteSet(q)
      BY <3>1, FS_Subset
    <3>5. G(r)[q] = G(q)[q]
      BY <3>1, <3>2, <3>4, SumsAgree
    <3>6. h[r] = f[First(r)] + G(q)[q]
      BY <2>2
    <3>7. QED
      BY <3>3, <3>5, <3>6
  <2>3. QED
    BY <2>1, <2>2
<1>5. \A r \in SUBSET s : r # {} => r \ {First(r)} \in SUBSET s /\ r \ {First(r)} # s
  BY FirstIsIn
<1> HIDE DEF proper
<1>6. \A r \in SUBSET s : r # {} => h[r \ {First(r)}] = proper(r \ {First(r)})
  <2> HIDE DEF h
  <2>1. QED
    BY <1>4, <1>5
<1>7. h = [r \in SUBSET s |-> IF r = {} THEN 0 ELSE f[First(r)] + h[r \ {First(r)}]]
  <2> DEFINE k == [r \in SUBSET s |-> IF r = {} THEN 0 ELSE f[First(r)] + h[r \ {First(r)}]]
  <2>1. ASSUME NEW r \in SUBSET s PROVE h[r] = k[r]
    <3>1. CASE r = {}
      BY <3>1
    <3>2. CASE r # {}
      <4>1. h[r] = f[First(r)] + proper(r \ {First(r)})
        BY <3>2
      <4>2. k[r] = f[First(r)] + h[r \ {First(r)}]
        <5> HIDE DEF h
        <5>1. QED BY <3>2
      <4>3. QED
        BY <1>6, <3>2, <4>1, <4>2
    <3>3. QED
      BY <3>1, <3>2
  <2>2. h = [r \in SUBSET s |-> h[r]] /\ k = [r \in SUBSET s |-> k[r]]
    OBVIOUS
  <2> HIDE DEF h, k
  <2>3. h = k
    BY <2>1, <2>2
  <2>4. QED
    BY <2>3 DEF k
<1> HIDE DEF h
<1>8. Sums(f, s, h)
  BY <1>7 DEF Sums
<1>9. QED
  BY <1>8

\* The sum over no element is 0, that over others the first and the rest.
LEMMA SumOfNone == \A f : SumFunctionOnSet(f, {}) = 0
<1> SUFFICES ASSUME NEW f PROVE SumFunctionOnSet(f, {}) = 0
  OBVIOUS
<1> DEFINE g == CHOOSE g : Sums(f, {}, g)
<1>1. Sums(f, {}, g)
  BY SumsExist, FS_EmptySet
<1>2. g[{}] = 0
  <2> HIDE DEF g
  <2>1. QED
    BY <1>1, SumsAt
<1>3. QED
  BY <1>2, SumIsSums

LEMMA SumTakesFirst ==
  ASSUME NEW f, NEW S, IsFiniteSet(S), S # {}
  PROVE  SumFunctionOnSet(f, S) = f[First(S)] + SumFunctionOnSet(f, S \ {First(S)})
<1> DEFINE G(s) == CHOOSE g : Sums(f, s, g)
           R == S \ {First(S)}
<1>1. IsFiniteSet(R) /\ R \subseteq S
  BY FS_Subset
<1>2. Sums(f, S, G(S)) /\ Sums(f, R, G(R))
  BY <1>1, SumsExist
<1> HIDE DEF G
<1>3. G(S)[S] = f[First(S)] + G(S)[R]
  BY <1>2, SumsAt
<1>4. G(S)[R] = G(R)[R]
  BY <1>1, <1>2, SumsAgree
<1>5. SumFunctionOnSet(f, S) = G(S)[S] /\ SumFunctionOnSet(f, R) = G(R)[R]
  BY SumIsSums DEF G
<1>6. QED
  BY <1>3, <1>4, <1>5

\* A sum of naturals is one, a sum of integers an integer.
LEMMA SumIsNat ==
  ASSUME NEW f, NEW S, IsFiniteSet(S), \A x \in S : f[x] \in Nat
  PROVE  SumFunctionOnSet(f, S) \in Nat
<1> DEFINE P == {s \in SUBSET S : SumFunctionOnSet(f, s) \in Nat}
<1>1. {} \in P
  BY SumOfNone
<1>2. ASSUME NEW s \in SUBSET S, s # {}, \A x \in s : s \ {x} \in P PROVE s \in P
  <2>1. First(s) \in s /\ IsFiniteSet(s)
    BY <1>2, FirstIsIn, FS_Subset
  <2>2. SumFunctionOnSet(f, s) = f[First(s)] + SumFunctionOnSet(f, s \ {First(s)})
    BY <1>2, <2>1, SumTakesFirst
  <2>3. f[First(s)] \in Nat /\ SumFunctionOnSet(f, s \ {First(s)}) \in Nat
    BY <1>2, <2>1
  <2>4. QED
    BY <2>2, <2>3
<1> HIDE DEF P
<1>3. S \in P
  BY <1>1, <1>2, SubsetInduction
<1>4. QED
  BY <1>3 DEF P

LEMMA SumIsInt ==
  ASSUME NEW f, NEW S, IsFiniteSet(S), \A x \in S : f[x] \in Int
  PROVE  SumFunctionOnSet(f, S) \in Int
<1> DEFINE P == {s \in SUBSET S : SumFunctionOnSet(f, s) \in Int}
<1>1. {} \in P
  BY SumOfNone
<1>2. ASSUME NEW s \in SUBSET S, s # {}, \A x \in s : s \ {x} \in P PROVE s \in P
  <2>1. First(s) \in s /\ IsFiniteSet(s)
    BY <1>2, FirstIsIn, FS_Subset
  <2>2. SumFunctionOnSet(f, s) = f[First(s)] + SumFunctionOnSet(f, s \ {First(s)})
    BY <1>2, <2>1, SumTakesFirst
  <2>3. f[First(s)] \in Int /\ SumFunctionOnSet(f, s \ {First(s)}) \in Int
    BY <1>2, <2>1
  <2>4. QED
    BY <2>2, <2>3
<1> HIDE DEF P
<1>3. S \in P
  BY <1>1, <1>2, SubsetInduction
<1>4. QED
  BY <1>3 DEF P

\* Two functions that agree on a set have the same sum over it.
LEMMA SumsOfEquals ==
  ASSUME NEW f, NEW h, NEW S, IsFiniteSet(S), \A x \in S : f[x] = h[x]
  PROVE  SumFunctionOnSet(f, S) = SumFunctionOnSet(h, S)
<1> DEFINE P == {s \in SUBSET S : SumFunctionOnSet(f, s) = SumFunctionOnSet(h, s)}
<1>1. {} \in P
  BY SumOfNone
<1>2. ASSUME NEW s \in SUBSET S, s # {}, \A x \in s : s \ {x} \in P PROVE s \in P
  <2>1. First(s) \in s /\ IsFiniteSet(s)
    BY <1>2, FirstIsIn, FS_Subset
  <2>2. SumFunctionOnSet(f, s) = f[First(s)] + SumFunctionOnSet(f, s \ {First(s)})
    BY <1>2, <2>1, SumTakesFirst
  <2>3. SumFunctionOnSet(h, s) = h[First(s)] + SumFunctionOnSet(h, s \ {First(s)})
    BY <1>2, <2>1, SumTakesFirst
  <2>4. f[First(s)] = h[First(s)]
    BY <2>1
  <2>5. SumFunctionOnSet(f, s \ {First(s)}) = SumFunctionOnSet(h, s \ {First(s)})
    BY <1>2, <2>1
  <2>6. QED
    BY <2>2, <2>3, <2>4, <2>5
<1> HIDE DEF P
<1>3. S \in P
  BY <1>1, <1>2, SubsetInduction
<1>4. QED
  BY <1>3 DEF P

\* Whichever element is taken, the sum is it and the sum of the others.
LEMMA SumTakesAny ==
  ASSUME NEW f, NEW S, IsFiniteSet(S), \A x \in S : f[x] \in Int
  PROVE  \A y \in S : SumFunctionOnSet(f, S) = f[y] + SumFunctionOnSet(f, S \ {y})
<1> DEFINE sum(s) == SumFunctionOnSet(f, s)
           P == {s \in SUBSET S : \A y \in s : sum(s) = f[y] + sum(s \ {y})}
<1>1. {} \in P
  OBVIOUS
<1>2. ASSUME NEW s \in SUBSET S, s # {}, \A x \in s : s \ {x} \in P PROVE s \in P
  <2> DEFINE x == First(s)
  <2>1. x \in s /\ IsFiniteSet(s)
    BY <1>2, FirstIsIn, FS_Subset
  <2>2. sum(s) = f[x] + sum(s \ {x})
    BY <1>2, <2>1, SumTakesFirst
  <2>3. ASSUME NEW y \in s PROVE sum(s) = f[y] + sum(s \ {y})
    <3> HIDE DEF x, sum
    <3>1. CASE x = y
      BY <2>2, <3>1
    <3>2. CASE x # y
      <4> DEFINE r == (s \ {x}) \ {y}
      <4>1. r = (s \ {y}) \ {x} /\ IsFiniteSet(r) /\ \A z \in r : f[z] \in Int
        BY <2>1, FS_Subset
      <4>2. sum(s \ {x}) = f[y] + sum(r)
        BY <1>2, <2>1, <3>2
      <4>3. sum(s \ {y}) = f[x] + sum(r)
        BY <1>2, <2>1, <3>2, <4>1
      <4>4. sum(r) \in Int
        BY <4>1, SumIsInt DEF sum
      <4>5. f[x] \in Int /\ f[y] \in Int
        BY <2>1
      <4> HIDE DEF r
      <4>6. QED
        BY <2>2, <4>2, <4>3, <4>4, <4>5
    <3>3. QED
      BY <3>1, <3>2
  <2>4. QED
    BY <2>3
<1> HIDE DEF P
<1>3. S \in P
  BY <1>1, <1>2, SubsetInduction
<1>4. QED
  BY <1>3 DEF P

\* An element more adds its own.
LEMMA SumAddsOne ==
  ASSUME NEW f, NEW S, IsFiniteSet(S), NEW y, y \notin S, \A x \in S \cup {y} : f[x] \in Int
  PROVE  SumFunctionOnSet(f, S \cup {y}) = f[y] + SumFunctionOnSet(f, S)
<1>1. IsFiniteSet(S \cup {y}) /\ (S \cup {y}) \ {y} = S
  BY FS_AddElement
<1>2. QED
  BY <1>1, SumTakesAny

\* The sum over one element is what it has.
LEMMA SumOfOne ==
  ASSUME NEW f, NEW y, f[y] \in Int
  PROVE  SumFunctionOnSet(f, {y}) = f[y]
<1>1. IsFiniteSet({y}) /\ {y} \ {y} = {}
  BY FS_Singleton
<1>2. SumFunctionOnSet(f, {y}) = f[y] + SumFunctionOnSet(f, {y} \ {y})
  BY <1>1, SumTakesAny
<1>3. QED
  BY <1>1, <1>2, SumOfNone

\* Two sets with nothing in common add up.
LEMMA SumOfUnion ==
  ASSUME NEW f, NEW A, NEW B, IsFiniteSet(A), IsFiniteSet(B), A \cap B = {},
         \A x \in A \cup B : f[x] \in Int
  PROVE  SumFunctionOnSet(f, A \cup B) = SumFunctionOnSet(f, A) + SumFunctionOnSet(f, B)
<1> DEFINE sum(s) == SumFunctionOnSet(f, s)
           P == {s \in SUBSET A : sum(s \cup B) = sum(s) + sum(B)}
<1>0. sum(B) \in Int /\ {} \cup B = B
  BY SumIsInt
<1>1. {} \in P
  BY <1>0, SumOfNone
<1>2. ASSUME NEW s \in SUBSET A, s # {}, \A x \in s : s \ {x} \in P PROVE s \in P
  <2> DEFINE y == First(s)
  <2>1. y \in s /\ IsFiniteSet(s) /\ IsFiniteSet(s \cup B) /\ IsFiniteSet(s \ {y})
    BY <1>2, FirstIsIn, FS_Subset, FS_Union
  <2> HIDE DEF y
  <2>2. sum(s) = f[y] + sum(s \ {y})
    BY <2>1, SumTakesAny
  <2>3. sum(s \cup B) = f[y] + sum((s \ {y}) \cup B)
    <3>1. sum(s \cup B) = f[y] + sum((s \cup B) \ {y})
      BY <2>1, SumTakesAny
    <3>2. (s \cup B) \ {y} = (s \ {y}) \cup B
      BY <2>1
    <3>3. QED
      BY <3>1, <3>2
  <2>4. sum((s \ {y}) \cup B) = sum(s \ {y}) + sum(B)
    BY <1>2, <2>1
  <2>5. f[y] \in Int /\ sum(s \ {y}) \in Int
    BY <2>1, SumIsInt
  <2>6. sum(s \cup B) = sum(s) + sum(B)
    <3> DEFINE a == sum(s \ {y})
               b == sum(B)
    <3>1. sum(s \cup B) = f[y] + (a + b) /\ sum(s) = f[y] + a
      BY <2>2, <2>3, <2>4
    <3>2. a \in Int /\ b \in Int /\ f[y] \in Int
      BY <1>0, <2>5
    <3> HIDE DEF a, b
    <3>3. sum(s \cup B) = sum(s) + b
      BY <3>1, <3>2
    <3>4. QED
      BY <3>3 DEF b
  <2>7. QED
    BY <2>6
<1> HIDE DEF P
<1>3. A \in P
  BY <1>1, <1>2, SubsetInduction
<1>4. QED
  BY <1>3 DEF P

\* What is nowhere larger adds up to no more.
LEMMA SumIsMonotone ==
  ASSUME NEW f, NEW h, NEW S, IsFiniteSet(S), \A x \in S : f[x] \in Int /\ h[x] \in Int /\ f[x] <= h[x]
  PROVE  SumFunctionOnSet(f, S) <= SumFunctionOnSet(h, S)
<1> DEFINE P == {s \in SUBSET S : SumFunctionOnSet(f, s) <= SumFunctionOnSet(h, s)}
<1>1. {} \in P
  BY SumOfNone
<1>2. ASSUME NEW s \in SUBSET S, s # {}, \A x \in s : s \ {x} \in P PROVE s \in P
  <2> DEFINE y == First(s)
             r == s \ {y}
  <2>1. y \in s /\ IsFiniteSet(s) /\ IsFiniteSet(r)
    BY <1>2, FirstIsIn, FS_Subset
  <2> HIDE DEF y
  <2>2. SumFunctionOnSet(f, s) = f[y] + SumFunctionOnSet(f, r)
    BY <2>1, SumTakesAny
  <2>3. SumFunctionOnSet(h, s) = h[y] + SumFunctionOnSet(h, r)
    BY <2>1, SumTakesAny
  <2>4. SumFunctionOnSet(f, r) \in Int /\ SumFunctionOnSet(h, r) \in Int
    BY <2>1, SumIsInt
  <2>5. f[y] \in Int /\ h[y] \in Int /\ f[y] <= h[y] /\ SumFunctionOnSet(f, r) <= SumFunctionOnSet(h, r)
    BY <1>2, <2>1
  <2>6. QED
    BY <2>2, <2>3, <2>4, <2>5
<1> HIDE DEF P
<1>3. S \in P
  BY <1>1, <1>2, SubsetInduction
<1>4. QED
  BY <1>3 DEF P

\* A set adds up to no less than a part of it, when nothing is negative.
LEMMA SumOfPart ==
  ASSUME NEW f, NEW S, IsFiniteSet(S), NEW A \in SUBSET S, \A x \in S : f[x] \in Nat
  PROVE  SumFunctionOnSet(f, A) <= SumFunctionOnSet(f, S)
<1> DEFINE R == S \ A
<1>1. IsFiniteSet(A) /\ IsFiniteSet(R) /\ A \cup R = S /\ A \cap R = {} /\ \A x \in A \cup R : f[x] \in Int
  BY FS_Subset
<1>2. SumFunctionOnSet(f, S) = SumFunctionOnSet(f, A) + SumFunctionOnSet(f, R)
  <2> HIDE DEF R
  <2>1. SumFunctionOnSet(f, A \cup R) = SumFunctionOnSet(f, A) + SumFunctionOnSet(f, R)
    BY <1>1, SumOfUnion
  <2>2. QED
    BY <1>1, <2>1
<1>3. SumFunctionOnSet(f, A) \in Nat /\ SumFunctionOnSet(f, R) \in Nat
  BY <1>1, SumIsNat
<1>4. QED
  BY <1>2, <1>3

\* h is a times f and b besides.
Scales(h, f, S, a, b) == \A x \in S : f[x] \in Int /\ h[x] = a * f[x] + b

\* Its sum is then a times that of f, and b for each element.
LEMMA SumScales ==
  ASSUME NEW f, NEW h, NEW S, IsFiniteSet(S), NEW a \in Int, NEW b \in Int, Scales(h, f, S, a, b)
  PROVE  SumFunctionOnSet(h, S) = a * SumFunctionOnSet(f, S) + b * Cardinality(S)
<1> DEFINE F(s) == SumFunctionOnSet(f, s)
           H(s) == SumFunctionOnSet(h, s)
           P == {s \in SUBSET S : H(s) = a * F(s) + b * Cardinality(s)}
<1> USE DEF Scales
<1>0. \A x \in S : h[x] \in Int
  OBVIOUS
<1>1. {} \in P
  BY SumOfNone, FS_EmptySet
<1>2. ASSUME NEW s \in SUBSET S, s # {}, \A x \in s : s \ {x} \in P PROVE s \in P
  <2> DEFINE y == First(s)
             r == s \ {y}
  <2>1. y \in s /\ IsFiniteSet(s) /\ IsFiniteSet(r)
    BY <1>2, FirstIsIn, FS_Subset
  <2> HIDE DEF y
  <2>2. F(s) = f[y] + F(r) /\ H(s) = h[y] + H(r)
    BY <1>0, <2>1, SumTakesAny
  <2>3. Cardinality(s) = Cardinality(r) + 1 /\ Cardinality(r) \in Nat
    BY <2>1, FS_RemoveElement, FS_CardinalityType
  <2>4. f[y] \in Int /\ h[y] = a * f[y] + b /\ F(r) \in Int /\ H(r) = a * F(r) + b * Cardinality(r)
    BY <1>2, <2>1, SumIsInt
  <2> DEFINE n == Cardinality(r)
             u == f[y]
             v == F(r)
  <2>5. /\ n \in Int /\ u \in Int /\ v \in Int
        /\ H(s) = (a * u + b) + (a * v + b * n) /\ F(s) = u + v /\ Cardinality(s) = n + 1
    BY <2>2, <2>3, <2>4
  <2> HIDE DEF F, H, n, u, v
  <2>6. (a * u + b) + (a * v + b * n) = a * (u + v) + b * (n + 1)
    BY <2>5
  <2>7. H(s) = a * F(s) + b * Cardinality(s)
    BY <2>5, <2>6
  <2>8. QED
    BY <2>7
<1> HIDE DEF P
<1>3. S \in P
  BY <1>1, <1>2, SubsetInduction
<1>4. QED
  BY <1>3 DEF P

\* Elements taken one to one to others that count as much add up to as much.
OneToOne(g, A) == \A x, y \in A : g[x] = g[y] => x = y

LEMMA SumOfImage ==
  ASSUME NEW A, IsFiniteSet(A), NEW g, OneToOne(g, A), NEW f, NEW h,
         \A x \in A : h[x] \in Int /\ f[g[x]] = h[x]
  PROVE  SumFunctionOnSet(f, {g[x] : x \in A}) = SumFunctionOnSet(h, A)
<1> DEFINE img(s) == {g[x] : x \in s}
           P == {s \in SUBSET A : /\ IsFiniteSet(img(s))
                                  /\ SumFunctionOnSet(f, img(s)) = SumFunctionOnSet(h, s)}
<1>1. {} \in P
  <2>1. img({}) = {}
    OBVIOUS
  <2> HIDE DEF img
  <2>2. QED
    BY <2>1, FS_EmptySet, SumOfNone
<1>2. ASSUME NEW s \in SUBSET A, s # {}, \A x \in s : s \ {x} \in P PROVE s \in P
  <2> DEFINE y == First(s)
             r == s \ {y}
  <2>1. y \in s /\ y \in A /\ r \in SUBSET A /\ IsFiniteSet(s) /\ r \in P
    BY <1>2, FirstIsIn, FS_Subset
  <2> HIDE DEF y
  <2>2. img(s) = img(r) \cup {g[y]}
    BY <2>1
  <2>3. g[y] \notin img(r)
    BY <2>1 DEF OneToOne
  <2>4. \A z \in img(r) \cup {g[y]} : f[z] \in Int
    BY <2>1
  <2>5. IsFiniteSet(img(r)) /\ SumFunctionOnSet(f, img(r)) = SumFunctionOnSet(h, r)
    BY <2>1
  <2>6. SumFunctionOnSet(h, s) = h[y] + SumFunctionOnSet(h, r)
    BY <2>1, SumTakesAny
  <2>7. f[g[y]] = h[y]
    BY <2>1
  <2> HIDE DEF img, r
  <2>8. SumFunctionOnSet(f, img(r) \cup {g[y]}) = f[g[y]] + SumFunctionOnSet(f, img(r))
    BY <2>3, <2>4, <2>5, SumAddsOne
  <2>9. IsFiniteSet(img(s))
    BY <2>2, <2>5, FS_AddElement
  <2>10. SumFunctionOnSet(f, img(s)) = SumFunctionOnSet(h, s)
    BY <2>2, <2>5, <2>6, <2>7, <2>8
  <2>11. QED
    BY <2>9, <2>10
<1> HIDE DEF P
<1>3. A \in P
  BY <1>1, <1>2, SubsetInduction
<1>4. QED
  BY <1>3 DEF P

\* Elements that count for nothing may be left out.
LEMMA SumOfSome ==
  ASSUME NEW f, NEW S, IsFiniteSet(S), NEW A \in SUBSET S,
         \A x \in S : f[x] \in Int, \A x \in S \ A : f[x] = 0
  PROVE  SumFunctionOnSet(f, S) = SumFunctionOnSet(f, A)
<1> DEFINE R == S \ A
<1>1. IsFiniteSet(A) /\ IsFiniteSet(R) /\ A \cup R = S /\ A \cap R = {} /\ \A x \in A \cup R : f[x] \in Int
  BY FS_Subset
<1>2. SumFunctionOnSet(f, R) = 0
  <2>1. Scales(f, f, R, 0, 0)
    BY DEF Scales
  <2>2. SumFunctionOnSet(f, R) \in Int /\ Cardinality(R) \in Int
    BY <1>1, SumIsInt, FS_CardinalityType
  <2> HIDE DEF R
  <2>3. SumFunctionOnSet(f, R) = 0 * SumFunctionOnSet(f, R) + 0 * Cardinality(R)
    BY <1>1, <2>1, SumScales
  <2>4. QED
    BY <2>2, <2>3
<1>3. SumFunctionOnSet(f, S) = SumFunctionOnSet(f, A) + SumFunctionOnSet(f, R)
  <2> HIDE DEF R
  <2>1. SumFunctionOnSet(f, A \cup R) = SumFunctionOnSet(f, A) + SumFunctionOnSet(f, R)
    BY <1>1, SumOfUnion
  <2>2. QED
    BY <1>1, <2>1
<1>4. SumFunctionOnSet(f, A) \in Int
  BY <1>1, SumIsInt
<1>5. QED
  BY <1>2, <1>3, <1>4

\* a and b are no further apart than e.
Within(a, b, e) == a - b <= e /\ b - a <= e

\* c times f and a times h are no further apart than e, element by element.
Track(f, h, S, c, a, e) == \A x \in S : f[x] \in Int /\ h[x] \in Int /\ Within(c * f[x], a * h[x], e)

\* Their sums are no further apart than e for each element.
LEMMA SumsTrack ==
  ASSUME NEW f, NEW h, NEW S, IsFiniteSet(S), NEW c \in Int, NEW a \in Int, NEW e \in Int,
         Track(f, h, S, c, a, e)
  PROVE  Within(c * SumFunctionOnSet(f, S), a * SumFunctionOnSet(h, S), e * Cardinality(S))
<1> DEFINE F(s) == SumFunctionOnSet(f, s)
           H(s) == SumFunctionOnSet(h, s)
           P == {s \in SUBSET S : Within(c * F(s), a * H(s), e * Cardinality(s))}
<1> USE DEF Track
<1>1. {} \in P
  BY SumOfNone, FS_EmptySet DEF Within
<1>2. ASSUME NEW s \in SUBSET S, s # {}, \A x \in s : s \ {x} \in P PROVE s \in P
  <2> DEFINE y == First(s)
             r == s \ {y}
  <2>1. y \in s /\ IsFiniteSet(s) /\ IsFiniteSet(r)
    BY <1>2, FirstIsIn, FS_Subset
  <2> HIDE DEF y
  <2>2. F(s) = f[y] + F(r) /\ H(s) = h[y] + H(r)
    BY <2>1, SumTakesAny
  <2>3. Cardinality(s) = Cardinality(r) + 1 /\ Cardinality(r) \in Nat
    BY <2>1, FS_RemoveElement, FS_CardinalityType
  <2>4. F(r) \in Int /\ H(r) \in Int
    BY <2>1, SumIsInt
  <2>5. f[y] \in Int /\ h[y] \in Int /\ Within(c * f[y], a * h[y], e) /\ Within(c * F(r), a * H(r), e * Cardinality(r))
    BY <1>2, <2>1
  <2> DEFINE n == Cardinality(r)
             u == f[y]
             v == h[y]
             w == F(r)
             z == H(r)
  <2>6. /\ n \in Int /\ u \in Int /\ v \in Int /\ w \in Int /\ z \in Int
        /\ F(s) = u + w /\ H(s) = v + z /\ Cardinality(s) = n + 1
        /\ Within(c * u, a * v, e) /\ Within(c * w, a * z, e * n)
    BY <2>2, <2>3, <2>4, <2>5
  <2> HIDE DEF F, H, n, u, v, w, z
  <2>7. c * (u + w) = c * u + c * w /\ a * (v + z) = a * v + a * z /\ e * (n + 1) = e * n + e
    <3>1. \A i, j, k \in Int : i * (j + k) = i * j + i * k
      OBVIOUS
    <3>2. e * 1 = e
      OBVIOUS
    <3>3. u \in Int /\ w \in Int /\ v \in Int /\ z \in Int /\ n \in Int
      BY <2>6
    <3>4. QED
      BY ONLY <3>1, <3>2, <3>3, c \in Int, a \in Int, e \in Int
  <2>8. c * u \in Int /\ c * w \in Int /\ a * v \in Int /\ a * z \in Int /\ e * n \in Int
    BY <2>6
  <2>9. Within(c * (u + w), a * (v + z), e * (n + 1))
    <3> DEFINE cu == c * u
               cw == c * w
               av == a * v
               az == a * z
               en == e * n
    <3>1. /\ cu \in Int /\ cw \in Int /\ av \in Int /\ az \in Int /\ en \in Int
          /\ c * (u + w) = cu + cw /\ a * (v + z) = av + az /\ e * (n + 1) = en + e
          /\ Within(cu, av, e) /\ Within(cw, az, en)
      BY <2>6, <2>7, <2>8
    <3> HIDE DEF cu, cw, av, az, en
    <3>2. Within(cu + cw, av + az, en + e)
      BY <3>1 DEF Within
    <3>3. QED
      BY <3>1, <3>2
  <2>10. QED
    BY <2>6, <2>9
<1> HIDE DEF P
<1>3. S \in P
  BY <1>1, <1>2, SubsetInduction
<1>4. QED
  BY <1>3 DEF P

\* What is within e of each other is within m times e, m times, and the other way round.
LEMMA WithinTimes ==
  ASSUME NEW m \in Nat, NEW a \in Int, NEW b \in Int, NEW e \in Int, Within(a, b, e)
  PROVE  Within(m * a, m * b, m * e)
<1>1. \A i, j \in Int : i <= j => m * i <= m * j
  OBVIOUS
<1>2. m * (a - b) <= m * e /\ m * (b - a) <= m * e
  BY <1>1 DEF Within
<1>3. m * (a - b) = m * a - m * b /\ m * (b - a) = m * b - m * a
  OBVIOUS
<1>4. QED
  BY <1>2, <1>3 DEF Within

LEMMA WithinPerEach ==
  ASSUME NEW m \in Nat \ {0}, NEW a \in Int, NEW b \in Int, NEW e \in Int, Within(m * a, m * b, m * e)
  PROVE  Within(a, b, e)
<1>1. ASSUME NEW i \in Int, NEW j \in Int, m * i <= m * j PROVE i <= j
  <2> SUFFICES ASSUME i >= j + 1 PROVE FALSE
    OBVIOUS
  <2>1. m * i >= m * (j + 1)
    OBVIOUS
  <2>2. m * (j + 1) = m * j + m
    OBVIOUS
  <2> DEFINE x == m * i
             y == m * j
  <2>3. x \in Int /\ y \in Int /\ x <= y /\ x >= y + m
    BY <1>1, <2>1, <2>2
  <2> HIDE DEF x, y
  <2>4. QED
    BY <2>3
<1>2. m * (a - b) <= m * e /\ m * (b - a) <= m * e
  <2>1. m * (a - b) = m * a - m * b /\ m * (b - a) = m * b - m * a
    OBVIOUS
  <2>2. QED
    BY <2>1 DEF Within
<1>3. a - b <= e /\ b - a <= e
  <2>1. a - b \in Int /\ b - a \in Int
    OBVIOUS
  <2>2. QED
    BY <1>1, <1>2, <2>1
<1>4. QED
  BY <1>3 DEF Within

(* Division                                                                  *)
\* The quotient of a division is at most a rest away.
LEMMA Divides ==
  ASSUME NEW n \in Nat, NEW m \in Nat \ {0}
  PROVE  /\ n \div m \in Nat /\ n % m \in Nat
         /\ n = m * (n \div m) + (n % m) /\ n % m < m
OBVIOUS

\* A quotient rounded to the nearest number is half a step away at most, and a half
\* goes up.
LEMMA RoundingIsNear ==
  ASSUME NEW n \in Nat, NEW m \in Nat \ {0}
  PROVE  LET q == (2 * n + m) \div (2 * m)
         IN  q \in Nat /\ 2 * (m * q) <= 2 * n + m /\ 2 * n < 2 * (m * q) + m
<1> DEFINE a == 2 * n + m
           b == 2 * m
           q == a \div b
           r == a % b
<1>1. a \in Nat /\ b \in Nat \ {0}
  OBVIOUS
<1>2. q \in Nat /\ r \in Nat /\ a = b * q + r /\ r < b
  <2> HIDE DEF a, b
  <2>1. QED
    BY <1>1, Divides
<1>3. q = (2 * n + m) \div (2 * m)
  OBVIOUS
<1> HIDE DEF q, r
<1>4. b * q = 2 * (m * q)
  BY <1>2
<1>5. QED
  BY <1>2, <1>3, <1>4
=============================================================================
