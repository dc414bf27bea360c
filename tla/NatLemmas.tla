------------------------------- MODULE NatLemmas -------------------------------
(***************************************************************************)
(* Facts about numbers and sequences that the proofs of the modules need:  *)
(* remainders, induction over a set of numbers, the existence of a         *)
(* function that is defined by recursion, the sum of a sequence, where the *)
(* parts of a concatenation lie in it, and what it is to replace a part of *)
(* a sequence.                                                             *)
(***************************************************************************)
EXTENDS Integers, SequencesExt, SequenceTheorems, FiniteSetTheorems,
        WellFoundedInduction, TLAPS

-------------------------------------------------------------------------------
\* Quotient and remainder.
LEMMA DivMod ==
  ASSUME NEW n \in Nat \ {0}, NEW a \in Int
  PROVE  \E q \in Int, r \in 0..(n - 1) : a = n * q + r /\ a % n = r
<1>1. (a % n) \in 0..(n - 1) /\ a \div n \in Int /\ a = n * (a \div n) + (a % n)
  OBVIOUS
<1> DEFINE q == a \div n  r == a % n
<1>2. q \in Int /\ r \in 0..(n-1) /\ a = n * q + r /\ a % n = r
  BY <1>1
<1> HIDE DEF q, r
<1> QED BY <1>2

\* The remainder is the only one.
LEMMA ModUnique ==
  ASSUME NEW n \in Nat \ {0}, NEW q \in Int, NEW r \in 0..(n-1), NEW a \in Int, a = n * q + r
  PROVE  a % n = r
OBVIOUS

\* A step that does not leave the range of the remainders.
LEMMA ModNext ==
  ASSUME NEW n \in Nat \ {0}, NEW a \in Int, NEW b \in Int,
         (a % n) + b \in 0..(n - 1)
  PROVE  (a + b) % n = (a % n) + b
<1>1. PICK q \in Int, r \in 0..(n - 1) : a = n * q + r /\ a % n = r
  BY DivMod
<1> DEFINE s == r + b  c == a + b
<1>2. c = n * q + s /\ s \in 0..(n-1) /\ c \in Int
  BY <1>1
<1> HIDE DEF s, c
<1>3. c % n = s
  BY <1>2, ModUnique
<1> QED BY <1>1, <1>3 DEF s, c

\* A remainder may be taken before a sum or behind it.
LEMMA ModPlus ==
  ASSUME NEW n \in Nat \ {0}, NEW a \in Int, NEW b \in Int
  PROVE  ((a % n) + b) % n = (a + b) % n
<1>1. PICK q \in Int, r \in 0..(n - 1) : a = n * q + r /\ a % n = r
  BY DivMod
<1>2. PICK s \in Int, t \in 0..(n - 1) : r + b = n * s + t /\ (r + b) % n = t
  <2>1. r + b \in Int
    BY <1>1
  <2> QED BY <2>1, DivMod
<1> DEFINE u == q + s  c == a + b
<1>3. c = n * u + t /\ u \in Int /\ c \in Int
  BY <1>1, <1>2
<1> HIDE DEF u, c
<1>4. c % n = t
  BY <1>3, ModUnique
<1> QED BY <1>1, <1>2, <1>4 DEF c

\* Numbers less than n apart have different remainders.
LEMMA ModDiffer ==
  ASSUME NEW n \in Nat \ {0}, NEW a \in Int, NEW b \in Int, a < b, b < a + n
  PROVE  a % n # b % n
<1> SUFFICES ASSUME a % n = b % n PROVE FALSE
  OBVIOUS
<1>1. PICK q \in Int, r \in 0..(n - 1) : a = n * q + r /\ a % n = r
  BY DivMod
<1>2. PICK s \in Int, t \in 0..(n - 1) : b = n * s + t /\ b % n = t
  BY DivMod
<1> DEFINE d == s - q
<1>3. b - a = n * d /\ d \in Int
  BY <1>1, <1>2
<1> HIDE DEF d
<1>4. CASE d <= 0
  <2>1. n * d <= 0
    BY <1>3, <1>4
  <2> QED BY <2>1, <1>3
<1>5. CASE d >= 1
  <2>1. n * d >= n
    BY <1>3, <1>5
  <2> QED BY <2>1, <1>3
<1> QED BY <1>3, <1>4, <1>5

-------------------------------------------------------------------------------
\* The order of the natural numbers, as a relation.
NatLess == {d \in Nat \X Nat : d[1] < d[2]}
\* That order is well founded.
LEMMA LessWF == IsWellFoundedOn(NatLess, Nat)
BY NatLessThanWellFounded DEF OpToRel, NatLess

\* Induction, for a set of numbers: a minimal number outside of it has a predecessor
\* inside.
LEMMA NatSetInduction ==
  ASSUME NEW S, 0 \in S, \A n \in Nat : n \in S => n + 1 \in S
  PROVE  Nat \subseteq S
<1> SUFFICES ASSUME Nat \ S # {} PROVE FALSE
  OBVIOUS
<1>1. PICK x \in Nat \ S : \A y \in Nat \ S : ~ (<<y, x>> \in NatLess)
  <2> DEFINE T == Nat \ S
  <2>1. T \subseteq Nat /\ T # {}
    OBVIOUS
  <2> HIDE DEF T
  <2>2. \E x \in T : \A y \in T : ~ (<<y, x>> \in NatLess)
    BY <2>1, LessWF, WFMin
  <2> QED BY <2>2 DEF T
<1>2. \A y \in Nat : y < x => y \in S
  BY <1>1 DEF NatLess
<1>3. x # 0 /\ x - 1 \in Nat
  BY <1>1
<1> QED BY <1>1, <1>2, <1>3

\* There is a function with a given first value and a given step.
StepsFrom(f, a, G) == f[0] = a /\ \A n \in Nat : f[n + 1] = G[<<n, f[n]>>]

LEMMA Recursion ==
  ASSUME NEW A, NEW a \in A, NEW G \in [Nat \X A -> A]
  PROVE  \E f \in [Nat -> A] : StepsFrom(f, a, G)
<1> DEFINE Good(h, n) == /\ h \in [0..n -> A] /\ h[0] = a
                         /\ \A k \in 0..(n - 1) : h[k + 1] = G[<<k, h[k]>>]
<1>1. \A n \in Nat : \E h : Good(h, n)
  <2> DEFINE S == {n \in Nat : \E h : Good(h, n)}
  <2>1. 0 \in S
    <3>1. Good([k \in 0..0 |-> a], 0)
      OBVIOUS
    <3> QED BY <3>1
  <2>2. ASSUME NEW n \in Nat, n \in S PROVE n + 1 \in S
    <3>1. PICK h : Good(h, n)
      BY <2>2
    <3> DEFINE g == [k \in 0..(n + 1) |-> IF k = n + 1 THEN G[<<n, h[n]>>] ELSE h[k]]
    <3>2. h[n] \in A /\ G[<<n, h[n]>>] \in A
      BY <3>1
    <3>3. g \in [0..(n + 1) -> A] /\ g[0] = a
      BY <3>1, <3>2
    <3>4. ASSUME NEW k \in 0..n PROVE g[k + 1] = G[<<k, g[k]>>]
      <4>1. CASE k = n
        <5>1. g[n + 1] = G[<<n, h[n]>>] /\ g[n] = h[n]
          OBVIOUS
        <5> QED BY <4>1, <5>1
      <4>2. CASE k # n
        <5>1. k \in 0..(n - 1) /\ k + 1 \in 0..n
          BY <4>2
        <5> QED BY <5>1, <3>1
      <4> QED BY <4>1, <4>2
    <3>5. Good(g, n + 1)
      <4>1. (n + 1) - 1 = n
        OBVIOUS
      <4> HIDE DEF g
      <4> QED BY <3>3, <3>4, <4>1
    <3> HIDE DEF g, Good
    <3> QED BY <3>5
  <2> HIDE DEF S
  <2>3. Nat \subseteq S
    BY <2>1, <2>2, NatSetInduction
  <2> QED BY <2>3 DEF S
<1>2. \A n \in Nat : \A m \in Nat : \A g, h : Good(g, n) /\ Good(h, m) =>
        \A k \in Nat : k <= n /\ k <= m => g[k] = h[k]
  <2> SUFFICES ASSUME NEW n \in Nat, NEW m \in Nat, NEW g, NEW h, Good(g, n), Good(h, m)
               PROVE  \A k \in Nat : k <= n /\ k <= m => g[k] = h[k]
    <3> HIDE DEF Good
    <3> QED OBVIOUS
  <2> DEFINE S == {k \in Nat : k <= n /\ k <= m => g[k] = h[k]}
  <2>1. 0 \in S
    OBVIOUS
  <2>2. ASSUME NEW k \in Nat, k \in S PROVE k + 1 \in S
    <3> SUFFICES ASSUME k + 1 <= n, k + 1 <= m PROVE g[k + 1] = h[k + 1]
      OBVIOUS
    <3>1. k \in 0..(n - 1) /\ k \in 0..(m - 1) /\ g[k] = h[k]
      BY <2>2
    <3> QED BY <3>1
  <2> HIDE DEF S
  <2>3. Nat \subseteq S
    BY <2>1, <2>2, NatSetInduction
  <2> QED BY <2>3 DEF S
<1> DEFINE H(n) == CHOOSE h : Good(h, n)
           f == [n \in Nat |-> H(n)[n]]
<1>3. ASSUME NEW n \in Nat PROVE Good(H(n), n)
  BY <1>1
<1> HIDE DEF H
<1>4. f \in [Nat -> A]
  <2>1. \A n \in Nat : H(n)[n] \in A
    BY <1>3
  <2> QED BY <2>1
<1>5. f[0] = a
  BY <1>3
<1>6. ASSUME NEW n \in Nat PROVE f[n + 1] = G[<<n, f[n]>>]
  <2>1. Good(H(n), n) /\ Good(H(n + 1), n + 1)
    BY <1>3
  <2>2. H(n + 1)[n] = H(n)[n]
    <3> HIDE DEF Good
    <3>1. n + 1 \in Nat /\ n <= n + 1 /\ n <= n
      OBVIOUS
    <3> QED BY <1>2, <2>1, <3>1
  <2>3. H(n + 1)[n + 1] = G[<<n, H(n + 1)[n]>>]
    <3>1. n \in 0..((n + 1) - 1)
      OBVIOUS
    <3> QED BY <2>1, <3>1
  <2> QED BY <2>2, <2>3
<1> HIDE DEF f
<1>7. StepsFrom(f, a, G)
  BY <1>5, <1>6 DEF StepsFrom
<1> QED BY <1>4, <1>7

\* The same with numbers.
LEMMA NatRecursion ==
  ASSUME NEW G \in [Nat \X Nat -> Nat]
  PROVE  \E f \in [Nat -> Nat] : StepsFrom(f, 0, G)
<1>1. \A A : \A a \in A : \A g \in [Nat \X A -> A] : \E f \in [Nat -> A] : StepsFrom(f, a, g)
  BY Recursion, Zenon
<1>2. 0 \in Nat
  OBVIOUS
<1> QED BY <1>1, <1>2, Zenon

-------------------------------------------------------------------------------
\* The sum of a sequence of numbers.
Total(s) == FoldLeft(+, 0, s)

\* The fold of a sum over a sequence, as FoldLeft defines it: over the sets of indices.
Fold(s) == CHOOSE iter : iter = [t \in SUBSET DOMAIN s |->
                                   IF t = {} THEN 0 ELSE iter[t \ {Max(t)}] + s[Max(t)]]

\* The sum is that fold over all the indices.
LEMMA TotalIsFold == ASSUME NEW s PROVE Total(s) = Fold(s)[DOMAIN s]
BY DEF Total, FoldLeft, MapThenFoldSet, Fold

\* A non-empty set of numbers up to n has a greatest one.
LEMMA MaxExists ==
  ASSUME NEW n \in Nat, NEW T \in SUBSET (0..n), T # {}
  PROVE  Max(T) \in T /\ \A y \in T : Max(T) >= y
<1> DEFINE S == {k \in Nat : \A U \in SUBSET (0..k) : U # {} => \E x \in U : \A y \in U : x >= y}
<1>1. 0 \in S
  <2> SUFFICES ASSUME NEW U \in SUBSET (0..0), U # {} PROVE \E x \in U : \A y \in U : x >= y
    OBVIOUS
  <2>1. PICK x \in U : TRUE
    OBVIOUS
  <2>2. \A y \in U : y \in 0..0 /\ x \in 0..0
    OBVIOUS
  <2>3. \A y \in U : x >= y
    BY <2>2
  <2> QED BY <2>3
<1>2. ASSUME NEW k \in Nat, k \in S PROVE k + 1 \in S
  <2> SUFFICES ASSUME NEW U \in SUBSET (0..(k + 1)), U # {}
               PROVE  \E x \in U : \A y \in U : x >= y
    OBVIOUS
  <2>1. CASE k + 1 \in U
    BY <2>1
  <2>2. CASE k + 1 \notin U
    <3>1. U \in SUBSET (0..k)
      BY <2>2
    <3> QED BY <3>1, <1>2
  <2> QED BY <2>1, <2>2
<1> HIDE DEF S
<1>3. n \in S
  BY <1>1, <1>2, NatSetInduction
<1>4. \E x \in T : \A y \in T : x >= y
  BY <1>3 DEF S
<1> QED BY <1>4 DEF Max

\* A function with the equation of Fold exists, so the chosen one has it.
LEMMA FoldExists ==
  ASSUME NEW s \in Seq(Nat)
  PROVE  \A t \in SUBSET DOMAIN s :
           Fold(s)[t] = IF t = {} THEN 0 ELSE Fold(s)[t \ {Max(t)}] + s[Max(t)]
<1> DEFINE n == Len(s)
           Step(t) == [d \in Nat \X Nat |-> d[2] + IF d[1] + 1 \in t THEN s[d[1] + 1] ELSE 0]
           Sum(t) == CHOOSE f \in [Nat -> Nat] : f[0] = 0 /\ \A k \in Nat : f[k + 1] = Step(t)[<<k, f[k]>>]
<1>0. n \in Nat /\ DOMAIN s = 1..n /\ \A k \in 1..n : s[k] \in Nat
  OBVIOUS
<1> HIDE DEF n
<1>1. ASSUME NEW t \in SUBSET (1..n)
      PROVE  /\ Sum(t) \in [Nat -> Nat] /\ Sum(t)[0] = 0
             /\ \A k \in Nat : Sum(t)[k + 1] = Sum(t)[k] + IF k + 1 \in t THEN s[k + 1] ELSE 0
  <2>1. Step(t) \in [Nat \X Nat -> Nat]
    BY <1>0
  <2>2. \E f \in [Nat -> Nat] : f[0] = 0 /\ \A k \in Nat : f[k + 1] = Step(t)[<<k, f[k]>>]
    <3> HIDE DEF Step
    <3>1. \E f \in [Nat -> Nat] : StepsFrom(f, 0, Step(t))
      BY <2>1, NatRecursion
    <3> QED BY <3>1 DEF StepsFrom
  <2> HIDE DEF Step
  <2>3. Sum(t) \in [Nat -> Nat] /\ Sum(t)[0] = 0 /\ \A k \in Nat : Sum(t)[k + 1] = Step(t)[<<k, Sum(t)[k]>>]
    BY <2>2
  <2> HIDE DEF Sum
  <2>4. \A k, x \in Nat : Step(t)[<<k, x>>] = x + IF k + 1 \in t THEN s[k + 1] ELSE 0
    BY DEF Step
  <2> QED BY <2>3, <2>4
<1> HIDE DEF Sum
<1>2. \A k \in Nat : Sum({})[k] = 0
  <2> DEFINE S == {k \in Nat : Sum({})[k] = 0}
  <2>0. {} \in SUBSET (1..n)
    OBVIOUS
  <2>1. 0 \in S /\ \A k \in Nat : k \in S => k + 1 \in S
    <3> DEFINE f == Sum({})
    <3>1. f \in [Nat -> Nat] /\ f[0] = 0 /\ \A k \in Nat : f[k + 1] = f[k] + 0
      BY <1>1, <2>0
    <3>2. S = {k \in Nat : f[k] = 0}
      OBVIOUS
    <3> HIDE DEF f, S
    <3> QED BY <3>1, <3>2
  <2> HIDE DEF S
  <2>2. Nat \subseteq S
    BY <2>1, NatSetInduction
  <2> QED BY <2>2 DEF S
<1>3. ASSUME NEW t \in SUBSET (1..n), NEW m \in t
      PROVE  Sum(t)[n] = Sum(t \ {m})[n] + s[m]
  <2> DEFINE u == t \ {m}
             f == Sum(t)   g == Sum(u)
             S == {k \in Nat : f[k] = g[k] + IF m <= k THEN s[m] ELSE 0}
  <2>1. u \in SUBSET (1..n) /\ m \in 1..n /\ s[m] \in Nat
    BY <1>0
  <2>2. /\ f \in [Nat -> Nat] /\ f[0] = 0
        /\ \A k \in Nat : f[k + 1] = f[k] + IF k + 1 \in t THEN s[k + 1] ELSE 0
    BY <1>1
  <2>3. /\ g \in [Nat -> Nat] /\ g[0] = 0
        /\ \A k \in Nat : g[k + 1] = g[k] + IF k + 1 \in u THEN s[k + 1] ELSE 0
    <3> HIDE DEF u
    <3> QED BY <1>1, <2>1
  <2> HIDE DEF f, g
  <2>4. 0 \in S
    BY <2>1, <2>2, <2>3
  <2>5. ASSUME NEW k \in Nat, k \in S PROVE k + 1 \in S
    <3>1. f[k] = g[k] + (IF m <= k THEN s[m] ELSE 0) /\ f[k] \in Nat /\ g[k] \in Nat
      BY <2>2, <2>3, <2>5
    <3>2. CASE k + 1 = m
      <4>1. f[k + 1] = f[k] + s[m] /\ g[k + 1] = g[k] + 0 /\ ~(m <= k) /\ m <= k + 1
        <5>1. k + 1 \in t /\ k + 1 \notin u
          BY <3>2
        <5> HIDE DEF u
        <5>2. f[k + 1] = f[k] + IF k + 1 \in t THEN s[k + 1] ELSE 0
          BY <2>2
        <5>3. g[k + 1] = g[k] + IF k + 1 \in u THEN s[k + 1] ELSE 0
          BY <2>3
        <5>4. f[k + 1] = f[k] + s[m]
          BY <5>1, <5>2, <3>2
        <5>5. g[k + 1] = g[k] + 0
          BY <5>1, <5>3
        <5> QED BY <2>1, <3>2, <5>4, <5>5
      <4> QED BY <3>1, <4>1, <2>1
    <3>3. CASE k + 1 # m
      <4>1. (m <= k + 1 <=> m <= k) /\ (k + 1 \in t <=> k + 1 \in u)
        BY <3>3, <2>1
      <4>2. CASE k + 1 \in t
        <5>1. f[k + 1] = f[k] + s[k + 1] /\ g[k + 1] = g[k] + s[k + 1] /\ s[k + 1] \in Nat
          BY <2>2, <2>3, <4>1, <4>2, <1>0
        <5> QED BY <3>1, <4>1, <5>1, <2>1
      <4>3. CASE k + 1 \notin t
        <5>1. f[k + 1] = f[k] + 0 /\ g[k + 1] = g[k] + 0
          BY <2>2, <2>3, <4>1, <4>3
        <5> QED BY <3>1, <4>1, <5>1, <2>1
      <4> QED BY <4>2, <4>3
    <3> QED BY <3>2, <3>3
  <2> HIDE DEF S
  <2>6. n \in S
    BY <2>4, <2>5, <1>0, NatSetInduction
  <2> QED BY <2>6, <2>1, <1>0 DEF S, f, g
<1> DEFINE iter == [t \in SUBSET (1..n) |-> Sum(t)[n]]
           Body(f) == [t \in SUBSET (1..n) |-> IF t = {} THEN 0 ELSE f[t \ {Max(t)}] + s[Max(t)]]
<1>4. iter = Body(iter)
  <2> SUFFICES ASSUME NEW t \in SUBSET (1..n)
               PROVE  iter[t] = IF t = {} THEN 0 ELSE iter[t \ {Max(t)}] + s[Max(t)]
    OBVIOUS
  <2>1. CASE t = {}
    BY <2>1, <1>0, <1>2
  <2>2. CASE t # {}
    <3>1. Max(t) \in t
      <4>1. t \in SUBSET (0..n)
        BY <1>0
      <4> QED BY <2>2, <4>1, <1>0, MaxExists
    <3> HIDE DEF iter
    <3>2. iter[t] = Sum(t)[n] /\ iter[t \ {Max(t)}] = Sum(t \ {Max(t)})[n]
      BY DEF iter
    <3> QED BY <3>1, <3>2, <1>3, <2>2
  <2> QED BY <2>1, <2>2
<1>5. Fold(s) = CHOOSE f : f = Body(f)
  BY <1>0 DEF Fold
<1> HIDE DEF iter, Body
<1>6. Fold(s) = Body(Fold(s))
  BY <1>4, <1>5
<1> QED BY <1>6, <1>0 DEF Body
\* The greatest of the first numbers is the last.
LEMMA MaxOfRange == ASSUME NEW k \in Nat PROVE Max(1..(k + 1)) = k + 1
<1> DEFINE T == 1..(k + 1)
           m == Max(T)
<1>1. T \in SUBSET (0..(k + 1)) /\ k + 1 \in T /\ k + 1 \in Nat
  <2>1. \A x \in T : x \in 0..(k + 1)
    OBVIOUS
  <2>2. k + 1 \in T /\ k + 1 \in Nat
    OBVIOUS
  <2> HIDE DEF T
  <2> QED BY <2>1, <2>2
<1>2. m \in T /\ \A y \in T : m >= y
  <2> HIDE DEF T
  <2> QED BY <1>1, MaxExists
<1> HIDE DEF m
<1>3. m >= k + 1 /\ m <= k + 1 /\ m \in Nat
  BY <1>1, <1>2
<1> QED BY <1>3 DEF m

\* The sum of a sequence is the last of its partial sums.
Partial(P, s) == /\ P \in [Nat -> Nat] /\ P[0] = 0
                 /\ \A k \in 0..(Len(s) - 1) : P[k + 1] = P[k] + s[k + 1]

\* The partial sums exist.
LEMMA PartialExists ==
  ASSUME NEW s \in Seq(Nat)
  PROVE  \E P : Partial(P, s)
<1> DEFINE G == [d \in Nat \X Nat |-> d[2] + IF d[1] + 1 \in 1..Len(s) THEN s[d[1] + 1] ELSE 0]
<1>1. G \in [Nat \X Nat -> Nat]
  <2>1. \A k \in 1..Len(s) : s[k] \in Nat
    OBVIOUS
  <2> QED BY <2>1
<1>2. \A k, x \in Nat : G[<<k, x>>] = x + IF k + 1 \in 1..Len(s) THEN s[k + 1] ELSE 0
  OBVIOUS
<1> HIDE DEF G
<1>3. PICK f \in [Nat -> Nat] : StepsFrom(f, 0, G)
  BY <1>1, NatRecursion
<1>4. ASSUME NEW k \in 0..(Len(s) - 1) PROVE f[k + 1] = f[k] + s[k + 1]
  <2>0. k \in Nat /\ k + 1 \in 1..Len(s)
    <3>1. Len(s) \in Nat
      OBVIOUS
    <3> QED BY <3>1
  <2>1. k \in Nat /\ k + 1 \in 1..Len(s) /\ f[k] \in Nat
    BY <2>0
  <2>2. f[k + 1] = G[<<k, f[k]>>]
    BY <2>1, <1>3 DEF StepsFrom
  <2>3. G[<<k, f[k]>>] = f[k] + s[k + 1]
    BY <2>1, <1>2
  <2> QED BY <2>2, <2>3
<1> QED BY <1>3, <1>4 DEF Partial, StepsFrom

\* The fold over the first k indices is the k-th partial sum.
LEMMA SumIsPartial ==
  ASSUME NEW s \in Seq(Nat), NEW P, Partial(P, s)
  PROVE  Total(s) = P[Len(s)]
<1> DEFINE n == Len(s)
           S == {k \in Nat : k <= n => Fold(s)[1..k] = P[k]}
<1>0. n \in Nat /\ DOMAIN s = 1..n
  OBVIOUS
<1>1. 0 \in S
  <2>1. 1..0 = {} /\ {} \in SUBSET DOMAIN s
    OBVIOUS
  <2>2. Fold(s)[{}] = 0
    BY <2>1, FoldExists
  <2> QED BY <2>1, <2>2 DEF Partial
<1>2. ASSUME NEW k \in Nat, k \in S PROVE k + 1 \in S
  <2> SUFFICES ASSUME k + 1 <= n PROVE Fold(s)[1..(k + 1)] = P[k + 1]
    OBVIOUS
  <2> DEFINE t == 1..(k + 1)
  <2>1. t \in SUBSET DOMAIN s /\ t # {} /\ t \ {k + 1} = 1..k
    OBVIOUS
  <2>2. Max(t) = k + 1
    BY MaxOfRange
  <2> HIDE DEF t
  <2>3. Fold(s)[t] = Fold(s)[t \ {Max(t)}] + s[Max(t)]
    BY <2>1, FoldExists
  <2>4. Fold(s)[t] = Fold(s)[1..k] + s[k + 1]
    BY <2>1, <2>2, <2>3
  <2>5. Fold(s)[1..k] = P[k] /\ k \in 0..(n - 1)
    BY <1>2, <1>0
  <2>6. P[k + 1] = P[k] + s[k + 1]
    BY <2>5 DEF Partial
  <2> QED BY <2>4, <2>5, <2>6 DEF t
<1> HIDE DEF S
<1>3. n \in S
  BY <1>0, <1>1, <1>2, NatSetInduction
<1>4. Fold(s)[DOMAIN s] = P[n]
  BY <1>0, <1>3 DEF S
<1> QED BY <1>4, TotalIsFold

\* Nothing sums to zero.
LEMMA SumEmpty == Total(<<>>) = 0
<1> DEFINE P == [k \in Nat |-> 0]
<1>1. <<>> \in Seq(Nat) /\ Len(<<>>) = 0 /\ Partial(P, <<>>)
  BY DEF Partial
<1> HIDE DEF P
<1>2. Total(<<>>) = P[Len(<<>>)]
  BY <1>1, SumIsPartial
<1> QED BY <1>1, <1>2 DEF Partial

\* The sum grows by what is appended.
LEMMA SumAppend ==
  ASSUME NEW s \in Seq(Nat), NEW x \in Nat
  PROVE  /\ Total(s) \in Nat
         /\ Total(Append(s, x)) = Total(s) + x
<1>1. PICK P : Partial(P, s)
  BY PartialExists
<1> DEFINE r == Append(s, x)
           R == [k \in Nat |-> IF k <= Len(s) THEN P[k] ELSE P[Len(s)] + x]
<1>2. /\ r \in Seq(Nat) /\ Len(r) = Len(s) + 1 /\ Len(s) \in Nat
      /\ r[Len(s) + 1] = x /\ \A k \in 1..Len(s) : r[k] = s[k]
  OBVIOUS
<1>3. P \in [Nat -> Nat] /\ P[0] = 0 /\ \A k \in 0..(Len(s) - 1) : P[k + 1] = P[k] + s[k + 1]
  BY <1>1 DEF Partial
<1> HIDE DEF r
<1>4. Partial(R, r)
  <2>1. R \in [Nat -> Nat] /\ R[0] = 0
    <3>1. P[Len(s)] \in Nat /\ \A k \in Nat : P[k] \in Nat
      BY <1>2, <1>3
    <3>2. \A k \in Nat : R[k] \in Nat
      BY <3>1
    <3>3. R[0] = P[0]
      BY <1>2
    <3> QED BY <3>2, <3>3, <1>3
  <2>2. ASSUME NEW k \in 0..(Len(r) - 1) PROVE R[k + 1] = R[k] + r[k + 1]
    <3>1. CASE k = Len(s)
      <4>1. R[k + 1] = P[k] + x /\ R[k] = P[k]
        BY <3>1, <1>2
      <4> QED BY <4>1, <3>1, <1>2
    <3>2. CASE k # Len(s)
      <4>1. k \in 0..(Len(s) - 1) /\ k + 1 \in 1..Len(s)
        BY <3>2, <1>2
      <4>2. R[k + 1] = P[k + 1] /\ R[k] = P[k]
        BY <4>1
      <4> QED BY <4>1, <4>2, <1>2, <1>3
    <3> QED BY <3>1, <3>2
  <2> HIDE DEF R
  <2> QED BY <2>1, <2>2 DEF Partial
<1>5. R[Len(r)] = P[Len(s)] + x
  BY <1>2
<1> HIDE DEF R
<1> QED BY <1>1, <1>2, <1>3, <1>4, <1>5, SumIsPartial DEF r

\* The sum is the head and the sum of the tail.
LEMMA SumTail ==
  ASSUME NEW s \in Seq(Nat), s # <<>>
  PROVE  Total(s) = Head(s) + Total(Tail(s))
<1> DEFINE r == Tail(s)
<1>1. /\ r \in Seq(Nat) /\ Len(s) = Len(r) + 1 /\ Len(r) \in Nat /\ Head(s) \in Nat /\ s[1] = Head(s)
      /\ \A k \in 1..Len(r) : r[k] = s[k + 1]
  OBVIOUS
<1> HIDE DEF r
<1>2. PICK P : Partial(P, s)
  BY PartialExists
<1>3. PICK R : Partial(R, r)
  BY <1>1, PartialExists
<1> DEFINE S == {k \in Nat : k <= Len(r) => P[k + 1] = Head(s) + R[k]}
<1>4. 0 \in S
  <2>1. 0 \in 0..(Len(s) - 1)
    BY <1>1
  <2>2. P[0 + 1] = P[0] + s[0 + 1] /\ P[0] = 0 /\ R[0] = 0
    BY <2>1, <1>2, <1>3 DEF Partial
  <2> QED BY <2>2, <1>1
<1>5. ASSUME NEW k \in Nat, k \in S PROVE k + 1 \in S
  <2> SUFFICES ASSUME k + 1 <= Len(r) PROVE P[(k + 1) + 1] = Head(s) + R[k + 1]
    OBVIOUS
  <2>1. k \in 0..(Len(r) - 1) /\ k + 1 \in 0..(Len(s) - 1) /\ k + 1 \in 1..Len(r)
    BY <1>1
  <2>2. P[(k + 1) + 1] = P[k + 1] + s[(k + 1) + 1] /\ R[k + 1] = R[k] + r[k + 1] /\ R[k] \in Nat
    BY <2>1, <1>2, <1>3 DEF Partial
  <2>3. r[k + 1] = s[(k + 1) + 1] /\ r[k + 1] \in Nat
    BY <2>1, <1>1
  <2>4. P[k + 1] = Head(s) + R[k]
    BY <1>5
  <2> QED BY <2>2, <2>3, <2>4, <1>1
<1> HIDE DEF S
<1>6. Len(r) \in S
  BY <1>1, <1>4, <1>5, NatSetInduction
<1>7. P[Len(s)] = Head(s) + R[Len(r)]
  BY <1>6, <1>1 DEF S
<1> QED BY <1>1, <1>2, <1>3, <1>7, SumIsPartial DEF r
-------------------------------------------------------------------------------
\* The concatenation of a sequence of sequences, as FlattenSeq defines it.
Chained(s) == CHOOSE f : f = [k \in 1..Len(s) |-> IF k = 1 THEN s[k] ELSE f[k - 1] \o s[k]]

LEMMA FlattenIsChained ==
  ASSUME NEW s, Len(s) # 0 PROVE FlattenSeq(s) = Chained(s)[Len(s)]
BY DEF FlattenSeq, Chained

(* Where the first n of a sequence of sequences lie in their concatenation t: off[k] is the
   number of elements before the (k+1)st, and every element of t is in one of them. *)
Layout(s, n, off, t) ==
  /\ off \in [0..n -> Nat] /\ off[0] = 0 /\ Len(t) = off[n]
  /\ \A k \in 1..n : off[k] = off[k - 1] + Len(s[k])
  /\ \A k \in 1..n : \A m \in 1..Len(s[k]) : t[off[k - 1] + m] = s[k][m]
  /\ \A x \in 1..Len(t) : \E k \in 1..n : \E m \in 1..Len(s[k]) : x = off[k - 1] + m
  /\ \A j, k \in 0..n : j <= k => off[j] <= off[k]

LEMMA LayoutNext ==
  ASSUME NEW A, NEW n \in Nat, NEW s, \A k \in 1..(n + 1) : s[k] \in Seq(A),
         NEW off, NEW t \in Seq(A), Layout(s, n, off, t)
  PROVE  \E o : Layout(s, n + 1, o, t \o s[n + 1])
<1> DEFINE l == Len(s[n + 1])
           u == t \o s[n + 1]
           o == [k \in 0..(n + 1) |-> IF k = n + 1 THEN off[n] + l ELSE off[k]]
<1>1. s[n + 1] \in Seq(A) /\ l \in Nat
  OBVIOUS
<1>2. /\ u \in Seq(A) /\ Len(u) = Len(t) + l
      /\ \A x \in 1..(Len(t) + l) : u[x] = IF x <= Len(t) THEN t[x] ELSE s[n + 1][x - Len(t)]
  BY <1>1, ConcatProperties
<1>3. /\ off \in [0..n -> Nat] /\ off[0] = 0 /\ Len(t) = off[n]
      /\ \A k \in 1..n : off[k] = off[k - 1] + Len(s[k])
      /\ \A k \in 1..n : \A m \in 1..Len(s[k]) : t[off[k - 1] + m] = s[k][m]
      /\ \A x \in 1..Len(t) : \E k \in 1..n : \E m \in 1..Len(s[k]) : x = off[k - 1] + m
      /\ \A j, k \in 0..n : j <= k => off[j] <= off[k]
  BY DEF Layout
<1>4. /\ \A k \in 0..n : off[k] \in Nat /\ o[k] = off[k]
      /\ o[n + 1] = off[n] + l /\ off[n] \in Nat /\ Len(t) \in Nat
  BY <1>1, <1>3
<1>5. o \in [0..(n + 1) -> Nat] /\ o[0] = 0 /\ Len(u) = o[n + 1]
  <2>1. ASSUME NEW k \in 0..(n + 1) PROVE (IF k = n + 1 THEN off[n] + l ELSE off[k]) \in Nat
    <3>1. CASE k = n + 1
      BY <1>1, <1>4, <3>1
    <3>2. CASE k # n + 1
      <4>1. k \in 0..n
        BY <3>2
      <4> QED BY <1>4, <3>2, <4>1
    <3> QED BY <3>1, <3>2
  <2> QED BY <1>2, <1>3, <1>4, <2>1
<1> HIDE DEF o, u, l
<1>6. \A k \in 1..(n + 1) : o[k] = o[k - 1] + Len(s[k])
  <2> SUFFICES ASSUME NEW k \in 1..(n + 1) PROVE o[k] = o[k - 1] + Len(s[k])
    OBVIOUS
  <2>1. CASE k = n + 1
    BY <1>4, <2>1 DEF l
  <2>2. CASE k # n + 1
    BY <1>3, <1>4, <2>2
  <2> QED BY <2>1, <2>2
<1>7. ASSUME NEW k \in 1..(n + 1), NEW m \in 1..Len(s[k]) PROVE u[o[k - 1] + m] = s[k][m]
  <2>1. CASE k = n + 1
    <3>1. o[k - 1] = Len(t) /\ m \in 1..l
      BY <1>3, <1>4, <2>1 DEF l
    <3>2. Len(t) + m \in 1..(Len(t) + l) /\ ~(Len(t) + m <= Len(t)) /\ (Len(t) + m) - Len(t) = m
      BY <1>1, <1>4, <3>1
    <3>3. u[Len(t) + m] = s[n + 1][(Len(t) + m) - Len(t)]
      BY <1>2, <3>2
    <3> QED BY <2>1, <3>1, <3>2, <3>3
  <2>2. CASE k # n + 1
    <3>1. k \in 1..n /\ k - 1 \in 0..n /\ Len(s[k]) \in Nat
      <4>1. s[k] \in Seq(A)
        OBVIOUS
      <4> QED BY <2>2, <4>1
    <3>a. k \in 0..n /\ n \in 0..n /\ k <= n
      BY <3>1
    <3>b. off[k] <= off[n] /\ off[k] = off[k - 1] + Len(s[k])
      BY <1>3, <3>1, <3>a
    <3>2. off[k - 1] + Len(s[k]) <= off[n] /\ off[k - 1] \in Nat /\ o[k - 1] = off[k - 1]
      BY <1>4, <3>1, <3>b
    <3>3. off[k - 1] + m \in 1..(Len(t) + l) /\ off[k - 1] + m <= Len(t)
      <4>1. off[n] = Len(t) /\ m \in Nat /\ m >= 1 /\ m <= Len(s[k])
        BY <1>3, <3>1
      <4> DEFINE lt == Len(t)
                 lk == Len(s[k])
                 b == off[k - 1]
      <4>2. lt \in Nat /\ lk \in Nat /\ b \in Nat /\ l \in Nat /\ b + lk <= lt /\ m <= lk
        BY <1>1, <1>4, <3>1, <3>2, <4>1
      <4> HIDE DEF lt, lk, b, l
      <4>3. b + m \in 1..(lt + l) /\ b + m <= lt
        BY <4>1, <4>2
      <4> QED BY <4>3 DEF lt, b
    <3>4. u[off[k - 1] + m] = t[off[k - 1] + m]
      BY <1>2, <3>3
    <3> QED BY <1>3, <3>1, <3>2, <3>4
  <2> QED BY <2>1, <2>2
<1>8. ASSUME NEW x \in 1..Len(u) PROVE \E k \in 1..(n + 1) : \E m \in 1..Len(s[k]) : x = o[k - 1] + m
  <2>1. CASE x <= Len(t)
    <3>1. x \in 1..Len(t)
      BY <1>4, <2>1
    <3>2. PICK k \in 1..n : \E m \in 1..Len(s[k]) : x = off[k - 1] + m
      BY <1>3, <3>1
    <3>3. k \in 1..(n + 1) /\ k - 1 \in 0..n
      BY <3>2
    <3>4. o[k - 1] = off[k - 1]
      BY <1>4, <3>3
    <3> QED BY <3>2, <3>3, <3>4
  <2>2. CASE x > Len(t)
    <3>1. x - Len(t) \in 1..l /\ x = o[n] + (x - Len(t))
      BY <1>1, <1>2, <1>3, <1>4, <2>2
    <3>2. n + 1 \in 1..(n + 1) /\ (n + 1) - 1 = n
      OBVIOUS
    <3> QED BY <3>1, <3>2 DEF l
  <2> QED BY <1>2, <1>4, <2>1, <2>2
<1>9. \A j, k \in 0..(n + 1) : j <= k => o[j] <= o[k]
  <2> SUFFICES ASSUME NEW j \in 0..(n + 1), NEW k \in 0..(n + 1), j <= k PROVE o[j] <= o[k]
    OBVIOUS
  <2>1. CASE k = n + 1 /\ j # n + 1
    <3>1. j \in 0..n /\ j <= n /\ n \in 0..n
      BY <2>1
    <3>2. off[j] <= off[n] /\ o[j] = off[j] /\ off[j] \in Nat
      BY <1>3, <1>4, <3>1
    <3> QED BY <1>1, <1>4, <2>1, <3>2
  <2>2. CASE k # n + 1
    <3>1. j \in 0..n /\ k \in 0..n
      BY <2>2
    <3> QED BY <1>3, <1>4, <3>1
  <2>3. CASE k = n + 1 /\ j = n + 1
    BY <1>1, <1>4, <2>3
  <2> QED BY <2>1, <2>2, <2>3
<1> QED BY <1>5, <1>6, <1>7, <1>8, <1>9 DEF Layout, u

LEMMA Flattened ==
  ASSUME NEW A, NEW s \in Seq(Seq(A))
  PROVE  FlattenSeq(s) \in Seq(A) /\ \E off : Layout(s, Len(s), off, FlattenSeq(s))
<1> DEFINE N == Len(s)
           G == [d \in Nat \X Seq(A) |-> IF d[1] + 1 \in 1..N THEN d[2] \o s[d[1] + 1] ELSE d[2]]
<1>1. N \in Nat /\ \A k \in 1..N : s[k] \in Seq(A)
  OBVIOUS
<1> HIDE DEF N
<1>2. G \in [Nat \X Seq(A) -> Seq(A)]
  <2>1. \A k \in 1..N, x \in Seq(A) : x \o s[k] \in Seq(A)
    BY <1>1, ConcatProperties
  <2> QED BY <2>1
<1>3. \A k \in Nat, x \in Seq(A) : G[<<k, x>>] = IF k + 1 \in 1..N THEN x \o s[k + 1] ELSE x
  OBVIOUS
<1> HIDE DEF G
<1>4. PICK P \in [Nat -> Seq(A)] : StepsFrom(P, <<>>, G)
  <2> DEFINE B == Seq(A)
  <2>1. <<>> \in B /\ G \in [Nat \X B -> B]
    BY <1>2
  <2> HIDE DEF B
  <2>2. \E f \in [Nat -> B] : StepsFrom(f, <<>>, G)
    BY <2>1, Recursion
  <2> QED BY <2>2 DEF B
<1>5. P[0] = <<>> /\ \A k \in Nat : P[k] \in Seq(A) /\ (k + 1 \in 1..N => P[k + 1] = P[k] \o s[k + 1])
  BY <1>3, <1>4 DEF StepsFrom
<1> DEFINE S == {k \in Nat : k <= N => \E off : Layout(s, k, off, P[k])}
<1>6. 0 \in S
  <2>1. Layout(s, 0, [k \in 0..0 |-> 0], P[0])
    BY <1>5 DEF Layout
  <2> QED BY <2>1
<1>7. ASSUME NEW k \in Nat, k \in S PROVE k + 1 \in S
  <2> SUFFICES ASSUME k + 1 <= N PROVE \E off : Layout(s, k + 1, off, P[k + 1])
    OBVIOUS
  <2>1. k <= N /\ k + 1 \in 1..N /\ \A j \in 1..(k + 1) : s[j] \in Seq(A)
    BY <1>1
  <2>2. PICK off : Layout(s, k, off, P[k])
    BY <1>7, <2>1
  <2>3. P[k] \in Seq(A) /\ P[k + 1] = P[k] \o s[k + 1]
    BY <1>5, <2>1
  <2> QED BY <2>1, <2>2, <2>3, LayoutNext
<1> HIDE DEF S
<1>8. N \in S
  BY <1>1, <1>6, <1>7, NatSetInduction
<1>9. FlattenSeq(s) = P[N]
  <2>1. CASE N = 0
    BY <1>5, <2>1 DEF FlattenSeq, N
  <2>2. CASE N # 0
    <3> DEFINE F == [k \in 1..N |-> P[k]]
    <3>1. F = [k \in 1..N |-> IF k = 1 THEN s[k] ELSE F[k - 1] \o s[k]]
      <4> SUFFICES ASSUME NEW k \in 1..N PROVE P[k] = IF k = 1 THEN s[k] ELSE F[k - 1] \o s[k]
        OBVIOUS
      <4>1. k - 1 \in Nat /\ (k - 1) + 1 = k
        BY <1>1
      <4>2. P[k] = P[k - 1] \o s[k]
        BY <1>5, <4>1
      <4>3. CASE k = 1
        <5>1. P[1 - 1] = <<>> /\ s[k] \in Seq(A)
          BY <1>1, <1>5
        <5>2. P[k] = <<>> \o s[k]
          BY <4>2, <4>3, <5>1
        <5> QED BY <4>3, <5>1, <5>2, ConcatEmptySeq
      <4>4. CASE k # 1
        <5>1. k - 1 \in 1..N
          BY <1>1, <4>4
        <5> QED BY <4>2, <4>4, <5>1
      <4> QED BY <4>3, <4>4
    <3> HIDE DEF F
    <3> DEFINE H == Chained(s)
    <3>2. H = [k \in 1..N |-> IF k = 1 THEN s[k] ELSE H[k - 1] \o s[k]]
      BY <3>1 DEF Chained, N
    <3> HIDE DEF H
    <3> DEFINE Q == {k \in Nat : k + 1 <= N => H[k + 1] = P[k + 1]}
    <3>3. 0 \in Q
      <4>1. 1 \in 1..N /\ 0 + 1 \in 1..N /\ s[1] \in Seq(A)
        BY <1>1, <2>2
      <4>2. H[1] = s[1]
        BY <3>2, <4>1
      <4>3. P[0 + 1] = P[0] \o s[0 + 1]
        BY <1>5, <4>1
      <4>4. P[1] = s[1]
        BY <1>5, <4>1, <4>3, ConcatEmptySeq
      <4> QED BY <4>2, <4>4
    <3>4. ASSUME NEW k \in Nat, k \in Q PROVE k + 1 \in Q
      <4> SUFFICES ASSUME (k + 1) + 1 <= N PROVE H[(k + 1) + 1] = P[(k + 1) + 1]
        OBVIOUS
      <4>1. (k + 1) + 1 \in 1..N /\ (k + 1) + 1 # 1 /\ ((k + 1) + 1) - 1 = k + 1 /\ k + 1 \in Nat
        BY <1>1
      <4>2. H[(k + 1) + 1] = H[k + 1] \o s[(k + 1) + 1]
        BY <3>2, <4>1
      <4>3. H[k + 1] = P[k + 1]
        BY <3>4, <1>1
      <4> QED BY <1>5, <4>1, <4>2, <4>3
    <3> HIDE DEF Q
    <3>5. N - 1 \in Q
      <4>1. N - 1 \in Nat
        BY <1>1, <2>2
      <4>2. \A k \in Nat : k \in Q => k + 1 \in Q
        BY <3>4
      <4> QED BY <3>3, <4>1, <4>2, NatSetInduction
    <3>6. H[N] = P[N]
      BY <1>1, <2>2, <3>5 DEF Q
    <3>7. FlattenSeq(s) = H[N]
      BY <2>2, FlattenIsChained DEF H, N
    <3> QED BY <3>6, <3>7
  <2> QED BY <2>1, <2>2
<1>10. P[N] \in Seq(A) /\ \E off : Layout(s, N, off, P[N])
  BY <1>1, <1>5, <1>8 DEF S
<1> QED BY <1>9, <1>10 DEF N
-------------------------------------------------------------------------------
\* Least and greatest of a few, places in a set of numbers, and sequences of numbers.
\* A set of numbers that is not empty has a least one.
LEMMA LeastExists ==
  ASSUME NEW T \in SUBSET Nat, T # {}
  PROVE  \E x \in T : \A y \in Nat : y < x => y \notin T
<1>1. \E x \in T : \A y \in T : ~ (<<y, x>> \in NatLess)
  BY LessWF, WFMin
<1> QED BY <1>1 DEF NatLess

\* A set of numbers that is not empty has a least one.
LEMMA MinExists ==
  ASSUME NEW T \in SUBSET Nat, T # {} PROVE Min(T) \in T /\ \A y \in T : Min(T) <= y
<1>1. PICK x \in T : \A y \in Nat : y < x => y \notin T
  BY LeastExists
<1>2. \A y \in T : x <= y
  <2> SUFFICES ASSUME NEW y \in T, ~(x <= y) PROVE FALSE
    OBVIOUS
  <2>1. y \in Nat /\ x \in Nat /\ y < x
    OBVIOUS
  <2> QED BY <1>1, <2>1
<1>3. \E z \in T : \A y \in T : z <= y
  BY <1>2
<1> QED BY <1>3 DEF Min

LEMMA MaxTwo == ASSUME NEW a \in Int, NEW b \in Int PROVE Max({a, b}) = IF a >= b THEN a ELSE b
<1> DEFINE S == {a, b}
<1>1. \E x \in S : \A y \in S : x >= y
  OBVIOUS
<1> HIDE DEF S
<1>2. Max(S) \in S /\ \A y \in S : Max(S) >= y
  BY <1>1 DEF Max
<1> DEFINE m == Max(S)
<1>3. m \in S /\ \A y \in S : m >= y
  BY <1>2
<1> HIDE DEF m
<1>4. m = IF a >= b THEN a ELSE b
  BY <1>3 DEF S
<1> QED BY <1>4 DEF m, S

LEMMA MinTwo == ASSUME NEW a \in Int, NEW b \in Int PROVE Min({a, b}) = IF a <= b THEN a ELSE b
<1> DEFINE S == {a, b}
<1>1. \E x \in S : \A y \in S : x <= y
  OBVIOUS
<1> HIDE DEF S
<1>2. Min(S) \in S /\ \A y \in S : Min(S) <= y
  BY <1>1 DEF Min
<1> DEFINE m == Min(S)
<1>3. m \in S /\ \A y \in S : m <= y
  BY <1>2
<1> HIDE DEF m
<1>4. m = IF a <= b THEN a ELSE b
  BY <1>3 DEF S
<1> QED BY <1>4 DEF m, S

\* The words of the line, in their order.
Below(S, k) == {j \in S : j < k}

LEMMA BelowCounts ==
  ASSUME NEW N \in Nat, NEW S \in SUBSET (0..N)
  PROVE  /\ IsFiniteSet(S) /\ Cardinality(S) \in Nat
         /\ \A k \in Nat : /\ IsFiniteSet(Below(S, k)) /\ Cardinality(Below(S, k)) \in Nat
                           /\ Cardinality(Below(S, k + 1)) = Cardinality(Below(S, k)) + (IF k \in S THEN 1 ELSE 0)
         /\ Cardinality(Below(S, 0)) = 0 /\ Cardinality(Below(S, N + 1)) = Cardinality(S)
<1>0. \A x \in S : x \in Nat /\ x <= N
  OBVIOUS
<1>1. \A T \in SUBSET S : IsFiniteSet(T) /\ Cardinality(T) \in Nat
  <2> SUFFICES ASSUME NEW T \in SUBSET S PROVE IsFiniteSet(T) /\ Cardinality(T) \in Nat
    OBVIOUS
  <2>1. T \in SUBSET Nat /\ \A x \in T : x <= N
    OBVIOUS
  <2>2. IsFiniteSet(T)
    BY <2>1, FS_BoundedSetOfNaturals
  <2> QED BY <2>2, FS_CardinalityType
<1>2. ASSUME NEW k \in Nat
      PROVE  Cardinality(Below(S, k + 1)) = Cardinality(Below(S, k)) + (IF k \in S THEN 1 ELSE 0)
  <2> DEFINE T == Below(S, k)
  <2>1. T \in SUBSET S /\ k \notin T
    BY DEF Below
  <2>2. CASE k \in S
    <3>1. Below(S, k + 1) = T \cup {k}
      <4>1. ASSUME NEW x \in S PROVE x < k + 1 <=> (x < k \/ x = k)
        BY <1>0
      <4> QED BY <2>2, <4>1, Zenon DEF Below
    <3> HIDE DEF T
    <3>2. IsFiniteSet(T) /\ Cardinality(T) \in Nat
      BY <1>1, <2>1
    <3>3. Cardinality(T \cup {k}) = Cardinality(T) + 1
      BY <2>1, <3>2, FS_AddElement
    <3> QED BY <2>2, <3>1, <3>3 DEF T
  <2>3. CASE k \notin S
    <3>1. Below(S, k + 1) = T
      <4>1. ASSUME NEW x \in S PROVE x < k + 1 <=> x < k
        <5>1. x # k /\ x \in Nat
          BY <1>0, <2>3
        <5> QED BY <5>1
      <4> QED BY <4>1, Zenon DEF Below
    <3> HIDE DEF T
    <3>2. Cardinality(T) \in Nat
      BY <1>1, <2>1
    <3>3. Cardinality(T) = Cardinality(T) + 0
      BY <3>2
    <3> QED BY <2>3, <3>1, <3>3 DEF T
  <2> QED BY <2>2, <2>3
<1>3. \A k \in Nat : Below(S, k) \in SUBSET S
  BY DEF Below
<1>4. Below(S, 0) = {} /\ Below(S, N + 1) = S
  <2>1. \A x \in S : ~(x < 0) /\ x < N + 1
    BY <1>0
  <2> QED BY <2>1, Zenon DEF Below
<1>5. Cardinality({}) = 0
  BY FS_EmptySet
<1> QED BY <1>1, <1>2, <1>3, <1>4, <1>5

LEMMA WthExists ==
  ASSUME NEW N \in Nat, NEW S \in SUBSET (0..N), NEW w \in 1..Cardinality(S)
  PROVE  \E k \in S : Cardinality({j \in S : j < k}) = w - 1
<1> DEFINE c(k) == Cardinality(Below(S, k))
           T == {k \in Nat : c(k) >= w}
<1>1. /\ Cardinality(S) \in Nat /\ c(0) = 0 /\ c(N + 1) = Cardinality(S)
      /\ \A k \in Nat : c(k) \in Nat /\ c(k + 1) = c(k) + (IF k \in S THEN 1 ELSE 0)
  BY BelowCounts
<1>2. w \in Nat /\ w >= 1 /\ w <= Cardinality(S)
  BY <1>1
<1> HIDE DEF c
<1>3. T \in SUBSET Nat /\ T # {}
  <2>1. N + 1 \in T
    BY <1>1, <1>2
  <2> QED BY <2>1
<1>4. PICK m \in T : \A y \in Nat : y < m => y \notin T
  BY <1>3, LeastExists
<1>5. m \in Nat /\ c(m) >= w /\ m # 0
  BY <1>1, <1>2
<1> DEFINE k == m - 1
<1>6. k \in Nat /\ k + 1 = m /\ k < m
  BY <1>5
<1>7. k \notin T
  BY <1>4, <1>6
<1> HIDE DEF k
<1>8. ~(c(k) >= w)
  BY <1>6, <1>7
<1>9. k \in S /\ c(k) = w - 1
  <2>1. c(k) \in Nat /\ c(m) = c(k) + (IF k \in S THEN 1 ELSE 0)
    BY <1>1, <1>6
  <2>2. CASE k \in S
    BY <1>2, <1>5, <1>8, <2>1, <2>2
  <2>3. CASE k \notin S
    BY <1>2, <1>5, <1>8, <2>1, <2>3
  <2> QED BY <2>2, <2>3
<1> QED BY <1>9 DEF c, Below

LEMMA SameSeq ==
  ASSUME NEW p \in Seq(Nat), NEW q \in Seq(Nat), Len(p) = Len(q), \A k \in 1..Len(p) : p[k] = q[k]
  PROVE  p = q
OBVIOUS

LEMMA Concat ==
  ASSUME NEW p \in Seq(Nat), NEW q \in Seq(Nat)
  PROVE  /\ Len(p) \in Nat /\ Len(q) \in Nat /\ p \o q \in Seq(Nat) /\ Len(p \o q) = Len(p) + Len(q)
         /\ \A k \in 1..Len(p) : (p \o q)[k] = p[k]
         /\ \A k \in 1..Len(q) : (p \o q)[Len(p) + k] = q[k]
<1>1. Len(p) \in Nat /\ Len(q) \in Nat
  OBVIOUS
<1>2. p \o q \in Seq(Nat) /\ Len(p \o q) = Len(p) + Len(q)
  OBVIOUS
<1>3. \A k \in 1..Len(p) : (p \o q)[k] = p[k]
  OBVIOUS
<1>4. ASSUME NEW k \in 1..Len(q) PROVE (p \o q)[Len(p) + k] = q[k]
  <2> DEFINE i == Len(p) + k
  <2>1. i \in (Len(p) + 1)..(Len(p) + Len(q)) /\ i - Len(p) = k
    BY <1>1
  <2> HIDE DEF i
  <2>2. (p \o q)[i] = q[i - Len(p)]
    BY <2>1
  <2> QED BY <2>1, <2>2 DEF i
<1> QED BY <1>1, <1>2, <1>3, <1>4

LEMMA SubSeqFrom ==
  ASSUME NEW A, NEW s \in Seq(A), NEW k \in 0..Len(s)
  PROVE  /\ SubSeq(s, k + 1, Len(s)) \in Seq(A) /\ Len(SubSeq(s, k + 1, Len(s))) = Len(s) - k
         /\ \A j \in 1..(Len(s) - k) : SubSeq(s, k + 1, Len(s))[j] = s[k + j]
<1> DEFINE n == Len(s)
           a == k + 1
<1>1. n \in Nat /\ k \in Nat /\ k <= n /\ a \in 1..(n + 1)
  OBVIOUS
<1>2. \A i \in a..n : i \in 1..n
  BY <1>1
<1> HIDE DEF a
<1>3. /\ SubSeq(s, a, n) \in Seq(A)
      /\ Len(SubSeq(s, a, n)) = (IF a <= n THEN n - a + 1 ELSE 0)
      /\ \A j \in 1..(n - a + 1) : SubSeq(s, a, n)[j] = s[a + j - 1]
  BY <1>1, <1>2
<1> DEFINE t == SubSeq(s, a, n)
<1>4. t \in Seq(A) /\ Len(t) = (IF a <= n THEN n - a + 1 ELSE 0)
      /\ \A j \in 1..(n - a + 1) : t[j] = s[a + j - 1]
  BY <1>3
<1> HIDE DEF t, n
<1>5. Len(t) = n - k
  BY <1>1, <1>4 DEF a
<1>6. ASSUME NEW j \in 1..(n - k) PROVE t[j] = s[k + j]
  <2>1. j \in 1..(n - a + 1) /\ a + j - 1 = k + j
    BY <1>1 DEF a
  <2> QED BY <1>4, <2>1
<1>7. SubSeq(s, k + 1, Len(s)) = t
  BY DEF a, n, t
<1> QED BY <1>4, <1>5, <1>6, <1>7 DEF n

LEMMA SubSeqType ==
  ASSUME NEW s \in Seq(Nat), NEW m \in Nat, m > 0 PROVE SubSeq(s, m, Len(s)) \in Seq(Nat)
<1> DEFINE n == Len(s)
<1>1. n \in Nat
  OBVIOUS
<1>2. CASE m <= n + 1
  <2> HIDE DEF n
  <2>1. \A i \in m..n : i \in 1..n
    BY <1>1
  <2>2. SubSeq(s, m, n) \in Seq(Nat)
    BY <1>1, <1>2, <2>1 DEF n
  <2> QED BY <2>2 DEF n
<1>3. CASE m > n + 1
  <2>1. SubSeq(s, m, n) = <<>>
    BY <1>1, <1>3
  <2> QED BY <2>1
<1> QED BY <1>1, <1>2, <1>3

LEMMA SeqOfNat ==
  ASSUME NEW s \in Seq(1..255) PROVE s \in Seq(Nat)
<1> DEFINE B == 1..255
<1>1. \A x \in B : x \in Nat
  OBVIOUS
<1>2. s \in Seq(B)
  OBVIOUS
<1> HIDE DEF B
<1>3. Len(s) \in Nat /\ s \in [1..Len(s) -> B]
  BY <1>2
<1>4. s \in [1..Len(s) -> Nat]
  BY <1>1, <1>3
<1> DEFINE n == Len(s)
<1>5. s \in [1..n -> Nat] /\ n \in Nat
  BY <1>3, <1>4
<1> HIDE DEF n
<1> QED BY <1>5

LEMMA SubSeqOf ==
  ASSUME NEW A, NEW s \in Seq(A), NEW a \in Nat, NEW b \in Nat, 1 <= a, a <= b + 1, b <= Len(s)
  PROVE  /\ SubSeq(s, a, b) \in Seq(A) /\ Len(SubSeq(s, a, b)) = (b - a) + 1
         /\ \A m \in 1..((b - a) + 1) : SubSeq(s, a, b)[m] = s[(a + m) - 1]
<1> DEFINE n == Len(s)
           N == (b - a) + 1
<1>1. n \in Nat /\ N \in Nat /\ b <= n
  OBVIOUS
<1> HIDE DEF n
<1>2. SubSeq(s, a, b) = [m \in 1..N |-> s[(a + m) - 1]]
  <2>1. Len([m \in 1..N |-> s[(a + m) - 1]]) = N
    BY <1>1
  <2> QED BY DEF n
<1>3. \A m \in 1..N : (a + m) - 1 \in 1..n
  BY <1>1
<1>4. s \in [1..n -> A]
  BY DEF n
<1>5. \A m \in 1..N : s[(a + m) - 1] \in A
  BY <1>3, <1>4
<1> DEFINE t == [m \in 1..N |-> s[(a + m) - 1]]
<1>6. t \in [1..N -> A]
  BY <1>5
<1>8. \A m \in 1..N : t[m] = s[(a + m) - 1]
  OBVIOUS
<1> HIDE DEF N, t
<1>7. t \in Seq(A) /\ Len(t) = N
  BY <1>1, <1>6
<1>9. SubSeq(s, a, b) = t
  BY <1>2 DEF t
<1> QED BY <1>7, <1>8, <1>9 DEF N

-------------------------------------------------------------------------------
\* An element of a set of numbers is known by how many come before it.
LEMMA WthUnique ==
  ASSUME NEW N \in Nat, NEW S \in SUBSET (0..N), NEW a \in S, NEW b \in S, a < b
  PROVE  Cardinality({j \in S : j < a}) < Cardinality({j \in S : j < b})
<1>1. a \in Nat /\ b \in Nat /\ \A x \in S : x \in Nat
  OBVIOUS
<1>2. /\ IsFiniteSet(Below(S, b)) /\ Cardinality(Below(S, b)) \in Nat
      /\ Cardinality(Below(S, a)) \in Nat
      /\ Cardinality(Below(S, a + 1)) = Cardinality(Below(S, a)) + (IF a \in S THEN 1 ELSE 0)
  BY <1>1, BelowCounts
<1>3. Below(S, a + 1) \in SUBSET Below(S, b)
  <2>1. ASSUME NEW x \in S, x < a + 1 PROVE x < b
    <3>1. x \in Nat
      BY <1>1
    <3> QED BY <1>1, <2>1, <3>1
  <2> QED BY <2>1 DEF Below
<1>4. Cardinality(Below(S, a + 1)) <= Cardinality(Below(S, b))
  BY <1>2, <1>3, FS_Subset
<1>5. Cardinality(Below(S, a)) < Cardinality(Below(S, b))
  BY <1>2, <1>4
<1> QED BY <1>5 DEF Below

LEMMA WthIs ==
  ASSUME NEW N \in Nat, NEW S \in SUBSET (0..N), NEW w, NEW k \in S,
         Cardinality({j \in S : j < k}) = w - 1
  PROVE  k = CHOOSE i \in S : Cardinality({j \in S : j < i}) = w - 1
<1> DEFINE c(i) == Cardinality({j \in S : j < i})
<1>1. ASSUME NEW i \in S, c(i) = c(k) PROVE i = k
  <2>1. i \in Nat /\ k \in Nat
    OBVIOUS
  <2>2. c(i) \in Nat /\ c(k) \in Nat
    BY <2>1, BelowCounts DEF Below
  <2>3. ~(i < k) /\ ~(k < i)
    <3>1. i < k => c(i) < c(k)
      BY WthUnique
    <3>2. k < i => c(k) < c(i)
      BY WthUnique
    <3> HIDE DEF c
    <3> QED BY <1>1, <2>2, <3>1, <3>2
  <2> QED BY <2>1, <2>3
<1> DEFINE i == CHOOSE i \in S : c(i) = w - 1
<1>2. c(k) = w - 1
  OBVIOUS
<1>3. i \in S /\ c(i) = w - 1
  BY <1>2
<1>4. c(i) = c(k)
  BY <1>2, <1>3
<1> HIDE DEF i, c
<1>5. k = i
  BY <1>1, <1>3, <1>4
<1> QED BY <1>5 DEF i, c

\* Moved by one place, a set of numbers keeps its size.
LEMMA ShiftCounts ==
  ASSUME NEW N \in Nat, NEW S \in SUBSET (0..N), NEW T \in SUBSET Nat,
         \A x \in Nat : x \in T <=> x > 0 /\ x - 1 \in S
  PROVE  Cardinality(T) = Cardinality(S)
<1> DEFINE f == [x \in S |-> x + 1]
<1>1. IsFiniteSet(S)
  BY BelowCounts
<1>2. f \in [S -> T]
  <2>1. ASSUME NEW x \in S PROVE x + 1 \in T
    <3>1. x \in Nat /\ x + 1 \in Nat /\ x + 1 > 0 /\ (x + 1) - 1 = x
      OBVIOUS
    <3> QED BY <3>1
  <2> QED BY <2>1
<1>3. \A x, y \in S : f[x] = f[y] => x = y
  <2> SUFFICES ASSUME NEW x \in S, NEW y \in S, f[x] = f[y] PROVE x = y
    OBVIOUS
  <2>1. x \in Nat /\ y \in Nat /\ x + 1 = y + 1
    OBVIOUS
  <2> QED BY <2>1
<1>4. \A t \in T : \E x \in S : f[x] = t
  <2> SUFFICES ASSUME NEW t \in T PROVE \E x \in S : f[x] = t
    OBVIOUS
  <2>1. t \in Nat /\ t > 0 /\ t - 1 \in S /\ (t - 1) + 1 = t
    OBVIOUS
  <2> QED BY <2>1
<1> HIDE DEF f
<1>5. f \in Bijection(S, T)
  BY <1>2, <1>3, <1>4 DEF Bijection, Injection, Surjection, IsInjective
<1>6. ExistsBijection(S, T)
  BY <1>5 DEF ExistsBijection
<1> QED BY <1>1, <1>6, FS_Bijection

-------------------------------------------------------------------------------
\* What stands between the places p and q of a sequence replaced.
Splice(s, p, t, q) == SubSeq(s, 1, p) \o t \o SubSeq(s, q + 1, Len(s))

Spliced(v, s, p, t, q) ==
  /\ Len(v) = p + Len(t) + (Len(s) - q)
  /\ \A k \in 1..p : v[k] = s[k]
  /\ \A k \in 1..Len(t) : v[p + k] = t[k]
  /\ \A k \in 1..(Len(s) - q) : v[(p + Len(t)) + k] = s[q + k]

LEMMA SpliceIs ==
  ASSUME NEW s \in Seq(Nat), NEW t \in Seq(Nat), NEW p \in Nat, NEW q \in Nat, p <= q, q <= Len(s)
  PROVE  /\ Splice(s, p, t, q) \in Seq(Nat) /\ Len(Splice(s, p, t, q)) = p + Len(t) + (Len(s) - q)
         /\ \A k \in 1..p : Splice(s, p, t, q)[k] = s[k]
         /\ \A k \in 1..Len(t) : Splice(s, p, t, q)[p + k] = t[k]
         /\ \A k \in 1..(Len(s) - q) : Splice(s, p, t, q)[(p + Len(t)) + k] = s[q + k]
<1> DEFINE n == Len(s)
           l == Len(t)
           a == SubSeq(s, 1, p)
           c == SubSeq(s, q + 1, Len(s))
           b == a \o t
<1>1. n \in Nat /\ l \in Nat
  OBVIOUS
<1>2. a \in Seq(Nat) /\ Len(a) = p /\ \A k \in 1..p : a[k] = s[k]
  <2>1. 1 \in Nat /\ 1 <= p + 1 /\ p <= Len(s) /\ (p - 1) + 1 = p /\ \A k \in 1..p : (1 + k) - 1 = k
    BY <1>1
  <2>2. a \in Seq(Nat) /\ Len(a) = (p - 1) + 1 /\ \A k \in 1..((p - 1) + 1) : a[k] = s[(1 + k) - 1]
    BY <2>1, SubSeqOf
  <2> HIDE DEF a
  <2> QED BY <2>1, <2>2
<1>3. c \in Seq(Nat) /\ Len(c) = n - q /\ \A k \in 1..(n - q) : c[k] = s[q + k]
  <2>1. q \in 0..Len(s)
    BY <1>1
  <2> QED BY <2>1, SubSeqFrom
<1> HIDE DEF a, c
<1>4. b \in Seq(Nat) /\ Len(b) = p + l /\ (\A k \in 1..p : b[k] = a[k]) /\ \A k \in 1..l : b[p + k] = t[k]
  BY <1>2, Concat
<1> DEFINE u == b \o c
<1>5. Splice(s, p, t, q) = u
  BY DEF Splice, a, c
<1> HIDE DEF b
<1>6. u \in Seq(Nat) /\ Len(u) = (p + l) + (n - q) /\ (\A k \in 1..(p + l) : u[k] = b[k])
      /\ \A k \in 1..(n - q) : u[(p + l) + k] = c[k]
  <2>1. b \in Seq(Nat) /\ c \in Seq(Nat)
    BY <1>3, <1>4
  <2>2. /\ u \in Seq(Nat) /\ Len(u) = Len(b) + Len(c)
        /\ \A k \in 1..Len(b) : u[k] = b[k]
        /\ \A k \in 1..Len(c) : u[Len(b) + k] = c[k]
    BY <2>1, Concat
  <2>3. Len(b) = p + l /\ Len(c) = n - q
    BY <1>3, <1>4
  <2> HIDE DEF u, n, l
  <2> QED BY <2>2, <2>3, Zenon
<1> HIDE DEF u
<1>7. \A k \in 1..p : u[k] = s[k]
  <2>1. \A k \in 1..p : k \in 1..(p + l)
    BY <1>1
  <2> QED BY <1>2, <1>4, <1>6, <2>1
<1>8. \A k \in 1..l : u[p + k] = t[k]
  <2> SUFFICES ASSUME NEW k \in 1..l PROVE u[p + k] = t[k]
    OBVIOUS
  <2> DEFINE i == p + k
  <2>1. i \in 1..(p + l)
    BY <1>1
  <2>2. b[i] = t[k]
    BY <1>4
  <2> HIDE DEF i
  <2>3. u[i] = t[k]
    BY <1>6, <2>1, <2>2
  <2> QED BY <2>3 DEF i
<1>9. \A k \in 1..(n - q) : u[(p + l) + k] = s[q + k]
  BY <1>3, <1>6
<1> QED BY <1>5, <1>6, <1>7, <1>8, <1>9 DEF n, l

LEMMA SpliceOnly ==
  ASSUME NEW s \in Seq(Nat), NEW t \in Seq(Nat), NEW p \in Nat, NEW q \in Nat, p <= q, q <= Len(s),
         NEW v \in Seq(Nat), Spliced(v, s, p, t, q)
  PROVE  v = Splice(s, p, t, q)
<1> DEFINE n == Len(s)
           l == Len(t)
           u == Splice(s, p, t, q)
<1>1. n \in Nat /\ l \in Nat
  OBVIOUS
<1>2. /\ u \in Seq(Nat) /\ Len(u) = p + l + (n - q)
      /\ \A k \in 1..p : u[k] = s[k]
      /\ \A k \in 1..l : u[p + k] = t[k]
      /\ \A k \in 1..(n - q) : u[(p + l) + k] = s[q + k]
  BY SpliceIs
<1>3. /\ Len(v) = p + l + (n - q)
      /\ \A k \in 1..p : v[k] = s[k]
      /\ \A k \in 1..l : v[p + k] = t[k]
      /\ \A k \in 1..(n - q) : v[(p + l) + k] = s[q + k]
  BY DEF Spliced
<1> HIDE DEF n, l, u
<1>4. ASSUME NEW x \in 1..Len(v) PROVE v[x] = u[x]
  <2>1. x \in Nat /\ x >= 1 /\ x <= p + l + (n - q)
    BY <1>1, <1>3
  <2>2. CASE x <= p
    <3>1. x \in 1..p
      BY <2>1, <2>2
    <3> QED BY <1>2, <1>3, <3>1
  <2>3. CASE p < x /\ x <= p + l
    <3> DEFINE k == x - p
    <3>1. k \in 1..l /\ p + k = x
      BY <1>1, <2>1, <2>3
    <3> HIDE DEF k
    <3> QED BY <1>2, <1>3, <3>1
  <2>4. CASE p + l < x
    <3> DEFINE k == x - (p + l)
    <3>1. k \in 1..(n - q) /\ (p + l) + k = x
      BY <1>1, <2>1, <2>4
    <3> HIDE DEF k
    <3> QED BY <1>2, <1>3, <3>1
  <2> QED BY <1>1, <2>1, <2>2, <2>3, <2>4
<1>5. Len(v) = Len(u)
  BY <1>2, <1>3
<1>6. v = u
  BY <1>2, <1>4, <1>5, SameSeq
<1> QED BY <1>6 DEF u

\* microrl_insert_text, as the line is read.

LEMMA SpliceNothing ==
  ASSUME NEW s \in Seq(Nat), NEW p \in Nat, NEW q \in Nat, p <= q, q <= Len(s)
  PROVE  /\ Splice(s, p, <<>>, q) = SubSeq(s, 1, p) \o SubSeq(s, q + 1, Len(s))
         /\ p = 0 => Splice(s, p, <<>>, q) = SubSeq(s, q + 1, Len(s))
<1> DEFINE a == SubSeq(s, 1, p)
           c == SubSeq(s, q + 1, Len(s))
<1>1. Len(s) \in Nat
  OBVIOUS
<1>2. a \in Seq(Nat) /\ (p = 0 => a = <<>>)
  <2>1. 1 \in Nat /\ 1 <= p + 1 /\ p <= Len(s) /\ (p - 1) + 1 = p
    BY <1>1
  <2>2. a \in Seq(Nat) /\ Len(a) = (p - 1) + 1
    BY <2>1, SubSeqOf
  <2> HIDE DEF a
  <2> QED BY <2>1, <2>2
<1>3. c \in Seq(Nat)
  <2>1. q \in 0..Len(s)
    BY <1>1
  <2> QED BY <2>1, SubSeqFrom
<1>4. Splice(s, p, <<>>, q) = a \o <<>> \o c
  BY DEF Splice
<1> HIDE DEF a, c
<1>5. a \o <<>> = a
  BY <1>2
<1>6. <<>> \o c = c
  BY <1>3
<1> QED BY <1>2, <1>4, <1>5, <1>6 DEF a, c

\* microrl_backspace, as the line is read.

\* Two replacements next to each other are one.
LEMMA SpliceSame ==
  ASSUME NEW s \in Seq(Nat), NEW p \in Nat, p <= Len(s) PROVE s = Splice(s, p, <<>>, p)
<1> DEFINE e == <<>>
<1>1. e \in Seq(Nat) /\ Len(e) = 0 /\ Len(s) \in Nat
  OBVIOUS
<1> HIDE DEF e
<1>2. Len(s) = p + Len(e) + (Len(s) - p) /\ p + Len(e) = p /\ \A k \in 1..Len(e) : s[p + k] = e[k]
  BY <1>1
<1>3. Spliced(s, s, p, e, p)
  BY <1>2 DEF Spliced
<1>4. p <= p
  OBVIOUS
<1>5. s = Splice(s, p, e, p)
  BY <1>1, <1>3, <1>4, SpliceOnly
<1> QED BY <1>5 DEF e

LEMMA SpliceSplices ==
  ASSUME NEW s \in Seq(Nat), NEW t \in Seq(Nat), NEW p \in Nat, NEW q \in Nat, p <= q, q <= Len(s)
  PROVE  Splice(s, p, t, q) \in Seq(Nat) /\ Spliced(Splice(s, p, t, q), s, p, t, q)
<1> DEFINE u == Splice(s, p, t, q)
<1>1. /\ u \in Seq(Nat) /\ Len(u) = p + Len(t) + (Len(s) - q)
      /\ \A k \in 1..p : u[k] = s[k]
      /\ \A k \in 1..Len(t) : u[p + k] = t[k]
      /\ \A k \in 1..(Len(s) - q) : u[(p + Len(t)) + k] = s[q + k]
  BY SpliceIs
<1> HIDE DEF u
<1>2. u \in Seq(Nat) /\ Spliced(u, s, p, t, q)
  BY <1>1 DEF Spliced
<1> QED BY <1>2 DEF u

LEMMA SpliceTwice ==
  ASSUME NEW s \in Seq(Nat), NEW t \in Seq(Nat), NEW u \in Seq(Nat), NEW p \in Nat, p <= Len(s)
  PROVE  Splice(Splice(s, p, t, p), p + Len(t), u, p + Len(t)) = Splice(s, p, t \o u, p)
<1> DEFINE n == Len(s)
           l == Len(t)
           m == Len(u)
           x == Splice(s, p, t, p)
           q == p + l
           v == Splice(x, q, u, q)
           w == t \o u
<1>1. n \in Nat /\ l \in Nat /\ m \in Nat /\ p <= n /\ q \in Nat /\ q = p + l
  OBVIOUS
<1>2. /\ x \in Seq(Nat) /\ Len(x) = p + l + (n - p)
      /\ \A k \in 1..p : x[k] = s[k]
      /\ \A k \in 1..l : x[p + k] = t[k]
      /\ \A k \in 1..(n - p) : x[(p + l) + k] = s[p + k]
  <2>1. p <= p /\ p <= Len(s)
    OBVIOUS
  <2>2. /\ x \in Seq(Nat) /\ Len(x) = p + Len(t) + (Len(s) - p)
        /\ \A k \in 1..p : x[k] = s[k]
        /\ \A k \in 1..Len(t) : x[p + k] = t[k]
        /\ \A k \in 1..(Len(s) - p) : x[(p + Len(t)) + k] = s[p + k]
    BY <2>1, SpliceIs
  <2> QED BY <2>2
<1>3. /\ w \in Seq(Nat) /\ Len(w) = l + m /\ (\A k \in 1..l : w[k] = t[k]) /\ \A k \in 1..m : w[l + k] = u[k]
  BY Concat
<1> HIDE DEF x, w, n, l, m
<1>4. q <= q /\ q <= Len(x) /\ Len(x) = l + n /\ Len(x) - q = n - p
  BY <1>1, <1>2
<1> HIDE DEF q
<1>5. /\ v \in Seq(Nat) /\ Len(v) = q + m + (n - p)
      /\ \A k \in 1..q : v[k] = x[k]
      /\ \A k \in 1..m : v[q + k] = u[k]
      /\ \A k \in 1..(n - p) : v[(q + m) + k] = x[q + k]
  <2>1. /\ v \in Seq(Nat) /\ Len(v) = q + Len(u) + (Len(x) - q)
        /\ \A k \in 1..q : v[k] = x[k]
        /\ \A k \in 1..Len(u) : v[q + k] = u[k]
        /\ \A k \in 1..(Len(x) - q) : v[(q + Len(u)) + k] = x[q + k]
    <3>1. q \in Nat /\ x \in Seq(Nat) /\ q <= q /\ q <= Len(x)
      BY <1>1, <1>2, <1>4
    <3>2. v \in Seq(Nat) /\ Spliced(v, x, q, u, q)
      BY <3>1, SpliceSplices
    <3> HIDE DEF v
    <3> QED BY <3>2 DEF Spliced
  <2> HIDE DEF v
  <2> QED BY <1>4, <2>1 DEF m
<1> HIDE DEF v
<1>6. ASSUME NEW k \in 1..p PROVE v[k] = s[k]
  <2>1. k \in 1..q
    BY <1>1
  <2> QED BY <1>2, <1>5, <2>1
<1>7. ASSUME NEW k \in 1..(l + m) PROVE v[p + k] = w[k]
  <2>1. CASE k <= l
    <3> DEFINE i == p + k
    <3>1. k \in 1..l /\ i \in 1..q
      BY <1>1, <2>1
    <3>2. x[i] = t[k] /\ w[k] = t[k]
      BY <1>2, <1>3, <3>1
    <3> HIDE DEF i
    <3>3. v[i] = x[i]
      BY <1>5, <3>1
    <3> QED BY <3>2, <3>3 DEF i
  <2>2. CASE ~(k <= l)
    <3> DEFINE i == k - l
    <3>1. i \in 1..m /\ l + i = k /\ q + i = p + k
      BY <1>1, <2>2
    <3> HIDE DEF i
    <3>2. v[q + i] = u[i] /\ w[l + i] = u[i]
      BY <1>3, <1>5, <3>1
    <3> QED BY <3>1, <3>2
  <2> QED BY <2>1, <2>2
<1>8. ASSUME NEW k \in 1..(n - p) PROVE v[(p + (l + m)) + k] = s[p + k]
  <2>1. v[(q + m) + k] = x[q + k]
    BY <1>5
  <2>2. x[q + k] = s[p + k]
    BY <1>1, <1>2
  <2>3. q + m = p + (l + m)
    BY <1>1
  <2> QED BY <2>1, <2>2, <2>3
<1>9. Spliced(v, s, p, w, p)
  <2>1. Len(v) = p + (l + m) + (n - p)
    BY <1>1, <1>5
  <2>2. Len(w) = l + m /\ Len(s) = n
    BY <1>3 DEF n
  <2>3. Len(v) = p + Len(w) + (Len(s) - p)
    BY <2>1, <2>2
  <2>4. \A k \in 1..Len(w) : v[p + k] = w[k]
    BY <1>7, <2>2
  <2>5. \A k \in 1..(Len(s) - p) : v[(p + Len(w)) + k] = s[p + k]
    BY <1>8, <2>2
  <2> QED BY <1>6, <2>3, <2>4, <2>5 DEF Spliced
<1>10. p <= p /\ p <= Len(s)
  BY <1>1 DEF n
<1>11. v = Splice(s, p, w, p)
  BY <1>3, <1>5, <1>9, <1>10, SpliceOnly
<1> QED BY <1>11 DEF v, w, x, q, l

-------------------------------------------------------------------------------
\* Sequences of the same elements, and of sequences of the same lengths.
LEMMA SameSeqs ==
  ASSUME NEW A, NEW p \in Seq(A), NEW q \in Seq(A), Len(p) = Len(q), \A k \in 1..Len(p) : p[k] = q[k]
  PROVE  p = q
OBVIOUS

\* How long a concatenation is depends on the lengths of its parts only.
LEMMA FlattenLength ==
  ASSUME NEW s \in Seq(Seq(Nat)), NEW t \in Seq(Seq(Nat)), Len(s) = Len(t),
         \A k \in 1..Len(s) : Len(s[k]) = Len(t[k])
  PROVE  Len(FlattenSeq(s)) = Len(FlattenSeq(t)) /\ Len(FlattenSeq(s)) \in Nat
<1> DEFINE n == Len(s)
           F == FlattenSeq(s)
           G == FlattenSeq(t)
<1>1. n \in Nat /\ Len(t) = n
  OBVIOUS
<1>2. PICK f : F \in Seq(Nat) /\ Layout(s, n, f, F)
  BY Flattened
<1>3. PICK g : G \in Seq(Nat) /\ Layout(t, n, g, G)
  BY <1>1, Flattened
<1>4. /\ f \in [0..n -> Nat] /\ f[0] = 0 /\ Len(F) = f[n] /\ \A k \in 1..n : f[k] = f[k - 1] + Len(s[k])
  BY <1>2 DEF Layout
<1>5. /\ g \in [0..n -> Nat] /\ g[0] = 0 /\ Len(G) = g[n] /\ \A k \in 1..n : g[k] = g[k - 1] + Len(t[k])
  BY <1>3 DEF Layout
<1>6. \A k \in 1..n : Len(s[k]) = Len(t[k])
  OBVIOUS
<1> DEFINE S == {k \in Nat : k > n \/ f[k] = g[k]}
<1> HIDE DEF n, F, G
<1>7. 0 \in S
  BY <1>4, <1>5
<1>8. ASSUME NEW k \in S PROVE k + 1 \in S
  <2>1. k \in Nat /\ (k > n \/ f[k] = g[k])
    OBVIOUS
  <2> HIDE DEF S
  <2>2. CASE k + 1 > n
    BY <2>1, <2>2 DEF S
  <2>3. CASE ~(k + 1 > n)
    <3> DEFINE i == k + 1
    <3>1. i \in 1..n /\ i - 1 = k /\ i \in Nat /\ ~(k > n)
      <4>1. k \in Nat /\ n \in Nat /\ k + 1 <= n
        BY <1>1, <2>1, <2>3
      <4> QED BY <4>1
    <3> HIDE DEF i
    <3>2. f[i] = f[i - 1] + Len(s[i]) /\ g[i] = g[i - 1] + Len(t[i]) /\ Len(s[i]) = Len(t[i])
      BY <1>4, <1>5, <1>6, <3>1
    <3>3. f[i] = g[i]
      BY <2>1, <3>1, <3>2
    <3> QED BY <3>1, <3>3 DEF i, S
  <2> QED BY <2>2, <2>3
<1>9. S \in SUBSET Nat
  OBVIOUS
<1> HIDE DEF S
<1>10. n \in S
  BY <1>1, <1>7, <1>8, <1>9, NatSetInduction
<1>11. f[n] = g[n]
  BY <1>1, <1>10 DEF S
<1>12. Len(F) \in Nat
  BY <1>2
<1> QED BY <1>4, <1>5, <1>11, <1>12 DEF F, G
===============================================================================
