------------------------------ MODULE FoldLemmas ------------------------------
(***************************************************************************)
(* Facts about numbers, minima, maxima and sums over sets that the proofs  *)
(* about ExecveScan, Admin and HookSearch share.  The folds of the         *)
(* community modules are functions on the subsets of a set, which these    *)
(* lemmas take apart one element at a time.                                *)
(***************************************************************************)
EXTENDS Integers, Sequences, FiniteSetsExt, FiniteSetTheorems, WellFoundedInduction, TLAPS

\* Induction over the numbers, for a set: the least number outside it is not there.
LEMMA NatSetInd ==
    ASSUME NEW T, T \subseteq Nat, 0 \in T, \A n \in T : n + 1 \in T
    PROVE  T = Nat
<1> SUFFICES ASSUME Nat \ T # {} PROVE FALSE
    OBVIOUS
<1> DEFINE R == OpToRel(<, Nat)
<1>1. IsWellFoundedOn(R, Nat)
    BY NatLessThanWellFounded, Zenon
<1>2. Nat \ T \subseteq Nat
    OBVIOUS
<1> HIDE DEF R
<1>3. PICK x \in Nat \ T : \A y \in Nat \ T : ~(<<y, x>> \in R)
    BY <1>1, <1>2, WFMin
<1>4. \A y \in Nat \ T : ~(y < x)
    BY <1>3 DEF R, OpToRel
<1>5. x # 0 /\ x - 1 \in Nat
    OBVIOUS
<1> QED  BY <1>4, <1>5

\* An element of a sequence.
LEMMA SeqElement == ASSUME NEW S, NEW s \in Seq(S), NEW n \in DOMAIN s PROVE s[n] \in S
OBVIOUS

\* Max is the member that no other exceeds.
LEMMA MaxIs ==
    ASSUME NEW s \in SUBSET Int, NEW m \in s, \A n \in s : n <= m
    PROVE  Max(s) = m
<1>1. m >= m /\ \A y \in s : m >= y
    OBVIOUS
<1>2. \A x \in s : (\A y \in s : x >= y) => x = m
    OBVIOUS
<1> QED  BY <1>1, <1>2, Zenon DEF Max

\* Min is the member that exceeds no other.
LEMMA MinIs ==
    ASSUME NEW s \in SUBSET Int, NEW m \in s, \A n \in s : m <= n
    PROVE  Min(s) = m
<1>1. m =< m /\ \A y \in s : m =< y
    OBVIOUS
<1>2. \A x \in s : (\A y \in s : x =< y) => x = m
    OBVIOUS
<1> QED  BY <1>1, <1>2, Zenon DEF Min

\* A set of numbers that is not empty has a least one.
LEMMA MinOfNat ==
    ASSUME NEW s \in SUBSET Nat, s # {}
    PROVE  Min(s) \in s /\ \A n \in s : Min(s) <= n
<1> DEFINE R == OpToRel(<, Nat)
<1>1. IsWellFoundedOn(R, Nat)
    BY NatLessThanWellFounded, Zenon
<1> HIDE DEF R
<1>2. PICK m \in s : \A y \in s : ~(<<y, m>> \in R)
    BY <1>1, WFMin
<1>3. \A n \in s : ~(n < m)
    BY <1>2 DEF R, OpToRel
<1>4. \A n \in s : m <= n
    BY <1>3
<1> QED  BY <1>4, MinIs

-----------------------------------------------------------------------------
\* The element that MapThenSumSet takes first.
Chosen(s) == CHOOSE x \in s : TRUE

\* What MapThenSumSet chooses: g gives the sum of F over each part of D.
Sums(F, D, g) ==
    g = [s \in SUBSET D |-> IF s = {} THEN 0 ELSE F[Chosen(s)] + g[s \ {Chosen(s)}]]

\* There is such a function: what it is for n + 1 elements follows from n.
LEMMA SumsExist ==
    ASSUME NEW D, IsFiniteSet(D), NEW F
    PROVE  \E g : Sums(F, D, g)
<1> DEFINE Small(k) == {s \in SUBSET D : Cardinality(s) <= k}
           Up(k, g) == g = [s \in Small(k) |-> IF s = {} THEN 0 ELSE F[Chosen(s)] + g[s \ {Chosen(s)}]]
           T == {k \in Nat : \E g : Up(k, g)}
<1>1. \A s \in SUBSET D : IsFiniteSet(s) /\ Cardinality(s) \in Nat /\ Cardinality(s) <= Cardinality(D)
    BY FS_Subset, FS_CardinalityType
<1>2. \A s \in SUBSET D : s # {} => Chosen(s) \in s /\ Cardinality(s \ {Chosen(s)}) = Cardinality(s) - 1
  <2> SUFFICES ASSUME NEW s \in SUBSET D, s # {}
               PROVE  Chosen(s) \in s /\ Cardinality(s \ {Chosen(s)}) = Cardinality(s) - 1
      OBVIOUS
  <2>1. Chosen(s) \in s
      BY DEF Chosen
  <2> QED  BY <2>1, <1>1, FS_RemoveElement
<1>3. 0 \in T
  <2>1. \A s \in Small(0) : s = {}
      BY <1>1, FS_EmptySet
  <2> DEFINE g == [s \in Small(0) |-> 0]
  <2>2. Up(0, g)
      BY <2>1
  <2> HIDE DEF Up, g
  <2> QED  BY <2>2
<1>4. ASSUME NEW k \in T PROVE k + 1 \in T
  <2>1. PICK g : Up(k, g)
      OBVIOUS
  <2> DEFINE h == [s \in Small(k + 1) |-> IF s = {} THEN 0 ELSE F[Chosen(s)] + g[s \ {Chosen(s)}]]
  <2>2. ASSUME NEW s \in Small(k) PROVE s \in Small(k + 1) /\ h[s] = g[s]
    <3>1. s \in Small(k + 1)
        BY <1>1
    <3>2. g[s] = IF s = {} THEN 0 ELSE F[Chosen(s)] + g[s \ {Chosen(s)}]
        BY <2>1
    <3> QED  BY <3>1, <3>2
  <2>3. \A s \in Small(k + 1) : s # {} => s \ {Chosen(s)} \in Small(k)
      BY <1>1, <1>2
  <2>4. \A s \in Small(k + 1) : h[s] = IF s = {} THEN 0 ELSE F[Chosen(s)] + h[s \ {Chosen(s)}]
      BY <2>2, <2>3
  <2>5. h = [s \in Small(k + 1) |-> h[s]]
      OBVIOUS
  <2> HIDE DEF h, Small
  <2>6. Up(k + 1, h)
      BY <2>4, <2>5
  <2> QED  BY <2>6
<1>5. T = Nat
  <2> HIDE DEF T
  <2> QED  BY <1>3, <1>4, NatSetInd DEF T
<1>6. Cardinality(D) \in Nat /\ Small(Cardinality(D)) = SUBSET D
    BY <1>1, FS_CardinalityType
<1>7. PICK g : Up(Cardinality(D), g)
  <2> HIDE DEF Up
  <2> QED  BY <1>5, <1>6
<1> QED  BY <1>6, <1>7 DEF Sums

\* The sums of numbers over a finite set.
Summed(F, D, g) == IsFiniteSet(D) /\ (\A x \in D : F[x] \in Int) /\ Sums(F, D, g)

\* In whatever order the elements are chosen, each of them may be taken first.
LEMMA SumsRemove ==
    ASSUME NEW D, NEW F, NEW g, Summed(F, D, g), NEW s \in SUBSET D
    PROVE  g[s] \in Int /\ \A y \in s : g[s] = F[y] + g[s \ {y}]
<1>0. IsFiniteSet(D) /\ (\A x \in D : F[x] \in Int) /\ Sums(F, D, g)
    BY DEF Summed
<1> DEFINE Good(r) == g[r] \in Int /\ \A y \in r : g[r] = F[y] + g[r \ {y}]
           T == {k \in Nat : \A r \in SUBSET D : Cardinality(r) <= k => Good(r)}
<1>1. \A r \in SUBSET D : IsFiniteSet(r) /\ Cardinality(r) \in Nat
    BY <1>0, FS_Subset, FS_CardinalityType
<1>2. \A r \in SUBSET D : r # {} => Chosen(r) \in r /\ g[r] = F[Chosen(r)] + g[r \ {Chosen(r)}]
    BY <1>0 DEF Sums, Chosen
<1>3. 0 \in T
  <2>1. g[{}] = 0
      BY <1>0 DEF Sums
  <2> QED  BY <1>1, <2>1, FS_EmptySet
<1>4. ASSUME NEW k \in T PROVE k + 1 \in T
  <2>1. k \in Nat /\ \A r \in SUBSET D : Cardinality(r) <= k => Good(r)
      OBVIOUS
  <2>2. ASSUME NEW r \in SUBSET D, Cardinality(r) = k + 1 PROVE Good(r)
    <3> HIDE DEF Good
    <3>1. r # {} /\ \A y \in r : IsFiniteSet(r \ {y}) /\ Cardinality(r \ {y}) = k
      <4>1. r # {}
          BY <2>1, <2>2, FS_EmptySet
      <4>2. ASSUME NEW y \in r PROVE IsFiniteSet(r \ {y}) /\ Cardinality(r \ {y}) = Cardinality(r) - 1
          BY <1>1, FS_RemoveElement
      <4>3. \A y \in r : Cardinality(r \ {y}) = k
          BY <2>1, <2>2, <4>2
      <4> QED  BY <4>1, <4>2, <4>3
    <3>2. \A y \in r : Good(r \ {y})
        BY <2>1, <3>1
    <3>3. PICK x \in r : g[r] = F[x] + g[r \ {x}]
        BY <1>2, <3>1
    <3>4. \A y \in r : F[y] \in Int /\ g[r \ {y}] \in Int
        BY <1>0, <3>2 DEF Good
    <3>5. g[r] \in Int
        BY <3>3, <3>4
    <3>6. ASSUME NEW y \in r, y # x PROVE g[r] = F[y] + g[r \ {y}]
      <4> DEFINE both == g[(r \ {x}) \ {y}]
      <4>1. g[r \ {x}] = F[y] + both
          BY <3>2, <3>6 DEF Good
      <4>2. (r \ {x}) \ {y} = (r \ {y}) \ {x}
          OBVIOUS
      <4>3. g[r \ {y}] = F[x] + both
        <5>1. x \in r \ {y}
            BY <3>6
        <5>2. Good(r \ {y})
            BY <3>2
        <5>3. g[r \ {y}] = F[x] + g[(r \ {y}) \ {x}]
            BY <5>1, <5>2 DEF Good
        <5> QED  BY <4>2, <5>3
      <4>4. both \in Int
        <5>1. Cardinality((r \ {x}) \ {y}) <= k
          <6>1. Cardinality((r \ {x}) \ {y}) = Cardinality(r \ {x}) - 1
              BY <3>1, <3>6, FS_RemoveElement
          <6> QED  BY <2>1, <3>1, <6>1
        <5>2. Good((r \ {x}) \ {y})
            BY <2>1, <5>1
        <5> QED  BY <5>2 DEF Good
      <4> HIDE DEF both
      <4> QED  BY <3>3, <3>4, <4>1, <4>3, <4>4
    <3> QED  BY <3>3, <3>5, <3>6 DEF Good
  <2> HIDE DEF Good
  <2>3. \A r \in SUBSET D : Cardinality(r) <= k + 1 => Good(r)
      BY <1>1, <2>1, <2>2
  <2> QED  BY <2>1, <2>3
<1>5. T = Nat
  <2> HIDE DEF T
  <2> QED  BY <1>3, <1>4, NatSetInd DEF T
<1> QED  BY <1>1, <1>5

\* The same for all elements together.
LEMMA SumsWhole ==
    ASSUME NEW D, NEW F, NEW g, Summed(F, D, g), NEW y \in D
    PROVE  g[D] = F[y] + g[D \ {y}] /\ g[D] \in Int /\ g[D \ {y}] \in Int
<1>1. PICK s \in SUBSET D : s = D
    OBVIOUS
<1>2. g[s] \in Int /\ g[s] = F[y] + g[s \ {y}]
    BY <1>1, SumsRemove
<1>3. g[D \ {y}] \in Int
    BY SumsRemove
<1> QED  BY <1>1, <1>2, <1>3

\* A sum does not depend on the set that the parts are taken from.
LEMMA SumsAgree ==
    ASSUME NEW D, NEW E \in SUBSET D, NEW F, NEW g, Summed(F, D, g), NEW h, Sums(F, E, h)
    PROVE  g[E] = h[E]
<1> DEFINE T == {k \in Nat : \A r \in SUBSET E : Cardinality(r) = k => g[r] = h[r]}
<1>1. Summed(F, E, h) /\ IsFiniteSet(E)
    BY FS_Subset DEF Summed
<1>2. \A r \in SUBSET E : IsFiniteSet(r) /\ Cardinality(r) \in Nat
    BY <1>1, FS_Subset, FS_CardinalityType
<1>3. 0 \in T
  <2>1. g[{}] = 0 /\ h[{}] = 0
      BY DEF Sums, Summed
  <2> QED  BY <1>2, <2>1, FS_EmptySet
<1>4. ASSUME NEW k \in T PROVE k + 1 \in T
  <2> SUFFICES ASSUME NEW r \in SUBSET E, Cardinality(r) = k + 1 PROVE g[r] = h[r]
      OBVIOUS
  <2>1. PICK x : x \in r
    <3>1. k \in Nat /\ Cardinality(r) # 0
        OBVIOUS
    <3> HIDE DEF T
    <3> QED  BY <3>1, FS_EmptySet
  <2>2. Cardinality(r \ {x}) = Cardinality(r) - 1
      BY <1>2, <2>1, FS_RemoveElement
  <2>3. g[r \ {x}] = h[r \ {x}]
    <3>1. r \ {x} \in SUBSET E /\ Cardinality(r \ {x}) = k
        BY <2>2
    <3> QED  BY <3>1
  <2>4. g[r] = F[x] + g[r \ {x}]
      BY <2>1, SumsRemove
  <2>5. h[r] = F[x] + h[r \ {x}]
      BY <1>1, <2>1, SumsRemove
  <2> QED  BY <2>3, <2>4, <2>5
<1>5. T = Nat
  <2> HIDE DEF T
  <2> QED  BY <1>3, <1>4, NatSetInd DEF T
<1>6. PICK s \in SUBSET E : s = E
    OBVIOUS
<1> QED  BY <1>2, <1>5, <1>6

\* If each part is ten times as much, so is the sum.
LEMMA SumsTenfold ==
    ASSUME NEW D, NEW E \in SUBSET D, NEW F, NEW g, Summed(F, D, g),
           NEW G, NEW h, Summed(G, E, h), \A x \in E : F[x] = 10 * G[x]
    PROVE  g[E] = 10 * h[E]
<1>0. ASSUME NEW r \in SUBSET E
      PROVE  h[r] \in Int /\ \A y \in r : h[r] = G[y] + h[r \ {y}]
  <2>1. Summed(G, E, h)
      OBVIOUS
  <2> QED  BY <2>1, SumsRemove
<1> DEFINE T == {k \in Nat : \A r \in SUBSET E : Cardinality(r) = k => g[r] = 10 * h[r]}
<1>1. \A r \in SUBSET E : IsFiniteSet(r) /\ Cardinality(r) \in Nat
    BY FS_Subset, FS_CardinalityType DEF Summed
<1>2. 0 \in T
  <2>1. g[{}] = 0 /\ h[{}] = 0
      BY DEF Sums, Summed
  <2> QED  BY <1>1, <2>1, FS_EmptySet
<1>3. ASSUME NEW k \in T PROVE k + 1 \in T
  <2> SUFFICES ASSUME NEW r \in SUBSET E, Cardinality(r) = k + 1 PROVE g[r] = 10 * h[r]
      OBVIOUS
  <2>1. PICK x : x \in r
    <3>1. k \in Nat /\ Cardinality(r) # 0
        OBVIOUS
    <3> HIDE DEF T
    <3> QED  BY <3>1, FS_EmptySet
  <2>2. Cardinality(r \ {x}) = Cardinality(r) - 1
      BY <1>1, <2>1, FS_RemoveElement
  <2>3. g[r \ {x}] = 10 * h[r \ {x}]
    <3>1. r \ {x} \in SUBSET E /\ Cardinality(r \ {x}) = k
        BY <2>2
    <3> QED  BY <3>1
  <2>4. g[r] = F[x] + g[r \ {x}] /\ F[x] = 10 * G[x]
      BY <2>1, SumsRemove
  <2>5. h[r] = G[x] + h[r \ {x}] /\ h[r \ {x}] \in Int /\ G[x] \in Int
    <3>1. r \ {x} \in SUBSET E
        OBVIOUS
    <3>2. G[x] \in Int
        BY <2>1 DEF Summed
    <3> QED  BY <1>0, <2>1, <3>1, <3>2
  <2> QED  BY <2>3, <2>4, <2>5
<1>4. T = Nat
  <2> HIDE DEF T
  <2> QED  BY <1>2, <1>3, NatSetInd DEF T
<1>5. PICK s \in SUBSET E : s = E
    OBVIOUS
<1> QED  BY <1>1, <1>4, <1>5

-----------------------------------------------------------------------------
(* Remainders.                                                             *)

LEMMA DivMod ==
    ASSUME NEW M \in Nat \ {0}, NEW a \in Int
    PROVE  a = M * (a \div M) + (a % M) /\ a % M \in 0 .. M - 1 /\ a \div M \in Int
<1>1. a \div M \in Int /\ a % M \in 0 .. M - 1
    OBVIOUS
<1>2. a = M * (a \div M) + (a % M)
    OBVIOUS
<1> QED  BY <1>1, <1>2

\* Two remainders do not differ by a multiple.
LEMMA OneRemainder ==
    ASSUME NEW M \in Nat \ {0}, NEW r \in 0 .. M - 1, NEW s \in 0 .. M - 1, NEW k \in Int, r - s = M * k
    PROVE  r = s
<1>1. CASE k = 0
    BY <1>1
<1>2. CASE k >= 1
  <2>1. M * k >= M
      BY <1>2
  <2> QED  BY <2>1
<1>3. CASE k <= -1
  <2>1. M * k <= -M
      BY <1>3
  <2> QED  BY <2>1
<1> QED  BY <1>1, <1>2, <1>3

\* Numbers that differ by a multiple have the same remainder.
LEMMA SameRemainder ==
    ASSUME NEW M \in Nat \ {0}, NEW a \in Int, NEW b \in Int, NEW k \in Int, a - b = M * k
    PROVE  a % M = b % M
<1> DEFINE q == a \div M
           p == b \div M
           r == a % M
           s == b % M
<1>1. q \in Int /\ p \in Int /\ r \in 0 .. M - 1 /\ s \in 0 .. M - 1 /\ a = M * q + r /\ b = M * p + s
    BY DivMod
<1> HIDE DEF q, p, r, s
<1>2. r - s = M * (k - q + p)
  <2>1. M * (k - q + p) = M * k - M * q + M * p
      BY <1>1
  <2>2. M * k \in Int /\ M * q \in Int /\ M * p \in Int
      BY <1>1
  <2> QED  BY <1>1, <2>1, <2>2
<1>3. r = s
    BY <1>1, <1>2, OneRemainder
<1> QED  BY <1>3 DEF r, s

\* One digit more, modulo M.
LEMMA DigitModulo ==
    ASSUME NEW M \in Nat \ {0}, NEW S \in Int, NEW d \in Int
    PROVE  (10 * (S % M) + d) % M = (10 * S + d) % M
<1> DEFINE q == S \div M
           r == S % M
<1>1. S = M * q + r /\ r \in Int /\ q \in Int
    BY DivMod
<1> HIDE DEF q, r
<1> DEFINE x == 10 * r + d
           y == 10 * S + d
           k == -(10 * q)
<1>2. x - y = M * k
  <2>1. M * k = -(10 * (M * q)) /\ M * q \in Int
      BY <1>1
  <2> QED  BY <1>1, <2>1
<1>3. x \in Int /\ y \in Int /\ k \in Int
    BY <1>1
<1> HIDE DEF x, y, k
<1>4. x % M = y % M
    BY <1>2, <1>3, SameRemainder
<1> QED  BY <1>4 DEF x, y, r
=============================================================================
