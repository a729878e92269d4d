----------------------------- MODULE SumTheorems -----------------------------
(***************************************************************************)
(* What is needed of sums over a finite set: the folds of the library are  *)
(* one function defined on the subsets of a set, and what it returns is    *)
(* proved by induction on their size, which here is the least element of a *)
(* set of numbers (WFMin) and no induction rule.                           *)
(***************************************************************************)
EXTENDS Integers, FiniteSets, FiniteSetTheorems, WellFoundedInduction, TLAPS

(* A set of numbers has a least one.                                       *)
LEMMA LeastNatural ==
  ASSUME NEW T, T \subseteq Nat, T # {}
  PROVE  \E m \in T : \A n \in T : m <= n
<1> DEFINE Less == OpToRel(<, Nat)
<1>1. IsWellFoundedOn(Less, Nat)
  BY NatLessThanWellFounded
<1>2. \A m, n \in Nat : <<m, n>> \in Less <=> m < n
  BY DEF OpToRel
<1> HIDE DEF Less
<1>3. \E m \in T : \A n \in T : ~(<<n, m>> \in Less)
  BY <1>1, WFMin
<1>4. \E m \in T : \A n \in T : ~(n < m)
  BY <1>2, <1>3, Zenon
<1> QED
  BY <1>4

(* Induction: a set with 0 that is closed under successor has every number.*)
LEMMA InductionOnNat ==
  ASSUME NEW C, 0 \in C, \A n \in Nat : n \in C => n + 1 \in C
  PROVE  Nat \subseteq C
<1>1. ASSUME Nat \ C # {} PROVE FALSE
  <2>1. PICK m \in Nat \ C : \A n \in Nat \ C : m <= n
    <3>1. Nat \ C \subseteq Nat
      OBVIOUS
    <3> QED
      BY <1>1, <3>1, LeastNatural, Zenon
  <2>2. m # 0
    BY <2>1
  <2>3. m - 1 \in Nat /\ ~(m <= m - 1) /\ (m - 1) + 1 = m
    BY <2>1, <2>2
  <2> QED
    BY <2>1, <2>3
<1> QED
  BY <1>1

(* A set with {} that is closed under adding one has every finite set.     *)
LEMMA InductionOnSubsets ==
  ASSUME NEW S, IsFiniteSet(S), NEW C, {} \in C,
         \A T \in SUBSET S, x \in S : T \in C /\ x \notin T => T \cup {x} \in C
  PROVE  SUBSET S \subseteq C
<1> DEFINE N == {n \in Nat : \A T \in SUBSET S : Cardinality(T) = n => T \in C}
<1>1. 0 \in N
  BY FS_EmptySet, FS_Subset
<1>2. ASSUME NEW n \in Nat, n \in N PROVE n + 1 \in N
  <2>1. ASSUME NEW T \in SUBSET S, Cardinality(T) = n + 1 PROVE T \in C
    <3>1. IsFiniteSet(T)
      BY FS_Subset
    <3>2. PICK x \in T : TRUE
      BY <2>1, <3>1, FS_EmptySet
    <3>6. Cardinality(T \ {x}) = Cardinality(T) - 1
      BY <3>1, FS_RemoveElement
    <3>3. Cardinality(T \ {x}) = n
      BY <2>1, <3>6
    <3>4. T \ {x} \in C
      BY <1>2, <3>3
    <3>5. T = (T \ {x}) \cup {x} /\ x \in S /\ T \ {x} \in SUBSET S /\ x \notin T \ {x}
      OBVIOUS
    <3> QED
      BY <3>4, <3>5
  <2> QED
    BY <2>1
<1>3. Nat \subseteq N
  <2> HIDE DEF N
  <2> QED
    BY <1>1, <1>2, InductionOnNat
<1> QED
  BY <1>3, FS_Subset, FS_CardinalityType

(* The fold of the library, with the element it takes first.               *)
Pick(s) == CHOOSE x \in s : TRUE
Totals(f, S) == CHOOSE g : g = [s \in SUBSET S |-> IF s = {} THEN 0 ELSE f[Pick(s)] + g[s \ {Pick(s)}]]

Total(f, S) == Totals(f, S)[S]

(* g is that function on the sets of D, and exists on the sets up to n.    *)
Totaled(f, g, D) == \A s \in D : g[s] = IF s = {} THEN 0 ELSE f[Pick(s)] + g[s \ {Pick(s)}]
UpTo(S, n) == {s \in SUBSET S : Cardinality(s) <= n}
Approx(f, S, n) == \E g \in [UpTo(S, n) -> Int] : Totaled(f, g, UpTo(S, n))

LEMMA PickIn == \A s : s # {} => Pick(s) \in s
  BY DEF Pick

LEMMA Smaller ==
  ASSUME NEW s, IsFiniteSet(s), s # {}
  PROVE  /\ Pick(s) \in s
         /\ IsFiniteSet(s \ {Pick(s)})
         /\ Cardinality(s) \in Nat \ {0}
         /\ Cardinality(s \ {Pick(s)}) = Cardinality(s) - 1
<1>1. Pick(s) \in s
  BY PickIn
<1> QED
  BY <1>1, FS_RemoveElement, FS_CardinalityType, FS_EmptySet

LEMMA Extends ==
  ASSUME NEW S, IsFiniteSet(S), NEW f, \A x \in S : f[x] \in Int, NEW n \in Nat, Approx(f, S, n)
  PROVE  Approx(f, S, n + 1)
<1>1. PICK g \in [UpTo(S, n) -> Int] : Totaled(f, g, UpTo(S, n))
  BY DEF Approx
<1> DEFINE h == [s \in UpTo(S, n + 1) |->
                   IF s = {} THEN 0 ELSE f[Pick(s)] + g[s \ {Pick(s)}]]
<1>2. ASSUME NEW s \in UpTo(S, n + 1), s # {}
      PROVE  s \ {Pick(s)} \in UpTo(S, n) /\ f[Pick(s)] \in Int
  <2>1. s \in SUBSET S /\ IsFiniteSet(s) /\ Cardinality(s) <= n + 1
    BY FS_Subset DEF UpTo
  <2>2. /\ Pick(s) \in s
        /\ Cardinality(s) \in Nat \ {0}
        /\ Cardinality(s \ {Pick(s)}) = Cardinality(s) - 1
    BY <1>2, <2>1, Smaller
  <2>3. s \ {Pick(s)} \in SUBSET S
    BY <2>1
  <2>4. Cardinality(s \ {Pick(s)}) <= n
    BY <2>1, <2>2
  <2> QED
    BY <2>1, <2>2, <2>3, <2>4 DEF UpTo
<1>3. h \in [UpTo(S, n + 1) -> Int]
  BY <1>2
<1>4. ASSUME NEW s \in UpTo(S, n) PROVE s \in UpTo(S, n + 1) /\ h[s] = g[s]
  <2>1. IsFiniteSet(s)
    BY FS_Subset DEF UpTo
  <2>2. s \in UpTo(S, n + 1)
    BY <2>1, FS_CardinalityType DEF UpTo
  <2> QED
    BY <1>1, <2>2 DEF Totaled
<1>5. Totaled(f, h, UpTo(S, n + 1))
  BY <1>2, <1>4 DEF Totaled
<1> QED
  BY <1>3, <1>5 DEF Approx

LEMMA AllApprox ==
  ASSUME NEW S, IsFiniteSet(S), NEW f, \A x \in S : f[x] \in Int
  PROVE  \A n \in Nat : Approx(f, S, n)
<1> DEFINE C == {n \in Nat : Approx(f, S, n)}
<1>1. Approx(f, S, 0)
  <2> DEFINE g == [s \in UpTo(S, 0) |-> 0]
  <2>1. \A s \in UpTo(S, 0) : s = {}
    BY FS_Subset, FS_CardinalityType, FS_EmptySet DEF UpTo
  <2>2. g \in [UpTo(S, 0) -> Int] /\ Totaled(f, g, UpTo(S, 0))
    BY <2>1 DEF Totaled
  <2> QED
    BY <2>2 DEF Approx
<1>2. 0 \in C /\ \A n \in Nat : n \in C => n + 1 \in C
  BY <1>1, Extends
<1>3. Nat \subseteq C
  <2> HIDE DEF C
  <2> QED
    BY <1>2, InductionOnNat
<1> QED
  BY <1>3

(* The recursive definition means what it says.                            *)
LEMMA TotalsDef ==
  ASSUME NEW S, IsFiniteSet(S), NEW f, \A x \in S : f[x] \in Int
  PROVE  Totaled(f, Totals(f, S), SUBSET S)
<1> DEFINE G(g) == [s \in SUBSET S |-> IF s = {} THEN 0 ELSE f[Pick(s)] + g[s \ {Pick(s)}]]
<1>1. UpTo(S, Cardinality(S)) = SUBSET S /\ Cardinality(S) \in Nat
  BY FS_Subset, FS_CardinalityType DEF UpTo
<1>2. PICK g \in [SUBSET S -> Int] : Totaled(f, g, SUBSET S)
  <2>1. Approx(f, S, Cardinality(S))
    BY <1>1, AllApprox
  <2> QED
    BY <1>1, <2>1, Zenon DEF Approx
<1>3. g = G(g)
  BY <1>2 DEF Totaled
<1>4. Totals(f, S) = G(Totals(f, S))
  BY <1>3, Zenon DEF Totals
<1> HIDE DEF G
<1> QED
  BY <1>4, Zenon DEF Totaled, G

(* Two solutions for functions that agree, agree.                          *)
LEMMA TotalsAgree ==
  ASSUME NEW S, IsFiniteSet(S), NEW f, NEW k, \A x \in S : f[x] \in Int /\ k[x] = f[x],
         NEW g, Totaled(f, g, SUBSET S), NEW h, Totaled(k, h, SUBSET S)
  PROVE  g[S] \in Int /\ h[S] = g[S]
<1> DEFINE N == {n \in Nat : \A s \in SUBSET S : Cardinality(s) = n => g[s] \in Int /\ h[s] = g[s]}
<1>1. 0 \in N
  <2>1. ASSUME NEW s \in SUBSET S, Cardinality(s) = 0 PROVE g[s] \in Int /\ h[s] = g[s]
    <3>1. s = {}
      BY <2>1, FS_Subset, FS_EmptySet
    <3>2. g[{}] = 0 /\ h[{}] = 0
      BY Zenon DEF Totaled
    <3> QED
      BY <3>1, <3>2
  <2> QED
    BY <2>1
<1>2. ASSUME NEW n \in Nat, n \in N PROVE n + 1 \in N
  <2>1. ASSUME NEW s \in SUBSET S, Cardinality(s) = n + 1 PROVE g[s] \in Int /\ h[s] = g[s]
    <3>1. IsFiniteSet(s) /\ s # {}
      BY <2>1, FS_Subset, FS_EmptySet
    <3> DEFINE r == s \ {Pick(s)}
    <3>2. Pick(s) \in s /\ Cardinality(r) = Cardinality(s) - 1
      BY <3>1, Smaller
    <3>3. r \in SUBSET S /\ Cardinality(r) = n
      BY <2>1, <3>2
    <3>4. g[r] \in Int /\ h[r] = g[r]
      BY <1>2, <3>3
    <3>5. g[s] = f[Pick(s)] + g[r] /\ h[s] = k[Pick(s)] + h[r]
      BY <3>1, Zenon DEF Totaled
    <3>6. f[Pick(s)] \in Int /\ k[Pick(s)] = f[Pick(s)]
      BY <3>2
    <3> QED
      BY <3>4, <3>5, <3>6
  <2> QED
    BY <2>1
<1>3. Nat \subseteq N
  <2> HIDE DEF N
  <2> QED
    BY <1>1, <1>2, InductionOnNat
<1> QED
  BY <1>3, FS_CardinalityType

(* A total is a number and depends on the values alone.                    *)
LEMMA TotalSame ==
  ASSUME NEW S, IsFiniteSet(S), NEW f, \A x \in S : f[x] \in Int,
         NEW k, \A x \in S : k[x] = f[x]
  PROVE  Total(f, S) \in Int /\ Total(k, S) = Total(f, S)
<1>1. \A x \in S : k[x] \in Int
  OBVIOUS
<1>2. Totaled(f, Totals(f, S), SUBSET S) /\ Totaled(k, Totals(k, S), SUBSET S)
  BY <1>1, TotalsDef
<1>3. Totals(f, S)[S] \in Int /\ Totals(k, S)[S] = Totals(f, S)[S]
  BY <1>2, TotalsAgree
<1> QED
  BY <1>3, Zenon DEF Total

LEMMA TotalEmpty == \A f : Total(f, {}) = 0
<1>1. ASSUME NEW f PROVE Total(f, {}) = 0
  <2>1. Totaled(f, Totals(f, {}), SUBSET {})
    BY TotalsDef, FS_EmptySet
  <2>2. Totals(f, {})[{}] = 0
    BY <2>1, Zenon DEF Totaled
  <2> QED
    BY <2>2, Zenon DEF Total
<1> QED
  BY <1>1

LEMMA TotalPick ==
  ASSUME NEW S, IsFiniteSet(S), S # {}, NEW f, \A x \in S : f[x] \in Int
  PROVE  Total(f, S) = f[Pick(S)] + Total(f, S \ {Pick(S)})
<1> DEFINE R == S \ {Pick(S)}
<1>1. Totaled(f, Totals(f, S), SUBSET S)
  BY TotalsDef
<1>2. Totals(f, S)[S] = f[Pick(S)] + Totals(f, S)[R]
  BY <1>1, Zenon DEF Totaled
<1>3. IsFiniteSet(R) /\ (\A x \in R : f[x] \in Int) /\ SUBSET R \subseteq SUBSET S
  BY FS_RemoveElement
<1> HIDE DEF R
<1>4. Totaled(f, Totals(f, R), SUBSET R)
  BY <1>3, TotalsDef
<1>5. Totaled(f, Totals(f, S), SUBSET R)
  BY <1>1, <1>3, Zenon DEF Totaled
<1>6. Totals(f, S)[R] = Totals(f, R)[R]
  BY <1>3, <1>4, <1>5, TotalsAgree
<1> QED
  BY <1>2, <1>6 DEF R, Total

(* Any element can be taken out, not the first one only.                   *)
LEMMA TotalRemove ==
  ASSUME NEW S, IsFiniteSet(S), NEW f, \A x \in S : f[x] \in Int, NEW x \in S
  PROVE  Total(f, S) = f[x] + Total(f, S \ {x}) /\ Total(f, S \ {x}) \in Int
<1> DEFINE Right(s) == \A y \in s : Total(f, s) = f[y] + Total(f, s \ {y})
           N == {n \in Nat : \A s \in SUBSET S : Cardinality(s) = n => Right(s)}
<1>1. 0 \in N
  <2>1. ASSUME NEW s \in SUBSET S, Cardinality(s) = 0 PROVE s = {}
    BY <2>1, FS_Subset, FS_EmptySet
  <2> QED
    BY <2>1
<1>2. ASSUME NEW n \in Nat, n \in N PROVE n + 1 \in N
  <2>1. ASSUME NEW s \in SUBSET S, Cardinality(s) = n + 1, NEW y \in s
        PROVE  Total(f, s) = f[y] + Total(f, s \ {y})
    <3> DEFINE p == Pick(s)
               r == s \ {p}
               q == s \ {y}
               b == s \ {p, y}
    <3>1. IsFiniteSet(s) /\ p \in s
      BY FS_Subset, PickIn
    <3>2. Total(f, s) = f[p] + Total(f, r)
      BY <3>1, TotalPick
    <3>3. CASE y = p
      BY <3>2, <3>3
    <3>4. CASE y # p
      <4>1. /\ IsFiniteSet(r) /\ Cardinality(r) = Cardinality(s) - 1
            /\ IsFiniteSet(q) /\ Cardinality(q) = Cardinality(s) - 1
        BY <3>1, FS_RemoveElement
      <4>2. Cardinality(r) = n /\ Cardinality(q) = n
        BY <2>1, <4>1
      <4>3. r \in SUBSET S /\ q \in SUBSET S /\ y \in r /\ p \in q
        BY <3>1, <3>4
      <4>4. r \ {y} = b /\ q \ {p} = b
        OBVIOUS
      <4>5. Right(r) /\ Right(q)
        BY <1>2, <4>2, <4>3
      <4>6. Total(f, r) = f[y] + Total(f, b) /\ Total(f, q) = f[p] + Total(f, b)
        BY <4>3, <4>4, <4>5
      <4>7. IsFiniteSet(b)
        BY FS_Subset
      <4>8. Total(f, b) \in Int
        BY <4>7, TotalSame
      <4>9. f[p] \in Int /\ f[y] \in Int
        BY <3>1
      <4> QED
        BY <3>2, <4>6, <4>8, <4>9
    <3> QED
      BY <3>3, <3>4
  <2> QED
    BY <2>1
<1>3. Nat \subseteq N
  <2> HIDE DEF N
  <2> QED
    BY <1>1, <1>2, InductionOnNat
<1>4. Total(f, S) = f[x] + Total(f, S \ {x})
  BY <1>3, FS_CardinalityType
<1>5. Total(f, S \ {x}) \in Int
  BY FS_RemoveElement, TotalSame
<1> QED
  BY <1>4, <1>5

LEMMA TotalAdd ==
  ASSUME NEW S, IsFiniteSet(S), NEW x, x \notin S, NEW f, \A y \in S \cup {x} : f[y] \in Int
  PROVE  Total(f, S \cup {x}) = f[x] + Total(f, S)
<1>1. IsFiniteSet(S \cup {x}) /\ (S \cup {x}) \ {x} = S
  BY FS_AddElement
<1> QED
  BY <1>1, TotalRemove

(* One value of the function changes.                                      *)
LEMMA TotalChange ==
  ASSUME NEW S, IsFiniteSet(S), NEW x \in S, NEW f, \A y \in S : f[y] \in Int,
         NEW k, k[x] \in Int, \A y \in S \ {x} : k[y] = f[y]
  PROVE  /\ Total(f, S) \in Int /\ Total(k, S) \in Int
         /\ Total(k, S) = Total(f, S) - f[x] + k[x]
<1>1. \A y \in S : k[y] \in Int
  OBVIOUS
<1>2. IsFiniteSet(S \ {x})
  BY FS_RemoveElement
<1>3. Total(k, S \ {x}) = Total(f, S \ {x})
  BY <1>2, TotalSame
<1>4. /\ Total(f, S) = f[x] + Total(f, S \ {x}) /\ Total(f, S \ {x}) \in Int
      /\ Total(k, S) = k[x] + Total(k, S \ {x}) /\ Total(k, S \ {x}) \in Int
  BY <1>1, TotalRemove
<1>5. f[x] \in Int
  OBVIOUS
<1> QED
  BY <1>3, <1>4, <1>5

(* A total is that of a part and of the rest.                              *)
LEMMA TotalSplit ==
  ASSUME NEW S, IsFiniteSet(S), NEW A \in SUBSET S, NEW f, \A x \in S : f[x] \in Int
  PROVE  /\ Total(f, A) \in Int /\ Total(f, S \ A) \in Int
         /\ Total(f, S) = Total(f, A) + Total(f, S \ A)
<1> DEFINE C == {B \in SUBSET S : Total(f, S) = Total(f, B) + Total(f, S \ B)}
<1>0. \A B \in SUBSET S : IsFiniteSet(B) /\ Total(f, B) \in Int
  BY FS_Subset, TotalSame
<1>1. {} \in C
  <2>1. S \ {} = S /\ Total(f, {}) = 0 /\ Total(f, S) \in Int
    BY <1>0, TotalEmpty
  <2> QED
    BY <2>1
<1>2. ASSUME NEW B \in SUBSET S, NEW x \in S, B \in C, x \notin B PROVE B \cup {x} \in C
  <2>1. Total(f, S) = Total(f, B) + Total(f, S \ B)
    BY <1>2
  <2>2. Total(f, B \cup {x}) = f[x] + Total(f, B)
    BY <1>0, <1>2, TotalAdd
  <2>3. Total(f, S \ B) = f[x] + Total(f, (S \ B) \ {x})
    BY <1>0, <1>2, TotalRemove
  <2>8. (S \ B) \ {x} = S \ (B \cup {x})
    OBVIOUS
  <2>4. Total(f, S \ B) = f[x] + Total(f, S \ (B \cup {x}))
    BY <2>3, <2>8, Zenon
  <2>5. f[x] \in Int /\ Total(f, B) \in Int /\ Total(f, S \ (B \cup {x})) \in Int
    BY <1>0
  <2>6. Total(f, S) = Total(f, B \cup {x}) + Total(f, S \ (B \cup {x}))
    BY <2>1, <2>2, <2>4, <2>5
  <2>7. B \cup {x} \in SUBSET S
    OBVIOUS
  <2> QED
    BY <2>6, <2>7
<1>3. SUBSET S \subseteq C
  <2> HIDE DEF C
  <2> QED
    BY <1>1, <1>2, InductionOnSubsets
<1> QED
  BY <1>0, <1>3

(* A total is at most the number of elements times the largest.            *)
LEMMA TotalBound ==
  ASSUME NEW S, IsFiniteSet(S), NEW m \in Nat, NEW f, \A x \in S : f[x] \in 0 .. m
  PROVE  Total(f, S) \in Nat /\ Total(f, S) <= Cardinality(S) * m
<1> DEFINE C == {B \in SUBSET S : Total(f, B) \in Nat /\ Total(f, B) <= Cardinality(B) * m}
<1>1. {} \in C
  BY TotalEmpty, FS_EmptySet
<1>2. ASSUME NEW B \in SUBSET S, NEW x \in S, B \in C, x \notin B PROVE B \cup {x} \in C
  <2>1. IsFiniteSet(B) /\ Cardinality(B) \in Nat /\ Cardinality(B \cup {x}) = Cardinality(B) + 1
    BY <1>2, FS_Subset, FS_AddElement, FS_CardinalityType
  <2>7. \A y \in B \cup {x} : f[y] \in Int
    OBVIOUS
  <2>2. Total(f, B \cup {x}) = f[x] + Total(f, B)
    BY <1>2, <2>1, <2>7, TotalAdd
  <2>3. (Cardinality(B) + 1) * m = Cardinality(B) * m + m
    BY <2>1
  <2>4. f[x] \in 0 .. m /\ Total(f, B) \in Nat /\ Total(f, B) <= Cardinality(B) * m
    BY <1>2
  <2>5. Cardinality(B) * m \in Nat
    BY <2>1
  <2>6. f[x] + Total(f, B) \in Nat /\ f[x] + Total(f, B) <= Cardinality(B) * m + m
    BY <2>4, <2>5
  <2> QED
    BY <2>1, <2>2, <2>3, <2>6
<1>3. SUBSET S \subseteq C
  <2> HIDE DEF C
  <2> QED
    BY <1>1, <1>2, InductionOnSubsets
<1> QED
  BY <1>3

(* A total of natural numbers is at least each of them.                    *)
LEMMA TotalNat ==
  ASSUME NEW S, IsFiniteSet(S), NEW f, \A x \in S : f[x] \in Nat
  PROVE  Total(f, S) \in Nat /\ (\A x \in S : f[x] <= Total(f, S))
<1> DEFINE C == {B \in SUBSET S : Total(f, B) \in Nat}
<1>1. {} \in C
  BY TotalEmpty
<1>2. ASSUME NEW B \in SUBSET S, NEW x \in S, B \in C, x \notin B PROVE B \cup {x} \in C
  <2>1. IsFiniteSet(B) /\ Total(f, B) \in Nat /\ f[x] \in Nat
    BY <1>2, FS_Subset
  <2>2. \A y \in B \cup {x} : f[y] \in Int
    OBVIOUS
  <2>3. Total(f, B \cup {x}) = f[x] + Total(f, B)
    BY <1>2, <2>1, <2>2, TotalAdd
  <2> QED
    BY <2>1, <2>3
<1>3. SUBSET S \subseteq C
  <2> HIDE DEF C
  <2> QED
    BY <1>1, <1>2, InductionOnSubsets
<1>4. ASSUME NEW x \in S PROVE f[x] <= Total(f, S)
  <2>1. Total(f, S) = f[x] + Total(f, S \ {x}) /\ Total(f, S \ {x}) \in Nat
    BY <1>3, TotalRemove
  <2> QED
    BY <2>1
<1> QED
  BY <1>3, <1>4

(* Where the function is 0 it can be left out.                             *)
LEMMA TotalFilter ==
  ASSUME NEW S, IsFiniteSet(S), NEW A \in SUBSET S, NEW f, \A x \in A : f[x] \in Int,
         NEW k, \A x \in A : k[x] = f[x], \A x \in S \ A : k[x] = 0
  PROVE  Total(f, A) = Total(k, S)
<1>1. IsFiniteSet(A) /\ IsFiniteSet(S \ A)
  BY FS_Subset
<1>2. Total(k, A) = Total(f, A) /\ Total(f, A) \in Int
  BY <1>1, TotalSame
<1>3. Total(k, S \ A) = 0
  <2>1. Total(k, S \ A) \in Nat /\ Total(k, S \ A) <= Cardinality(S \ A) * 0
    BY <1>1, TotalBound
  <2>2. Cardinality(S \ A) \in Nat
    BY <1>1, FS_CardinalityType
  <2> QED
    BY <2>1, <2>2
<1>4. \A x \in S : k[x] \in Int
  OBVIOUS
<1> QED
  BY <1>2, <1>3, <1>4, TotalSplit

(* A total grows with the function.                                        *)
LEMMA TotalLess ==
  ASSUME NEW S, IsFiniteSet(S), NEW f, NEW k,
         \A x \in S : f[x] \in Int /\ k[x] \in Int /\ f[x] <= k[x]
  PROVE  Total(f, S) <= Total(k, S)
<1> DEFINE C == {B \in SUBSET S : Total(f, B) <= Total(k, B)}
<1>1. {} \in C
  BY TotalEmpty
<1>2. ASSUME NEW B \in SUBSET S, NEW x \in S, B \in C, x \notin B PROVE B \cup {x} \in C
  <2>1. IsFiniteSet(B) /\ \A y \in B : f[y] \in Int /\ k[y] \in Int
    BY FS_Subset
  <2>2. Total(f, B) \in Int /\ Total(k, B) \in Int /\ Total(f, B) <= Total(k, B)
    BY <1>2, <2>1, TotalSame
  <2>3. \A y \in B \cup {x} : f[y] \in Int /\ k[y] \in Int
    OBVIOUS
  <2>4. Total(f, B \cup {x}) = f[x] + Total(f, B) /\ Total(k, B \cup {x}) = k[x] + Total(k, B)
    BY <1>2, <2>1, <2>3, TotalAdd
  <2>5. f[x] \in Int /\ k[x] \in Int /\ f[x] <= k[x]
    OBVIOUS
  <2>6. B \cup {x} \in SUBSET S
    OBVIOUS
  <2> QED
    BY <2>2, <2>4, <2>5, <2>6
<1>3. SUBSET S \subseteq C
  <2> HIDE DEF C
  <2> QED
    BY <1>1, <1>2, InductionOnSubsets
<1> QED
  BY <1>3

(* A total of equal values.                                                *)
LEMMA TotalConstant ==
  ASSUME NEW S, IsFiniteSet(S), NEW m \in Nat, NEW f, \A x \in S : f[x] = m
  PROVE  Total(f, S) = Cardinality(S) * m
<1> DEFINE C == {B \in SUBSET S : Total(f, B) = Cardinality(B) * m}
<1>1. {} \in C
  BY TotalEmpty, FS_EmptySet
<1>2. ASSUME NEW B \in SUBSET S, NEW x \in S, B \in C, x \notin B PROVE B \cup {x} \in C
  <2>1. IsFiniteSet(B) /\ Cardinality(B) \in Nat /\ Cardinality(B \cup {x}) = Cardinality(B) + 1
    BY <1>2, FS_Subset, FS_AddElement, FS_CardinalityType
  <2>2. \A y \in B \cup {x} : f[y] \in Int
    OBVIOUS
  <2>3. Total(f, B \cup {x}) = m + Total(f, B) /\ Total(f, B) = Cardinality(B) * m
    BY <1>2, <2>1, <2>2, TotalAdd
  <2>4. (Cardinality(B) + 1) * m = m + Cardinality(B) * m
    BY <2>1
  <2> QED
    BY <2>1, <2>3, <2>4
<1>3. SUBSET S \subseteq C
  <2> HIDE DEF C
  <2> QED
    BY <1>1, <1>2, InductionOnSubsets
<1> QED
  BY <1>3
==============================================================================
