-------------------------- MODULE InductionLemmas --------------------------
(***************************************************************************)
(* What the proofs of several components need: induction over a segment of *)
(* the naturals and over the subsets of a finite set, and sums.  Induction *)
(* is stated with sets where the library's theorems have an operator       *)
(* parameter; it rests on the well-foundedness of < on Nat.                *)
(***************************************************************************)
EXTENDS Naturals, FiniteSets, Functions, FiniteSetTheorems, WellFoundedInduction, TLAPS

----------------------------------------------------------------------------
(* Induction *)

\* A set of naturals has a least element.
LEMMA LeastNatural ==
  ASSUME NEW T, T \subseteq Nat, T # {}
  PROVE  \E x \in T : \A y \in T : x <= y
PROOF
  <1>1. PICK x \in T : \A y \in T : <<y, x>> \notin OpToRel(<, Nat)
    BY NatLessThanWellFounded, WFMin
  <1>2. ASSUME NEW y \in T PROVE x <= y
    <2>1. ~(y < x)
      BY <1>1 DEF OpToRel
    <2> QED
      BY <2>1
  <1> QED
    BY <1>2

\* Induction over the naturals: a set that has 0 and with every n up to the
\* limit also n + 1 has them all.
LEMMA Induction ==
  ASSUME NEW S, NEW limit \in Nat, 0 \in S,
         \A n \in 0 .. limit - 1 : n \in S => n + 1 \in S
  PROVE  0 .. limit \subseteq S
PROOF
  <1> DEFINE T == (0 .. limit) \ S
  <1> SUFFICES ASSUME T # {} PROVE FALSE
    OBVIOUS
  <1>1. T \subseteq Nat
    OBVIOUS
  <1>2. PICK x \in T : \A y \in T : x <= y
    BY <1>1, LeastNatural
  <1>3. x - 1 \in 0 .. limit - 1
    BY <1>2
  <1>4. x - 1 \in S
    BY <1>2, <1>3
  <1> QED
    BY <1>2, <1>3, <1>4

\* The element with which a fold over a set begins.
First(s) == CHOOSE x \in s : TRUE

\* Taking the first element off a finite set.
LEMMA FirstOff ==
  ASSUME NEW D, IsFiniteSet(D), NEW s \in SUBSET D, s # {}
  PROVE  /\ First(s) \in s /\ s \ {First(s)} \in SUBSET D
         /\ Cardinality(s) \in Nat
         /\ Cardinality(s \ {First(s)}) = Cardinality(s) - 1
PROOF
  <1>1. First(s) \in s
    BY DEF First
  <1>2. IsFiniteSet(s)
    BY FS_Subset
  <1>3. Cardinality(s \ {First(s)}) = Cardinality(s) - 1
    BY <1>1, <1>2, FS_RemoveElement
  <1> QED
    BY <1>1, <1>2, <1>3, FS_CardinalityType

\* Induction over the subsets of a finite set.
LEMMA SubsetInduction ==
  ASSUME NEW D, IsFiniteSet(D), NEW Q, {} \in Q,
         \A s \in SUBSET D : s # {} /\ s \ {First(s)} \in Q => s \in Q
  PROVE  SUBSET D \subseteq Q
PROOF
  <1> SUFFICES ASSUME NEW t \in SUBSET D, t \notin Q PROVE FALSE
    OBVIOUS
  <1> DEFINE T == {Cardinality(s) : s \in (SUBSET D) \ Q}
  <1>1. \A s \in SUBSET D : Cardinality(s) \in Nat
    BY FS_Subset, FS_CardinalityType
  <1>2. PICK n \in T : \A m \in T : n <= m
    <2>1. T \subseteq Nat /\ T # {}
      BY <1>1
    <2> QED
      BY <2>1, LeastNatural
  <1>3. PICK s \in (SUBSET D) \ Q : n = Cardinality(s)
    BY <1>2
  <1>4. /\ s # {} /\ s \ {First(s)} \in SUBSET D
        /\ Cardinality(s) \in Nat /\ Cardinality(s \ {First(s)}) = Cardinality(s) - 1
    BY <1>3, FirstOff
  <1>5. s \ {First(s)} \in Q
    <2> SUFFICES ASSUME s \ {First(s)} \notin Q PROVE FALSE
      OBVIOUS
    <2>1. Cardinality(s \ {First(s)}) \in T
      BY <1>4
    <2> QED
      BY <1>2, <1>3, <1>4, <2>1
  <1> QED
    BY <1>3, <1>4, <1>5

----------------------------------------------------------------------------
(* Sums *)

\* it is the sum of f over every subset of its domain.
Sums(it, f) ==
  it = [s \in SUBSET DOMAIN f |-> IF s = {} THEN 0 ELSE f[First(s)] + it[s \ {First(s)}]]

\* The recursion of FoldFunction defines a function, and the fold is its value.
LEMMA SumsDefined ==
  ASSUME NEW D, IsFiniteSet(D), NEW f \in [D -> Nat]
  PROVE  \E it : Sums(it, f) /\ FoldFunction(+, 0, f) = it[D]
PROOF
  <1> DEFINE Small(m) == {s \in SUBSET D : Cardinality(s) <= m}
             Rec(v, s) == IF s = {} THEN 0 ELSE f[First(s)] + v[s \ {First(s)}]
             Upto(m) == \E v : v = [s \in Small(m) |-> Rec(v, s)]
             S == {m \in 0 .. Cardinality(D) : Upto(m)}
  <1>1. Cardinality(D) \in Nat /\ \A s \in SUBSET D : Cardinality(s) \in Nat
    BY FS_Subset, FS_CardinalityType
  <1>2. 0 \in S
    <2> DEFINE v == [s \in Small(0) |-> 0]
    <2>1. \A s \in Small(0) : s = {}
      BY <1>1, FS_Subset, FS_EmptySet
    <2>2. \A s \in Small(0) : v[s] = Rec(v, s)
      BY <2>1
    <2>3. v = [s \in Small(0) |-> v[s]]
      OBVIOUS
    <2> HIDE DEF v, Small
    <2>4. v = [s \in Small(0) |-> Rec(v, s)]
      <3> HIDE DEF Rec
      <3> QED
        BY <2>2, <2>3
    <2>5. Upto(0)
      BY <2>4
    <2>6. 0 \in 0 .. Cardinality(D)
      BY <1>1
    <2> QED
      BY <2>5, <2>6
  <1>3. ASSUME NEW m \in 0 .. Cardinality(D) - 1, m \in S PROVE m + 1 \in S
    <2>1. PICK v : v = [s \in Small(m) |-> Rec(v, s)]
      BY <1>3
    <2> DEFINE u == [s \in Small(m + 1) |-> IF s \in Small(m) THEN v[s] ELSE Rec(v, s)]
    <2>2. Small(m) \subseteq Small(m + 1)
      BY <1>1
    <2>3. \A s \in Small(m) : u[s] = v[s] /\ v[s] = Rec(v, s)
      <3> HIDE DEF Small, Rec
      <3> QED
        BY <2>1, <2>2
    <2>4. \A s \in Small(m + 1) : s # {} => s \ {First(s)} \in Small(m)
      <3> SUFFICES ASSUME NEW s \in Small(m + 1), s # {} PROVE s \ {First(s)} \in Small(m)
        OBVIOUS
      <3>1. /\ s \in SUBSET D /\ Cardinality(s) <= m + 1 /\ s \ {First(s)} \in SUBSET D
            /\ Cardinality(s) \in Nat /\ Cardinality(s \ {First(s)}) = Cardinality(s) - 1
        BY FirstOff
      <3> QED
        BY <3>1
    <2>5. ASSUME NEW s \in Small(m + 1) PROVE u[s] = Rec(u, s)
      <3>1. u[s] = Rec(v, s)
        <4> HIDE DEF Small, Rec
        <4> QED
          BY <2>3
      <3>2. s # {} => u[s \ {First(s)}] = v[s \ {First(s)}]
        <4> HIDE DEF Small, u
        <4> QED
          BY <2>3, <2>4
      <3> HIDE DEF u
      <3> QED
        BY <3>1, <3>2
    <2>6. u = [s \in Small(m + 1) |-> u[s]]
      <3> HIDE DEF Small, Rec
      <3> QED
        OBVIOUS
    <2> HIDE DEF u, Small
    <2>7. u = [s \in Small(m + 1) |-> Rec(u, s)]
      <3> HIDE DEF Rec
      <3> QED
        BY <2>5, <2>6
    <2>8. Upto(m + 1)
      BY <2>7
    <2>9. m + 1 \in 0 .. Cardinality(D)
      BY <1>1
    <2> QED
      BY <2>8, <2>9
  <1>4. Upto(Cardinality(D))
    <2> HIDE DEF Upto
    <2>1. 0 .. Cardinality(D) \subseteq S
      BY <1>1, <1>2, <1>3, Induction
    <2> QED
      BY <1>1, <2>1
  <1>5. Small(Cardinality(D)) = SUBSET D
    <2>1. \A s \in SUBSET D : Cardinality(s) <= Cardinality(D)
      BY FS_Subset
    <2> QED
      BY <2>1
  <1> HIDE DEF Small
  <1>6. \E v : v = [s \in SUBSET D |-> Rec(v, s)]
    BY <1>4, <1>5
  <1>7. DOMAIN f = D
    OBVIOUS
  <1>8. \E it : Sums(it, f)
    BY <1>6, <1>7 DEF Sums
  <1>9. FoldFunction(+, 0, f) = (CHOOSE it : Sums(it, f))[D]
    BY <1>7, Zenon DEF Sums, FoldFunction, FoldFunctionOnSet, MapThenFoldSet, First
  <1> QED
    BY <1>8, <1>9

\* The sum of a function's values, as the models write it.
Total(f) == FoldFunction(+, 0, f)

\* Changing one summand changes the sum by as much.
LEMMA TotalUpdate ==
  ASSUME NEW D, IsFiniteSet(D), NEW f \in [D -> Nat], NEW g \in [D -> Nat],
         NEW w \in D, \A x \in D : x # w => g[x] = f[x]
  PROVE  /\ Total(f) \in Nat /\ Total(g) \in Nat
         /\ Total(g) + f[w] = Total(f) + g[w]
PROOF
  <1>1. PICK n \in Nat : n = g[w]
    OBVIOUS
  <1>2. PICK it : Sums(it, f) /\ Total(f) = it[D]
    BY SumsDefined DEF Total
  <1>3. PICK jt : Sums(jt, g) /\ Total(g) = jt[D]
    BY SumsDefined DEF Total
  <1>4. /\ it[{}] = 0 /\ jt[{}] = 0
        /\ \A s \in SUBSET D : s # {} => /\ it[s] = f[First(s)] + it[s \ {First(s)}]
                                         /\ jt[s] = g[First(s)] + jt[s \ {First(s)}]
    <2>1. DOMAIN f = D /\ DOMAIN g = D
      OBVIOUS
    <2> QED
      BY <1>2, <1>3, <2>1 DEF Sums
  <1> DEFINE Q == {s \in SUBSET D :
                     /\ it[s] \in Nat /\ jt[s] \in Nat
                     /\ w \in s => jt[s] + f[w] = it[s] + n
                     /\ w \notin s => jt[s] = it[s]}
  <1>5. {} \in Q
    BY <1>4
  <1>6. ASSUME NEW s \in SUBSET D, s # {}, s \ {First(s)} \in Q PROVE s \in Q
    <2>1. PICK x : x = First(s)
      OBVIOUS
    <2>2. x \in s /\ x \in D
      BY <1>6, <2>1, FirstOff
    <2>3. it[s] = f[x] + it[s \ {x}] /\ jt[s] = g[x] + jt[s \ {x}]
      BY <1>4, <1>6, <2>1
    <2>4. /\ it[s \ {x}] \in Nat /\ jt[s \ {x}] \in Nat
          /\ w \in s \ {x} => jt[s \ {x}] + f[w] = it[s \ {x}] + n
          /\ w \notin s \ {x} => jt[s \ {x}] = it[s \ {x}]
      BY <1>6, <2>1
    <2>5. f[x] \in Nat /\ g[x] \in Nat /\ f[w] \in Nat
      BY <1>1, <2>2
    <2>6. CASE x = w
      <3>1. w \notin s \ {x} /\ g[x] = n /\ f[x] = f[w]
        BY <1>1, <2>6
      <3> QED
        BY <2>2, <2>3, <2>4, <2>5, <2>6, <3>1
    <2>7. CASE x # w
      <3>1. g[x] = f[x] /\ (w \in s <=> w \in s \ {x})
        BY <1>1, <2>2, <2>7
      <3> QED
        BY <2>3, <2>4, <2>5, <3>1
    <2> QED
      BY <2>6, <2>7
  <1> HIDE DEF Q
  <1>7. SUBSET D \subseteq Q
    BY <1>5, <1>6, SubsetInduction
  <1>8. D \in Q
    BY <1>7
  <1> QED
    BY <1>1, <1>2, <1>3, <1>8 DEF Q

\* A sum of zeros.
LEMMA TotalZero ==
  ASSUME NEW D, IsFiniteSet(D), NEW f \in [D -> Nat], \A x \in D : f[x] = 0
  PROVE  Total(f) = 0
PROOF
  <1>1. PICK it : Sums(it, f) /\ Total(f) = it[D]
    BY SumsDefined DEF Total
  <1>2. /\ it[{}] = 0
        /\ \A s \in SUBSET D : s # {} => it[s] = f[First(s)] + it[s \ {First(s)}]
    <2>1. DOMAIN f = D
      OBVIOUS
    <2> QED
      BY <1>1, <2>1 DEF Sums
  <1> DEFINE Q == {s \in SUBSET D : it[s] = 0}
  <1>3. {} \in Q
    BY <1>2
  <1>4. ASSUME NEW s \in SUBSET D, s # {}, s \ {First(s)} \in Q PROVE s \in Q
    <2>1. First(s) \in D
      BY <1>4, FirstOff
    <2> QED
      BY <1>2, <1>4, <2>1
  <1> HIDE DEF Q
  <1>5. SUBSET D \subseteq Q
    BY <1>3, <1>4, SubsetInduction
  <1> QED
    BY <1>1, <1>5 DEF Q

\* The sum of up to four values.
LEMMA TotalUpToFour ==
  ASSUME NEW n \in 0 .. 4, NEW f \in [1 .. n -> Nat]
  PROVE  /\ n = 1 => Total(f) = f[1]
         /\ n = 2 => Total(f) = f[1] + f[2]
         /\ n = 3 => Total(f) = f[1] + f[2] + f[3]
         /\ n = 4 => Total(f) = f[1] + f[2] + f[3] + f[4]
PROOF
  <1> DEFINE h(k) == [i \in 1 .. n |-> IF i <= k THEN f[i] ELSE 0]
  <1>1. IsFiniteSet(1 .. n)
    BY FS_Interval
  <1>2. \A k \in 0 .. 4 : h(k) \in [1 .. n -> Nat]
    OBVIOUS
  <1>3. Total(h(0)) = 0
    <2>1. \A i \in 1 .. n : h(0)[i] = 0
      OBVIOUS
    <2> HIDE DEF h
    <2> QED
      BY <1>1, <1>2, <2>1, TotalZero
  <1>4. ASSUME NEW k \in 1 .. 4, k <= n
        PROVE  Total(h(k)) = Total(h(k - 1)) + f[k] /\ Total(h(k - 1)) \in Nat
    <2>1. k \in 1 .. n /\ k - 1 \in 0 .. 4 /\ k \in 0 .. 4 /\ f[k] \in Nat
      BY <1>4
    <2>2. h(k - 1)[k] = 0 /\ h(k)[k] = f[k]
      BY <2>1
    <2>3. \A i \in 1 .. n : i # k => h(k)[i] = h(k - 1)[i]
      BY <2>1
    <2>4. h(k) \in [1 .. n -> Nat] /\ h(k - 1) \in [1 .. n -> Nat]
      BY <1>2, <2>1
    <2> HIDE DEF h
    <2>5. PICK a, b : a = h(k - 1) /\ b = h(k)
      OBVIOUS
    <2>6. /\ a \in [1 .. n -> Nat] /\ b \in [1 .. n -> Nat]
          /\ \A i \in 1 .. n : i # k => b[i] = a[i]
      BY <2>3, <2>4, <2>5
    <2>7. /\ Total(a) \in Nat /\ Total(b) \in Nat
          /\ Total(b) + a[k] = Total(a) + b[k]
      <3>1. PICK D, w : D = 1 .. n /\ w = k
        OBVIOUS
      <3>2. /\ IsFiniteSet(D) /\ w \in D /\ a \in [D -> Nat] /\ b \in [D -> Nat]
            /\ \A i \in D : i # w => b[i] = a[i]
        BY <1>1, <2>1, <2>6, <3>1
      <3>3. /\ Total(a) \in Nat /\ Total(b) \in Nat
            /\ Total(b) + a[w] = Total(a) + b[w]
        BY <3>2, TotalUpdate
      <3> QED
        BY <3>1, <3>3
    <2> QED
      BY <2>1, <2>2, <2>5, <2>7
  <1>5. \A k \in 1 .. 4 : n = k => h(k) = f
    OBVIOUS
  <1>6. /\ n >= 1 => Total(h(1)) = Total(h(0)) + f[1]
        /\ n >= 2 => Total(h(2)) = Total(h(1)) + f[2]
        /\ n >= 3 => Total(h(3)) = Total(h(2)) + f[3]
        /\ n >= 4 => Total(h(4)) = Total(h(3)) + f[4]
    <2> HIDE DEF h
    <2>1. /\ 1 - 1 = 0 /\ 2 - 1 = 1 /\ 3 - 1 = 2 /\ 4 - 1 = 3
          /\ 1 \in 1 .. 4 /\ 2 \in 1 .. 4 /\ 3 \in 1 .. 4 /\ 4 \in 1 .. 4
      OBVIOUS
    <2>2. n >= 1 => Total(h(1)) = Total(h(0)) + f[1]
      BY <1>4, <2>1
    <2>3. n >= 2 => Total(h(2)) = Total(h(1)) + f[2]
      BY <1>4, <2>1
    <2>4. n >= 3 => Total(h(3)) = Total(h(2)) + f[3]
      BY <1>4, <2>1
    <2>5. n >= 4 => Total(h(4)) = Total(h(3)) + f[4]
      BY <1>4, <2>1
    <2> QED
      BY <2>2, <2>3, <2>4, <2>5
  <1>7. \A i \in 1 .. n : f[i] \in Nat
    OBVIOUS
  <1> HIDE DEF h
  <1> QED
    BY <1>3, <1>5, <1>6, <1>7

\* A sum of naturals is a natural.
LEMMA TotalType ==
  ASSUME NEW D, IsFiniteSet(D), NEW f \in [D -> Nat]
  PROVE  Total(f) \in Nat
PROOF
  <1>1. CASE D = {}
    <2>1. \A x \in D : f[x] = 0
      BY <1>1
    <2>2. Total(f) = 0
      BY <2>1, TotalZero
    <2> QED
      BY <2>2
  <1>2. CASE D # {}
    <2>1. PICK w \in D : TRUE
      BY <1>2
    <2>2. \A x \in D : x # w => f[x] = f[x]
      OBVIOUS
    <2> QED
      BY <2>2, TotalUpdate
  <1> QED
    BY <1>1, <1>2
=============================================================================
