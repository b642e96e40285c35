----------------------------- MODULE SumsProofs -----------------------------
(***************************************************************************)
(* Facts about SumTo, for functions into the integers and any n \in Nat.   *)
(* The provers cannot instantiate the library's induction theorems, whose  *)
(* parameter is an operator, so each induction is the argument by a least  *)
(* counterexample: the set of counterexamples is a subset of Nat, and if   *)
(* it were not empty it would have a least element (LeastNatural).         *)
(***************************************************************************)
EXTENDS Sums, WellFoundedInduction, TLAPS

(* Every non-empty set of naturals has a least element. *)
LEMMA LeastNatural ==
  ASSUME NEW T, T \subseteq Nat, T # {}
  PROVE  \E x \in T : \A y \in T : x <= y
<1> DEFINE R == {ss \in Nat \X Nat : ss[1] < ss[2]}
<1>1. IsWellFoundedOn(R, Nat)
  BY NatLessThanWellFounded DEF OpToRel
<1>2. \E x \in T : \A y \in T : ~(<<y, x>> \in R)
  BY <1>1, WFMin
<1>3. PICK x \in T : \A y \in T : ~(<<y, x>> \in R)
  BY <1>2
<1>4. \A y \in T : x <= y
  <2>1. TAKE y \in T
  <2>2. y \in Nat /\ x \in Nat
    OBVIOUS
  <2>3. ~(y < x)
    BY <1>3, <2>2
  <2>4. QED
    BY <2>2, <2>3
<1>5. QED
  BY <1>4

(* g holds the partial sums of f up to n. *)
PartialSums(g, f, n) ==
  g = [i \in 0 .. n |-> IF i = 0 THEN 0 ELSE g[i - 1] + f[i]]

LEMMA SumToUnfold ==
  ASSUME NEW f, NEW n
  PROVE  SumTo(f, n) = (CHOOSE g : PartialSums(g, f, n))[n]
BY DEF SumTo, PartialSums

(* Partial sums exist, and they are integers. *)
LEMMA PartialSumsExist ==
  ASSUME NEW N \in Nat, NEW f \in [1 .. N -> Int]
  PROVE  \A n \in 0 .. N : \E g \in [0 .. n -> Int] : PartialSums(g, f, n)
<1> DEFINE Bad == {n \in 0 .. N : ~ \E g \in [0 .. n -> Int] : PartialSums(g, f, n)}
<1>1. SUFFICES ASSUME Bad # {} PROVE FALSE
  OBVIOUS
<1>2. PICK n \in Bad : \A y \in Bad : n <= y
  <2>1. Bad \subseteq Nat
    OBVIOUS
  <2>2. QED
    BY <1>1, <2>1, LeastNatural
<1>3. CASE n = 0
  <2> DEFINE z == [i \in 0 .. 0 |-> 0]
  <2>1. z \in [0 .. 0 -> Int] /\ PartialSums(z, f, 0)
    BY DEF PartialSums
  <2>2. QED
    BY <2>1, <1>3
<1>4. CASE n # 0
  <2>1. n - 1 \in 0 .. N /\ n - 1 \notin Bad /\ n \in 1 .. N
    BY <1>2, <1>4
  <2>2. PICK g \in [0 .. (n - 1) -> Int] : PartialSums(g, f, n - 1)
    BY <2>1
  <2> DEFINE h == [i \in 0 .. n |-> IF i = n THEN g[n - 1] + f[n] ELSE g[i]]
  <2>3. h \in [0 .. n -> Int]
    BY <2>1, <2>2
  <2>4. \A i \in 0 .. n : h[i] = IF i = 0 THEN 0 ELSE h[i - 1] + f[i]
    <3>1. TAKE i \in 0 .. n
    <3>2. CASE i = n
      BY <3>2, <2>1, <2>2
    <3>3. CASE i # n
      <4>1. i \in 0 .. (n - 1) /\ h[i] = g[i]
        BY <3>3, <2>1
      <4>2. g[i] = IF i = 0 THEN 0 ELSE g[i - 1] + f[i]
        BY <2>2, <4>1 DEF PartialSums
      <4>3. i # 0 => h[i - 1] = g[i - 1]
        BY <4>1, <2>1
      <4>4. QED
        BY <4>1, <4>2, <4>3
    <3>4. QED
      BY <3>2, <3>3
  <2>5. PartialSums(h, f, n)
    BY <2>3, <2>4 DEF PartialSums
  <2>6. QED
    BY <2>3, <2>5, <1>2
<1>5. QED
  BY <1>3, <1>4

(* Two functions of partial sums of the same f agree. *)
LEMMA PartialSumsUnique ==
  ASSUME NEW n \in Nat, NEW m \in Nat, n <= m, NEW f, NEW g, NEW h,
         PartialSums(g, f, n), PartialSums(h, f, m)
  PROVE  \A i \in 0 .. n : g[i] = h[i]
<1> DEFINE Bad == {i \in 0 .. n : g[i] # h[i]}
<1>1. SUFFICES ASSUME Bad # {} PROVE FALSE
  OBVIOUS
<1>2. PICK i \in Bad : \A y \in Bad : i <= y
  <2>1. Bad \subseteq Nat
    OBVIOUS
  <2>2. QED
    BY <1>1, <2>1, LeastNatural
<1>3. /\ g[i] = IF i = 0 THEN 0 ELSE g[i - 1] + f[i]
      /\ h[i] = IF i = 0 THEN 0 ELSE h[i - 1] + f[i]
  BY DEF PartialSums
<1>4. CASE i = 0
  BY <1>3, <1>4
<1>5. CASE i # 0
  <2>1. i - 1 \in 0 .. n /\ i - 1 \notin Bad
    BY <1>2, <1>5
  <2>2. QED
    BY <2>1, <1>3, <1>5
<1>6. QED
  BY <1>4, <1>5

(* The recursion equations of SumTo, and that its value is an integer. *)
LEMMA SumToRec ==
  ASSUME NEW N \in Nat, NEW f \in [1 .. N -> Int]
  PROVE  /\ SumTo(f, 0) = 0
         /\ \A n \in 1 .. N : SumTo(f, n) = SumTo(f, n - 1) + f[n]
         /\ \A n \in 0 .. N : SumTo(f, n) \in Int
<1> DEFINE G(n) == CHOOSE g : PartialSums(g, f, n)
<1>1. \A n \in 0 .. N : PartialSums(G(n), f, n)
  BY PartialSumsExist
<1>2. \A n \in 0 .. N : SumTo(f, n) = G(n)[n]
  BY SumToUnfold
<1>3. \A n \in 0 .. N : SumTo(f, n) \in Int
  <2>1. TAKE n \in 0 .. N
  <2>2. PICK g \in [0 .. n -> Int] : PartialSums(g, f, n)
    BY PartialSumsExist
  <2>3. PartialSums(G(n), f, n) /\ n \in Nat
    BY <1>1
  <2> HIDE DEF G
  <2>4. \A i \in 0 .. n : g[i] = G(n)[i]
    BY <2>2, <2>3, PartialSumsUnique
  <2>5. QED
    BY <2>4, <1>2
<1>4. SumTo(f, 0) = 0
  <2>1. PartialSums(G(0), f, 0)
    BY <1>1
  <2> HIDE DEF G
  <2>2. QED
    BY <2>1, <1>2 DEF PartialSums
<1>5. \A n \in 1 .. N : SumTo(f, n) = SumTo(f, n - 1) + f[n]
  <2>1. TAKE n \in 1 .. N
  <2>2. PartialSums(G(n), f, n) /\ PartialSums(G(n - 1), f, n - 1)
    BY <1>1
  <2> HIDE DEF G
  <2>3. G(n - 1)[n - 1] = G(n)[n - 1]
    BY <2>2, PartialSumsUnique
  <2>4. G(n)[n] = G(n)[n - 1] + f[n]
    BY <2>2 DEF PartialSums
  <2>5. QED
    BY <2>3, <2>4, <1>2
<1>6. QED
  BY <1>3, <1>4, <1>5

(* Changing one term of a sum changes the sum by the same difference. *)
LEMMA SumChange ==
  ASSUME NEW N \in Nat, NEW f \in [1 .. N -> Int], NEW g \in [1 .. N -> Int],
         NEW k \in 1 .. N, \A i \in 1 .. N : i # k => g[i] = f[i]
  PROVE  SumTo(g, N) = SumTo(f, N) - f[k] + g[k]
<1> DEFINE Shift(n) == IF k <= n THEN g[k] - f[k] ELSE 0
           Bad == {n \in 0 .. N : SumTo(g, n) # SumTo(f, n) + Shift(n)}
<1>1. Bad = {}
  <2>1. SUFFICES ASSUME Bad # {} PROVE FALSE
    OBVIOUS
  <2>2. PICK n \in Bad : \A y \in Bad : n <= y
    <3>1. Bad \subseteq Nat
      OBVIOUS
    <3>2. QED
      BY <2>1, <3>1, LeastNatural
  <2>3. CASE n = 0
    BY <2>3, SumToRec
  <2>4. CASE n # 0
    <3>1. n \in 1 .. N /\ n - 1 \in 0 .. N /\ n - 1 \notin Bad
      BY <2>2, <2>4
    <3>2. /\ SumTo(g, n) = SumTo(g, n - 1) + g[n]
          /\ SumTo(f, n) = SumTo(f, n - 1) + f[n]
          /\ SumTo(f, n - 1) \in Int /\ SumTo(g, n - 1) \in Int
      BY <3>1, SumToRec
    <3>3. SumTo(g, n - 1) = SumTo(f, n - 1) + Shift(n - 1)
      BY <3>1
    <3>4. g[n] - f[n] + Shift(n - 1) = Shift(n)
      <4>1. CASE k = n
        BY <4>1, <3>1
      <4>2. CASE k # n
        BY <4>2, <3>1
      <4>3. QED
        BY <4>1, <4>2
    <3>5. g[n] \in Int /\ f[n] \in Int /\ Shift(n - 1) \in Int /\ Shift(n) \in Int
      BY <3>1
    <3> HIDE DEF Shift
    <3>6. SumTo(g, n) = SumTo(f, n) + Shift(n)
      BY <3>2, <3>3, <3>4, <3>5
    <3>7. QED
      BY <3>6, <2>2
  <2>5. QED
    BY <2>3, <2>4
<1>2. SumTo(g, N) = SumTo(f, N) + Shift(N)
  <2>1. N \in 0 .. N
    OBVIOUS
  <2>2. QED
    BY <2>1, <1>1
<1>3. Shift(N) = g[k] - f[k] /\ f[k] \in Int /\ g[k] \in Int
  OBVIOUS
<1>4. SumTo(f, N) \in Int
  BY SumToRec
<1> HIDE DEF Shift
<1>5. QED
  BY <1>2, <1>3, <1>4

(* A sum of naturals is a natural, and at least each of its terms. *)
LEMMA SumNat ==
  ASSUME NEW N \in Nat, NEW f \in [1 .. N -> Nat]
  PROVE  /\ SumTo(f, N) \in Nat
         /\ \A k \in 1 .. N : f[k] <= SumTo(f, N)
<1>1. f \in [1 .. N -> Int]
  OBVIOUS
<1> DEFINE Bad == {n \in 0 .. N : ~(/\ SumTo(f, n) \in Nat
                                    /\ \A k \in 1 .. n : f[k] <= SumTo(f, n))}
<1>2. Bad = {}
  <2>1. SUFFICES ASSUME Bad # {} PROVE FALSE
    OBVIOUS
  <2>2. PICK n \in Bad : \A y \in Bad : n <= y
    <3>1. Bad \subseteq Nat
      OBVIOUS
    <3>2. QED
      BY <2>1, <3>1, LeastNatural
  <2>3. CASE n = 0
    BY <1>1, <2>3, SumToRec
  <2>4. CASE n # 0
    <3>1. n \in 1 .. N /\ n - 1 \in 0 .. N /\ n - 1 \notin Bad
      BY <2>2, <2>4
    <3>2. SumTo(f, n) = SumTo(f, n - 1) + f[n]
      BY <1>1, <3>1, SumToRec
    <3>3. SumTo(f, n - 1) \in Nat /\ \A k \in 1 .. (n - 1) : f[k] <= SumTo(f, n - 1)
      BY <3>1
    <3>4. f[n] \in Nat
      BY <3>1
    <3>5. SumTo(f, n) \in Nat
      BY <3>2, <3>3, <3>4
    <3>6. \A k \in 1 .. n : f[k] <= SumTo(f, n)
      <4>1. TAKE k \in 1 .. n
      <4>2. CASE k = n
        BY <4>2, <3>2, <3>3, <3>4
      <4>3. CASE k # n
        <5>1. k \in 1 .. (n - 1) /\ f[k] \in Nat
          BY <4>3, <3>1
        <5>2. f[k] <= SumTo(f, n - 1)
          BY <5>1, <3>3
        <5>3. QED
          BY <5>1, <5>2, <3>2, <3>3, <3>4
      <4>4. QED
        BY <4>2, <4>3
    <3>7. QED
      BY <3>5, <3>6, <2>2
  <2>5. QED
    BY <2>3, <2>4
<1>3. N \in 0 .. N
  OBVIOUS
<1>4. QED
  BY <1>2, <1>3

(* A sum is 0 when every term is. *)
LEMMA SumZero ==
  ASSUME NEW N \in Nat, NEW f \in [1 .. N -> Int], \A i \in 1 .. N : f[i] = 0
  PROVE  SumTo(f, N) = 0
<1> DEFINE Bad == {n \in 0 .. N : SumTo(f, n) # 0}
<1>1. SUFFICES ASSUME Bad # {} PROVE FALSE
  <2>1. N \in 0 .. N
    OBVIOUS
  <2>2. QED
    BY <2>1
<1>2. PICK n \in Bad : \A y \in Bad : n <= y
  <2>1. Bad \subseteq Nat
    OBVIOUS
  <2>2. QED
    BY <1>1, <2>1, LeastNatural
<1>3. CASE n = 0
  BY <1>3, SumToRec
<1>4. CASE n # 0
  <2>1. n \in 1 .. N /\ n - 1 \in 0 .. N /\ n - 1 \notin Bad
    BY <1>2, <1>4
  <2>2. SumTo(f, n) = SumTo(f, n - 1) + f[n] /\ SumTo(f, n - 1) = 0 /\ f[n] = 0
    BY <2>1, SumToRec
  <2>3. QED
    BY <2>2, <1>2
<1>5. QED
  BY <1>3, <1>4

(* The sum of two functions' sums. *)
LEMMA SumAdd ==
  ASSUME NEW N \in Nat, NEW f \in [1 .. N -> Int], NEW g \in [1 .. N -> Int],
         NEW h \in [1 .. N -> Int], \A i \in 1 .. N : h[i] = f[i] + g[i]
  PROVE  SumTo(h, N) = SumTo(f, N) + SumTo(g, N)
<1> DEFINE Bad == {n \in 0 .. N : SumTo(h, n) # SumTo(f, n) + SumTo(g, n)}
<1>1. SUFFICES ASSUME Bad # {} PROVE FALSE
  <2>1. N \in 0 .. N
    OBVIOUS
  <2>2. QED
    BY <2>1
<1>2. PICK n \in Bad : \A y \in Bad : n <= y
  <2>1. Bad \subseteq Nat
    OBVIOUS
  <2>2. QED
    BY <1>1, <2>1, LeastNatural
<1>3. CASE n = 0
  <2>1. SumTo(f, 0) = 0 /\ SumTo(g, 0) = 0 /\ SumTo(h, 0) = 0
    BY SumToRec
  <2>2. QED
    BY <1>2, <1>3, <2>1
<1>4. CASE n # 0
  <2>1. n \in 1 .. N /\ n - 1 \in 0 .. N /\ n - 1 \notin Bad
    BY <1>2, <1>4
  <2>2. /\ SumTo(f, n) = SumTo(f, n - 1) + f[n] /\ SumTo(f, n - 1) \in Int
        /\ SumTo(g, n) = SumTo(g, n - 1) + g[n] /\ SumTo(g, n - 1) \in Int
        /\ SumTo(h, n) = SumTo(h, n - 1) + h[n]
    BY <2>1, SumToRec
  <2>3. f[n] \in Int /\ g[n] \in Int /\ h[n] = f[n] + g[n]
    BY <2>1
  <2>4. SumTo(h, n) = SumTo(f, n) + SumTo(g, n)
    BY <2>1, <2>2, <2>3
  <2>5. QED
    BY <1>2, <2>4
<1>5. QED
  BY <1>3, <1>4

(* Terms that are 0 at the end count for nothing. *)
LEMMA SumExtend ==
  ASSUME NEW N \in Nat, NEW M \in 0 .. N, NEW f \in [1 .. N -> Int],
         NEW g \in [1 .. M -> Int],
         \A i \in 1 .. M : g[i] = f[i],
         \A i \in (M + 1) .. N : f[i] = 0
  PROVE  SumTo(f, N) = SumTo(g, M)
<1> DEFINE Bad == {n \in 0 .. N : IF n <= M THEN SumTo(f, n) # SumTo(g, n)
                                            ELSE SumTo(f, n) # SumTo(g, M)}
<1>1. Bad = {}
  <2>1. SUFFICES ASSUME Bad # {} PROVE FALSE
    OBVIOUS
  <2>2. PICK n \in Bad : \A y \in Bad : n <= y
    <3>1. Bad \subseteq Nat
      OBVIOUS
    <3>2. QED
      BY <2>1, <3>1, LeastNatural
  <2>3. CASE n = 0
    <3>1. SumTo(f, 0) = 0 /\ SumTo(g, 0) = 0
      BY SumToRec
    <3>2. QED
      BY <2>2, <2>3, <3>1
  <2>4. CASE n # 0
    <3>1. n \in 1 .. N /\ n - 1 \in 0 .. N /\ n - 1 \notin Bad
      BY <2>2, <2>4
    <3>2. SumTo(f, n) = SumTo(f, n - 1) + f[n]
      BY <3>1, SumToRec
    <3>3. CASE n <= M
      <4>1. n \in 1 .. M
        BY <3>1, <3>3
      <4>2. SumTo(g, n) = SumTo(g, n - 1) + g[n]
        <5>1. M \in Nat
          OBVIOUS
        <5>2. \A m \in 1 .. M : SumTo(g, m) = SumTo(g, m - 1) + g[m]
          BY <5>1, SumToRec
        <5>3. QED
          BY <4>1, <5>2
      <4>3. SumTo(f, n - 1) = SumTo(g, n - 1)
        <5>1. n - 1 <= M
          BY <3>1, <3>3
        <5>2. QED
          BY <3>1, <5>1
      <4>4. QED
        BY <2>2, <3>2, <3>3, <4>1, <4>2, <4>3
    <3>4. CASE ~(n <= M)
      <4>1. n \in (M + 1) .. N /\ f[n] = 0
        BY <3>1, <3>4
      <4>2. SumTo(f, n - 1) = SumTo(g, M)
        <5>1. CASE n - 1 <= M
          <6>1. n - 1 = M
            BY <4>1, <5>1
          <6>2. QED
            BY <3>1, <5>1, <6>1
        <5>2. CASE ~(n - 1 <= M)
          BY <3>1, <5>2
        <5>3. QED
          BY <5>1, <5>2
      <4>3. SumTo(f, n - 1) \in Int
        BY <3>1, SumToRec
      <4>4. QED
        BY <2>2, <3>1, <3>2, <3>4, <4>1, <4>2, <4>3
    <3>5. QED
      BY <3>3, <3>4
  <2>5. QED
    BY <2>3, <2>4
<1>2. N \in 0 .. N /\ N \notin Bad
  BY <1>1
<1>3. CASE N <= M
  BY <1>2, <1>3
<1>4. CASE ~(N <= M)
  BY <1>2, <1>4
<1>5. QED
  BY <1>3, <1>4
=============================================================================
