----------------------------- MODULE DeflateProofs -----------------------------
(***************************************************************************)
(* Proofs about Deflate, for every input, every size of the format and     *)
(* every way of reading and copying: the readers stay in step with the     *)
(* stream, canonical codes are what the tables hold, a match is copied     *)
(* right, a plan is carried out to what it stands for, each step takes     *)
(* something, and the three decoders implement the bit-by-bit one.         *)
(***************************************************************************)
EXTENDS Deflate, WellFoundedInduction, FiniteSetTheorems, SequenceTheorems, TLAPS

-------------------------------------------------------------------------------
(* Induction over the naturals, for a set of them, and recursion.          *)

LEMMA LeastNat ==
  ASSUME NEW T, T \subseteq Nat, T # {}
  PROVE  \E x \in T : \A y \in T : x <= y
  <1> DEFINE R == OpToRel(<, Nat)
  <1>1. IsWellFoundedOn(R, Nat)
    BY NatLessThanWellFounded
  <1>2. \A x, y \in Nat : x < y => <<x, y>> \in R
    BY DEF OpToRel
  <1> HIDE DEF R
  <1>3. PICK x \in T : \A y \in T : ~(<<y, x>> \in R)
    BY <1>1, WFMin
  <1>4. \A y \in T : ~(y < x)
    BY <1>2, <1>3
  <1> QED
    BY <1>4

LEMMA NatInduct ==
  ASSUME NEW T, 0 \in T, \A n \in Nat : n \in T => n + 1 \in T
  PROVE  Nat \subseteq T
  <1> SUFFICES ASSUME Nat \ T # {} PROVE FALSE
    OBVIOUS
  <1>1. PICK x \in Nat \ T : \A y \in Nat \ T : x <= y
    BY LeastNat
  <1>2. x # 0 /\ x - 1 \in Nat /\ x - 1 \in T
    BY <1>1
  <1> QED
    BY <1>1, <1>2

\* f is the recursion from b by g, up to n.
Recursion(f, n, S, b, g) ==
  f \in [0..n -> S] /\ f[0] = b /\ \A k \in 1..n : f[k] = g[<<f[k - 1], k>>]

\* A recursion has a solution.
LEMMA Folded ==
  ASSUME NEW n \in Nat, NEW S, NEW b \in S, NEW g \in [S \X (1..n) -> S]
  PROVE  \E f : Recursion(f, n, S, b, g)
  <1> DEFINE Good(m) == \E f : Recursion(f, m, S, b, g)
             T == {m \in Nat : m <= n => Good(m)}
  <1>1. 0 \in T
    <2> DEFINE f == [k \in 0..0 |-> b]
    <2>1. f \in [0..0 -> S] /\ f[0] = b /\ \A k \in 1..0 : f[k] = g[<<f[k - 1], k>>]
      OBVIOUS
    <2>2. Recursion(f, 0, S, b, g)
      BY <2>1 DEF Recursion
    <2> QED
      BY <2>2
  <1>2. ASSUME NEW m \in Nat, m \in T PROVE m + 1 \in T
    <2> SUFFICES ASSUME m + 1 <= n PROVE Good(m + 1)
      OBVIOUS
    <2>1. PICK f : Recursion(f, m, S, b, g)
      BY <1>2
    <2> USE <2>1 DEF Recursion
    <2> DEFINE e == [k \in 0..(m + 1) |-> IF k = m + 1 THEN g[<<f[m], m + 1>>] ELSE f[k]]
    <2>2. g[<<f[m], m + 1>>] \in S
      <3>1. <<f[m], m + 1>> \in S \X (1..n)
        BY <2>1
      <3> QED
        BY <3>1
    <2>3. e \in [0..(m + 1) -> S]
      BY <2>1, <2>2
    <2>4. e[0] = b
      BY <2>1
    <2>5. \A k \in 1..(m + 1) : e[k] = g[<<e[k - 1], k>>]
      <3> TAKE k \in 1..(m + 1)
      <3>1. k - 1 \in 0..m /\ e[k - 1] = f[k - 1]
        OBVIOUS
      <3>2. CASE k = m + 1
        <4>1. e[k] = g[<<f[m], m + 1>>] /\ k - 1 = m
          BY <3>2
        <4> QED
          BY <3>1, <3>2, <4>1
      <3>3. CASE k # m + 1
        BY <3>1, <3>3, <2>1
      <3> QED
        BY <3>2, <3>3
    <2>6. Recursion(e, m + 1, S, b, g)
      BY <2>3, <2>4, <2>5
    <2> HIDE DEF e, Recursion
    <2> QED
      BY <2>6
  <1> HIDE DEF T, Good
  <1>3. n \in T
    BY <1>1, <1>2, NatInduct
  <1>4. Good(n)
    BY <1>3 DEF T
  <1> QED
    BY <1>4 DEF Good

\* Two solutions are the same.
LEMMA SameFold ==
  ASSUME NEW n \in Nat, NEW f, NEW v, v[0] = f[0],
         \A k \in 1..n : v[k - 1] = f[k - 1] => v[k] = f[k]
  PROVE  \A k \in 0..n : v[k] = f[k]
  <1> DEFINE T == {k \in Nat : k <= n => v[k] = f[k]}
  <1>1. 0 \in T
    OBVIOUS
  <1>2. ASSUME NEW k \in Nat, k \in T PROVE k + 1 \in T
    <2> SUFFICES ASSUME k + 1 <= n PROVE v[k + 1] = f[k + 1]
      OBVIOUS
    <2>1. k + 1 \in 1..n /\ (k + 1) - 1 = k /\ v[k] = f[k]
      BY <1>2
    <2> QED
      BY <2>1
  <1> HIDE DEF T
  <1>3. Nat \subseteq T
    BY <1>1, <1>2, NatInduct
  <1> QED
    BY <1>3 DEF T

Agree(v, f, n) == v[0] = f[0] /\ \A k \in 1..n : v[k - 1] = f[k - 1] => v[k] = f[k]

LEMMA Agreed ==
  ASSUME NEW n \in Nat, NEW f, NEW v, Agree(v, f, n)
  PROVE  v[n] = f[n] /\ \A k \in 0..n : v[k] = f[k]
  <1>1. \A k \in 0..n : v[k] = f[k]
    BY SameFold DEF Agree
  <1> QED
    BY <1>1

-------------------------------------------------------------------------------
(* Powers of two.                                                          *)

LEMMA Pow2Is ==
  /\ Pow2[0] = 1
  /\ \A n \in Nat : Pow2[n] \in Nat \ {0} /\ Pow2[n + 1] = 2 * Pow2[n]
  <1> DEFINE Upto(f, n) == f \in [0..n -> Nat] /\ f[0] = 1 /\ \A k \in 1..n : f[k] = 2 * f[k - 1]
             P(v) == v = [n \in Nat |-> IF n = 0 THEN 1 ELSE 2 * v[n - 1]]
             q(n) == (CHOOSE f : Upto(f, n))[n]
             h == [n \in Nat |-> q(n)]
  <1>1. ASSUME NEW n \in Nat PROVE \E f : Upto(f, n)
    <2> DEFINE g == [p \in Nat \X (1..n) |-> 2 * p[1]]
    <2>1. g \in [Nat \X (1..n) -> Nat] /\ 1 \in Nat
      OBVIOUS
    <2>2. \A x \in Nat, k \in 1..n : g[<<x, k>>] = 2 * x
      OBVIOUS
    <2> HIDE DEF g
    <2>4. PICK f : Recursion(f, n, Nat, 1, g)
      BY <2>1, Folded
    <2> USE <2>4 DEF Recursion
    <2>5. ASSUME NEW k \in 1..n PROVE f[k] = 2 * f[k - 1]
      <3>1. f[k - 1] \in Nat
        OBVIOUS
      <3> QED
        BY <2>2, <2>4, <3>1
    <2> QED
      BY <2>4, <2>5
  <1>2. ASSUME NEW n \in Nat PROVE Upto(CHOOSE f : Upto(f, n), n)
    <2> HIDE DEF Upto
    <2> QED
      BY <1>1
  <1>3. ASSUME NEW n \in Nat, NEW m \in Nat, m <= n, NEW f, NEW e, Upto(f, n), Upto(e, m)
        PROVE  f[m] = e[m]
    <2>1. e[0] = f[0] /\ \A k \in 1..m : e[k - 1] = f[k - 1] => e[k] = f[k]
      BY <1>3
    <2>2. Agree(e, f, m)
      BY <2>1 DEF Agree
    <2> QED
      BY <2>2, Agreed
  <1>4. ASSUME NEW n \in Nat PROVE h[n] \in Nat /\ (n = 0 => h[n] = 1)
                                   /\ h[n + 1] = 2 * h[n]
    <2>1. PICK f : f = CHOOSE g : Upto(g, n)
      OBVIOUS
    <2>2. PICK e : e = CHOOSE g : Upto(g, n + 1)
      OBVIOUS
    <2>3. h[n] = f[n]
      BY <2>1
    <2>4. h[n + 1] = e[n + 1]
      BY <2>2
    <2>5. Upto(f, n)
      BY <1>2, <2>1, Zenon
    <2>6. Upto(e, n + 1)
      <3>1. n + 1 \in Nat
        OBVIOUS
      <3> HIDE DEF Upto
      <3> QED
        BY <1>2, <2>2, <3>1, Zenon
    <2> HIDE DEF h
    <2>7. e[n] = f[n]
      <3> HIDE DEF Upto
      <3> QED
        BY <2>5, <2>6, <1>3
    <2>8. e[n + 1] = 2 * e[n] /\ f[n] \in Nat /\ (n = 0 => f[n] = 1)
      BY <2>5, <2>6
    <2> QED
      BY <2>3, <2>4, <2>7, <2>8
  <1>5. P(h)
    <2>1. \A n \in Nat : h[n] = IF n = 0 THEN 1 ELSE 2 * h[n - 1]
      <3> HIDE DEF h
      <3> TAKE n \in Nat
      <3>1. CASE n = 0
        BY <3>1, <1>4
      <3>2. CASE n # 0
        <4>1. n - 1 \in Nat /\ (n - 1) + 1 = n
          BY <3>2
        <4> QED
          BY <3>2, <4>1, <1>4
      <3> QED
        BY <3>1, <3>2
    <2> HIDE DEF q
    <2>2. h = [n \in Nat |-> h[n]]
      OBVIOUS
    <2> HIDE DEF h
    <2> QED
      BY <2>1, <2>2
  <1>6. Pow2 = CHOOSE v : P(v)
    BY DEF Pow2
  <1> HIDE DEF P, h
  <1>7. P(Pow2)
    BY <1>5, <1>6
  <1>8. Pow2 = [n \in Nat |-> IF n = 0 THEN 1 ELSE 2 * Pow2[n - 1]]
    BY <1>7 DEF P
  <1>9. Pow2[0] = 1 /\ \A n \in Nat : Pow2[n + 1] = 2 * Pow2[n]
    <2>1. \A n \in Nat : Pow2[n] = IF n = 0 THEN 1 ELSE 2 * Pow2[n - 1]
      BY <1>8
    <2>2. \A n \in Nat : n + 1 \in Nat /\ n + 1 # 0 /\ (n + 1) - 1 = n
      OBVIOUS
    <2> QED
      BY <2>1, <2>2
  <1> DEFINE T == {n \in Nat : Pow2[n] \in Nat \ {0}}
  <1>10. Nat \subseteq T
    <2>1. 0 \in T
      BY <1>9
    <2>2. \A n \in Nat : n \in T => n + 1 \in T
      BY <1>9
    <2> HIDE DEF T
    <2> QED
      BY <2>1, <2>2, NatInduct
  <1> QED
    BY <1>9, <1>10

LEMMA Pow2Sum ==
  ASSUME NEW m \in Nat, NEW n \in Nat
  PROVE  Pow2[m + n] = Pow2[m] * Pow2[n]
  <1> DEFINE T == {k \in Nat : Pow2[m + k] = Pow2[m] * Pow2[k]}
  <1>1. 0 \in T
    BY Pow2Is
  <1>2. ASSUME NEW k \in Nat, k \in T PROVE k + 1 \in T
    <2>1. Pow2[m + (k + 1)] = 2 * Pow2[m + k]
      <3>1. m + k \in Nat /\ m + (k + 1) = (m + k) + 1
        OBVIOUS
      <3> QED
        BY <3>1, Pow2Is
    <2>2. Pow2[k + 1] = 2 * Pow2[k]
      BY Pow2Is
    <2>3. Pow2[m + k] = Pow2[m] * Pow2[k]
      BY <1>2
    <2>4. Pow2[m] \in Nat /\ Pow2[k] \in Nat
      BY Pow2Is
    <2> QED
      BY <2>1, <2>2, <2>3, <2>4
  <1> HIDE DEF T
  <1>3. n \in T
    BY <1>1, <1>2, NatInduct
  <1> QED
    BY <1>3 DEF T

-------------------------------------------------------------------------------
(* Numbers.                                                                *)

LEMMA NumRec ==
  ASSUME NEW bs \in Seq({0, 1})
  PROVE  \E f : /\ f \in [0..Len(bs) -> Nat] /\ f[0] = 0 /\ Num(bs) = f[Len(bs)]
                /\ \A k \in 1..Len(bs) : f[k] = f[k - 1] + bs[k] * Pow2[k - 1]
  <1> DEFINE n == Len(bs)
             body(x, k) == x + bs[k] * Pow2[k - 1]
             P(v) == v = [k \in 0..n |-> IF k = 0 THEN 0 ELSE body(v[k - 1], k)]
             g == [p \in Nat \X (1..n) |-> body(p[1], p[2])]
  <1>1. n \in Nat /\ 0 \in Nat
    OBVIOUS
  <1>2. \A x \in Nat, k \in 1..n : body(x, k) \in Nat
    <2> TAKE x \in Nat, k \in 1..n
    <2>1. bs[k] \in {0, 1} /\ k - 1 \in Nat
      OBVIOUS
    <2>2. Pow2[k - 1] \in Nat
      BY <2>1, Pow2Is
    <2> QED
      BY <2>1, <2>2
  <1>3. Num(bs) = (CHOOSE v : P(v))[n]
    BY DEF Num
  <1> HIDE DEF n, body
  <1>4. g \in [Nat \X (1..n) -> Nat] /\ \A x \in Nat, k \in 1..n : g[<<x, k>>] = body(x, k)
    BY <1>2
  <1> HIDE DEF g
  <1>5. PICK f : Recursion(f, n, Nat, 0, g)
    BY <1>1, <1>4, Folded
  <1>6. f \in [0..n -> Nat] /\ f[0] = 0 /\ \A k \in 1..n : f[k] = body(f[k - 1], k)
    <2>1. \A k \in 1..n : k - 1 \in 0..n
      BY <1>1
    <2> QED
      BY <1>4, <1>5, <2>1 DEF Recursion
  <1>7. P(f)
    BY <1>1, <1>6
  <1>8. P(CHOOSE v : P(v))
    <2> HIDE DEF P
    <2> QED
      BY <1>7
  <1>9. PICK w : w = CHOOSE v : P(v)
    OBVIOUS
  <1>10. w[0] = f[0] /\ \A k \in 1..n : w[k - 1] = f[k - 1] => w[k] = f[k]
    <2>1. P(w)
      BY <1>8, <1>9
    <2>2. w[0] = 0 /\ \A k \in 1..n : w[k] = body(w[k - 1], k)
      BY <1>1, <2>1
    <2> QED
      BY <1>6, <2>2
  <1>11. w[n] = f[n]
    <2>1. Agree(w, f, n)
      BY <1>10 DEF Agree
    <2> QED
      BY <1>1, <2>1, Agreed
  <1>12. Num(bs) = f[n]
    BY <1>3, <1>9, <1>11
  <1> QED
    BY <1>6, <1>12 DEF n, body

LEMMA NumRange ==
  ASSUME NEW bs \in Seq({0, 1})
  PROVE  Num(bs) \in 0..(Pow2[Len(bs)] - 1)
  <1>1. PICK f : /\ f \in [0..Len(bs) -> Nat] /\ f[0] = 0 /\ Num(bs) = f[Len(bs)]
                 /\ \A k \in 1..Len(bs) : f[k] = f[k - 1] + bs[k] * Pow2[k - 1]
    BY NumRec
  <1> DEFINE T == {k \in Nat : k <= Len(bs) => f[k] \in 0..(Pow2[k] - 1)}
  <1>2. 0 \in T
    <2>1. f[0] = 0 /\ Pow2[0] = 1
      BY <1>1, Pow2Is
    <2>2. f[0] \in 0..(Pow2[0] - 1)
      BY <2>1
    <2> QED
      BY <2>2
  <1>3. ASSUME NEW k \in Nat, k \in T PROVE k + 1 \in T
    <2> SUFFICES ASSUME k + 1 <= Len(bs) PROVE f[k + 1] \in 0..(Pow2[k + 1] - 1)
      OBVIOUS
    <2>1. f[k + 1] = f[k] + bs[k + 1] * Pow2[k] /\ bs[k + 1] \in {0, 1}
      <3>1. k + 1 \in 1..Len(bs) /\ (k + 1) - 1 = k
        OBVIOUS
      <3> QED
        BY <1>1, <3>1
    <2>2. f[k] \in 0..(Pow2[k] - 1)
      BY <1>3
    <2>3. PICK a \in Nat, p \in Nat, b \in {0, 1} :
            a = f[k] /\ p = Pow2[k] /\ b = bs[k + 1] /\ a <= p - 1 /\ Pow2[k + 1] = 2 * p
      <3>1. Pow2[k] \in Nat /\ Pow2[k + 1] = 2 * Pow2[k]
        BY Pow2Is
      <3> QED
        BY <2>1, <2>2, <3>1
    <2>4. PICK m \in Nat : m = b * p /\ m <= p
      BY <2>3
    <2>5. f[k + 1] = a + m
      BY <2>1, <2>3, <2>4
    <2>6. a + m \in 0..(2 * p - 1)
      <3>1. a <= p - 1 /\ m <= p
        BY <2>3, <2>4
      <3> QED
        BY <3>1
    <2> QED
      BY <2>3, <2>5, <2>6
  <1> HIDE DEF T
  <1>4. Len(bs) \in T
    BY <1>2, <1>3, NatInduct
  <1> QED
    BY <1>1, <1>4 DEF T

LEMMA SubSeqIs ==
  ASSUME NEW B, NEW s \in Seq(B), NEW a \in Nat \ {0}, NEW b \in Int, b <= Len(s)
  PROVE  /\ SubSeq(s, a, b) \in Seq(B)
         /\ Len(SubSeq(s, a, b)) = IF a <= b THEN b - a + 1 ELSE 0
         /\ \A k \in 1..(b - a + 1) : SubSeq(s, a, b)[k] = s[a + k - 1]
  <1>1. CASE a <= b
    <2>1. \A i \in a..b : i \in 1..Len(s) /\ s[i] \in B
      OBVIOUS
    <2> QED
      BY <1>1, <2>1
  <1>2. CASE ~(a <= b)
    <2>1. SubSeq(s, a, b) = <<>>
      BY <1>2
    <2> QED
      BY <1>2, <2>1
  <1> QED
    BY <1>1, <1>2

LEMMA CatIs ==
  ASSUME NEW B, NEW s \in Seq(B), NEW t \in Seq(B)
  PROVE  /\ s \o t \in Seq(B) /\ Len(s \o t) = Len(s) + Len(t)
         /\ Len(s) \in Nat /\ Len(t) \in Nat
         /\ \A k \in 1..Len(s) : (s \o t)[k] = s[k]
         /\ \A k \in 1..Len(t) : (s \o t)[Len(s) + k] = t[k]
         /\ \A k \in (Len(s) + 1)..(Len(s) + Len(t)) : (s \o t)[k] = t[k - Len(s)]
  OBVIOUS

LEMMA ConstSeq ==
  ASSUME NEW B, NEW v \in B, NEW n \in Nat
  PROVE  /\ [k \in 1..n |-> v] \in Seq(B) /\ Len([k \in 1..n |-> v]) = n
  OBVIOUS

LEMMA SameSeq ==
  ASSUME NEW B, NEW s \in Seq(B), NEW t \in Seq(B), Len(s) = Len(t),
         \A k \in 1..Len(s) : s[k] = t[k]
  PROVE  s = t
  OBVIOUS

LEMMA BlIs ==
  ASSUME NEW lens, IsLengths(lens), NEW L \in Nat
  PROVE  bl(lens, L) \in Nat
  <1>1. IsFiniteSet({s \in DOMAIN lens : L > 0 /\ lens[s] = L})
    BY FS_Subset DEF IsLengths
  <1> QED
    BY <1>1, FS_CardinalityType DEF bl

LEMMA MinIs ==
  ASSUME NEW a \in Int, NEW b \in Int
  PROVE  Min({a, b}) = IF a <= b THEN a ELSE b
  <1>1. \E x \in {a, b} : \A y \in {a, b} : x <= y
    OBVIOUS
  <1>2. Min({a, b}) \in {a, b} /\ \A y \in {a, b} : Min({a, b}) <= y
    BY <1>1 DEF Min
  <1> QED
    BY <1>2

\* The first codes of each length.
LEMMA NextCodeRec ==
  ASSUME NEW lens, IsLengths(lens)
  PROVE  \E f : /\ f \in [0..MaxCode -> Nat] /\ f[0] = 0 /\ (\A k \in 0..MaxCode : next_code(lens)[k] = f[k])
                /\ \A k \in 1..MaxCode : f[k] = (f[k - 1] + bl(lens, k - 1)) * 2
  <1> DEFINE n == MaxCode
             S == Nat
             body(x, k) == (x + bl(lens, k - 1)) * 2
             P(v) == v = [k \in 0..n |-> IF k = 0 THEN 0 ELSE body(v[k - 1], k)]
             g == [p \in S \X (1..n) |-> body(p[1], p[2])]
  <1>1. n \in Nat
    BY SizesAssumption
  <1>2. 0 \in S
    OBVIOUS
  <1>3. \A x \in S, k \in 1..n : body(x, k) \in S
    <2> TAKE x \in S, k \in 1..n
    <2>1. bl(lens, k - 1) \in Nat
      BY BlIs
    <2> QED
      BY <2>1
  <1>4. next_code(lens) = (CHOOSE v : P(v))
    BY DEF next_code
  <1> HIDE DEF n, body, S
  <1>5. g \in [S \X (1..n) -> S] /\ \A x \in S, k \in 1..n : g[<<x, k>>] = body(x, k)
    BY <1>3
  <1> HIDE DEF g
  <1>6. PICK f : Recursion(f, n, S, 0, g)
    BY <1>1, <1>2, <1>5, Folded
  <1>7. f \in [0..n -> S] /\ f[0] = 0 /\ \A k \in 1..n : f[k] = body(f[k - 1], k)
    <2>1. \A k \in 1..n : k - 1 \in 0..n
      BY <1>1
    <2> QED
      BY <1>5, <1>6, <2>1 DEF Recursion
  <1>8. P(f)
    BY <1>1, <1>7
  <1>9. P(CHOOSE v : P(v))
    <2> HIDE DEF P
    <2> QED
      BY <1>8
  <1>10. PICK w : w = CHOOSE v : P(v)
    OBVIOUS
  <1>11. w[0] = 0 /\ \A k \in 1..n : w[k] = body(w[k - 1], k)
    <2>1. P(w)
      BY <1>9, <1>10
    <2> QED
      BY <1>1, <2>1
  <1>12. w[0] = f[0] /\ \A k \in 1..n : w[k - 1] = f[k - 1] => w[k] = f[k]
    BY <1>7, <1>11
  <1>13. \A k \in 0..n : w[k] = f[k]
    <2>1. Agree(w, f, n)
      BY <1>12 DEF Agree
    <2> QED
      BY <1>1, <2>1, Agreed
  <1>14. \A k \in 0..n : next_code(lens)[k] = f[k]
    BY <1>4, <1>10, <1>13
  <1> QED
    BY <1>7, <1>14 DEF n, body, S

LEMMA ExpandRec ==
  ASSUME NEW runs \in Seq({"len", "copy", "zero"} \X Nat)
  PROVE  \E f : /\ f \in [0..Len(runs) -> Seq(Nat \cup {Last(<<>>)})] /\ f[0] = <<>> /\ Expand(runs) = f[Len(runs)]
                /\ \A k \in 1..Len(runs) : f[k] = f[k - 1] \o Run(f[k - 1], runs[k])
  <1> DEFINE n == Len(runs)
             S == Seq(Nat \cup {Last(<<>>)})
             body(x, k) == x \o Run(x, runs[k])
             P(v) == v = [k \in 0..n |-> IF k = 0 THEN <<>> ELSE body(v[k - 1], k)]
             g == [p \in S \X (1..n) |-> body(p[1], p[2])]
  <1>1. n \in Nat
    OBVIOUS
  <1>2. <<>> \in S
    OBVIOUS
  <1>3. \A x \in S, k \in 1..n : body(x, k) \in S
    <2> TAKE x \in S, k \in 1..n
    <2>1. Run(x, runs[k]) \in Seq(Nat \cup {Last(<<>>)})
      <3>1. runs[k] \in {"len", "copy", "zero"} \X Nat
        OBVIOUS
      <3>2. Last(x) \in Nat \cup {Last(<<>>)}
        BY DEF Last
      <3>3. PICK c : c = runs[k]
        OBVIOUS
      <3>4. c[2] \in Nat
        BY <3>1, <3>3
      <3>5. CASE c[1] = "len"
        <4>1. Run(x, c) = <<c[2]>>
          BY <3>5 DEF Run
        <4>2. <<c[2]>> \in Seq(Nat \cup {Last(<<>>)})
          BY <3>4
        <4> QED
          BY <3>3, <4>1, <4>2
      <3>6. CASE c[1] # "len"
        <4>1. PICK v \in Nat \cup {Last(<<>>)} : v = IF c[1] = "copy" THEN Last(x) ELSE 0
          BY <3>2
        <4>2. Run(x, c) = [j \in 1..c[2] |-> v]
          BY <3>6, <4>1 DEF Run
        <4>3. PICK B : B = Nat \cup {Last(<<>>)}
          OBVIOUS
        <4>4. v \in B
          BY <4>3
        <4>5. [j \in 1..c[2] |-> v] \in Seq(B)
          BY <3>4, <4>4, ConstSeq
        <4> QED
          BY <3>3, <4>2, <4>3, <4>5
      <3> QED
        BY <3>5, <3>6
    <2> QED
      BY <2>1
  <1>4. Expand(runs) = (CHOOSE v : P(v))[n]
    BY DEF Expand
  <1> HIDE DEF n, body, S
  <1>5. g \in [S \X (1..n) -> S] /\ \A x \in S, k \in 1..n : g[<<x, k>>] = body(x, k)
    BY <1>3
  <1> HIDE DEF g
  <1>6. PICK f : Recursion(f, n, S, <<>>, g)
    BY <1>1, <1>2, <1>5, Folded
  <1>7. f \in [0..n -> S] /\ f[0] = <<>> /\ \A k \in 1..n : f[k] = body(f[k - 1], k)
    <2>1. \A k \in 1..n : k - 1 \in 0..n
      BY <1>1
    <2> QED
      BY <1>5, <1>6, <2>1 DEF Recursion
  <1>8. P(f)
    BY <1>1, <1>7
  <1>9. P(CHOOSE v : P(v))
    <2> HIDE DEF P
    <2> QED
      BY <1>8
  <1>10. PICK w : w = CHOOSE v : P(v)
    OBVIOUS
  <1>11. w[0] = <<>> /\ \A k \in 1..n : w[k] = body(w[k - 1], k)
    <2>1. P(w)
      BY <1>9, <1>10
    <2> QED
      BY <1>1, <2>1
  <1>12. w[0] = f[0] /\ \A k \in 1..n : w[k - 1] = f[k - 1] => w[k] = f[k]
    BY <1>7, <1>11
  <1>13. w[n] = f[n]
    <2>1. Agree(w, f, n)
      BY <1>12 DEF Agree
    <2> QED
      BY <1>1, <2>1, Agreed
  <1>14. Expand(runs) = f[n]
    BY <1>4, <1>10, <1>13
  <1> QED
    BY <1>7, <1>14 DEF n, body, S

BytewiseSteps(f, B, o, d, m) ==
  /\ f \in [0..m -> {q \in Seq(B) : Len(q) >= Len(o)}] /\ f[0] = o /\ Bytewise(o, d, m) = f[m]
  /\ \A k \in 1..m : f[k] = Append(f[k - 1], f[k - 1][Len(f[k - 1]) - d + 1])

LEMMA BytewiseRec ==
  ASSUME NEW B, NEW o \in Seq(B), NEW d \in 1..Len(o), NEW m \in Nat
  PROVE  \E f : BytewiseSteps(f, B, o, d, m)
  <1> DEFINE n == m
             S == {q \in Seq(B) : Len(q) >= Len(o)}
             body(x, k) == Append(x, x[Len(x) - d + 1])
             P(v) == v = [k \in 0..n |-> IF k = 0 THEN o ELSE body(v[k - 1], k)]
             g == [p \in S \X (1..n) |-> body(p[1], p[2])]
  <1>1. n \in Nat
    OBVIOUS
  <1>2. o \in S
    OBVIOUS
  <1>3. \A x \in S, k \in 1..n : body(x, k) \in S
    <2> TAKE x \in S, k \in 1..n
    <2>1. Len(x) - d + 1 \in 1..Len(x)
      OBVIOUS
    <2> QED
      BY <2>1
  <1>4. Bytewise(o, d, m) = (CHOOSE v : P(v))[n]
    BY DEF Bytewise
  <1> HIDE DEF n, body, S
  <1>5. g \in [S \X (1..n) -> S] /\ \A x \in S, k \in 1..n : g[<<x, k>>] = body(x, k)
    BY <1>3
  <1> HIDE DEF g
  <1>6. PICK f : Recursion(f, n, S, o, g)
    BY <1>1, <1>2, <1>5, Folded
  <1>7. f \in [0..n -> S] /\ f[0] = o /\ \A k \in 1..n : f[k] = body(f[k - 1], k)
    <2>1. \A k \in 1..n : k - 1 \in 0..n
      BY <1>1
    <2> QED
      BY <1>5, <1>6, <2>1 DEF Recursion
  <1>8. P(f)
    BY <1>1, <1>7
  <1>9. P(CHOOSE v : P(v))
    <2> HIDE DEF P
    <2> QED
      BY <1>8
  <1>10. PICK w : w = CHOOSE v : P(v)
    OBVIOUS
  <1>11. w[0] = o /\ \A k \in 1..n : w[k] = body(w[k - 1], k)
    <2>1. P(w)
      BY <1>9, <1>10
    <2> QED
      BY <1>1, <2>1
  <1>12. w[0] = f[0] /\ \A k \in 1..n : w[k - 1] = f[k - 1] => w[k] = f[k]
    BY <1>7, <1>11
  <1>13. w[n] = f[n]
    <2>1. Agree(w, f, n)
      BY <1>12 DEF Agree
    <2> QED
      BY <1>1, <2>1, Agreed
  <1>14. Bytewise(o, d, m) = f[n]
    BY <1>4, <1>10, <1>13
  <1>15. BytewiseSteps(f, B, o, d, m)
    BY <1>7, <1>14 DEF n, body, S, BytewiseSteps
  <1> QED
    BY <1>15

WideSteps(f, B, o, d, m) ==
  /\ f \in [0..m -> {q \in Seq(B) : Len(q) >= Len(o)}] /\ f[0] = o /\ Wide(o, d, m) = f[m]
  /\ \A k \in 1..m : f[k] = f[k - 1] \o SubSeq(f[k - 1], Len(f[k - 1]) - d + 1, Len(f[k - 1]) - d + Chunk)

LEMMA WideRec ==
  ASSUME NEW B, NEW o \in Seq(B), NEW d \in 1..Len(o), NEW m \in Nat, d >= Chunk
  PROVE  \E f : WideSteps(f, B, o, d, m)
  <1> DEFINE n == m
             S == {q \in Seq(B) : Len(q) >= Len(o)}
             body(x, k) == x \o SubSeq(x, Len(x) - d + 1, Len(x) - d + Chunk)
             P(v) == v = [k \in 0..n |-> IF k = 0 THEN o ELSE body(v[k - 1], k)]
             g == [p \in S \X (1..n) |-> body(p[1], p[2])]
  <1>1. n \in Nat
    OBVIOUS
  <1>2. o \in S
    OBVIOUS
  <1>3. \A x \in S, k \in 1..n : body(x, k) \in S
    <2> TAKE x \in S, k \in 1..n
    <2>1. PICK y \in Seq(B), l \in Nat : y = x /\ l = Len(x) /\ l >= Len(o)
      OBVIOUS
    <2> HIDE DEF S, body
    <2>2. PICK h \in Nat, c \in Nat : h = d /\ c = Chunk /\ c <= h /\ h <= l
      <3>1. Chunk \in Nat /\ d \in Nat /\ d <= Len(o) /\ Len(o) \in Nat
        BY SizesAssumption
      <3> QED
        BY <2>1, <3>1
    <2>3. PICK a \in Nat \ {0}, e \in Nat : a = l - h + 1 /\ e = l - h + c /\ e <= l
      BY <2>2
    <2>4. PICK w \in Seq(B) : w = SubSeq(y, a, e)
      <3>1. e \in Int /\ e <= Len(y)
        BY <2>1, <2>3
      <3>2. SubSeq(y, a, e) \in Seq(B)
        BY <3>1, SubSeqIs
      <3> QED
        BY <3>2
    <2>5. y \o w \in Seq(B) /\ Len(y \o w) = Len(y) + Len(w) /\ Len(w) \in Nat
      OBVIOUS
    <2>6. Len(y \o w) >= Len(o)
      BY <2>1, <2>5
    <2>7. y \o w \in S
      BY <2>5, <2>6 DEF S
    <2>8. body(x, k) = y \o w
      BY <2>1, <2>2, <2>3, <2>4, Zenon DEF body
    <2> QED
      BY <2>7, <2>8
  <1>4. Wide(o, d, m) = (CHOOSE v : P(v))[n]
    BY DEF Wide
  <1> HIDE DEF n, body, S
  <1>5. g \in [S \X (1..n) -> S] /\ \A x \in S, k \in 1..n : g[<<x, k>>] = body(x, k)
    BY <1>3
  <1> HIDE DEF g
  <1>6. PICK f : Recursion(f, n, S, o, g)
    BY <1>1, <1>2, <1>5, Folded
  <1>7. f \in [0..n -> S] /\ f[0] = o /\ \A k \in 1..n : f[k] = body(f[k - 1], k)
    <2>1. \A k \in 1..n : k - 1 \in 0..n
      BY <1>1
    <2> QED
      BY <1>5, <1>6, <2>1 DEF Recursion
  <1>8. P(f)
    BY <1>1, <1>7
  <1>9. P(CHOOSE v : P(v))
    <2> HIDE DEF P
    <2> QED
      BY <1>8
  <1>10. PICK w : w = CHOOSE v : P(v)
    OBVIOUS
  <1>11. w[0] = o /\ \A k \in 1..n : w[k] = body(w[k - 1], k)
    <2>1. P(w)
      BY <1>9, <1>10
    <2> QED
      BY <1>1, <2>1
  <1>12. w[0] = f[0] /\ \A k \in 1..n : w[k - 1] = f[k - 1] => w[k] = f[k]
    BY <1>7, <1>11
  <1>13. w[n] = f[n]
    <2>1. Agree(w, f, n)
      BY <1>12 DEF Agree
    <2> QED
      BY <1>1, <2>1, Agreed
  <1>14. Wide(o, d, m) = f[n]
    BY <1>4, <1>10, <1>13
  <1>15. WideSteps(f, B, o, d, m)
    BY <1>7, <1>14 DEF n, body, S, WideSteps
  <1> QED
    BY <1>15

GrowSteps(f, B, o, from, end) ==
  /\ f \in [0..(end - Len(o)) -> {q \in Seq(B) : Len(q) >= Len(o)}] /\ f[0] = o /\ Grow(o, from, end) = f[(end - Len(o))]
  /\ \A k \in 1..(end - Len(o)) : f[k] = f[k - 1] \o SubSeq(f[k - 1], from, Min({Len(f[k - 1]), from + end - Len(f[k - 1]) - 1}))

LEMMA GrowRec ==
  ASSUME NEW B, NEW o \in Seq(B), NEW from \in 1..Len(o), NEW end \in Nat, end >= Len(o)
  PROVE  \E f : GrowSteps(f, B, o, from, end)
  <1> DEFINE n == (end - Len(o))
             S == {q \in Seq(B) : Len(q) >= Len(o)}
             body(x, k) == x \o SubSeq(x, from, Min({Len(x), from + end - Len(x) - 1}))
             P(v) == v = [k \in 0..n |-> IF k = 0 THEN o ELSE body(v[k - 1], k)]
             g == [p \in S \X (1..n) |-> body(p[1], p[2])]
  <1>1. n \in Nat
    OBVIOUS
  <1>2. o \in S
    OBVIOUS
  <1>3. \A x \in S, k \in 1..n : body(x, k) \in S
    <2> TAKE x \in S, k \in 1..n
    <2>0. /\ x \in Seq(B) /\ Len(x) \in Nat /\ Len(x) >= Len(o) /\ Len(o) \in Nat
          /\ from \in Nat \ {0}
      OBVIOUS
    <2> HIDE DEF S
    <2>1. PICK m \in Int : m = Min({Len(x), from + end - Len(x) - 1}) /\ m <= Len(x)
      <3>1. Len(x) \in Int /\ from + end - Len(x) - 1 \in Int
        BY <2>0
      <3> QED
        BY <2>0, <3>1, MinIs
    <2>2. SubSeq(x, from, m) \in Seq(B)
      BY <2>0, <2>1, SubSeqIs
    <2>3. body(x, k) = x \o SubSeq(x, from, m)
      BY <2>1
    <2>4. body(x, k) \in Seq(B) /\ Len(body(x, k)) >= Len(x)
      <3> HIDE DEF body
      <3>1. PICK t \in Seq(B) : t = SubSeq(x, from, m)
        BY <2>2
      <3> QED
        BY <3>1,  <2>0, <2>2, <2>3, CatIs
    <2>5. Len(body(x, k)) \in Nat
      BY <2>4
    <2> HIDE DEF body
    <2> QED
      BY <2>0, <2>4, <2>5 DEF S
  <1>4. Grow(o, from, end) = (CHOOSE v : P(v))[n]
    BY DEF Grow
  <1> HIDE DEF n, body, S
  <1>5. g \in [S \X (1..n) -> S] /\ \A x \in S, k \in 1..n : g[<<x, k>>] = body(x, k)
    BY <1>3
  <1> HIDE DEF g
  <1>6. PICK f : Recursion(f, n, S, o, g)
    BY <1>1, <1>2, <1>5, Folded
  <1>7. f \in [0..n -> S] /\ f[0] = o /\ \A k \in 1..n : f[k] = body(f[k - 1], k)
    <2>1. \A k \in 1..n : k - 1 \in 0..n
      BY <1>1
    <2> QED
      BY <1>5, <1>6, <2>1 DEF Recursion
  <1>8. P(f)
    BY <1>1, <1>7
  <1>9. P(CHOOSE v : P(v))
    <2> HIDE DEF P
    <2> QED
      BY <1>8
  <1>10. PICK w : w = CHOOSE v : P(v)
    OBVIOUS
  <1>11. w[0] = o /\ \A k \in 1..n : w[k] = body(w[k - 1], k)
    <2>1. P(w)
      BY <1>9, <1>10
    <2> QED
      BY <1>1, <2>1
  <1>12. w[0] = f[0] /\ \A k \in 1..n : w[k - 1] = f[k - 1] => w[k] = f[k]
    BY <1>7, <1>11
  <1>13. w[n] = f[n]
    <2>1. Agree(w, f, n)
      BY <1>12 DEF Agree
    <2> QED
      BY <1>1, <2>1, Agreed
  <1>14. Grow(o, from, end) = f[n]
    BY <1>4, <1>10, <1>13
  <1>15. GrowSteps(f, B, o, from, end)
    BY <1>7, <1>14 DEF n, body, S, GrowSteps
  <1> QED
    BY <1>15

PeriodicSteps(f, B, o, d, m) ==
  /\ f \in [0..(m \div d) -> Seq(B)] /\ f[0] = o /\ periodic(o, d, m) = f[(m \div d)] \o SubSeq(SubSeq(o, Len(o) - d + 1, Len(o)), 1, m % d)
  /\ \A k \in 1..(m \div d) : f[k] = f[k - 1] \o SubSeq(o, Len(o) - d + 1, Len(o))

LEMMA PeriodicRec ==
  ASSUME NEW B, NEW o \in Seq(B), NEW d \in 1..Len(o), NEW m \in Nat
  PROVE  \E f : PeriodicSteps(f, B, o, d, m)
  <1> DEFINE n == (m \div d)
             S == Seq(B)
             body(x, k) == x \o SubSeq(o, Len(o) - d + 1, Len(o))
             P(v) == v = [k \in 0..n |-> IF k = 0 THEN o ELSE body(v[k - 1], k)]
             g == [p \in S \X (1..n) |-> body(p[1], p[2])]
  <1>1. n \in Nat
    OBVIOUS
  <1>2. o \in S
    OBVIOUS
  <1>3. \A x \in S, k \in 1..n : body(x, k) \in S
    <2> TAKE x \in S, k \in 1..n
    <2>1. SubSeq(o, Len(o) - d + 1, Len(o)) \in Seq(B)
      BY SubSeqIs
    <2> QED
      BY <2>1
  <1>4. periodic(o, d, m) = (CHOOSE v : P(v))[n] \o SubSeq(SubSeq(o, Len(o) - d + 1, Len(o)), 1, m % d)
    BY DEF periodic
  <1> HIDE DEF n, body, S
  <1>5. g \in [S \X (1..n) -> S] /\ \A x \in S, k \in 1..n : g[<<x, k>>] = body(x, k)
    BY <1>3
  <1> HIDE DEF g
  <1>6. PICK f : Recursion(f, n, S, o, g)
    BY <1>1, <1>2, <1>5, Folded
  <1>7. f \in [0..n -> S] /\ f[0] = o /\ \A k \in 1..n : f[k] = body(f[k - 1], k)
    <2>1. \A k \in 1..n : k - 1 \in 0..n
      BY <1>1
    <2> QED
      BY <1>5, <1>6, <2>1 DEF Recursion
  <1>8. P(f)
    BY <1>1, <1>7
  <1>9. P(CHOOSE v : P(v))
    <2> HIDE DEF P
    <2> QED
      BY <1>8
  <1>10. PICK w : w = CHOOSE v : P(v)
    OBVIOUS
  <1>11. w[0] = o /\ \A k \in 1..n : w[k] = body(w[k - 1], k)
    <2>1. P(w)
      BY <1>9, <1>10
    <2> QED
      BY <1>1, <2>1
  <1>12. w[0] = f[0] /\ \A k \in 1..n : w[k - 1] = f[k - 1] => w[k] = f[k]
    BY <1>7, <1>11
  <1>13. w[n] = f[n]
    <2>1. Agree(w, f, n)
      BY <1>12 DEF Agree
    <2> QED
      BY <1>1, <2>1, Agreed
  <1>14. periodic(o, d, m) = f[n] \o SubSeq(SubSeq(o, Len(o) - d + 1, Len(o)), 1, m % d)
    BY <1>4, <1>10, <1>13
  <1>15. PeriodicSteps(f, B, o, d, m)
    BY <1>7, <1>14 DEF n, body, S, PeriodicSteps
  <1> QED
    BY <1>15


-------------------------------------------------------------------------------
(* Sums over finite sets.  What a set of symbols takes of the codes there  *)
(* are is counted in codes of the greatest length.                         *)

LEMMA Pow2Up ==
  ASSUME NEW m \in Nat, NEW n \in Nat, m <= n
  PROVE  Pow2[m] <= Pow2[n]
  <1> DEFINE T == {k \in Nat : Pow2[m] <= Pow2[m + k]}
  <1>1. 0 \in T
    BY Pow2Is
  <1>2. ASSUME NEW k \in Nat, k \in T PROVE k + 1 \in T
    <2>1. m + k \in Nat /\ m + (k + 1) = (m + k) + 1
      OBVIOUS
    <2>2. Pow2[m + (k + 1)] = 2 * Pow2[m + k] /\ Pow2[m + k] \in Nat
      BY <2>1, Pow2Is
    <2>3. Pow2[m] <= Pow2[m + k] /\ Pow2[m] \in Nat
      BY <1>2, Pow2Is
    <2> QED
      BY <2>2, <2>3
  <1> HIDE DEF T
  <1>3. n - m \in T
    BY <1>1, <1>2, NatInduct
  <1>4. m + (n - m) = n
    OBVIOUS
  <1> QED
    BY <1>3, <1>4 DEF T

LEMMA RemoveOne ==
  ASSUME NEW T, IsFiniteSet(T), NEW x \in T
  PROVE  /\ IsFiniteSet(T \ {x}) /\ Cardinality(T) \in Nat
         /\ Cardinality(T) = Cardinality(T \ {x}) + 1
  <1>1. IsFiniteSet(T \ {x}) /\ Cardinality(T \ {x}) = Cardinality(T) - 1
    BY FS_RemoveElement, Zenon
  <1>2. Cardinality(T) \in Nat
    BY FS_CardinalityType
  <1> QED
    BY <1>1, <1>2

LEMMA DisjointSizes ==
  ASSUME NEW T, IsFiniteSet(T), NEW U, IsFiniteSet(U), T \cap U = {}
  PROVE  Cardinality(T \cup U) = Cardinality(T) + Cardinality(U)
  <1>1. Cardinality(T \cap U) = 0
    BY FS_EmptySet
  <1>2. Cardinality(T) \in Nat /\ Cardinality(U) \in Nat
    BY FS_CardinalityType
  <1>3. Cardinality(T \cup U) = Cardinality(T) + Cardinality(U) - Cardinality(T \cap U)
    BY FS_Union, Zenon
  <1> QED
    BY <1>1, <1>2, <1>3

\* f grows by the weight of every element; v by the weight of some element.
Additive(f, w, S) == f[{}] = 0 /\ \A T \in SUBSET S : \A x \in T : f[T] = w[x] + f[T \ {x}]
Picking(v, w, S)  ==
  v[{}] = 0 /\ \A T \in SUBSET S : T # {} => \E x \in T : v[T] = w[x] + v[T \ {x}]

LEMMA SumIs ==
  ASSUME NEW S, IsFiniteSet(S), NEW w, NEW f, NEW v, Additive(f, w, S), Picking(v, w, S)
  PROVE  v[S] = f[S]
  <1> USE DEF Additive, Picking
  <1> DEFINE Q == {n \in Nat : \A T \in SUBSET S : Cardinality(T) = n => v[T] = f[T]}
  <1>1. 0 \in Q
    <2> SUFFICES ASSUME NEW T \in SUBSET S, Cardinality(T) = 0 PROVE v[T] = f[T]
      OBVIOUS
    <2>1. T = {}
      BY FS_Subset, FS_EmptySet
    <2> QED
      BY <2>1
  <1>2. ASSUME NEW n \in Nat, n \in Q PROVE n + 1 \in Q
    <2> SUFFICES ASSUME NEW T \in SUBSET S, Cardinality(T) = n + 1 PROVE v[T] = f[T]
      OBVIOUS
    <2>1. IsFiniteSet(T)
      BY FS_Subset
    <2>2. T # {}
      BY <2>1, FS_EmptySet
    <2>3. PICK x \in T : v[T] = w[x] + v[T \ {x}]
      BY <2>2
    <2>4. Cardinality(T \ {x}) = n
      <3>1. Cardinality(T) = Cardinality(T \ {x}) + 1 /\ Cardinality(T \ {x}) \in Nat
        BY <2>1, RemoveOne, FS_CardinalityType
      <3> QED
        BY <3>1
    <2>5. v[T \ {x}] = f[T \ {x}]
      BY <1>2, <2>4
    <2> QED
      BY <2>3, <2>5
  <1> HIDE DEF Q
  <1>3. Cardinality(S) \in Q
    <2>1. Cardinality(S) \in Nat
      BY FS_CardinalityType
    <2> QED
      BY <1>1, <1>2, <2>1, NatInduct
  <1> QED
    BY <1>3 DEF Q

Cells(lens, T) == {c \in T \X (1..Pow2[MaxCode]) : c[2] <= Pow2[MaxCode - lens[c[1]]]}

LEMMA CellsFinite ==
  ASSUME NEW lens, IsLengths(lens), NEW T \in SUBSET DOMAIN lens
  PROVE  IsFiniteSet(T) /\ IsFiniteSet(Cells(lens, T)) /\ Cardinality(Cells(lens, T)) \in Nat
  <1>1. IsFiniteSet(T)
    BY FS_Subset DEF IsLengths
  <1>2. IsFiniteSet(1..Pow2[MaxCode])
    <2>1. Pow2[MaxCode] \in Int /\ 1 \in Int
      BY SizesAssumption, Pow2Is
    <2> QED
      BY <2>1, FS_Interval
  <1>3. IsFiniteSet(T \X (1..Pow2[MaxCode]))
    BY <1>1, <1>2, FS_Product
  <1>4. IsFiniteSet(Cells(lens, T))
    BY <1>3, FS_Subset DEF Cells
  <1> QED
    BY <1>1, <1>4, FS_CardinalityType

LEMMA CellsLevel ==
  ASSUME NEW lens, IsLengths(lens), NEW L \in 0..MaxCode,
         NEW T \in SUBSET DOMAIN lens, \A s \in T : lens[s] = L
  PROVE  Cardinality(Cells(lens, T)) = Cardinality(T) * Pow2[MaxCode - L]
  <1>1. MaxCode \in Nat /\ MaxCode - L \in Nat /\ MaxCode - L <= MaxCode
    BY SizesAssumption
  <1>2. PICK p \in Nat : p = Pow2[MaxCode - L]
    BY <1>1, Pow2Is
  <1>3. p <= Pow2[MaxCode] /\ Pow2[MaxCode] \in Nat
    BY <1>1, <1>2, Pow2Is, Pow2Up
  <1>4. Cells(lens, T) = T \X (1..p)
    <2>1. 1..p \subseteq 1..Pow2[MaxCode]
      BY <1>3
    <2>2. \A c \in T \X (1..Pow2[MaxCode]) : Pow2[MaxCode - lens[c[1]]] = p
      BY <1>2
    <2>3. Cells(lens, T) = {c \in T \X (1..Pow2[MaxCode]) : c[2] <= p}
      BY <2>2 DEF Cells
    <2> QED
      BY <1>3, <2>1, <2>3
  <1>5. IsFiniteSet(1..p) /\ Cardinality(1..p) = p
    BY FS_Interval
  <1> QED
    BY <1>2, <1>4, <1>5, CellsFinite, FS_Product

LEMMA CellsSplit ==
  ASSUME NEW lens, IsLengths(lens), NEW T \in SUBSET DOMAIN lens, NEW U \in SUBSET DOMAIN lens,
         T \cap U = {}
  PROVE  Cardinality(Cells(lens, T \cup U)) = Cardinality(Cells(lens, T)) + Cardinality(Cells(lens, U))
  <1>1. Cells(lens, T \cup U) = Cells(lens, T) \cup Cells(lens, U)
    BY DEF Cells
  <1>2. Cells(lens, T) \cap Cells(lens, U) = {}
    BY DEF Cells
  <1>3. IsFiniteSet(Cells(lens, T)) /\ IsFiniteSet(Cells(lens, U))
    BY CellsFinite
  <1> QED
    BY <1>1, <1>2, <1>3, DisjointSizes

LEMMA ShareIs ==
  ASSUME NEW lens, IsLengths(lens), NEW S \in SUBSET DOMAIN lens
  PROVE  Share(lens, S) = Cardinality(Cells(lens, S))
  <1> DEFINE pick(s) == CHOOSE x \in s : TRUE
             wt(x) == Pow2[MaxCode - lens[x]]
             P(v) == v = [s \in SUBSET S |-> IF s = {} THEN 0 ELSE wt(pick(s)) + v[s \ {pick(s)}]]
             size(T) == Cardinality(Cells(lens, T))
             f == [T \in SUBSET S |-> size(T)]
  <1>1. Share(lens, S) = (CHOOSE v : P(v))[S]
    BY DEF Share, MapThenSumSet, MapThenFoldSet
  <1>2. ASSUME NEW T \in SUBSET S, NEW x \in T PROVE size(T) = wt(x) + size(T \ {x})
    <2>1. size({x}) = wt(x)
      <3>1. lens[x] \in 0..MaxCode /\ MaxCode - lens[x] \in Nat
        BY SizesAssumption DEF IsLengths
      <3>2. size({x}) = Cardinality({x}) * Pow2[MaxCode - lens[x]]
        BY <3>1, CellsLevel
      <3>3. Cardinality({x}) = 1 /\ Pow2[MaxCode - lens[x]] \in Nat
        BY <3>1, FS_Singleton, Pow2Is
      <3> QED
        BY <3>2, <3>3
    <2>2. T = {x} \cup (T \ {x})
      OBVIOUS
    <2>3. size({x} \cup (T \ {x})) = size({x}) + size(T \ {x})
      BY CellsSplit
    <2> QED
      BY <2>1, <2>2, <2>3
  <1>3. size({}) = 0
    <2>1. Cells(lens, {}) = {}
      BY DEF Cells
    <2> QED
      BY <2>1, FS_EmptySet
  <1>4. \A T \in SUBSET S : T # {} => pick(T) \in T
    OBVIOUS
  <1> HIDE DEF size, wt, pick
  <1>5. P(f)
    BY <1>2, <1>3, <1>4
  <1>6. P(CHOOSE v : P(v))
    <2> HIDE DEF P, f
    <2> QED
      BY <1>5
  <1>7. PICK v : v = CHOOSE u : P(u)
    OBVIOUS
  <1>8. \A T \in SUBSET S : v[T] = IF T = {} THEN 0 ELSE wt(pick(T)) + v[T \ {pick(T)}]
    BY <1>6, <1>7
  <1>9. v[S] = f[S]
    <2> DEFINE w == [x \in S |-> wt(x)]
    <2>1. Additive(f, w, S)
      BY <1>2, <1>3 DEF Additive
    <2>2. Picking(v, w, S)
      BY <1>4, <1>8 DEF Picking
    <2>3. IsFiniteSet(S)
      BY CellsFinite
    <2> HIDE DEF w, f
    <2> QED
      BY <2>1, <2>2, <2>3, SumIs
  <1> QED
    BY <1>1, <1>7, <1>9 DEF size

-------------------------------------------------------------------------------
(* Division.                                                               *)

LEMMA MulUp ==
  ASSUME NEW a \in Nat, NEW b \in Nat, NEW c \in Nat, a <= b
  PROVE  a * c <= b * c
  <1>1. PICK d \in Nat : b = a + d
    <2>1. b - a \in Nat /\ b = a + (b - a)
      OBVIOUS
    <2> QED
      BY <2>1
  <1>2. b * c = a * c + d * c
    BY <1>1
  <1>3. d * c \in Nat /\ a * c \in Nat
    OBVIOUS
  <1> QED
    BY <1>2, <1>3

LEMMA Divided ==
  ASSUME NEW x \in Nat, NEW p \in Nat \ {0}
  PROVE  x \div p \in Nat /\ x % p \in 0..(p - 1) /\ x = (x \div p) * p + (x % p)
  <1>1. p * (x \div p) + (x % p) = x
    BY Z3
  <1>2. x % p \in 0..(p - 1)
    BY Z3
  <1>3. x \div p \in Nat
    BY Z3
  <1> QED
    BY <1>1, <1>2, <1>3

LEMMA DivIs ==
  ASSUME NEW x \in Nat, NEW p \in Nat \ {0}, NEW q \in Nat, q * p <= x, x < (q + 1) * p
  PROVE  x \div p = q
  <1>1. PICK d \in Nat, m \in 0..(p - 1) : d = x \div p /\ x = d * p + m
    BY Divided
  <1>2. (d + 1) * p = d * p + p /\ d * p \in Nat /\ (q + 1) * p \in Nat /\ (d + 1) * p \in Nat
    OBVIOUS
  <1>3. CASE d < q
    <2>1. (d + 1) * p <= q * p
      BY <1>3, MulUp
    <2>2. q * p \in Nat
      OBVIOUS
    <2> QED
      BY <1>1, <1>2, <2>1, <2>2
  <1>4. CASE q < d
    <2>1. (q + 1) * p <= d * p
      BY <1>4, MulUp
    <2> QED
      BY <1>1, <1>2, <2>1
  <1> QED
    BY <1>1, <1>3, <1>4

LEMMA DivTimes ==
  ASSUME NEW a \in Nat, NEW p \in Nat \ {0}
  PROVE  (a * p) \div p = a
  <1>1. a * p \in Nat /\ (a + 1) * p = a * p + p
    OBVIOUS
  <1> QED
    BY <1>1, DivIs

\* Halving a quotient.
LEMMA DivHalf ==
  ASSUME NEW x \in Nat, NEW p \in Nat \ {0}
  PROVE  x \div p = 2 * (x \div (2 * p)) + ((x \div p) % 2)
  <1>1. PICK d \in Nat, m \in 0..(p - 1) : d = x \div p /\ x = d * p + m
    BY Divided
  <1>2. PICK h \in Nat, b \in 0..1 : d = 2 * h + b /\ b = d % 2
    <2>1. d \div 2 \in Nat /\ d % 2 \in 0..1 /\ d = 2 * (d \div 2) + (d % 2)
      OBVIOUS
    <2> QED
      BY <2>1
  <1>3. x \div (2 * p) = h
    <2>1. x = (2 * h + b) * p + m
      BY <1>1, <1>2
    <2>2. (2 * h + b) * p = h * (2 * p) + b * p /\ (h + 1) * (2 * p) = h * (2 * p) + 2 * p
      OBVIOUS
    <2>3. b * p \in 0..p /\ h * (2 * p) \in Nat
      <3>1. b = 0 \/ b = 1
        OBVIOUS
      <3> QED
        BY <3>1
    <2>4. h * (2 * p) <= x /\ x < (h + 1) * (2 * p)
      BY <2>1, <2>2, <2>3
    <2>5. 2 * p \in Nat \ {0}
      OBVIOUS
    <2> QED
      BY <2>4, <2>5, DivIs
  <1> QED
    BY <1>1, <1>2, <1>3

-------------------------------------------------------------------------------
(* Shares of the codes.                                                    *)

LEMMA ShareSum ==
  ASSUME NEW lens, IsLengths(lens), NEW T \in SUBSET DOMAIN lens, NEW U \in SUBSET DOMAIN lens,
         T \cap U = {}
  PROVE  /\ Share(lens, T) \in Nat /\ Share(lens, U) \in Nat
         /\ Share(lens, T \cup U) = Share(lens, T) + Share(lens, U)
  <1>1. T \cup U \in SUBSET DOMAIN lens
    OBVIOUS
  <1> QED
    BY <1>1, ShareIs, CellsFinite, CellsSplit

LEMMA ShareUp ==
  ASSUME NEW lens, IsLengths(lens), NEW U \in SUBSET DOMAIN lens, NEW T \in SUBSET U
  PROVE  Share(lens, T) \in Nat /\ Share(lens, U) \in Nat /\ Share(lens, T) <= Share(lens, U)
  <1>1. U \ T \in SUBSET DOMAIN lens /\ T \in SUBSET DOMAIN lens /\ T \cap (U \ T) = {}
    OBVIOUS
  <1>2. T \cup (U \ T) = U
    OBVIOUS
  <1>3. /\ Share(lens, T) \in Nat /\ Share(lens, U \ T) \in Nat
        /\ Share(lens, T \cup (U \ T)) = Share(lens, T) + Share(lens, U \ T)
    BY <1>1, ShareSum
  <1>4. Share(lens, U) = Share(lens, T) + Share(lens, U \ T)
    BY <1>2, <1>3, Zenon
  <1> QED
    BY <1>3, <1>4

LEMMA ShareLevel ==
  ASSUME NEW lens, IsLengths(lens), NEW L \in 0..MaxCode,
         NEW T \in SUBSET DOMAIN lens, \A s \in T : lens[s] = L
  PROVE  Cardinality(T) \in Nat /\ Share(lens, T) = Cardinality(T) * Pow2[MaxCode - L]
  <1>1. IsFiniteSet(T) /\ Share(lens, T) = Cardinality(Cells(lens, T))
    BY ShareIs, CellsFinite
  <1>2. Cardinality(T) \in Nat
    BY <1>1, FS_CardinalityType
  <1> QED
    BY <1>1, <1>2, CellsLevel

LEMMA ShareNone ==
  ASSUME NEW lens, IsLengths(lens)
  PROVE  Share(lens, {}) = 0
  <1>1. Cells(lens, {}) = {}
    BY DEF Cells
  <1> QED
    BY <1>1, ShareIs, FS_EmptySet

-------------------------------------------------------------------------------
(* Canonical codes: what the tables hold is what the format says, and both *)
(* decoders refuse just the lengths that ask for too many codes.           *)

Shorter(lens, L) == {t \in Coded(lens) : lens[t] < L}
Level(lens, L)   == {t \in DOMAIN lens : L > 0 /\ lens[t] = L}
Rank(lens, s)    == {t \in DOMAIN lens : t < s /\ lens[t] = lens[s]}
Number(lens, s)  == next_code(lens)[lens[s]] + Cardinality(Rank(lens, s))

LEMMA NextCodeIs ==
  ASSUME NEW lens, IsLengths(lens)
  PROVE  /\ next_code(lens)[0] = 0
         /\ \A L \in 0..MaxCode : next_code(lens)[L] \in Nat
         /\ \A L \in 1..MaxCode : next_code(lens)[L] = (next_code(lens)[L - 1] + bl(lens, L - 1)) * 2
  <1>1. PICK f : /\ f \in [0..MaxCode -> Nat] /\ f[0] = 0
                 /\ (\A k \in 0..MaxCode : next_code(lens)[k] = f[k])
                 /\ \A k \in 1..MaxCode : f[k] = (f[k - 1] + bl(lens, k - 1)) * 2
    BY NextCodeRec
  <1>2. 0 \in 0..MaxCode /\ \A L \in 1..MaxCode : L - 1 \in 0..MaxCode /\ L \in 0..MaxCode
    BY SizesAssumption
  <1> QED
    BY <1>1, <1>2

LEMMA LevelShare ==
  ASSUME NEW lens, IsLengths(lens), NEW L \in 1..MaxCode
  PROVE  /\ Level(lens, L) \in SUBSET DOMAIN lens /\ bl(lens, L) \in Nat
         /\ Share(lens, Level(lens, L)) = bl(lens, L) * Pow2[MaxCode - L]
         /\ Shorter(lens, L) \in SUBSET DOMAIN lens
         /\ Share(lens, Shorter(lens, L + 1))
              = Share(lens, Shorter(lens, L)) + Share(lens, Level(lens, L))
  <1>1. Level(lens, L) \in SUBSET DOMAIN lens /\ \A s \in Level(lens, L) : lens[s] = L
    BY DEF Level
  <1>2. L \in 0..MaxCode /\ L \in Nat
    OBVIOUS
  <1>3. bl(lens, L) = Cardinality(Level(lens, L))
    BY DEF bl, Level
  <1>4. Cardinality(Level(lens, L)) \in Nat
         /\ Share(lens, Level(lens, L)) = Cardinality(Level(lens, L)) * Pow2[MaxCode - L]
    BY <1>1, <1>2, ShareLevel
  <1>5. Shorter(lens, L) \in SUBSET DOMAIN lens
    BY DEF Shorter, Coded
  <1>6. Shorter(lens, L) \cap Level(lens, L) = {}
    <2>1. \A s \in DOMAIN lens : lens[s] \in Nat
      BY DEF IsLengths
    <2> QED
      BY <2>1 DEF Shorter, Coded, Level
  <1>7. Shorter(lens, L + 1) = Shorter(lens, L) \cup Level(lens, L)
    <2>1. \A s \in DOMAIN lens : lens[s] \in Nat
      BY DEF IsLengths
    <2> QED
      BY <2>1 DEF Shorter, Coded, Level
  <1> QED
    BY <1>1, <1>3, <1>4, <1>5, <1>6, <1>7, ShareSum

LEMMA FirstCode ==
  ASSUME NEW lens, IsLengths(lens), NEW L \in 1..MaxCode
  PROVE  Share(lens, Shorter(lens, L)) = next_code(lens)[L] * Pow2[MaxCode - L]
  <1> DEFINE Ok(K) == Share(lens, Shorter(lens, K)) = next_code(lens)[K] * Pow2[MaxCode - K]
             T == {k \in Nat : k + 1 <= MaxCode => Ok(k + 1)}
  <1>1. 0 \in T
    <2> SUFFICES ASSUME 1 <= MaxCode PROVE Ok(1)
      OBVIOUS
    <2>1. Shorter(lens, 1) = {}
      BY DEF Shorter, Coded, IsLengths
    <2>2. next_code(lens)[1] = (0 + bl(lens, 0)) * 2
      <3>1. 1 \in 1..MaxCode /\ 1 - 1 = 0
        BY SizesAssumption
      <3> QED
        BY <3>1, NextCodeIs
    <2>3. bl(lens, 0) = 0
      <3>1. {s \in DOMAIN lens : 0 > 0 /\ lens[s] = 0} = {}
        OBVIOUS
      <3> QED
        BY <3>1, FS_EmptySet DEF bl
    <2>4. Pow2[MaxCode - 1] \in Nat
      BY Pow2Is, SizesAssumption
    <2> QED
      BY <2>1, <2>2, <2>3, <2>4, ShareNone
  <1>2. ASSUME NEW k \in Nat, k \in T PROVE k + 1 \in T
    <2> SUFFICES ASSUME (k + 1) + 1 <= MaxCode PROVE Ok((k + 1) + 1)
      OBVIOUS
    <2>1. PICK K \in Nat : K = k + 1
      OBVIOUS
    <2>2. K \in 1..MaxCode /\ K + 1 \in 1..MaxCode /\ (K + 1) - 1 = K /\ K \in 0..MaxCode
      BY <2>1, SizesAssumption
    <2>3. Ok(K)
      <3>1. k + 1 <= MaxCode
        BY <2>1, <2>2
      <3> HIDE DEF Ok
      <3> QED
        BY <1>2, <2>1, <3>1
    <2>4. PICK q \in Nat : q = Pow2[MaxCode - (K + 1)] /\ Pow2[MaxCode - K] = 2 * q
      <3>1. MaxCode - (K + 1) \in Nat /\ (MaxCode - (K + 1)) + 1 = MaxCode - K
        BY <2>2, SizesAssumption
      <3> QED
        BY <3>1, Pow2Is
    <2>5. PICK f \in Nat, b \in Nat : /\ f = next_code(lens)[K] /\ b = bl(lens, K)
                                      /\ next_code(lens)[K + 1] = (f + b) * 2
      BY <2>2, NextCodeIs, LevelShare
    <2>6. Share(lens, Shorter(lens, K + 1)) = f * (2 * q) + b * (2 * q)
      BY <2>2, <2>3, <2>4, <2>5, LevelShare
    <2>7. f * (2 * q) + b * (2 * q) = ((f + b) * 2) * q
      OBVIOUS
    <2> QED
      BY <2>1, <2>4, <2>5, <2>6, <2>7
  <1> HIDE DEF T, Ok
  <1>3. L - 1 \in T
    BY <1>1, <1>2, NatInduct
  <1>4. (L - 1) + 1 = L /\ L <= MaxCode
    OBVIOUS
  <1>5. Ok(L)
    BY <1>3, <1>4 DEF T
  <1> QED
    BY <1>5 DEF Ok

LEMMA NumberIs ==
  ASSUME NEW lens, IsLengths(lens), NEW s \in Coded(lens)
  PROVE  /\ lens[s] \in 1..MaxCode /\ Number(lens, s) \in Nat
         /\ Before(lens, s) \in SUBSET Coded(lens) /\ Coded(lens) \in SUBSET DOMAIN lens
         /\ Share(lens, Before(lens, s)) = Number(lens, s) * Pow2[MaxCode - lens[s]]
  <1>1. lens[s] \in 1..MaxCode /\ s \in DOMAIN lens
    BY DEF Coded, IsLengths
  <1>2. \A t \in DOMAIN lens : lens[t] \in Nat /\ t \in Nat
    BY DEF IsLengths
  <1>3. Before(lens, s) = Shorter(lens, lens[s]) \cup Rank(lens, s)
    BY <1>1, <1>2 DEF Before, Shorter, Rank, Coded
  <1>4. Shorter(lens, lens[s]) \cap Rank(lens, s) = {}
    BY <1>1, <1>2 DEF Shorter, Rank, Coded
  <1>5. Rank(lens, s) \in SUBSET DOMAIN lens /\ \A t \in Rank(lens, s) : lens[t] = lens[s]
    BY DEF Rank
  <1>6. /\ Cardinality(Rank(lens, s)) \in Nat
        /\ Share(lens, Rank(lens, s)) = Cardinality(Rank(lens, s)) * Pow2[MaxCode - lens[s]]
    <2>1. lens[s] \in 0..MaxCode
      BY <1>1
    <2> QED
      BY <1>5, <2>1, ShareLevel
  <1>7. Shorter(lens, lens[s]) \in SUBSET DOMAIN lens
    BY DEF Shorter, Coded
  <1>8. Share(lens, Before(lens, s)) = Share(lens, Shorter(lens, lens[s])) + Share(lens, Rank(lens, s))
    BY <1>3, <1>4, <1>5, <1>7, ShareSum
  <1>9. Share(lens, Shorter(lens, lens[s])) = next_code(lens)[lens[s]] * Pow2[MaxCode - lens[s]]
    BY <1>1, FirstCode
  <1>10. PICK f \in Nat, c \in Nat, p \in Nat :
           f = next_code(lens)[lens[s]] /\ c = Cardinality(Rank(lens, s)) /\ p = Pow2[MaxCode - lens[s]]
    <2>1. next_code(lens)[lens[s]] \in Nat
      BY <1>1, NextCodeIs
    <2>2. Pow2[MaxCode - lens[s]] \in Nat
      BY <1>1, SizesAssumption, Pow2Is
    <2> QED
      BY <1>6, <2>1, <2>2
  <1>11. f * p + c * p = (f + c) * p
    OBVIOUS
  <1> QED
    BY <1>1, <1>6, <1>8, <1>9, <1>10, <1>11 DEF Number, Before, Coded

\* Place of a code's last bit among the codes of the greatest length.
LEMMA PowPos ==
  ASSUME NEW n \in Nat, NEW m \in 0..n
  PROVE  Pow2[n - m] \in Nat \ {0} /\ Pow2[m] \in Nat \ {0} /\ Pow2[n] = Pow2[m] * Pow2[n - m]
  <1>1. n - m \in Nat /\ m \in Nat /\ m + (n - m) = n
    OBVIOUS
  <1> QED
    BY <1>1, Pow2Is, Pow2Sum

LEMMA CodeIs ==
  ASSUME NEW lens, IsLengths(lens), NEW s \in Coded(lens)
  PROVE  Code(lens, s) = [k \in 1..lens[s] |-> (Number(lens, s) \div Pow2[lens[s] - k]) % 2]
  <1>1. PICK v : v = Share(lens, Before(lens, s)) \div Pow2[MaxCode - lens[s]]
    OBVIOUS
  <1>2. v = Number(lens, s)
    <2>1. Pow2[MaxCode - lens[s]] \in Nat \ {0}
      BY NumberIs, SizesAssumption, PowPos
    <2> QED
      BY <1>1, <2>1, NumberIs, DivTimes
  <1>3. Code(lens, s) = [k \in 1..lens[s] |-> (v \div Pow2[lens[s] - k]) % 2]
    BY <1>1 DEF Code
  <1> QED
    BY <1>2, <1>3

\* The tables of the decoders are the codes of the format.
LEMMA WiresIs ==
  ASSUME NEW lens, IsLengths(lens)
  PROVE  Wires(lens) = Codes(lens)
  <1>1. \A s \in Coded(lens) : Code(lens, s)
          = [k \in 1..lens[s] |-> (Number(lens, s) \div Pow2[lens[s] - k]) % 2]
    BY CodeIs
  <1>2. Wires(lens) = [s \in Coded(lens) |->
                         [k \in 1..lens[s] |-> (Number(lens, s) \div Pow2[lens[s] - k]) % 2]]
    BY DEF Wires, Number, Rank
  <1> HIDE DEF Number
  <1> QED
    BY <1>1, <1>2 DEF Codes

\* Where a code ends, among the codes of the greatest length.
LEMMA Through ==
  ASSUME NEW lens, IsLengths(lens), NEW s \in Coded(lens)
  PROVE  /\ Before(lens, s) \cup {s} \in SUBSET Coded(lens)
         /\ Share(lens, Before(lens, s) \cup {s}) = (Number(lens, s) + 1) * Pow2[MaxCode - lens[s]]
  <1>1. lens[s] \in 1..MaxCode /\ lens[s] \in 0..MaxCode /\ MaxCode \in Nat
    BY NumberIs, SizesAssumption
  <1>2. PICK p \in Nat \ {0}, c \in Nat : p = Pow2[MaxCode - lens[s]] /\ c = Number(lens, s)
    <2>1. Pow2[MaxCode - lens[s]] \in Nat \ {0}
      BY <1>1, PowPos
    <2>2. Number(lens, s) \in Nat
      BY NumberIs
    <2> QED
      BY <2>1, <2>2
  <1>3. {s} \in SUBSET DOMAIN lens /\ Before(lens, s) \in SUBSET DOMAIN lens
    BY NumberIs DEF Coded
  <1>4. Before(lens, s) \cap {s} = {}
    <2>1. lens[s] \in Nat /\ s \in Nat
      BY DEF Coded, IsLengths
    <2> QED
      BY <2>1 DEF Before
  <1>5. Share(lens, {s}) = 1 * p
    <2>1. Cardinality({s}) = 1
      BY FS_Singleton
    <2> QED
      BY <1>1, <1>2, <1>3, <2>1, ShareLevel
  <1>6. Share(lens, Before(lens, s) \cup {s}) = Share(lens, Before(lens, s)) + Share(lens, {s})
    BY <1>3, <1>4, ShareSum
  <1>7. Share(lens, Before(lens, s)) = c * p
    BY <1>2, NumberIs
  <1>8. c * p + 1 * p = (c + 1) * p
    OBVIOUS
  <1>9. Before(lens, s) \cup {s} \in SUBSET Coded(lens)
    BY NumberIs
  <1> QED
    BY <1>2, <1>5, <1>6, <1>7, <1>8, <1>9

\* A code's number has no more bits than the code.
LEMMA NumberFits ==
  ASSUME NEW lens, IsLengths(lens), ~Oversubscribed(lens), NEW s \in Coded(lens)
  PROVE  Number(lens, s) < Pow2[lens[s]]
  <1>1. lens[s] \in 1..MaxCode /\ lens[s] \in 0..MaxCode /\ MaxCode \in Nat
    BY NumberIs, SizesAssumption
  <1>2. PICK p \in Nat \ {0}, c \in Nat, e \in Nat :
          /\ p = Pow2[MaxCode - lens[s]] /\ c = Number(lens, s) /\ e = Pow2[lens[s]]
          /\ Pow2[MaxCode] = e * p
    <2>1. /\ Pow2[MaxCode - lens[s]] \in Nat \ {0} /\ Pow2[lens[s]] \in Nat
          /\ Pow2[MaxCode] = Pow2[lens[s]] * Pow2[MaxCode - lens[s]]
      BY <1>1, PowPos
    <2>2. Number(lens, s) \in Nat
      BY NumberIs
    <2> QED
      BY <2>1, <2>2
  <1>3. Share(lens, Before(lens, s) \cup {s}) = c * p + p
    <2>1. (c + 1) * p = c * p + p
      OBVIOUS
    <2> QED
      BY <1>2, <2>1, Through
  <1>4. Share(lens, Before(lens, s) \cup {s}) <= Share(lens, Coded(lens))
    <2>1. Before(lens, s) \cup {s} \in SUBSET Coded(lens) /\ Coded(lens) \in SUBSET DOMAIN lens
      BY NumberIs
    <2> QED
      BY <2>1, ShareUp
  <1>5. Share(lens, Coded(lens)) <= e * p
    <2>1. Share(lens, Coded(lens)) \in Nat
      BY NumberIs, ShareUp
    <2> QED
      BY <1>2, <2>1 DEF Oversubscribed
  <1>6. CASE c < e
    BY <1>2, <1>6
  <1>7. CASE e <= c
    <2>1. e * p <= c * p /\ e * p \in Nat /\ c * p \in Nat
      BY <1>7, MulUp
    <2>2. Share(lens, Coded(lens)) \in Nat
      BY NumberIs, ShareUp
    <2> QED
      BY <1>2, <1>3, <1>4, <1>5, <2>1, <2>2
  <1> QED
    BY <1>6, <1>7

\* The first i bits of two codes agree just where the numbers they make do.
LEMMA SameBits ==
  ASSUME NEW x \in Nat, NEW y \in Nat, NEW a \in Nat, NEW b \in Nat, a <= b,
         x < Pow2[a], y < Pow2[b],
         \A k \in 1..a : (x \div Pow2[a - k]) % 2 = (y \div Pow2[b - k]) % 2
  PROVE  x = y \div Pow2[b - a]
  <1> DEFINE Ok(i) == x \div Pow2[a - i] = y \div Pow2[b - i]
             T == {i \in Nat : i <= a => Ok(i)}
  <1>1. 0 \in T
    <2>1. Pow2[a] \in Nat \ {0} /\ Pow2[b] \in Nat \ {0} /\ a - 0 = a /\ b - 0 = b
      BY Pow2Is
    <2>2. x \div Pow2[a] = 0 /\ y \div Pow2[b] = 0
      BY <2>1, DivIs
    <2> QED
      BY <2>1, <2>2
  <1>2. ASSUME NEW i \in Nat, i \in T PROVE i + 1 \in T
    <2> SUFFICES ASSUME i + 1 <= a PROVE Ok(i + 1)
      OBVIOUS
    <2>1. PICK p \in Nat \ {0} : p = Pow2[a - (i + 1)] /\ Pow2[a - i] = 2 * p
      <3>1. a - (i + 1) \in Nat /\ (a - (i + 1)) + 1 = a - i
        OBVIOUS
      <3> QED
        BY <3>1, Pow2Is
    <2>2. PICK q \in Nat \ {0} : q = Pow2[b - (i + 1)] /\ Pow2[b - i] = 2 * q
      <3>1. b - (i + 1) \in Nat /\ (b - (i + 1)) + 1 = b - i
        OBVIOUS
      <3> QED
        BY <3>1, Pow2Is
    <2>3. x \div (2 * p) = y \div (2 * q)
      <3>1. i <= a
        OBVIOUS
      <3>2. Ok(i)
        BY <1>2, <3>1
      <3> QED
        BY <2>1, <2>2, <3>2
    <2>4. (x \div p) % 2 = (y \div q) % 2
      <3>1. i + 1 \in 1..a
        OBVIOUS
      <3> QED
        BY <2>1, <2>2, <3>1
    <2>5. x \div p = 2 * (x \div (2 * p)) + ((x \div p) % 2)
      BY DivHalf
    <2>6. y \div q = 2 * (y \div (2 * q)) + ((y \div q) % 2)
      BY DivHalf
    <2>7. x \div p = y \div q
      BY <2>3, <2>4, <2>5, <2>6
    <2> QED
      BY <2>1, <2>2, <2>7
  <1> HIDE DEF T, Ok
  <1>3. a \in T
    BY <1>1, <1>2, NatInduct
  <1>4. Ok(a)
    BY <1>3 DEF T
  <1>5. Pow2[a - a] = 1 /\ x \div 1 = x
    <2>1. a - a = 0
      OBVIOUS
    <2> QED
      BY <2>1, Pow2Is
  <1> QED
    BY <1>4, <1>5 DEF Ok

\* The codes before a code end where it starts.
LEMMA Apart ==
  ASSUME NEW lens, IsLengths(lens), NEW s \in Coded(lens), NEW t \in Coded(lens), s \in Before(lens, t)
  PROVE  (Number(lens, s) + 1) * Pow2[MaxCode - lens[s]] <= Number(lens, t) * Pow2[MaxCode - lens[t]]
  <1>1. Share(lens, Before(lens, s) \cup {s}) <= Share(lens, Before(lens, t))
    <2>1. Before(lens, s) \cup {s} \subseteq Before(lens, t)
      <3>1. \A u \in Coded(lens) : lens[u] \in Nat /\ u \in Nat
        BY DEF Coded, IsLengths
      <3> QED
        BY <3>1 DEF Before
    <2>2. Before(lens, t) \in SUBSET DOMAIN lens
      BY NumberIs
    <2> QED
      BY <2>1, <2>2, ShareUp
  <1>2. Share(lens, Before(lens, t)) = Number(lens, t) * Pow2[MaxCode - lens[t]]
    BY NumberIs
  <1> QED
    BY <1>1, <1>2, Through

\* No code is the beginning of another.
LEMMA PrefixFree ==
  ASSUME NEW lens, IsLengths(lens), ~Oversubscribed(lens), NEW s \in Coded(lens), NEW t \in Coded(lens),
         lens[s] <= lens[t], \A k \in 1..lens[s] : Code(lens, s)[k] = Code(lens, t)[k]
  PROVE  s = t
  <1>1. PICK a \in 1..MaxCode, b \in 1..MaxCode, x \in Nat, y \in Nat :
          a = lens[s] /\ b = lens[t] /\ x = Number(lens, s) /\ y = Number(lens, t)
    BY NumberIs
  <1>2. MaxCode \in Nat /\ a \in Nat /\ b \in Nat /\ a <= b
    BY <1>1, SizesAssumption
  <1>3. x < Pow2[a] /\ y < Pow2[b]
    BY <1>1, NumberFits
  <1>4. \A k \in 1..a : (x \div Pow2[a - k]) % 2 = (y \div Pow2[b - k]) % 2
    <2> TAKE k \in 1..a
    <2>1. k \in 1..b
      BY <1>2
    <2>2. Code(lens, s)[k] = (x \div Pow2[a - k]) % 2
      BY <1>1, CodeIs
    <2>3. Code(lens, t)[k] = (y \div Pow2[b - k]) % 2
      BY <1>1, <2>1, CodeIs
    <2> QED
      BY <1>1, <2>2, <2>3
  <1>5. x = y \div Pow2[b - a]
    BY <1>2, <1>3, <1>4, SameBits
  <1>6. PICK d \in Nat \ {0}, q \in Nat \ {0} :
          d = Pow2[b - a] /\ q = Pow2[MaxCode - b] /\ Pow2[MaxCode - a] = d * q
    <2>1. b - a \in Nat /\ MaxCode - b \in Nat /\ (b - a) + (MaxCode - b) = MaxCode - a
      BY <1>1, <1>2
    <2>2. Pow2[b - a] \in Nat \ {0} /\ Pow2[MaxCode - b] \in Nat \ {0}
      BY <2>1, Pow2Is
    <2>3. Pow2[MaxCode - a] = Pow2[b - a] * Pow2[MaxCode - b]
      BY <2>1, Pow2Sum
    <2> QED
      BY <2>2, <2>3
  <1>7. x * d <= y /\ y < (x + 1) * d
    <2>1. PICK m \in 0..(d - 1) : y = x * d + m
      <3>1. y \div d \in Nat /\ y % d \in 0..(d - 1) /\ y = (y \div d) * d + (y % d)
        BY Divided
      <3>2. x = y \div d
        BY <1>5, <1>6
      <3>3. y = x * d + (y % d)
        BY <3>1, <3>2, Zenon
      <3> QED
        BY <3>1, <3>3
    <2>2. (x + 1) * d = x * d + d /\ x * d \in Nat
      OBVIOUS
    <2> QED
      BY <2>1, <2>2
  <1>8. s \notin Before(lens, t)
    <2> SUFFICES ASSUME s \in Before(lens, t) PROVE FALSE
      OBVIOUS
    <2>1. (x + 1) * (d * q) <= y * q
      BY <1>1, <1>6, Apart
    <2>2. y + 1 <= (x + 1) * d /\ (x + 1) * d \in Nat
      BY <1>7
    <2>3. (y + 1) * q <= ((x + 1) * d) * q
      BY <2>2, MulUp
    <2>4. ((x + 1) * d) * q = (x + 1) * (d * q) /\ (y + 1) * q = y * q + q
      OBVIOUS
    <2>5. y * q \in Nat /\ (x + 1) * (d * q) \in Nat
      OBVIOUS
    <2> QED
      BY <2>1, <2>3, <2>4, <2>5
  <1>9. t \notin Before(lens, s)
    <2> SUFFICES ASSUME t \in Before(lens, s) PROVE FALSE
      OBVIOUS
    <2>1. a = b
      BY <1>1, <1>2 DEF Before
    <2>2. d = 1
      <3>1. b - a = 0
        BY <1>2, <2>1
      <3> QED
        BY <1>6, <3>1, Pow2Is
    <2>3. (y + 1) * q <= x * q
      <3>1. Pow2[MaxCode - lens[t]] = q /\ Pow2[MaxCode - lens[s]] = q
        BY <1>1, <1>6, <2>1
      <3> QED
        BY <1>1, <3>1, Apart
    <2>4. x = y
      BY <1>7, <2>2
    <2>5. (y + 1) * q = y * q + q /\ y * q \in Nat
      OBVIOUS
    <2> QED
      BY <2>3, <2>4, <2>5
  <1>10. s \in Nat /\ t \in Nat
    BY DEF Coded, IsLengths
  <1> QED
    BY <1>1, <1>2, <1>8, <1>9, <1>10 DEF Before

LEMMA PrefixIs ==
  ASSUME NEW B, NEW s \in Seq(B), NEW t \in Seq(B)
  PROVE  IsPrefix(s, t) <=> Len(s) <= Len(t) /\ \A k \in 1..Len(s) : s[k] = t[k]
  <1>1. CASE ~(Len(s) <= Len(t))
    BY <1>1 DEF IsPrefix
  <1>2. CASE Len(s) <= Len(t)
    <2>1. /\ SubSeq(s, 1, Len(s)) \in Seq(B) /\ SubSeq(t, 1, Len(s)) \in Seq(B)
          /\ Len(SubSeq(s, 1, Len(s))) = Len(s) /\ Len(SubSeq(t, 1, Len(s))) = Len(s)
          /\ \A k \in 1..Len(s) : SubSeq(s, 1, Len(s))[k] = s[k] /\ SubSeq(t, 1, Len(s))[k] = t[k]
      BY <1>2
    <2>2. ASSUME \A k \in 1..Len(s) : s[k] = t[k] PROVE SubSeq(s, 1, Len(s)) = SubSeq(t, 1, Len(s))
      BY <2>1, <2>2, SameSeq
    <2> QED
      BY <1>2, <2>1, <2>2 DEF IsPrefix
  <1> QED
    BY <1>1, <1>2

LEMMA CodeType ==
  ASSUME NEW lens, IsLengths(lens), NEW s \in Coded(lens)
  PROVE  Code(lens, s) \in Seq({0, 1}) /\ Len(Code(lens, s)) = lens[s] /\ lens[s] \in 1..MaxCode
  <1>1. PICK n \in Nat, x \in Nat : n = lens[s] /\ x = Number(lens, s) /\ n \in 1..MaxCode
    BY NumberIs
  <1>2. Code(lens, s) = [k \in 1..n |-> (x \div Pow2[n - k]) % 2]
    BY <1>1, CodeIs
  <1>3. ASSUME NEW k \in 1..n PROVE (x \div Pow2[n - k]) % 2 \in {0, 1}
    <2>1. Pow2[n - k] \in Nat \ {0}
      BY Pow2Is
    <2>2. x \div Pow2[n - k] \in Nat
      BY <2>1, Divided
    <2> QED
      BY <2>2
  <1> QED
    BY <1>1, <1>2, <1>3

\* The codes of lengths that do not ask for too many are a good tree.
LEMMA CodesTree ==
  ASSUME NEW lens, IsLengths(lens), ~Oversubscribed(lens)
  PROVE  TreeOk(Codes(lens))
  <1>1. DOMAIN Codes(lens) = Coded(lens) /\ \A s \in Coded(lens) : Codes(lens)[s] = Code(lens, s)
    BY DEF Codes
  <1>2. Coded(lens) \subseteq Nat
    BY DEF Coded, IsLengths
  <1>3. ASSUME NEW s \in Coded(lens), NEW t \in Coded(lens), IsPrefix(Code(lens, s), Code(lens, t))
        PROVE  s = t
    <2>1. /\ Code(lens, s) \in Seq({0, 1}) /\ Code(lens, t) \in Seq({0, 1})
          /\ Len(Code(lens, s)) = lens[s] /\ Len(Code(lens, t)) = lens[t]
      BY CodeType
    <2>2. lens[s] <= lens[t] /\ \A k \in 1..lens[s] : Code(lens, s)[k] = Code(lens, t)[k]
      BY <1>3, <2>1, PrefixIs
    <2> QED
      BY <2>2, PrefixFree
  <1> QED
    BY <1>1, <1>2, <1>3, CodeType DEF TreeOk

LEMMA LevelsShare ==
  ASSUME NEW lens, IsLengths(lens)
  PROVE  MapThenSumSet(LAMBDA L : bl(lens, L) * Pow2[MaxCode - L], 1..MaxCode)
           = Share(lens, Coded(lens))
  <1> DEFINE S == 1..MaxCode
             pick(s) == CHOOSE x \in s : TRUE
             wt(L) == bl(lens, L) * Pow2[MaxCode - L]
             P(v) == v = [s \in SUBSET S |-> IF s = {} THEN 0 ELSE wt(pick(s)) + v[s \ {pick(s)}]]
             at(T) == {s \in DOMAIN lens : lens[s] \in T}
             f == [T \in SUBSET S |-> Share(lens, at(T))]
             w == [L \in S |-> wt(L)]
  <1>1. MapThenSumSet(LAMBDA L : bl(lens, L) * Pow2[MaxCode - L], 1..MaxCode)
          = (CHOOSE v : P(v))[S]
    BY DEF MapThenSumSet, MapThenFoldSet
  <1>2. ASSUME NEW T \in SUBSET S, NEW L \in T
        PROVE  Share(lens, at(T)) = wt(L) + Share(lens, at(T \ {L}))
    <2>1. L \in 1..MaxCode
      OBVIOUS
    <2>2. at(T) = Level(lens, L) \cup at(T \ {L})
      BY <2>1 DEF Level
    <2>3. Level(lens, L) \cap at(T \ {L}) = {}
      BY DEF Level
    <2>4. at(T \ {L}) \in SUBSET DOMAIN lens
      OBVIOUS
    <2>5. /\ Level(lens, L) \in SUBSET DOMAIN lens
          /\ Share(lens, Level(lens, L)) = wt(L)
      BY <2>1, LevelShare
    <2> HIDE DEF at
    <2>6. Share(lens, Level(lens, L) \cup at(T \ {L}))
            = Share(lens, Level(lens, L)) + Share(lens, at(T \ {L}))
      BY <2>3, <2>4, <2>5, ShareSum
    <2> QED
      BY <2>2, <2>5, <2>6
  <1>3. Share(lens, at({})) = 0
    <2>1. at({}) = {}
      OBVIOUS
    <2> HIDE DEF at
    <2> QED
      BY <2>1, ShareNone
  <1>4. \A T \in SUBSET S : T # {} => pick(T) \in T
    OBVIOUS
  <1>5. at(S) = Coded(lens)
    <2>1. \A s \in DOMAIN lens : lens[s] \in 0..MaxCode
      BY DEF IsLengths
    <2> QED
      BY <2>1, SizesAssumption DEF Coded
  <1>6. IsFiniteSet(S)
    BY SizesAssumption, FS_Interval
  <1> HIDE DEF at, wt, pick, S
  <1>7. PICK v : P(v) /\ v = CHOOSE u : P(u)
    <2>1. \E u : P(u)
      <3> DEFINE Q(T) == Share(lens, at(T))
      <3>1. P([T \in SUBSET S |-> Q(T)])
        <4>1. \A T \in SUBSET S : \A L \in T : Q(T) = wt(L) + Q(T \ {L})
          BY <1>2
        <4>2. Q({}) = 0
          BY <1>3
        <4> HIDE DEF Q
        <4> QED
          BY <1>4, <4>1, <4>2
      <3> HIDE DEF P
      <3> QED
        BY <3>1
    <2> HIDE DEF P
    <2> QED
      BY <2>1
  <1>8. \A T \in SUBSET S : v[T] = IF T = {} THEN 0 ELSE wt(pick(T)) + v[T \ {pick(T)}]
    BY <1>7
  <1>9. Additive(f, w, S)
    BY <1>2, <1>3 DEF Additive
  <1>10. Picking(v, w, S)
    BY <1>4, <1>8 DEF Picking
  <1>11. v[S] = f[S]
    <2> HIDE DEF f, w, P
    <2> QED
      BY <1>6, <1>9, <1>10, SumIs
  <1>12. f[S] = Share(lens, at(S))
    OBVIOUS
  <1> HIDE DEF f, P
  <1> QED
    BY <1>1, <1>5, <1>7, <1>11, <1>12

\* The native decoder refuses just the lengths that ask for too many codes:
\* where they do not, no table entry is asked for by codes of two lengths.
LEMMA NativeTables ==
  ASSUME NEW lens, IsLengths(lens)
  PROVE  huff_build(lens) <=> ~Oversubscribed(lens)
  <1>1. Share(lens, Coded(lens)) \in Nat /\ Pow2[MaxCode] \in Nat
    <2>1. Coded(lens) \in SUBSET DOMAIN lens
      BY DEF Coded
    <2> QED
      BY <2>1, ShareUp, Pow2Is, SizesAssumption
  <1>2. ~Oversubscribed(lens) <=> Share(lens, Coded(lens)) <= Pow2[MaxCode]
    BY <1>1 DEF Oversubscribed
  <1>3. ASSUME ~Oversubscribed(lens) PROVE ~Clash(lens)
    <2> SUFFICES ASSUME Clash(lens) PROVE FALSE
      OBVIOUS
    <2>1. PICK s \in Coded(lens), t \in Coded(lens) :
            lens[s] < lens[t] /\ IsPrefix(Wires(lens)[s], Wires(lens)[t])
      BY DEF Clash
    <2>2. Wires(lens)[s] = Codes(lens)[s] /\ Wires(lens)[t] = Codes(lens)[t]
      BY WiresIs
    <2>3. DOMAIN Codes(lens) = Coded(lens)
      BY DEF Codes
    <2>4. s = t
      BY <1>3, <2>1, <2>2, <2>3, CodesTree DEF TreeOk
    <2>5. lens[s] \in Nat
      BY NumberIs
    <2> QED
      BY <2>1, <2>4, <2>5
  <1> QED
    BY <1>2, <1>3, LevelsShare DEF huff_build

\* So does Python, which counts the codes of each length.
LEMMA PythonTables ==
  ASSUME NEW lens, IsLengths(lens)
  PROVE  codes_lsb(lens) <=> ~Oversubscribed(lens)
  <1>1. Coded(lens) \in SUBSET DOMAIN lens /\ MaxCode \in Nat
    BY SizesAssumption DEF Coded
  <1>2. Share(lens, Coded(lens)) \in Nat /\ Pow2[MaxCode] \in Nat
    BY <1>1, ShareUp, Pow2Is
  <1>3. ASSUME NEW L \in 1..MaxCode
        PROVE  /\ next_code(lens)[L] + bl(lens, L) \in Nat
               /\ Share(lens, Shorter(lens, L + 1))
                    = (next_code(lens)[L] + bl(lens, L)) * Pow2[MaxCode - L]
    <2>1. PICK f \in Nat, b \in Nat, p \in Nat :
            f = next_code(lens)[L] /\ b = bl(lens, L) /\ p = Pow2[MaxCode - L]
      <3>1. L \in 0..MaxCode
        OBVIOUS
      <3>2. Pow2[MaxCode - L] \in Nat
        BY <1>1, PowPos
      <3>3. next_code(lens)[L] \in Nat
        BY <3>1, NextCodeIs
      <3> QED
        BY <3>2, <3>3, LevelShare
    <2>2. Share(lens, Shorter(lens, L + 1)) = f * p + b * p
      BY <2>1, FirstCode, LevelShare
    <2>3. f * p + b * p = (f + b) * p
      OBVIOUS
    <2> QED
      BY <2>1, <2>2, <2>3
  <1>4. ASSUME ~Oversubscribed(lens), NEW L \in 1..MaxCode
        PROVE  next_code(lens)[L] + bl(lens, L) <= Pow2[L]
    <2>1. PICK c \in Nat, p \in Nat \ {0}, e \in Nat :
            /\ c = next_code(lens)[L] + bl(lens, L) /\ p = Pow2[MaxCode - L] /\ e = Pow2[L]
            /\ Pow2[MaxCode] = e * p
      <3>1. /\ Pow2[MaxCode - L] \in Nat \ {0} /\ Pow2[L] \in Nat
            /\ Pow2[MaxCode] = Pow2[L] * Pow2[MaxCode - L]
        BY <1>1, PowPos
      <3> QED
        BY <1>3, <3>1
    <2>2. Share(lens, Shorter(lens, L + 1)) <= Share(lens, Coded(lens))
      <3>1. Shorter(lens, L + 1) \in SUBSET Coded(lens)
        BY DEF Shorter
      <3> QED
        BY <1>1, <3>1, ShareUp
    <2>3. c * p <= e * p
      <3>1. Share(lens, Coded(lens)) <= e * p
        BY <1>2, <1>4, <2>1 DEF Oversubscribed
      <3>2. Share(lens, Shorter(lens, L + 1)) = c * p
        BY <1>3, <2>1
      <3> QED
        BY <1>2, <2>2, <3>1, <3>2
    <2>4. CASE c > e
      <3>1. (e + 1) * p <= c * p
        BY <2>4, MulUp
      <3>2. (e + 1) * p = e * p + p /\ e * p \in Nat /\ c * p \in Nat
        OBVIOUS
      <3> QED
        BY <2>3, <3>1, <3>2
    <2> QED
      BY <2>1, <2>4
  <1>5. ASSUME codes_lsb(lens) PROVE ~Oversubscribed(lens)
    <2>1. MaxCode \in 1..MaxCode /\ MaxCode - MaxCode = 0
      BY SizesAssumption
    <2>2. Shorter(lens, MaxCode + 1) = Coded(lens)
      <3>1. \A s \in DOMAIN lens : lens[s] \in 0..MaxCode
        BY DEF IsLengths
      <3> QED
        BY <1>1, <3>1 DEF Shorter, Coded
    <2>3. PICK c \in Nat : /\ c = next_code(lens)[MaxCode] + bl(lens, MaxCode)
                           /\ Share(lens, Coded(lens)) = c * Pow2[0]
      BY <1>3, <2>1, <2>2
    <2>4. c <= Pow2[MaxCode]
      BY <1>5, <2>1, <2>3 DEF codes_lsb
    <2> QED
      BY <1>2, <2>3, <2>4, Pow2Is DEF Oversubscribed
  <1> QED
    BY <1>4, <1>5 DEF codes_lsb

-------------------------------------------------------------------------------
(* Dynamic headers.                                                        *)

HeaderOk(h) ==
  /\ h \in Headers /\ h.lit \in (EndOfBlock + 1)..AllLiterals /\ h.dist > 0
  /\ \A k \in DOMAIN h.runs :
       IF h.runs[k][1] = "len" THEN h.runs[k][2] <= MaxCode ELSE h.runs[k][2] > 0

Kinds == {"len", "copy", "zero"}

LEMMA LastIn ==
  ASSUME NEW B, NEW s \in Seq(B), s # <<>>
  PROVE  Last(s) \in B
  <1>1. Len(s) \in 1..Len(s)
    OBVIOUS
  <1> QED
    BY <1>1 DEF Last

LEMMA CatLonger ==
  ASSUME NEW B, NEW s \in Seq(B), NEW t \in Seq(B), Len(t) > 0
  PROVE  /\ s \o t \in Seq(B) /\ s \o t # <<>>
         /\ Len(s) \in Nat /\ Len(s \o t) \in Nat /\ Len(s) <= Len(s \o t)
  OBVIOUS

LEMMA RunIs ==
  ASSUME NEW got \in Seq(0..MaxCode), NEW c \in Kinds \X Nat,
         IF c[1] = "len" THEN c[2] <= MaxCode ELSE c[2] > 0,
         got # <<>> \/ c[1] # "copy"
  PROVE  Run(got, c) \in Seq(0..MaxCode) /\ Len(Run(got, c)) > 0
  <1>1. c[2] \in Nat /\ MaxCode \in Nat
    BY SizesAssumption
  <1>2. CASE c[1] = "len"
    <2>1. c[2] \in 0..MaxCode
      BY <1>1, <1>2
    <2>2. Run(got, c) = <<c[2]>>
      BY <1>2 DEF Run
    <2> QED
      BY <2>1, <2>2
  <1>3. CASE c[1] # "len"
    <2>1. PICK v \in 0..MaxCode : v = IF c[1] = "copy" THEN Last(got) ELSE 0
      <3>1. CASE got = <<>>
        BY <1>1, <3>1
      <3>2. CASE got # <<>>
        <4>1. Last(got) \in 0..MaxCode
          BY <3>2, LastIn
        <4> QED
          BY <1>1, <4>1
      <3> QED
        BY <3>1, <3>2
    <2>2. Run(got, c) = [j \in 1..c[2] |-> v]
      BY <1>3, <2>1 DEF Run
    <2>3. PICK n \in Nat : n = c[2] /\ n > 0
      BY <1>1, <1>3
    <2>4. [j \in 1..n |-> v] \in Seq(0..MaxCode) /\ Len([j \in 1..n |-> v]) = n
      BY ConstSeq
    <2> QED
      BY <2>2, <2>3, <2>4
  <1> QED
    BY <1>2, <1>3

\* Every run adds lengths, so the lengths of a part of the runs are not more
\* than those of all of them.
LEMMA ExpandIs ==
  ASSUME NEW h, HeaderOk(h), Started(h)
  PROVE  /\ Expand(h.runs) \in Seq(0..MaxCode)
         /\ \A k \in 1..Len(h.runs) : Len(Expand(SubSeq(h.runs, 1, k))) <= Len(Expand(h.runs))
         /\ Len(h.runs) \in 1..Len(h.runs) /\ SubSeq(h.runs, 1, Len(h.runs)) = h.runs
  <1>1. PICK runs \in Seq(Kinds \X Nat) : runs = h.runs
    BY DEF HeaderOk, Headers, Kinds
  <1>2. PICK n \in Nat \ {0} : n = Len(runs)
    BY <1>1 DEF Started
  <1>3. PICK f : /\ f \in [0..n -> Seq(Nat \cup {Last(<<>>)})] /\ f[0] = <<>> /\ Expand(runs) = f[n]
                 /\ \A k \in 1..n : f[k] = f[k - 1] \o Run(f[k - 1], runs[k])
    BY <1>2, ExpandRec DEF Kinds
  <1> DEFINE Ok(k) == /\ f[k] \in Seq(0..MaxCode) /\ (k > 0 => f[k] # <<>>)
                      /\ \A j \in 0..k : Len(f[j]) <= Len(f[k])
             T == {k \in Nat : k <= n => Ok(k)}
  <1>4. 0 \in T
    BY <1>3
  <1>5. ASSUME NEW k \in Nat, k \in T PROVE k + 1 \in T
    <2> SUFFICES ASSUME k + 1 <= n PROVE Ok(k + 1)
      OBVIOUS
    <2>1. k <= n
      OBVIOUS
    <2>2. Ok(k)
      <3> HIDE DEF Ok
      <3> QED
        BY <1>5, <2>1
    <2>3. PICK K \in 1..n : K = k + 1 /\ K - 1 = k
      OBVIOUS
    <2>4. f[K] = f[k] \o Run(f[k], runs[K])
      BY <1>3, <2>3
    <2>5. Run(f[k], runs[K]) \in Seq(0..MaxCode) /\ Len(Run(f[k], runs[K])) > 0
      <3>1. runs[K] \in Kinds \X Nat
        BY <1>2, <2>3
      <3>2. IF runs[K][1] = "len" THEN runs[K][2] <= MaxCode ELSE runs[K][2] > 0
        BY <1>1, <1>2, <2>3 DEF HeaderOk
      <3>3. f[k] # <<>> \/ runs[K][1] # "copy"
        BY <1>1, <2>2, <2>3 DEF Started
      <3> QED
        BY <2>2, <3>1, <3>2, <3>3, RunIs
    <2>6. PICK a \in Seq(0..MaxCode), b \in Seq(0..MaxCode) :
            a = f[k] /\ b = Run(f[k], runs[K]) /\ Len(b) > 0 /\ Len(a) \in Nat /\ Len(b) \in Nat
      BY <2>2, <2>5
    <2>7. /\ f[K] \in Seq(0..MaxCode) /\ f[K] # <<>>
          /\ Len(f[K]) \in Nat /\ Len(a) <= Len(f[K]) /\ Len(a) \in Nat
      <3>1. f[K] = a \o b
        BY <2>4, <2>6
      <3>2. /\ a \o b \in Seq(0..MaxCode) /\ a \o b # <<>>
            /\ Len(a) \in Nat /\ Len(a \o b) \in Nat /\ Len(a) <= Len(a \o b)
        BY <2>6, CatLonger
      <3> QED
        BY <3>1, <3>2, Zenon
    <2>8. \A j \in 0..K : Len(f[j]) <= Len(f[K])
      <3> TAKE j \in 0..K
      <3>1. CASE j = K
        BY <2>7, <3>1
      <3>2. CASE j # K
        <4>1. j \in 0..k
          BY <2>3, <3>2
        <4>2. Len(f[j]) <= Len(a)
          BY <2>2, <2>6, <4>1
        <4>3. Len(f[j]) \in Nat
          <5>1. f[j] \in Seq(Nat \cup {Last(<<>>)})
            BY <1>3, <2>1, <4>1
          <5> QED
            BY <5>1
        <4> QED
          BY <2>7, <4>2, <4>3
      <3> QED
        BY <3>1, <3>2
    <2> HIDE DEF T
    <2> QED
      BY <2>3, <2>7, <2>8
  <1> HIDE DEF T, Ok
  <1>6. Ok(n)
    <2>1. n \in T
      BY <1>4, <1>5, NatInduct
    <2> QED
      BY <2>1 DEF T
  <1>7. ASSUME NEW k \in 1..n PROVE Expand(SubSeq(runs, 1, k)) = f[k]
    <2>1. PICK s \in Seq(Kinds \X Nat) : /\ s = SubSeq(runs, 1, k) /\ Len(s) = k
                                         /\ \A j \in 1..k : s[j] = runs[j]
      <3>1. k <= Len(runs)
        BY <1>2
      <3>2. /\ SubSeq(runs, 1, k) \in Seq(Kinds \X Nat) /\ Len(SubSeq(runs, 1, k)) = k - 1 + 1
            /\ \A j \in 1..(k - 1 + 1) : SubSeq(runs, 1, k)[j] = runs[1 + j - 1]
        BY <3>1, SubSeqIs
      <3>3. k - 1 + 1 = k /\ \A j \in 1..k : 1 + j - 1 = j
        OBVIOUS
      <3> QED
        BY <3>2, <3>3
    <2>2. PICK e : /\ e \in [0..Len(s) -> Seq(Nat \cup {Last(<<>>)})] /\ e[0] = <<>> /\ Expand(s) = e[Len(s)]
                   /\ \A j \in 1..Len(s) : e[j] = e[j - 1] \o Run(e[j - 1], s[j])
      BY ExpandRec DEF Kinds
    <2>3. \A j \in 1..k : e[j - 1] = f[j - 1] => e[j] = f[j]
      <3> SUFFICES ASSUME NEW j \in 1..k, e[j - 1] = f[j - 1] PROVE e[j] = f[j]
        OBVIOUS
      <3>1. j \in 1..n /\ j \in 1..Len(s) /\ s[j] = runs[j]
        BY <2>1
      <3>2. e[j] = e[j - 1] \o Run(e[j - 1], s[j])
        BY <2>2, <3>1
      <3>3. f[j] = f[j - 1] \o Run(f[j - 1], runs[j])
        BY <1>3, <3>1
      <3> QED
        BY <3>1, <3>2, <3>3
    <2>4. e[k] = f[k]
      <3>1. e[0] = f[0] /\ k \in Nat /\ k \in 0..k
        BY <1>3, <2>2
      <3> QED
        BY <2>3, <3>1, Agreed DEF Agree
    <2> QED
      BY <2>1, <2>2, <2>4
  <1>8. \A k \in 1..n : Len(f[k]) <= Len(f[n])
    BY <1>6 DEF Ok
  <1>9. SubSeq(runs, 1, n) = runs
    BY <1>2
  <1> QED
    BY <1>1, <1>2, <1>3, <1>6, <1>7, <1>8, <1>9 DEF Ok

LEMMA ElementIn ==
  ASSUME NEW B, NEW s \in Seq(B), NEW k \in 1..Len(s)
  PROVE  s[k] \in B
  OBVIOUS

LEMMA SplitLengths ==
  ASSUME NEW h, HeaderOk(h), NEW all \in Seq(0..MaxCode), Len(all) = h.lit + h.dist, NEW k \in 1..2
  PROVE  IsLengths(Split(all, h)[k])
  <1>1. PICK l \in Nat, d \in Nat : l = h.lit /\ d = h.dist /\ Len(all) = l + d
    BY DEF HeaderOk, Headers
  <1>2. \A s \in 0..(l - 1) : all[s + 1] \in 0..MaxCode
    <2> TAKE s \in 0..(l - 1)
    <2>1. s + 1 \in 1..Len(all)
      BY <1>1
    <2> QED
      BY <2>1, ElementIn
  <1>3. \A s \in 0..(d - 1) : all[l + s + 1] \in 0..MaxCode
    <2> TAKE s \in 0..(d - 1)
    <2>1. l + s + 1 \in 1..Len(all)
      <3>1. l + s + 1 \in 1..(l + d)
        OBVIOUS
      <3> QED
        BY <1>1, <3>1
    <2> QED
      BY <2>1, ElementIn
  <1>4. IsFiniteSet(0..(l - 1)) /\ IsFiniteSet(0..(d - 1))
    <2>1. 0 \in Int /\ l - 1 \in Int /\ d - 1 \in Int
      OBVIOUS
    <2> QED
      BY <2>1, FS_Interval
  <1>5. IsLengths([s \in 0..(l - 1) |-> all[s + 1]])
    BY <1>2, <1>4 DEF IsLengths
  <1>6. IsLengths([s \in 0..(d - 1) |-> all[l + s + 1]])
    BY <1>3, <1>4 DEF IsLengths
  <1>7. Split(all, h) = << [s \in 0..(l - 1) |-> all[s + 1]], [s \in 0..(d - 1) |-> all[l + s + 1]] >>
    BY <1>1 DEF Split
  <1>8. IsLengths(Split(all, h)[1]) /\ IsLengths(Split(all, h)[2])
    BY <1>5, <1>6, <1>7
  <1> QED
    BY <1>8

MostLiterals == IF impl = "native" THEN NativeLiterals ELSE AllLiterals

\* The header of a block whose symbols can be read.
HeaderGood(h) ==
  /\ h.lit <= MostLiterals
  /\ Started(h)
  /\ Len(Expand(h.runs)) = h.lit + h.dist
  /\ impl # "native" => Expand(h.runs)[EndOfBlock + 1] > 0

\* The native decoder looks at the lengths after every run, the others at the
\* end: they take the same headers.
LEMMA HeadersRead ==
  ASSUME NEW h, HeaderOk(h)
  PROVE  (IF impl = "native" THEN read_dyn_lengths(h) ELSE inflate_dynamic(h)) <=> HeaderGood(h)
  <1>1. h.lit \in Nat /\ h.dist \in Nat /\ h.lit <= AllLiterals
    BY SizesAssumption DEF HeaderOk, Headers
  <1>2. CASE ~Started(h)
    BY <1>2 DEF read_dyn_lengths, inflate_dynamic, HeaderGood
  <1>3. CASE Started(h) /\ impl # "native"
    BY <1>1, <1>3 DEF inflate_dynamic, HeaderGood, MostLiterals
  <1>4. CASE Started(h) /\ impl = "native"
    <2>1. PICK n \in Nat : n = Len(Expand(h.runs))
      BY <1>4, ExpandIs
    <2>2. ASSUME n = h.lit + h.dist
          PROVE  \A k \in 1..Len(h.runs) : Len(Expand(SubSeq(h.runs, 1, k))) <= h.lit + h.dist
      BY <1>4, <2>1, <2>2, ExpandIs
    <2>3. ASSUME \A k \in 1..Len(h.runs) : Len(Expand(SubSeq(h.runs, 1, k))) <= h.lit + h.dist
          PROVE  n <= h.lit + h.dist
      BY <1>4, <2>1, <2>3, ExpandIs
    <2> QED
      BY <1>1, <1>4, <2>1, <2>2, <2>3 DEF read_dyn_lengths, HeaderGood, MostLiterals
  <1> QED
    BY <1>2, <1>3, <1>4

LEMMA DynamicTreesAre ==
  ASSUME HeaderOk(header)
  PROVE  LET lens == Split(Expand(header.runs), header)
         IN  /\ (HeaderGood(header) /\ \A k \in 1..2 : ~Oversubscribed(lens[k]))
                  => /\ DynamicTrees = {<<Codes(lens[1]), Codes(lens[2])>>}
                     /\ TreeOk(Codes(lens[1])) /\ TreeOk(Codes(lens[2]))
             /\ ~(HeaderGood(header) /\ \A k \in 1..2 : ~Oversubscribed(lens[k])) => DynamicTrees = {}
  <1> DEFINE lens == Split(Expand(header.runs), header)
  <1>1. CASE ~HeaderGood(header)
    BY <1>1, HeadersRead DEF DynamicTrees
  <1>2. CASE HeaderGood(header)
    <2>1. Expand(header.runs) \in Seq(0..MaxCode)
      BY <1>2, ExpandIs DEF HeaderGood
    <2>2. IsLengths(lens[1]) /\ IsLengths(lens[2])
      BY <1>2, <2>1, SplitLengths DEF HeaderGood
    <2>3. DynamicTrees
            = IF \A k \in 1..2 : IF impl = "native" THEN huff_build(lens[k]) ELSE codes_lsb(lens[k])
              THEN {<<Wires(lens[1]), Wires(lens[2])>>} ELSE {}
      BY <1>2, HeadersRead DEF DynamicTrees
    <2> HIDE DEF lens
    <2>4. \A k \in 1..2 : IsLengths(lens[k])
      BY <2>2
    <2>5. \A k \in 1..2 : (IF impl = "native" THEN huff_build(lens[k]) ELSE codes_lsb(lens[k]))
                            <=> ~Oversubscribed(lens[k])
      BY <2>4, NativeTables, PythonTables
    <2>6. <<Wires(lens[1]), Wires(lens[2])>> = <<Codes(lens[1]), Codes(lens[2])>>
      BY <2>2, WiresIs
    <2>7. CASE \A k \in 1..2 : ~Oversubscribed(lens[k])
      <3>1. ~Oversubscribed(lens[1]) /\ ~Oversubscribed(lens[2])
        BY <2>7
      <3>2. TreeOk(Codes(lens[1])) /\ TreeOk(Codes(lens[2]))
        BY <2>2, <3>1, CodesTree
      <3> QED
        BY <1>2, <2>3, <2>5, <2>6, <2>7, <3>2 DEF lens
    <2>8. CASE ~\A k \in 1..2 : ~Oversubscribed(lens[k])
      BY <1>2, <2>3, <2>5, <2>8 DEF lens
    <2> QED
      BY <2>7, <2>8
  <1> QED
    BY <1>1, <1>2

LEMMA FixedTrees ==
  /\ FixedTables = <<Codes(FixedLit), Codes(FixedDist)>>
  /\ TreeOk(Codes(FixedLit)) /\ TreeOk(Codes(FixedDist))
  BY FixedAssumption, WiresIs, CodesTree DEF FixedTables

-------------------------------------------------------------------------------
(* Parts of a sequence.                                                    *)

\* t is what comes in s after place a, up to place b.
Part(t, s, a, b, B) ==
  t \in Seq(B) /\ Len(t) = b - a /\ \A k \in 1..(b - a) : t[k] = s[a + k]

LEMMA SubSeqPart ==
  ASSUME NEW B, NEW s \in Seq(B), NEW a \in Nat, NEW b \in Nat, a <= b, b <= Len(s)
  PROVE  Part(SubSeq(s, a + 1, b), s, a, b, B)
  <1>1. CASE a = b
    <2>1. SubSeq(s, a + 1, b) = <<>>
      BY <1>1
    <2> QED
      BY <1>1, <2>1 DEF Part
  <1>2. CASE a < b
    <2>1. \A i \in (a + 1)..b : i \in 1..Len(s) /\ s[i] \in B
      OBVIOUS
    <2>2. SubSeq(s, a + 1, b) \in Seq(B) /\ Len(SubSeq(s, a + 1, b)) = b - a
      BY <1>2, <2>1
    <2>3. ASSUME NEW k \in 1..(b - a) PROVE SubSeq(s, a + 1, b)[k] = s[a + k]
      BY <1>2
    <2> QED
      BY <2>2, <2>3 DEF Part
  <1> QED
    BY <1>1, <1>2

LEMMA SamePart ==
  ASSUME NEW B, NEW s, NEW a \in Nat, NEW b \in Nat, NEW t, Part(t, s, a, b, B),
         NEW u, Part(u, s, a, b, B)
  PROVE  t = u
  <1>1. t \in Seq(B) /\ u \in Seq(B) /\ Len(t) = Len(u) /\ Len(t) = b - a
    BY DEF Part
  <1>2. \A k \in 1..Len(t) : t[k] = u[k]
    BY <1>1 DEF Part
  <1> QED
    BY <1>1, <1>2, SameSeq

LEMMA PartPart ==
  ASSUME NEW B, NEW s, NEW a \in Nat, NEW b \in Nat, NEW t, Part(t, s, a, b, B),
         NEW c \in Nat, NEW d \in Nat, c <= d, a + d <= b, NEW u, Part(u, t, c, d, B)
  PROVE  Part(u, s, a + c, a + d, B)
  <1>1. u \in Seq(B) /\ Len(u) = (a + d) - (a + c)
    BY DEF Part
  <1>2. ASSUME NEW k \in 1..((a + d) - (a + c)) PROVE u[k] = s[(a + c) + k]
    <2>1. k \in 1..(d - c) /\ c + k \in 1..(b - a) /\ a + (c + k) = (a + c) + k
      OBVIOUS
    <2>2. u[k] = t[c + k]
      BY <2>1 DEF Part
    <2>3. t[c + k] = s[a + (c + k)]
      BY <2>1 DEF Part
    <2> QED
      BY <2>1, <2>2, <2>3
  <1> QED
    BY <1>1, <1>2 DEF Part

LEMMA CatPart ==
  ASSUME NEW B, NEW s, NEW a \in Nat, NEW b \in Nat, NEW c \in Nat, a <= b, b <= c,
         NEW t, Part(t, s, a, b, B), NEW u, Part(u, s, b, c, B)
  PROVE  Part(t \o u, s, a, c, B)
  <1>1. t \in Seq(B) /\ u \in Seq(B) /\ Len(t) = b - a /\ Len(u) = c - b
    BY DEF Part
  <1>2. /\ t \o u \in Seq(B) /\ Len(t \o u) = Len(t) + Len(u)
        /\ \A k \in 1..Len(t) : (t \o u)[k] = t[k]
        /\ \A k \in (Len(t) + 1)..(Len(t) + Len(u)) : (t \o u)[k] = u[k - Len(t)]
    BY <1>1, CatIs, Zenon
  <1> DEFINE w == t \o u
  <1>3. w \in Seq(B) /\ Len(w) = c - a
    BY <1>1, <1>2
  <1> HIDE DEF w
  <1>4. \A k \in 1..(b - a) : w[k] = t[k]
    BY <1>1, <1>2 DEF w
  <1>5. ASSUME NEW k \in (b - a + 1)..(c - a) PROVE w[k] = u[k - (b - a)]
    <2>1. PICK n \in Nat, m \in Nat : n = b - a /\ m = c - b /\ n + m = c - a
      OBVIOUS
    <2>2. /\ Len(t) = n /\ Len(u) = m
          /\ \A j \in (n + 1)..(n + m) : (t \o u)[j] = u[j - n]
      BY <1>1, <1>2, <2>1, Zenon
    <2>3. k \in (n + 1)..(n + m)
      BY <2>1
    <2>4. (t \o u)[k] = u[k - n]
      BY <2>2, <2>3
    <2> QED
      BY <2>1, <2>4 DEF w
  <1>6. ASSUME NEW k \in 1..(c - a) PROVE w[k] = s[a + k]
    <2>1. CASE k <= b - a
      <3>1. k \in 1..(b - a)
        BY <2>1
      <3> QED
        BY <1>4, <3>1 DEF Part
    <2>2. CASE ~(k <= b - a)
      <3>1. k \in (b - a + 1)..(c - a) /\ k - (b - a) \in 1..(c - b) /\ b + (k - (b - a)) = a + k
        BY <2>2
      <3>2. u[k - (b - a)] = s[b + (k - (b - a))]
        BY <3>1 DEF Part
      <3> QED
        BY <1>5, <3>1, <3>2
    <2> QED
      BY <2>1, <2>2
  <1>7. Part(w, s, a, c, B)
    BY <1>3, <1>6 DEF Part
  <1> QED
    BY <1>7 DEF w

-------------------------------------------------------------------------------
(* Reading bits: whatever is refilled and dropped, a reader is at a place  *)
(* of the stream and its buffer holds what follows.                        *)

DataOk == data \in Seq({0, 1}) /\ Whole(data) \in Nat /\ Len(data) = ByteBits * Whole(data)

\* Reader x is at place p.
At(x, p) ==
  /\ x = [i |-> x.i, buf |-> x.buf] /\ x.i \in 0..Whole(data)
  /\ p \in Nat /\ p <= ByteBits * x.i /\ ByteBits * x.i - p <= Word
  /\ Part(x.buf, data, p, ByteBits * x.i, {0, 1})
  /\ impl # "native" => ByteBits * x.i - p < ByteBits

LEMMA DataIs ==
  ASSUME CallOk
  PROVE  DataOk /\ HeaderOk(header)
  <1>1. PICK in \in Inputs : data = in[1] /\ header = in[2]
    BY DEF CallOk
  <1>2. data \in Seq({0, 1}) /\ Len(data) % ByteBits = 0
    BY <1>1, InputsAssumption
  <1>3. HeaderOk(header)
    BY <1>1, InputsAssumption DEF HeaderOk
  <1>4. ByteBits \in Nat \ {0} /\ Len(data) \in Nat
    BY <1>2, SizesAssumption
  <1>5. PICK q \in Nat : q = Len(data) \div ByteBits /\ Len(data) = q * ByteBits + (Len(data) % ByteBits)
    BY <1>4, Divided
  <1>6. q * ByteBits = ByteBits * q
    BY <1>4
  <1> QED
    BY <1>2, <1>3, <1>4, <1>5, <1>6 DEF DataOk, Whole

LEMMA BytesUp ==
  ASSUME DataOk, NEW i \in 0..Whole(data)
  PROVE  ByteBits * i \in Nat /\ ByteBits * i <= Len(data)
  <1>1. ByteBits \in Nat /\ i \in Nat /\ Whole(data) \in Nat /\ i <= Whole(data)
    BY SizesAssumption DEF DataOk
  <1>2. i * ByteBits <= Whole(data) * ByteBits
    BY <1>1, MulUp
  <1>3. i * ByteBits = ByteBits * i /\ Whole(data) * ByteBits = ByteBits * Whole(data) /\ ByteBits * i \in Nat
    BY <1>1
  <1> QED
    BY <1>2, <1>3 DEF DataOk

LEMMA ReaderAt ==
  ASSUME DataOk, NEW x, ReaderOk(x)
  PROVE  At(x, ByteBits * x.i - Len(x.buf)) /\ Len(x.buf) \in Nat /\ ByteBits * x.i \in Nat
  <1>1. PICK e \in Nat, n \in Nat : e = ByteBits * x.i /\ n = Len(x.buf) /\ e <= Len(data)
    BY BytesUp DEF ReaderOk
  <1>2. n <= e /\ n <= Word /\ (impl # "native" => n < ByteBits)
    BY <1>1 DEF ReaderOk
  <1>3. PICK p \in Nat : p = e - n
    BY <1>1, <1>2
  <1>4. p <= e /\ e - p = n /\ e - n + 1 = p + 1
    BY <1>1, <1>2, <1>3
  <1>5. Part(SubSeq(data, p + 1, e), data, p, e, {0, 1})
    BY <1>1, <1>4, SubSeqPart DEF DataOk
  <1>6. x.buf = SubSeq(data, p + 1, e)
    BY <1>1, <1>4 DEF ReaderOk
  <1>7. x = [i |-> x.i, buf |-> x.buf] /\ x.i \in 0..Whole(data)
    BY DEF ReaderOk
  <1>8. At(x, p)
    BY <1>1, <1>2, <1>4, <1>5, <1>6, <1>7 DEF At
  <1> QED
    BY <1>1, <1>3, <1>8

LEMMA AtReader ==
  ASSUME DataOk, NEW x, NEW p, At(x, p)
  PROVE  ReaderOk(x) /\ ByteBits * x.i - Len(x.buf) = p
  <1>1. PICK e \in Nat : e = ByteBits * x.i /\ e <= Len(data)
    BY BytesUp DEF At
  <1>2. p \in Nat /\ p <= e /\ e - p <= Word /\ Part(x.buf, data, p, e, {0, 1})
    BY <1>1 DEF At
  <1>3. x.buf \in Seq({0, 1}) /\ Len(x.buf) = e - p
    BY <1>2 DEF Part
  <1>4. Part(SubSeq(data, p + 1, e), data, p, e, {0, 1})
    BY <1>1, <1>2, SubSeqPart DEF DataOk
  <1>5. x.buf = SubSeq(data, p + 1, e)
    BY <1>1, <1>2, <1>4, SamePart
  <1>6. e - Len(x.buf) + 1 = p + 1 /\ e - Len(x.buf) = p /\ Len(x.buf) <= e
    BY <1>1, <1>2, <1>3
  <1>7. x = [i |-> x.i, buf |-> x.buf] /\ x.i \in 0..Whole(data)
    BY DEF At
  <1>8. Len(x.buf) <= Word /\ (impl # "native" => Len(x.buf) < ByteBits)
    BY <1>1, <1>2, <1>3 DEF At
  <1> QED
    BY <1>1, <1>3, <1>5, <1>6, <1>7, <1>8 DEF ReaderOk

\* What a refill brings: all that is asked for, or all there is.
LEMMA TakenIs ==
  ASSUME DataOk, NEW x, NEW p, At(x, p), NEW k \in Nat
  PROVE  LET n == ByteBits * x.i - p
             t == Taken(x, k)
         IN  /\ t \in 0..(Whole(data) - x.i)
             /\ n + ByteBits * t <= Word \/ impl # "native"
             /\ n + ByteBits * t < k + ByteBits \/ impl = "native"
             /\ k <= Word - ByteBits + 1 => n + ByteBits * t >= k \/ t = Whole(data) - x.i
  <1>1. PICK b \in Nat \ {0} : b = ByteBits
    BY SizesAssumption
  <1>2. PICK w \in Nat : w = Word
    BY SizesAssumption
  <1>3. PICK g \in Nat : g = Whole(data) - x.i
    BY DEF At, DataOk
  <1>4. PICK n \in Nat : n = ByteBits * x.i - p /\ n = Len(x.buf) /\ n <= w /\ (impl # "native" => n < b)
    <2>1. ByteBits * x.i \in Nat
      BY BytesUp DEF At
    <2>2. Len(x.buf) = ByteBits * x.i - p /\ ByteBits * x.i - p \in Nat
      BY <2>1 DEF At, Part
    <2> QED
      BY <1>1, <1>2, <2>2 DEF At
  <1>5. CASE n >= k
    <2>1. Taken(x, k) = 0
      BY <1>4, <1>5 DEF Taken
    <2>2. b * 0 = 0 /\ (n < k + b \/ impl = "native")
      BY <1>4, <1>5
    <2> QED
      BY <1>1, <1>2, <1>3, <1>4, <1>5, <2>1, <2>2
  <1>6. CASE n < k
    <2>1. PICK q \in Nat, m \in 0..(b - 1) :
            IF impl = "native" THEN w - n = q * b + m /\ q = (w - n) \div b
                               ELSE k - n + b - 1 = q * b + m /\ q = (k - n + b - 1) \div b
      <3>1. CASE impl = "native"
        <4>1. w - n \in Nat
          BY <1>4
        <4> QED
          BY <3>1, <4>1, Divided
      <3>2. CASE impl # "native"
        <4>1. k - n + b - 1 \in Nat
          BY <1>6
        <4> QED
          BY <3>2, <4>1, Divided
      <3> QED
        BY <3>1, <3>2
    <2>2. Taken(x, k) = Min({g, q})
      <3>1. ~(Len(x.buf) >= k) /\ Whole(data) - x.i = g
        BY <1>3, <1>4, <1>6
      <3>2. CASE impl = "native"
        <4>1. (Word - Len(x.buf)) \div ByteBits = q
          BY <1>1, <1>2, <1>4, <2>1, <3>2
        <4> QED
          BY <3>1, <3>2, <4>1, Zenon DEF Taken
      <3>3. CASE impl # "native"
        <4>1. (k - Len(x.buf) + ByteBits - 1) \div ByteBits = q
          BY <1>1, <1>4, <2>1, <3>3
        <4> QED
          BY <3>1, <3>3, <4>1, Zenon DEF Taken
      <3> QED
        BY <3>2, <3>3
    <2>3. PICK t \in Nat : t = Taken(x, k) /\ t = IF g <= q THEN g ELSE q
      BY <2>2, MinIs
    <2>4. t <= q /\ t <= g /\ (t = g \/ t = q)
      BY <2>3
    <2>5. PICK u \in Nat, v \in Nat : u = b * t /\ v = q * b /\ u <= v /\ (t = q => u = v)
      <3>1. t * b <= q * b
        BY <2>4, MulUp
      <3>2. t * b \in Nat /\ q * b \in Nat /\ b * t = t * b
        OBVIOUS
      <3> QED
        BY <3>1, <3>2
    <2>6. CASE impl = "native"
      <3>1. w - n = v + m /\ n <= w /\ m <= b - 1
        BY <1>4, <2>1, <2>5, <2>6
      <3>2. n + u <= w /\ (k <= w - b + 1 => n + u >= k \/ t = g)
        BY <2>4, <2>5, <3>1
      <3> QED
        BY <1>1, <1>2, <1>3, <1>4, <2>3, <2>4, <2>5, <2>6, <3>2
    <2>7. CASE impl # "native"
      <3>1. k - n + b - 1 = v + m /\ m <= b - 1
        BY <1>4, <2>1, <2>5, <2>7
      <3>2. n + u < k + b /\ (n + u >= k \/ t = g)
        BY <1>6, <2>4, <2>5, <3>1
      <3> QED
        BY <1>1, <1>2, <1>3, <1>4, <2>3, <2>4, <2>5, <2>7, <3>2
    <2> QED
      BY <2>6, <2>7
  <1> QED
    BY <1>4, <1>5, <1>6

LEMMA BytesPart ==
  ASSUME DataOk, NEW i \in Nat, NEW k \in Nat, i + k <= Whole(data)
  PROVE  /\ ByteBits * i \in Nat /\ ByteBits * k \in Nat
         /\ ByteBits * (i + k) = ByteBits * i + ByteBits * k
         /\ ByteBits * (i + k) <= Len(data)
         /\ Part(Bytes(i, k), data, ByteBits * i, ByteBits * (i + k), {0, 1})
  <1>1. PICK b \in Nat : b = ByteBits
    BY SizesAssumption
  <1>2. PICK u \in Nat : u = b * i
    OBVIOUS
  <1>3. PICK v \in Nat : v = b * k
    OBVIOUS
  <1>4. b * (i + k) = b * i + b * k /\ i * b = b * i /\ (i + k) * b = b * (i + k)
    OBVIOUS
  <1>5. b * (i + k) = u + v /\ i * b = u /\ (i + k) * b = u + v
    BY <1>2, <1>3, <1>4
  <1>6. u + v <= Len(data)
    <2>1. i + k \in 0..Whole(data)
      BY DEF DataOk
    <2>2. ByteBits * (i + k) <= Len(data)
      BY <2>1, BytesUp
    <2> QED
      BY <1>1, <1>5, <2>2
  <1>7. Part(SubSeq(data, u + 1, u + v), data, u, u + v, {0, 1})
    BY <1>6, SubSeqPart DEF DataOk
  <1>8. Bytes(i, k) = SubSeq(data, u + 1, u + v)
    BY <1>1, <1>5 DEF Bytes
  <1> QED
    BY <1>1, <1>2, <1>3, <1>5, <1>6, <1>7, <1>8

\* A reader in the making: y holds what comes after place p.
Holds(y, p) ==
  /\ y = [i |-> y.i, buf |-> y.buf] /\ y.i \in 0..Whole(data)
  /\ p \in Nat /\ ByteBits * y.i \in Nat /\ p <= ByteBits * y.i
  /\ Part(y.buf, data, p, ByteBits * y.i, {0, 1})

LEMMA RefillIs ==
  ASSUME DataOk, NEW x, NEW p, At(x, p), NEW k \in Nat
  PROVE  LET y == refill(x, k)
         IN  /\ Holds(y, p)
             /\ k <= Word - ByteBits + 1 => ByteBits * y.i - p >= k \/ ByteBits * y.i = Len(data)
             /\ ByteBits * y.i - p <= Word \/ impl # "native"
             /\ ByteBits * y.i - p < k + ByteBits \/ impl = "native"
  <1> DEFINE y == refill(x, k)
  <1>1. PICK t \in Nat : t = Taken(x, k) /\ t \in 0..(Whole(data) - x.i)
    BY TakenIs
  <1>2. PICK i \in Nat : i = x.i /\ i + t <= Whole(data) /\ i + t \in 0..Whole(data)
    BY <1>1 DEF At, DataOk
  <1>3. PICK u \in Nat : u = ByteBits * i
    BY <1>2, BytesPart
  <1>4. PICK v \in Nat : v = ByteBits * t
    BY <1>2, BytesPart
  <1>5. /\ ByteBits * (i + t) = u + v /\ u + v <= Len(data)
        /\ Part(Bytes(i, t), data, u, u + v, {0, 1})
    <2>1. /\ ByteBits * (i + t) = ByteBits * i + ByteBits * t
          /\ ByteBits * (i + t) <= Len(data)
          /\ Part(Bytes(i, t), data, ByteBits * i, ByteBits * (i + t), {0, 1})
      BY <1>2, BytesPart
    <2>2. ByteBits * (i + t) = u + v
      BY <1>3, <1>4, <2>1
    <2> QED
      BY <1>3, <2>1, <2>2
  <1>6. p \in Nat /\ p <= u /\ Part(x.buf, data, p, u, {0, 1})
    BY <1>2, <1>3 DEF At
  <1>7. Part(x.buf \o Bytes(i, t), data, p, u + v, {0, 1})
    BY <1>5, <1>6, CatPart
  <1>8. y.i = i + t /\ y.buf = x.buf \o Bytes(i, t) /\ y = [i |-> y.i, buf |-> y.buf]
    BY <1>1, <1>2 DEF refill
  <1>9. ByteBits * y.i = u + v /\ y.i \in 0..Whole(data) /\ u + v \in Nat /\ p <= u + v
    BY <1>2, <1>5, <1>6, <1>8
  <1> HIDE DEF y
  <1>10. Holds(y, p)
    BY <1>6, <1>7, <1>8, <1>9 DEF Holds
  <1>11. PICK n \in Nat : n = ByteBits * x.i - p /\ n = u - p
    BY <1>2, <1>3, <1>6
  <1>12. /\ n + v <= Word \/ impl # "native"
         /\ n + v < k + ByteBits \/ impl = "native"
         /\ k <= Word - ByteBits + 1 => n + v >= k \/ t = Whole(data) - x.i
    BY <1>1, <1>4, <1>11, TakenIs
  <1>13. n + v = ByteBits * y.i - p
    BY <1>6, <1>9, <1>11
  <1>14. t = Whole(data) - x.i => ByteBits * y.i = Len(data)
    <2>1. t = Whole(data) - x.i => y.i = Whole(data)
      BY <1>1, <1>2, <1>8 DEF DataOk
    <2> QED
      BY <2>1 DEF DataOk
  <1>15. /\ k <= Word - ByteBits + 1 => ByteBits * y.i - p >= k \/ ByteBits * y.i = Len(data)
         /\ ByteBits * y.i - p <= Word \/ impl # "native"
         /\ ByteBits * y.i - p < k + ByteBits \/ impl = "native"
    BY <1>12, <1>13, <1>14
  <1> QED
    BY <1>10, <1>15 DEF y

LEMMA DropRecord ==
  ASSUME NEW a, NEW b, NEW k
  PROVE  Drop([i |-> a, buf |-> b], k) = [i |-> a, buf |-> SubSeq(b, k + 1, Len(b))]
  <1> DEFINE x == [i |-> a, buf |-> b]
             c == SubSeq(b, k + 1, Len(b))
  <1>1. x.buf = b /\ x = [i |-> a, buf |-> b]
    OBVIOUS
  <1>2. ASSUME NEW d PROVE [x EXCEPT !.buf = d] = [i |-> a, buf |-> d]
    OBVIOUS
  <1>3. Drop(x, k) = [x EXCEPT !.buf = SubSeq(x.buf, k + 1, Len(x.buf))]
    BY Zenon DEF Drop
  <1> HIDE DEF x
  <1>4. Drop(x, k) = [x EXCEPT !.buf = c]
    BY <1>1, <1>3, Zenon
  <1> HIDE DEF c
  <1>5. Drop(x, k) = [i |-> a, buf |-> c]
    BY <1>2, <1>4, Zenon
  <1> QED
    BY <1>5 DEF x, c

LEMMA DropIs ==
  ASSUME DataOk, NEW y, NEW p, Holds(y, p), NEW k \in Nat, k <= ByteBits * y.i - p,
         ByteBits * y.i - p <= Word \/ impl # "native",
         ByteBits * y.i - p < k + ByteBits \/ impl = "native"
  PROVE  /\ At(Drop(y, k), p + k)
         /\ Part(SubSeq(y.buf, 1, k), data, p, p + k, {0, 1})
         /\ p + k <= Len(data)
  <1>1. PICK e \in Nat : e = ByteBits * y.i /\ e <= Len(data)
    BY BytesUp DEF Holds
  <1>2. p \in Nat /\ p <= e /\ Part(y.buf, data, p, e, {0, 1}) /\ p + k <= e
    BY <1>1 DEF Holds
  <1>3. y.buf \in Seq({0, 1}) /\ Len(y.buf) = e - p /\ e - p \in Nat
    BY <1>2 DEF Part
  <1>4. PICK l \in Nat : l = e - p /\ p + l = e /\ p + l <= e /\ k <= l
    BY <1>2
  <1>5. Part(SubSeq(y.buf, k + 1, l), y.buf, k, l, {0, 1})
    BY <1>3, <1>4, SubSeqPart
  <1>6. Part(SubSeq(y.buf, k + 1, l), data, p + k, p + l, {0, 1})
    BY <1>2, <1>4, <1>5, PartPart
  <1> DEFINE z == Drop(y, k)
  <1>7. z.i = y.i /\ z.buf = SubSeq(y.buf, k + 1, l) /\ z = [i |-> z.i, buf |-> z.buf]
    <2>1. y = [i |-> y.i, buf |-> y.buf]
      BY DEF Holds
    <2>2. PICK a, b : y = [i |-> a, buf |-> b]
      BY <2>1
    <2>3. Drop(y, k) = [i |-> a, buf |-> SubSeq(b, k + 1, Len(b))]
      BY <2>2, DropRecord, Zenon
    <2>4. y.i = a /\ y.buf = b /\ Len(b) = l
      BY <1>3, <1>4, <2>2
    <2>5. PICK c : c = SubSeq(y.buf, k + 1, l)
      OBVIOUS
    <2>6. z = [i |-> a, buf |-> c]
      BY <2>3, <2>4, <2>5, Zenon
    <2> HIDE DEF z
    <2> QED
      BY <2>4, <2>5, <2>6
  <1>8. e - (p + k) <= Word /\ (impl # "native" => e - (p + k) < ByteBits)
    <2>1. PICK w \in Nat, b \in Nat : w = Word /\ b = ByteBits /\ b <= w
      BY SizesAssumption
    <2>2. (e - p <= w \/ impl # "native") /\ (e - p < k + b \/ impl = "native")
      BY <1>1, <2>1
    <2>3. e - (p + k) <= w /\ (impl # "native" => e - (p + k) < b)
      BY <1>2, <2>1, <2>2
    <2> QED
      BY <2>1, <2>3
  <1>9. z.i \in 0..Whole(data) /\ ByteBits * z.i = e /\ Part(z.buf, data, p + k, e, {0, 1})
    BY <1>1, <1>4, <1>6, <1>7 DEF Holds
  <1> HIDE DEF z
  <1>10. At(z, p + k)
    <2>1. PICK a \in Nat : a = p + k /\ a <= e
      BY <1>2
    <2>2. PICK g : g = ByteBits * z.i /\ g = e
      BY <1>9
    <2>3. g - a <= Word /\ (impl # "native" => g - a < ByteBits) /\ a <= g
      BY <1>8, <2>1, <2>2
    <2>4. Part(z.buf, data, a, g, {0, 1})
      BY <1>9, <2>1, <2>2, Zenon
    <2>5. z.i \in 0..Whole(data) /\ z = [i |-> z.i, buf |-> z.buf]
      BY <1>7, <1>9
    <2>6. At(z, a)
      BY <2>2, <2>3, <2>4, <2>5, Zenon DEF At
    <2> QED
      BY <2>1, <2>6
  <1>11. Part(SubSeq(y.buf, 1, k), data, p, p + k, {0, 1})
    <2>1. Part(SubSeq(y.buf, 0 + 1, k), y.buf, 0, k, {0, 1})
      BY <1>2, <1>3, SubSeqPart
    <2>2. 0 <= k /\ p + k <= e /\ 0 \in Nat
      BY <1>2
    <2>3. Part(SubSeq(y.buf, 0 + 1, k), data, p + 0, p + k, {0, 1})
      BY <1>2, <2>1, <2>2, PartPart
    <2> QED
      BY <1>2, <2>3
  <1> QED
    BY <1>1, <1>2, <1>10, <1>11 DEF z

\* The set S is one value v, with a reader at place q.
Reads(S, v, q) == \E z : At(z, q) /\ S = {<<v, z>>}

\* The next k bits are read where there are as many, and only there.
LEMMA BitsAre ==
  ASSUME DataOk, NEW x, NEW p, At(x, p), NEW k \in 0..(Word - ByteBits + 1)
  PROVE  IF p + k <= Len(data) THEN Reads(bits(x, k), Num(SubSeq(data, p + 1, p + k)), p + k)
         ELSE bits(x, k) = {}
  <1> DEFINE y == refill(x, k)
  <1>1. k \in Nat /\ k <= Word - ByteBits + 1
    BY SizesAssumption
  <1>2. /\ Holds(y, p)
        /\ ByteBits * y.i - p >= k \/ ByteBits * y.i = Len(data)
        /\ ByteBits * y.i - p <= Word \/ impl # "native"
        /\ ByteBits * y.i - p < k + ByteBits \/ impl = "native"
    BY <1>1, RefillIs
  <1>3. bits(x, k) = IF Len(y.buf) < k THEN {} ELSE {<<Num(SubSeq(y.buf, 1, k)), Drop(y, k)>>}
    BY DEF bits
  <1> HIDE DEF y
  <1>4. PICK e \in Nat : e = ByteBits * y.i /\ e <= Len(data)
    BY <1>2, BytesUp DEF Holds
  <1>5. p \in Nat /\ p <= e /\ Len(y.buf) = e - p
    BY <1>2, <1>4 DEF Holds, Part
  <1>6. CASE p + k <= Len(data)
    <2>1. k <= ByteBits * y.i - p
      BY <1>1, <1>2, <1>4, <1>5, <1>6
    <2>2. At(Drop(y, k), p + k) /\ Part(SubSeq(y.buf, 1, k), data, p, p + k, {0, 1})
      BY <1>1, <1>2, <2>1, DropIs
    <2>3. Part(SubSeq(data, p + 1, p + k), data, p, p + k, {0, 1})
      BY <1>1, <1>5, <1>6, SubSeqPart DEF DataOk
    <2>4. SubSeq(y.buf, 1, k) = SubSeq(data, p + 1, p + k)
      <3>1. p + k \in Nat
        BY <1>1, <1>5
      <3> QED
        BY <1>5, <2>2, <2>3, <3>1, SamePart
    <2>5. bits(x, k) = {<<Num(SubSeq(data, p + 1, p + k)), Drop(y, k)>>}
      <3>1. ~(Len(y.buf) < k)
        BY <1>1, <1>4, <1>5, <2>1
      <3> QED
        BY <1>3, <2>4, <3>1, Zenon
    <2> QED
      BY <1>6, <2>2, <2>5 DEF Reads
  <1>7. CASE ~(p + k <= Len(data))
    <2>1. Len(y.buf) < k
      BY <1>1, <1>4, <1>5, <1>7 DEF DataOk
    <2> QED
      BY <1>3, <1>7, <2>1
  <1> QED
    BY <1>6, <1>7

\* The stream goes on with the bits c at place p.
Follows(p, c) == p + Len(c) <= Len(data) /\ \A j \in 1..Len(c) : data[p + j] = c[j]

LEMMA SymbolsAre ==
  ASSUME NEW tree, TreeOk(tree), NEW p
  PROVE  SymbolsAt(data, p, tree) = {s \in DOMAIN tree : Follows(p, tree[s])}
  <1>1. \A s \in DOMAIN tree : DOMAIN tree[s] = 1..Len(tree[s])
    BY DEF TreeOk
  <1> QED
    BY <1>1 DEF SymbolsAt, Follows

LEMMA OneSymbol ==
  ASSUME NEW tree, TreeOk(tree), NEW p, NEW s \in SymbolsAt(data, p, tree),
         NEW t \in SymbolsAt(data, p, tree)
  PROVE  s = t
  <1>1. /\ s \in DOMAIN tree /\ t \in DOMAIN tree
        /\ tree[s] \in Seq({0, 1}) /\ tree[t] \in Seq({0, 1})
        /\ Follows(p, tree[s]) /\ Follows(p, tree[t])
    BY SymbolsAre DEF TreeOk
  <1>2. CASE Len(tree[s]) <= Len(tree[t])
    <2>1. \A k \in 1..Len(tree[s]) : k \in 1..Len(tree[t])
      BY <1>1, <1>2
    <2>2. \A k \in 1..Len(tree[s]) : tree[s][k] = tree[t][k]
      BY <1>1, <2>1 DEF Follows
    <2>3. IsPrefix(tree[s], tree[t])
      BY <1>1, <1>2, <2>2, PrefixIs
    <2> QED
      BY <1>1, <2>3 DEF TreeOk
  <1>3. CASE Len(tree[t]) <= Len(tree[s])
    <2>1. \A k \in 1..Len(tree[t]) : k \in 1..Len(tree[s])
      BY <1>1, <1>3
    <2>2. \A k \in 1..Len(tree[t]) : tree[t][k] = tree[s][k]
      BY <1>1, <2>1 DEF Follows
    <2>3. IsPrefix(tree[t], tree[s])
      BY <1>1, <1>3, <2>2, PrefixIs
    <2> QED
      BY <1>1, <2>3 DEF TreeOk
  <1> QED
    BY <1>1, <1>2, <1>3

\* Enough is refilled to tell whether the stream goes on with a code.
LEMMA Looked ==
  ASSUME DataOk, NEW x, NEW p, At(x, p), NEW k \in 0..MaxCode,
         NEW c \in Seq({0, 1}), Len(c) <= k
  PROVE  LET y == refill(x, k)
         IN  /\ y.buf \in Seq({0, 1})
             /\ Follows(p, c) <=> IsPrefix(c, y.buf)
             /\ IsPrefix(c, y.buf) /\ (impl = "native" \/ Len(c) = k)
                  => \A s : Reads({<<s, Drop(y, Len(c))>>}, s, p + Len(c))
  <1> DEFINE y == refill(x, k)
  <1>1. k \in Nat /\ k <= Word - ByteBits + 1
    BY SizesAssumption
  <1>2. /\ Holds(y, p)
        /\ ByteBits * y.i - p >= k \/ ByteBits * y.i = Len(data)
        /\ ByteBits * y.i - p <= Word \/ impl # "native"
        /\ ByteBits * y.i - p < k + ByteBits \/ impl = "native"
    BY <1>1, RefillIs
  <1> HIDE DEF y
  <1>3. PICK e \in Nat : e = ByteBits * y.i /\ e <= Len(data)
    BY <1>2, BytesUp DEF Holds
  <1>4. /\ p \in Nat /\ p <= e /\ y.buf \in Seq({0, 1}) /\ Len(y.buf) = e - p
        /\ \A j \in 1..(e - p) : y.buf[j] = data[p + j]
    BY <1>2, <1>3 DEF Holds, Part
  <1>5. PICK n \in Nat : n = Len(c) /\ n <= k
    OBVIOUS
  <1>6. PICK l \in Nat : l = e - p /\ l = Len(y.buf)
    BY <1>4
  <1>7. p + n <= Len(data) <=> n <= l
    BY <1>1, <1>2, <1>3, <1>4, <1>5, <1>6 DEF DataOk
  <1>8. IsPrefix(c, y.buf) <=> n <= l /\ \A j \in 1..n : c[j] = y.buf[j]
    BY <1>4, <1>5, <1>6, PrefixIs
  <1>9. ASSUME n <= l PROVE \A j \in 1..n : y.buf[j] = data[p + j]
    BY <1>4, <1>6, <1>9
  <1>10. Follows(p, c) <=> IsPrefix(c, y.buf)
    <2>1. CASE ~(n <= l)
      BY <1>5, <1>7, <1>8, <2>1 DEF Follows
    <2>2. CASE n <= l
      <3>1. Follows(p, c) <=> \A j \in 1..n : data[p + j] = c[j]
        BY <1>5, <1>7, <2>2 DEF Follows
      <3>2. IsPrefix(c, y.buf) <=> \A j \in 1..n : c[j] = data[p + j]
        BY <1>8, <1>9, <2>2
      <3> QED
        BY <3>1, <3>2
    <2> QED
      BY <2>1, <2>2
  <1>11. ASSUME IsPrefix(c, y.buf), impl = "native" \/ Len(c) = k, NEW s
         PROVE  Reads({<<s, Drop(y, Len(c))>>}, s, p + Len(c))
    <2>1. n <= l
      BY <1>8, <1>11
    <2>2. n <= ByteBits * y.i - p
      BY <1>3, <1>6, <2>1
    <2>3. ByteBits * y.i - p < n + ByteBits \/ impl = "native"
      BY <1>2, <1>5, <1>11
    <2>4. At(Drop(y, n), p + n)
      BY <1>2, <2>2, <2>3, DropIs
    <2> QED
      BY <1>5, <2>4 DEF Reads
  <1> QED
    BY <1>4, <1>10, <1>11 DEF y

LEMMA LenIs ==
  ASSUME NEW B, NEW s \in Seq(B)
  PROVE  Len(s) \in Nat
  OBVIOUS

LEMMA NativeSymbol ==
  ASSUME DataOk, NEW x, NEW p, At(x, p), NEW tree, TreeOk(tree), impl = "native"
  PROVE  /\ \A s \in SymbolsAt(data, p, tree) : Reads(huff_sym(x, tree), s, p + Len(tree[s]))
         /\ SymbolsAt(data, p, tree) = {} => huff_sym(x, tree) = {}
  <1> DEFINE y     == refill(x, MaxCode)
             peek  == [k \in 1..MaxCode |-> IF k <= Len(y.buf) THEN y.buf[k] ELSE 0]
             entry == {s \in DOMAIN tree : IsPrefix(tree[s], peek)}
             goes  == SymbolsAt(data, p, tree)
  <1>1. MaxCode \in 0..MaxCode /\ MaxCode \in Nat
    BY SizesAssumption
  <1>2. ASSUME NEW s \in DOMAIN tree
        PROVE  /\ tree[s] \in Seq({0, 1}) /\ Len(tree[s]) \in Nat /\ Len(tree[s]) <= MaxCode
               /\ y.buf \in Seq({0, 1})
               /\ Follows(p, tree[s]) <=> IsPrefix(tree[s], y.buf)
               /\ IsPrefix(tree[s], y.buf) => Reads({<<s, Drop(y, Len(tree[s]))>>}, s, p + Len(tree[s]))
    <2>1. tree[s] \in Seq({0, 1}) /\ Len(tree[s]) \in Nat /\ Len(tree[s]) <= MaxCode
      BY <1>1 DEF TreeOk
    <2> QED
      BY <1>1, <2>1, Looked
  <1>3. huff_sym(x, tree) = IF entry = {} \/ Len(tree[Max(entry)]) > Len(y.buf) THEN {}
                            ELSE {<<Max(entry), Drop(y, Len(tree[Max(entry)]))>>}
    BY DEF huff_sym
  <1> HIDE DEF y
  <1>4. ASSUME NEW s \in DOMAIN tree
        PROVE  s \in goes <=> s \in entry /\ Len(tree[s]) <= Len(y.buf)
    <2>1. /\ tree[s] \in Seq({0, 1}) /\ y.buf \in Seq({0, 1})
          /\ Len(tree[s]) \in Nat /\ Len(tree[s]) <= MaxCode /\ Len(y.buf) \in Nat
      BY <1>2, LenIs, Zenon
    <2>2. peek \in Seq({0, 1}) /\ Len(peek) = MaxCode
      BY <1>1, <2>1
    <2>3. IsPrefix(tree[s], peek) <=> Len(tree[s]) <= MaxCode /\ \A k \in 1..Len(tree[s]) : tree[s][k] = peek[k]
      <3> HIDE DEF peek
      <3>1. PICK c \in Seq({0, 1}), u \in Seq({0, 1}) : c = tree[s] /\ u = peek /\ Len(u) = MaxCode
        BY <2>1, <2>2
      <3>2. IsPrefix(c, u) <=> Len(c) <= Len(u) /\ \A k \in 1..Len(c) : c[k] = u[k]
        BY PrefixIs
      <3>3. IsPrefix(c, u) <=> Len(c) <= MaxCode /\ \A k \in 1..Len(c) : c[k] = u[k]
        BY <3>1, <3>2
      <3> QED
        BY <3>1, <3>3
    <2>4. IsPrefix(tree[s], y.buf) <=> Len(tree[s]) <= Len(y.buf) /\ \A k \in 1..Len(tree[s]) : tree[s][k] = y.buf[k]
      BY <2>1, PrefixIs
    <2>5. ASSUME Len(tree[s]) <= Len(y.buf), NEW k \in 1..Len(tree[s]) PROVE peek[k] = y.buf[k]
      BY <1>1, <2>1, <2>5
    <2> HIDE DEF peek
    <2>6. Len(tree[s]) <= Len(y.buf) => (IsPrefix(tree[s], peek) <=> IsPrefix(tree[s], y.buf))
      BY <2>1, <2>3, <2>4, <2>5
    <2>7. s \in goes <=> IsPrefix(tree[s], y.buf)
      BY <1>2, SymbolsAre
    <2> QED
      BY <2>4, <2>6, <2>7
  <1>5. ASSUME NEW s \in entry, NEW t \in entry PROVE s = t
    <2>1. y.buf \in Seq({0, 1}) /\ Len(y.buf) \in Nat
      BY <1>2, LenIs, Zenon
    <2>2. peek \in Seq({0, 1}) /\ Len(peek) = MaxCode
      BY <1>1, <2>1
    <2> HIDE DEF peek
    <2>3. /\ tree[s] \in Seq({0, 1}) /\ Len(tree[s]) \in Nat /\ Len(tree[s]) <= MaxCode
          /\ tree[t] \in Seq({0, 1}) /\ Len(tree[t]) \in Nat /\ Len(tree[t]) <= MaxCode
          /\ IsPrefix(tree[s], peek) /\ IsPrefix(tree[t], peek) /\ s \in DOMAIN tree /\ t \in DOMAIN tree
      BY <1>2
    <2>4. /\ \A k \in 1..Len(tree[s]) : tree[s][k] = peek[k]
          /\ \A k \in 1..Len(tree[t]) : tree[t][k] = peek[k]
      BY <2>2, <2>3, PrefixIs
    <2>5. IsPrefix(tree[s], tree[t]) \/ IsPrefix(tree[t], tree[s])
      <3>1. CASE Len(tree[s]) <= Len(tree[t])
        <4>1. \A k \in 1..Len(tree[s]) : tree[s][k] = tree[t][k]
          BY <2>3, <2>4, <3>1
        <4> QED
          BY <2>3, <3>1, <4>1, PrefixIs
      <3>2. CASE Len(tree[t]) <= Len(tree[s])
        <4>1. \A k \in 1..Len(tree[t]) : tree[t][k] = tree[s][k]
          BY <2>3, <2>4, <3>2
        <4> QED
          BY <2>3, <3>2, <4>1, PrefixIs
      <3> QED
        BY <2>3, <3>1, <3>2
    <2> QED
      BY <2>3, <2>5 DEF TreeOk
  <1>6. goes \subseteq DOMAIN tree /\ entry \subseteq DOMAIN tree
    BY DEF SymbolsAt
  <1> HIDE DEF entry, goes
  <1>7. ASSUME NEW s \in entry PROVE Max(entry) = s
    <2>1. entry = {s} /\ s \in Nat
      BY <1>5, <1>6, <1>7 DEF TreeOk
    <2> QED
      BY <2>1 DEF Max
  <1>8. ASSUME NEW s \in goes PROVE Reads(huff_sym(x, tree), s, p + Len(tree[s]))
    <2>1. s \in DOMAIN tree /\ s \in entry /\ Len(tree[s]) <= Len(y.buf)
      BY <1>4, <1>6, <1>8
    <2>2. Max(entry) = s /\ entry # {} /\ ~(Len(tree[s]) > Len(y.buf))
      BY <1>2, <1>7, <2>1
    <2>3. huff_sym(x, tree) = {<<s, Drop(y, Len(tree[s]))>>}
      BY <1>3, <2>2, Zenon
    <2>4. Follows(p, tree[s])
      BY <1>8, SymbolsAre DEF goes
    <2> QED
      BY <1>2, <2>1, <2>3, <2>4
  <1>9. ASSUME goes = {} PROVE huff_sym(x, tree) = {}
    <2>1. CASE entry = {}
      BY <1>3, <2>1
    <2>2. CASE entry # {}
      <3>1. PICK s \in entry : s \in DOMAIN tree /\ Max(entry) = s
        BY <1>6, <1>7, <2>2
      <3>2. Len(tree[s]) > Len(y.buf)
        BY <1>2, <1>4, <1>9, <3>1
      <3> QED
        BY <1>3, <3>1, <3>2
    <2> QED
      BY <2>1, <2>2
  <1> QED
    BY <1>8, <1>9 DEF goes

LEMMA PythonSymbol ==
  ASSUME DataOk, NEW x, NEW p, At(x, p), NEW tree, TreeOk(tree), impl # "native"
  PROVE  /\ \A s \in SymbolsAt(data, p, tree) : Reads(read_sym(x, tree), s, p + Len(tree[s]))
         /\ SymbolsAt(data, p, tree) = {} => read_sym(x, tree) = {}
  <1> DEFINE hits == {s \in DOMAIN tree : IsPrefix(tree[s], refill(x, Len(tree[s])).buf)}
             best(s) == \A t \in hits : \/ Len(tree[s]) < Len(tree[t])
                                        \/ Len(tree[s]) = Len(tree[t]) /\ s >= t
             goes == SymbolsAt(data, p, tree)
  <1>1. ASSUME NEW s \in DOMAIN tree
        PROVE  /\ s \in hits <=> s \in goes
               /\ s \in hits => Reads({<<s, Drop(refill(x, Len(tree[s])), Len(tree[s]))>>}, s, p + Len(tree[s]))
    <2>1. tree[s] \in Seq({0, 1}) /\ Len(tree[s]) \in 0..MaxCode /\ Len(tree[s]) <= Len(tree[s])
      BY DEF TreeOk
    <2>2. Follows(p, tree[s]) <=> IsPrefix(tree[s], refill(x, Len(tree[s])).buf)
      BY <2>1, Looked
    <2>3. IsPrefix(tree[s], refill(x, Len(tree[s])).buf)
            => Reads({<<s, Drop(refill(x, Len(tree[s])), Len(tree[s]))>>}, s, p + Len(tree[s]))
      BY <2>1, Looked
    <2> QED
      BY <2>2, <2>3, SymbolsAre
  <1>2. hits = goes
    BY <1>1 DEF SymbolsAt
  <1>3. read_sym(x, tree) = LET s == CHOOSE s \in hits : best(s)
                            IN  IF hits = {} THEN {}
                                ELSE {<<s, Drop(refill(x, Len(tree[s])), Len(tree[s]))>>}
    BY DEF read_sym
  <1>4. ASSUME NEW s \in goes PROVE Reads(read_sym(x, tree), s, p + Len(tree[s]))
    <2>1. s \in DOMAIN tree /\ s \in Nat /\ Len(tree[s]) \in Nat
      BY <1>4 DEF SymbolsAt, TreeOk
    <2>2. goes = {s}
      BY <1>4, OneSymbol
    <2>3. best(s)
      BY <1>2, <2>1, <2>2
    <2> HIDE DEF hits, goes
    <2>4. (CHOOSE t \in hits : best(t)) = s
      <3> HIDE DEF best
      <3> QED
        BY <1>2, <2>2, <2>3
    <2>5. read_sym(x, tree) = {<<s, Drop(refill(x, Len(tree[s])), Len(tree[s]))>>}
      <3> HIDE DEF best
      <3> QED
        BY <1>2, <1>3, <2>2, <2>4, Zenon
    <2> QED
      BY <1>1, <1>2, <2>1, <2>2, <2>5
  <1> QED
    BY <1>2, <1>3, <1>4

\* Every decoder reads the symbol whose code comes next, and no other.
LEMMA SymbolIs ==
  ASSUME DataOk, NEW x, NEW p, At(x, p), NEW tree, TreeOk(tree)
  PROVE  \/ SymbolsAt(data, p, tree) = {} /\ Symbol(x, tree) = {}
         \/ \E s \in DOMAIN tree : /\ SymbolsAt(data, p, tree) = {s}
                                   /\ Reads(Symbol(x, tree), s, p + Len(tree[s]))
  <1> DEFINE goes == SymbolsAt(data, p, tree)
  <1>1. /\ \A s \in goes : Reads(Symbol(x, tree), s, p + Len(tree[s]))
        /\ goes = {} => Symbol(x, tree) = {}
    BY NativeSymbol, PythonSymbol DEF Symbol
  <1>2. \A s, t \in goes : s = t
    BY OneSymbol
  <1>3. goes \subseteq DOMAIN tree
    BY DEF SymbolsAt
  <1> HIDE DEF goes
  <1>4. ASSUME NEW s \in goes PROVE goes = {s} /\ s \in DOMAIN tree
    BY <1>2, <1>3, <1>4
  <1> QED
    BY <1>1, <1>4 DEF goes

-------------------------------------------------------------------------------
(* Copies: every way of copying a match is Repeat.                         *)

LEMMA ModMany ==
  ASSUME NEW y \in Nat, NEW c \in Nat, NEW d \in Nat \ {0}
  PROVE  (y + c * d) % d = y % d
  <1>1. PICK q \in Nat, m \in 0..(d - 1) : q = y \div d /\ m = y % d /\ y = q * d + m
    BY Divided
  <1>2. PICK x \in Nat : x = y + c * d
    OBVIOUS
  <1>3. (q + c) * d = q * d + c * d /\ ((q + c) + 1) * d = (q * d + c * d) + d /\ q * d \in Nat /\ c * d \in Nat
    OBVIOUS
  <1>4. PICK u \in Nat : u = (q + c) * d
    OBVIOUS
  <1>5. x = u + m /\ ((q + c) + 1) * d = u + d
    BY <1>1, <1>2, <1>3, <1>4
  <1>6. u <= x /\ x < u + d
    BY <1>1, <1>5
  <1>7. x \div d = q + c
    <2>1. q + c \in Nat /\ (q + c) * d <= x /\ x < ((q + c) + 1) * d
      BY <1>4, <1>5, <1>6
    <2> QED
      BY <2>1, DivIs
  <1>8. x = (x \div d) * d + (x % d) /\ x % d \in 0..(d - 1)
    BY Divided
  <1>9. x = u + (x % d)
    BY <1>4, <1>7, <1>8
  <1>10. x % d = m
    BY <1>1, <1>5, <1>8, <1>9
  <1> QED
    BY <1>1, <1>2, <1>10

LEMMA ModSmall ==
  ASSUME NEW y \in Nat, NEW d \in Nat, y < d
  PROVE  y % d = y
  OBVIOUS

LEMMA BaseIs ==
  ASSUME NEW B, NEW o \in Seq(B), NEW d \in 1..Len(o)
  PROVE  \E b \in Nat : b = Len(o) - d /\ b + d = Len(o)
  <1>1. PICK n \in Nat : n = Len(o)
    BY LenIs
  <1>2. d \in 1..n
    BY <1>1
  <1>3. n - d \in Nat /\ (n - d) + d = n
    BY <1>2
  <1> QED
    BY <1>1, <1>3

LEMMA CatNamed ==
  ASSUME NEW B, NEW s \in Seq(B), NEW t \in Seq(B), NEW n, n = Len(s), NEW l, l = Len(t)
  PROVE  /\ n \in Nat /\ l \in Nat
         /\ s \o t \in Seq(B) /\ Len(s \o t) = n + l
         /\ \A k \in 1..n : (s \o t)[k] = s[k]
         /\ \A k \in 1..l : (s \o t)[n + k] = t[k]
  <1>1. Len(s) = n /\ Len(t) = l
    OBVIOUS
  <1>2. /\ s \o t \in Seq(B) /\ Len(s \o t) = Len(s) + Len(t)
        /\ Len(s) \in Nat /\ Len(t) \in Nat
        /\ \A k \in 1..Len(s) : (s \o t)[k] = s[k]
        /\ \A k \in 1..Len(t) : (s \o t)[Len(s) + k] = t[k]
    OBVIOUS
  <1> QED
    BY <1>1, <1>2, Zenon

\* q is o and then, again and again, what was the last d of o.
Period(q, o, d, B) ==
  /\ q \in Seq(B) /\ Len(q) >= Len(o)
  /\ \A k \in 1..Len(o) : q[k] = o[k]
  /\ \A y \in Nat : Len(o) - d + 1 + y <= Len(q) => q[Len(o) - d + 1 + y] = o[Len(o) - d + 1 + (y % d)]

LEMMA PeriodUnique ==
  ASSUME NEW B, NEW o \in Seq(B), NEW d \in 1..Len(o), NEW q, Period(q, o, d, B),
         NEW r1, Period(r1, o, d, B), Len(q) = Len(r1)
  PROVE  q = r1
  <1>1. PICK b \in Nat : b = Len(o) - d /\ b + d = Len(o)
    BY BaseIs
  <1>2. /\ q \in Seq(B) /\ r1 \in Seq(B)
        /\ \A k \in 1..(b + d) : q[k] = o[k] /\ r1[k] = o[k]
        /\ \A y \in Nat : b + 1 + y <= Len(q) => q[b + 1 + y] = r1[b + 1 + y]
    BY <1>1 DEF Period
  <1>3. ASSUME NEW k \in 1..Len(q) PROVE q[k] = r1[k]
    <2>1. CASE k <= b + d
      BY <1>2, <2>1
    <2>2. CASE k > b + d
      <3>1. PICK y \in Nat : y = k - b - 1 /\ b + 1 + y = k
        BY <2>2
      <3>2. b + 1 + y <= Len(q)
        BY <1>2, <3>1
      <3> QED
        BY <1>2, <3>1, <3>2
    <2> QED
      BY <1>1, <1>2, <2>1, <2>2
  <1> QED
    BY <1>2, <1>3, SameSeq

LEMMA PeriodStart ==
  ASSUME NEW B, NEW o \in Seq(B), NEW d \in 1..Len(o)
  PROVE  Period(o, o, d, B)
  <1>1. PICK b \in Nat : b = Len(o) - d /\ b + d = Len(o)
    BY BaseIs
  <1>2. ASSUME NEW y \in Nat, b + 1 + y <= Len(o) PROVE o[b + 1 + y] = o[b + 1 + (y % d)]
    <2>1. y < d /\ d \in Nat
      BY <1>1, <1>2
    <2>2. y % d = y
      BY <2>1, ModSmall
    <2> QED
      BY <2>2
  <1> QED
    BY <1>1, <1>2 DEF Period

\* From place s on a has whole periods.
Periods(a, s, d) == \E c \in Nat : Len(a) = s + c * d

\* a goes on with the period when it is followed by what comes after place s.
Grown(a, s, l, o, d, B) ==
  /\ Period(a \o SubSeq(a, s + 1, s + l), o, d, B)
  /\ Len(a \o SubSeq(a, s + 1, s + l)) = Len(a) + l

\* What is copied from a whole number of periods back goes on with the period.
LEMMA PeriodGrow ==
  ASSUME NEW B, NEW o \in Seq(B), NEW d \in 1..Len(o), NEW a, Period(a, o, d, B),
         NEW s \in Nat, s >= Len(o) - d, Periods(a, s, d),
         NEW l \in Nat, s + l <= Len(a)
  PROVE  Grown(a, s, l, o, d, B)
  <1>1. PICK b \in Nat : b = Len(o) - d /\ b + d = Len(o)
    BY BaseIs
  <1>2. /\ a \in Seq(B) /\ Len(a) >= Len(o)
        /\ \A k \in 1..Len(o) : a[k] = o[k]
        /\ \A y \in Nat : b + 1 + y <= Len(a) => a[b + 1 + y] = o[b + 1 + (y % d)]
    BY <1>1 DEF Period
  <1>3. PICK n \in Nat : n = Len(a) /\ n >= Len(o) /\ s + l <= n
    BY <1>2, LenIs
  <1> DEFINE t == SubSeq(a, s + 1, s + l)
             q == a \o t
  <1>4. Part(t, a, s, s + l, B)
    BY <1>2, <1>3, SubSeqPart
  <1>5. t \in Seq(B) /\ Len(t) = l /\ \A k \in 1..l : t[k] = a[s + k]
    <2>1. (s + l) - s = l
      OBVIOUS
    <2> QED
      BY <1>4, <2>1 DEF Part
  <1> HIDE DEF t
  <1>6. /\ q \in Seq(B) /\ Len(q) = n + l
        /\ \A k \in 1..n : q[k] = a[k]
        /\ \A k \in 1..l : q[n + k] = t[k]
    <2>1. n = Len(a) /\ l = Len(t) /\ a \in Seq(B) /\ t \in Seq(B)
      BY <1>2, <1>3, <1>5
    <2>2. q \in Seq(B) /\ Len(q) = n + l
      BY <2>1, CatNamed
    <2>3. \A k \in 1..n : q[k] = a[k]
      BY <2>1, CatNamed
    <2>4. \A k \in 1..l : q[n + k] = t[k]
      BY <2>1, CatNamed
    <2> QED
      BY <2>2, <2>3, <2>4
  <1> HIDE DEF q
  <1>7. \A k \in 1..Len(o) : q[k] = o[k]
    BY <1>2, <1>3, <1>6
  <1>8. ASSUME NEW y \in Nat, b + 1 + y <= n + l PROVE q[b + 1 + y] = o[b + 1 + (y % d)]
    <2>1. CASE b + 1 + y <= n
      <3>1. b + 1 + y \in 1..n
        BY <2>1
      <3>2. a[b + 1 + y] = o[b + 1 + (y % d)]
        BY <1>2, <1>3, <2>1
      <3> QED
        BY <1>6, <3>1, <3>2
    <2>2. CASE b + 1 + y > n
      <3>1. PICK k \in 1..l : n + k = b + 1 + y
        <4>1. b + 1 + y - n \in 1..l /\ n + (b + 1 + y - n) = b + 1 + y
          BY <1>8, <2>2
        <4> QED
          BY <4>1
      <3>2. q[b + 1 + y] = a[s + k]
        BY <1>5, <1>6, <3>1
      <3>3. PICK c \in Nat : Len(a) = s + c * d
        BY DEF Periods
      <3>4. PICK v \in Nat : v = c * d /\ n = s + v
        BY <1>3, <3>3
      <3>5. PICK z \in Nat : z = s + k - b - 1 /\ b + 1 + z = s + k
        <4>1. s >= b /\ k \in Nat /\ k >= 1
          BY <1>1
        <4>2. s + k - b - 1 \in Nat /\ b + 1 + (s + k - b - 1) = s + k
          BY <4>1
        <4> QED
          BY <4>2
      <3>6. y = z + v /\ b + 1 + z <= n
        BY <1>3, <3>1, <3>4, <3>5
      <3>7. a[s + k] = o[b + 1 + (z % d)]
        BY <1>2, <1>3, <3>5, <3>6
      <3>8. y % d = z % d
        <4>1. y = z + c * d /\ d \in Nat \ {0}
          BY <3>4, <3>6
        <4> QED
          BY <4>1, ModMany
      <3> QED
        BY <3>2, <3>7, <3>8
    <2> QED
      BY <1>8, <2>1, <2>2
  <1>9. Period(q, o, d, B)
    BY <1>1, <1>3, <1>6, <1>7, <1>8 DEF Period
  <1> QED
    BY <1>3, <1>6, <1>9 DEF q, t, Grown

LEMMA RepeatIs ==
  ASSUME NEW B, NEW o \in Seq(B), NEW d \in 1..Len(o), NEW m \in Nat
  PROVE  Period(Repeat(o, d, m), o, d, B) /\ Len(Repeat(o, d, m)) = Len(o) + m
  <1>1. PICK b \in Nat : b = Len(o) - d /\ b + d = Len(o)
    BY BaseIs
  <1>2. PICK n \in Nat : n = Len(o)
    BY LenIs
  <1> DEFINE t == [k \in 1..m |-> o[n - d + 1 + ((k - 1) % d)]]
             q == o \o t
  <1>3. ASSUME NEW k \in 1..m PROVE o[n - d + 1 + ((k - 1) % d)] \in B
    <2>1. k - 1 \in Nat /\ d \in Nat \ {0}
      OBVIOUS
    <2>2. (k - 1) % d \in 0..(d - 1)
      BY <2>1, Divided
    <2>3. n - d + 1 + ((k - 1) % d) \in 1..Len(o)
      BY <1>2, <2>2
    <2> QED
      BY <2>3
  <1>4. t \in Seq(B) /\ Len(t) = m /\ \A k \in 1..m : t[k] = o[b + 1 + ((k - 1) % d)]
    BY <1>1, <1>2, <1>3
  <1>5. Repeat(o, d, m) = q
    BY <1>2 DEF Repeat
  <1> HIDE DEF t
  <1>6. /\ q \in Seq(B) /\ Len(q) = n + m
        /\ \A k \in 1..n : q[k] = o[k]
        /\ \A k \in 1..m : q[n + k] = t[k]
    <2>1. n = Len(o) /\ m = Len(t) /\ t \in Seq(B)
      BY <1>2, <1>4
    <2> QED
      BY <2>1, CatNamed
  <1> HIDE DEF q
  <1>7. ASSUME NEW y \in Nat, b + 1 + y <= n + m PROVE q[b + 1 + y] = o[b + 1 + (y % d)]
    <2>1. CASE y < d
      <3>1. y % d = y
        BY <2>1, ModSmall
      <3>2. b + 1 + y \in 1..n
        BY <1>1, <1>2, <2>1
      <3> QED
        BY <1>6, <3>1, <3>2
    <2>2. CASE y >= d
      <3>1. PICK z \in Nat : z = y - d /\ y = z + 1 * d /\ z + 1 \in 1..m /\ n + (z + 1) = b + 1 + y
        BY <1>1, <1>2, <1>7, <2>2
      <3>2. y % d = z % d
        <4>1. 1 \in Nat /\ d \in Nat \ {0}
          BY <1>1
        <4>2. (z + 1 * d) % d = z % d
          BY <4>1, ModMany
        <4> QED
          BY <3>1, <4>2
      <3>3. (z + 1) - 1 = z
        OBVIOUS
      <3>4. q[b + 1 + y] = t[z + 1]
        BY <1>6, <3>1
      <3>5. t[z + 1] = o[b + 1 + (z % d)]
        BY <1>4, <3>1, <3>3
      <3> QED
        BY <3>2, <3>4, <3>5
    <2> QED
      BY <2>1, <2>2
  <1>8. Period(q, o, d, B)
    <2>1. q \in Seq(B) /\ Len(q) >= Len(o) /\ \A k \in 1..Len(o) : q[k] = o[k]
      BY <1>2, <1>6
    <2>2. PICK a \in Nat : a = Len(o) - d + 1 /\ a = b + 1 /\ Len(q) = n + m
      <3>1. PICK a \in Nat : a = b + 1
        OBVIOUS
      <3>2. Len(o) - d + 1 = b + 1
        BY <1>1, Zenon
      <3>3. Len(q) = n + m
        BY <1>6
      <3> QED
        BY <3>1, <3>2, <3>3
    <2>3. ASSUME NEW y \in Nat, a + y <= Len(q) PROVE q[a + y] = o[a + (y % d)]
      <3>1. b + 1 + y <= n + m
        BY <2>2, <2>3
      <3>2. q[b + 1 + y] = o[b + 1 + (y % d)]
        BY <1>7, <3>1
      <3> QED
        BY <2>2, <3>2, Zenon
    <2>4. \A y \in Nat : Len(o) - d + 1 + y <= Len(q) => q[Len(o) - d + 1 + y] = o[Len(o) - d + 1 + (y % d)]
      BY <2>2, <2>3, Zenon
    <2> QED
      BY <2>1, <2>4 DEF Period
  <1> QED
    BY <1>2, <1>5, <1>6, <1>8

LEMMA AppendIs ==
  ASSUME NEW B, NEW a \in Seq(B), NEW s \in Nat, s + 1 <= Len(a)
  PROVE  Append(a, a[s + 1]) = a \o SubSeq(a, s + 1, s + 1)
  <1>1. SubSeq(a, s + 1, s + 1) = <<a[s + 1]>>
    <2>1. Part(SubSeq(a, s + 1, s + 1), a, s, s + 1, B)
      BY SubSeqPart
    <2>2. (s + 1) - s = 1
      OBVIOUS
    <2>3. /\ SubSeq(a, s + 1, s + 1) \in Seq(B) /\ Len(SubSeq(a, s + 1, s + 1)) = 1
          /\ \A k \in 1..1 : SubSeq(a, s + 1, s + 1)[k] = a[s + k]
      BY <2>1, <2>2 DEF Part
    <2>4. a[s + 1] \in B
      OBVIOUS
    <2>5. PICK x \in B : x = a[s + 1]
      BY <2>4
    <2>6. <<x>> \in Seq(B) /\ Len(<<x>>) = 1 /\ <<x>>[1] = x
      OBVIOUS
    <2>7. SubSeq(a, s + 1, s + 1)[1] = x
      BY <2>3, <2>5
    <2>8. SubSeq(a, s + 1, s + 1) = <<x>>
      <3>1. PICK t \in Seq(B) : t = SubSeq(a, s + 1, s + 1) /\ Len(t) = 1 /\ t[1] = x
        BY <2>3, <2>7
      <3>2. PICK u \in Seq(B) : u = <<x>> /\ Len(u) = 1 /\ u[1] = x
        BY <2>6
      <3>3. \A k \in 1..Len(t) : t[k] = u[k]
        BY <3>1, <3>2
      <3>4. t = u
        BY <3>1, <3>2, <3>3, SameSeq
      <3> QED
        BY <3>1, <3>2, <3>4
    <2> QED
      BY <2>5, <2>8
  <1>2. a[s + 1] \in B
    OBVIOUS
  <1>3. Append(a, a[s + 1]) = a \o <<a[s + 1]>>
    BY <1>2
  <1> QED
    BY <1>1, <1>3

LEMMA BackIs ==
  ASSUME NEW B, NEW o \in Seq(B), NEW d \in 1..Len(o), NEW a, Period(a, o, d, B)
  PROVE  \E s \in Nat : /\ s = Len(a) - d /\ s >= Len(o) - d /\ s + d <= Len(a) /\ Periods(a, s, d)
                        /\ Len(a) - d + 1 = s + 1 /\ a \in Seq(B) /\ Len(a) = s + d
  <1>1. PICK b \in Nat : b = Len(o) - d /\ b + d = Len(o)
    BY BaseIs
  <1>2. a \in Seq(B) /\ Len(a) \in Nat /\ Len(a) >= Len(o)
    BY LenIs DEF Period
  <1>3. PICK s \in Nat : s = Len(a) - d /\ s + d = Len(a) /\ s >= b
    <2>1. Len(a) - d \in Nat /\ (Len(a) - d) + d = Len(a) /\ Len(a) - d >= b
      BY <1>1, <1>2
    <2> QED
      BY <2>1
  <1>4. Periods(a, s, d)
    <2>1. Len(a) = s + 1 * d
      BY <1>3
    <2> QED
      BY <2>1 DEF Periods
  <1>5. Len(a) - d + 1 = s + 1 /\ s + d <= Len(a)
    BY <1>2, <1>3
  <1> QED
    BY <1>1, <1>2, <1>3, <1>4, <1>5

LEMMA BytewiseIs ==
  ASSUME NEW B, NEW o \in Seq(B), NEW d \in 1..Len(o), NEW m \in Nat
  PROVE  Period(Bytewise(o, d, m), o, d, B) /\ Len(Bytewise(o, d, m)) = Len(o) + m
  <1>0. PICK f : BytewiseSteps(f, B, o, d, m)
    BY BytewiseRec
  <1>1. /\ f[0] = o /\ Bytewise(o, d, m) = f[m]
        /\ \A k \in 1..m : f[k] = Append(f[k - 1], f[k - 1][Len(f[k - 1]) - d + 1])
    BY <1>0 DEF BytewiseSteps
  <1>2. PICK n \in Nat : n = Len(o)
    BY LenIs
  <1> DEFINE T == {k \in Nat : k <= m => Period(f[k], o, d, B) /\ Len(f[k]) = n + k}
  <1>3. 0 \in T
    <2>1. Period(f[0], o, d, B) /\ Len(f[0]) = n + 0
      BY <1>1, <1>2, PeriodStart
    <2> QED
      BY <2>1
  <1>4. ASSUME NEW k \in Nat, k \in T PROVE k + 1 \in T
    <2> SUFFICES ASSUME k + 1 <= m PROVE Period(f[k + 1], o, d, B) /\ Len(f[k + 1]) = n + (k + 1)
      OBVIOUS
    <2>1. k + 1 \in 1..m /\ (k + 1) - 1 = k /\ k <= m
      OBVIOUS
    <2>2. PICK a : a = f[k] /\ Period(a, o, d, B) /\ Len(a) = n + k
      BY <1>4, <2>1
    <2>3. f[k + 1] = Append(a, a[Len(a) - d + 1])
      BY <1>1, <2>1, <2>2
    <2>4. PICK s \in Nat : /\ s >= Len(o) - d /\ s + d <= Len(a) /\ Periods(a, s, d)
                           /\ Len(a) - d + 1 = s + 1 /\ a \in Seq(B)
      BY <2>2, BackIs
    <2>5. s + 1 <= Len(a) /\ 1 \in Nat
      BY <1>2, <2>2, <2>4
    <2>6. f[k + 1] = a \o SubSeq(a, s + 1, s + 1)
      <3>1. Append(a, a[s + 1]) = a \o SubSeq(a, s + 1, s + 1)
        BY <2>4, <2>5, AppendIs
      <3> QED
        BY <2>3, <2>4, <3>1
    <2>7. Period(a \o SubSeq(a, s + 1, s + 1), o, d, B) /\ Len(a \o SubSeq(a, s + 1, s + 1)) = Len(a) + 1
      <3>1. Grown(a, s, 1, o, d, B)
        BY <2>2, <2>4, <2>5, PeriodGrow
      <3> QED
        BY <3>1 DEF Grown
    <2> QED
      BY <2>2, <2>6, <2>7
  <1> HIDE DEF T
  <1>5. m \in T
    BY <1>3, <1>4, NatInduct
  <1> QED
    BY <1>1, <1>2, <1>5 DEF T

LEMMA WideIs ==
  ASSUME NEW B, NEW o \in Seq(B), NEW d \in 1..Len(o), NEW m \in Nat, d >= Chunk
  PROVE  Period(Wide(o, d, m), o, d, B) /\ Len(Wide(o, d, m)) = Len(o) + m * Chunk
  <1>0. PICK f : WideSteps(f, B, o, d, m)
    BY WideRec
  <1>1. /\ f[0] = o /\ Wide(o, d, m) = f[m]
        /\ \A k \in 1..m : f[k] = f[k - 1] \o SubSeq(f[k - 1], Len(f[k - 1]) - d + 1, Len(f[k - 1]) - d + Chunk)
    BY <1>0 DEF WideSteps
  <1>2. PICK n \in Nat, h \in Nat : n = Len(o) /\ h = Chunk /\ h <= d
    BY LenIs, SizesAssumption
  <1> DEFINE T == {k \in Nat : k <= m => Period(f[k], o, d, B) /\ Len(f[k]) = n + k * h}
  <1>3. 0 \in T
    <2>1. Period(f[0], o, d, B) /\ Len(f[0]) = n + 0 * h
      BY <1>1, <1>2, PeriodStart
    <2> QED
      BY <2>1
  <1>4. ASSUME NEW k \in Nat, k \in T PROVE k + 1 \in T
    <2> SUFFICES ASSUME k + 1 <= m PROVE Period(f[k + 1], o, d, B) /\ Len(f[k + 1]) = n + (k + 1) * h
      OBVIOUS
    <2>1. k + 1 \in 1..m /\ (k + 1) - 1 = k /\ k <= m
      OBVIOUS
    <2>2. PICK a : a = f[k] /\ Period(a, o, d, B) /\ Len(a) = n + k * h
      BY <1>4, <2>1
    <2>3. f[k + 1] = a \o SubSeq(a, Len(a) - d + 1, Len(a) - d + Chunk)
      BY <1>1, <2>1, <2>2
    <2>4. PICK s \in Nat : /\ s = Len(a) - d /\ s >= Len(o) - d /\ s + d <= Len(a) /\ Periods(a, s, d)
                           /\ Len(a) - d + 1 = s + 1 /\ a \in Seq(B)
      BY <2>2, BackIs
    <2>5. s + h <= Len(a)
      <3>1. Len(a) \in Nat
        BY <2>4, LenIs
      <3> QED
        BY <1>2, <2>4, <3>1
    <2>6. f[k + 1] = a \o SubSeq(a, s + 1, s + h)
      BY <1>2, <2>3, <2>4
    <2>7. Period(a \o SubSeq(a, s + 1, s + h), o, d, B) /\ Len(a \o SubSeq(a, s + 1, s + h)) = Len(a) + h
      <3>1. Grown(a, s, h, o, d, B)
        BY <2>2, <2>4, <2>5, PeriodGrow
      <3> QED
        BY <3>1 DEF Grown
    <2>8. (n + k * h) + h = n + (k + 1) * h
      BY <1>2
    <2> QED
      BY <2>2, <2>6, <2>7, <2>8
  <1> HIDE DEF T
  <1>5. m \in T
    BY <1>3, <1>4, NatInduct
  <1> QED
    BY <1>1, <1>2, <1>5 DEF T

LEMMA WideNone ==
  ASSUME NEW o, NEW d
  PROVE  Wide(o, d, 0) = o
  <1> DEFINE body(x, k) == x \o SubSeq(x, Len(x) - d + 1, Len(x) - d + Chunk)
             P(v) == v = [k \in 0..0 |-> IF k = 0 THEN o ELSE body(v[k - 1], k)]
             f == [k \in 0..0 |-> o]
  <1>1. Wide(o, d, 0) = (CHOOSE v : P(v))[0]
    BY DEF Wide
  <1> HIDE DEF body
  <1>2. P(f)
    OBVIOUS
  <1>3. P(CHOOSE v : P(v))
    <2> HIDE DEF P, f
    <2> QED
      BY <1>2
  <1>4. PICK w : w = CHOOSE v : P(v)
    OBVIOUS
  <1>5. w[0] = o
    <2>1. P(w)
      BY <1>3, <1>4
    <2> QED
      BY <2>1
  <1> QED
    BY <1>1, <1>4, <1>5

LEMMA GrowIs ==
  ASSUME NEW B, NEW o \in Seq(B), NEW d \in 1..Len(o), NEW w, Period(w, o, d, B),
         NEW end \in Nat, end >= Len(w)
  PROVE  Period(Grow(w, Len(w) - d + 1, end), o, d, B) /\ Len(Grow(w, Len(w) - d + 1, end)) = end
  <1>1. PICK s \in Nat : /\ s = Len(w) - d /\ s >= Len(o) - d /\ s + d <= Len(w) /\ Periods(w, s, d)
                         /\ Len(w) - d + 1 = s + 1 /\ w \in Seq(B) /\ Len(w) = s + d
    BY BackIs
  <1>2. PICK n \in Nat : n = Len(w) /\ n = s + d /\ n <= end /\ s + 1 \in 1..Len(w) /\ end >= Len(w)
    <2>1. Len(w) \in Nat /\ d \in Nat \ {0}
      BY <1>1
    <2>2. s + 1 \in 1..Len(w)
      BY <1>1, <2>1
    <2> QED
      BY <1>1, <2>1, <2>2
  <1>3. PICK f : GrowSteps(f, B, w, s + 1, end)
    BY <1>1, <1>2, GrowRec
  <1>4. PICK m \in Nat : m = end - Len(w) /\ m = end - n /\ n + m = end
    BY <1>2
  <1>11. /\ f \in [0..m -> {q \in Seq(B) : Len(q) >= Len(w)}] /\ f[0] = w /\ Grow(w, s + 1, end) = f[m]
         /\ \A k \in 1..m :
              f[k] = f[k - 1] \o SubSeq(f[k - 1], s + 1, Min({Len(f[k - 1]), s + 1 + end - Len(f[k - 1]) - 1}))
    BY <1>3, <1>4 DEF GrowSteps
  <1> DEFINE T == {k \in Nat : k <= m => /\ Period(f[k], o, d, B) /\ Len(f[k]) <= end
                                         /\ Len(f[k]) = end \/ (Periods(f[k], s, d) /\ Len(f[k]) >= n + k)}
  <1>5. 0 \in T
    <2>1. Period(f[0], o, d, B) /\ Len(f[0]) <= end /\ Periods(f[0], s, d) /\ Len(f[0]) >= n + 0
      BY <1>1, <1>2, <1>11
    <2> QED
      BY <2>1
  <1>6. ASSUME NEW k \in Nat, k \in T PROVE k + 1 \in T
    <2> SUFFICES ASSUME k + 1 <= m
                 PROVE  /\ Period(f[k + 1], o, d, B) /\ Len(f[k + 1]) <= end
                        /\ Len(f[k + 1]) = end \/ (Periods(f[k + 1], s, d) /\ Len(f[k + 1]) >= n + (k + 1))
      OBVIOUS
    <2>1. k + 1 \in 1..m /\ (k + 1) - 1 = k /\ k <= m /\ k \in 0..m
      OBVIOUS
    <2>2. PICK a : /\ a = f[k] /\ Period(a, o, d, B) /\ Len(a) <= end
                   /\ Len(a) = end \/ (Periods(a, s, d) /\ Len(a) >= n + k)
      BY <1>6, <2>1
    <2>3. f[k + 1] = a \o SubSeq(a, s + 1, Min({Len(a), s + 1 + end - Len(a) - 1}))
      BY <1>11, <2>1, <2>2
    <2>4. PICK l \in Nat : l = Len(a) /\ l >= n /\ l <= end /\ a \in Seq(B)
      <3>1. a \in Seq(B) /\ Len(a) >= Len(w)
        BY <1>11, <2>1, <2>2
      <3> QED
        BY <1>2, <2>2, <3>1, LenIs
    <2>5. PICK g \in Nat : /\ g = IF l - s <= end - l THEN l - s ELSE end - l
                           /\ s + g <= l /\ Min({Len(a), s + 1 + end - Len(a) - 1}) = s + g
      <3>1. Min({l, s + 1 + end - l - 1}) = IF l <= s + 1 + end - l - 1 THEN l ELSE s + 1 + end - l - 1
        BY <2>4, MinIs
      <3>2. CASE l - s <= end - l
        <4>1. l - s \in Nat /\ s + (l - s) = l /\ l <= s + 1 + end - l - 1
          BY <1>2, <2>4, <3>2
        <4> QED
          BY <2>4, <3>1, <3>2, <4>1
      <3>3. CASE ~(l - s <= end - l)
        <4>1. end - l \in Nat /\ s + (end - l) <= l /\ s + 1 + end - l - 1 = s + (end - l) /\ ~(l <= s + 1 + end - l - 1)
          BY <1>2, <2>4, <3>3
        <4> QED
          BY <2>4, <3>1, <3>3, <4>1
      <3> QED
        BY <3>2, <3>3
    <2>6. f[k + 1] = a \o SubSeq(a, s + 1, s + g)
      BY <2>3, <2>5
    <2>7. CASE Len(a) = end
      <3>1. g = 0 /\ s + g = s
        BY <1>2, <2>4, <2>5, <2>7
      <3>2. SubSeq(a, s + 1, s) = <<>>
        OBVIOUS
      <3>3. f[k + 1] = a
        BY <2>4, <2>6, <3>1, <3>2
      <3> QED
        BY <2>2, <2>7, <3>3
    <2>8. CASE Len(a) # end
      <3>1. Periods(a, s, d) /\ l >= n + k
        BY <2>2, <2>4, <2>8
      <3>2. s >= Len(o) - d /\ s + g <= Len(a)
        BY <1>1, <2>4, <2>5
      <3>3. Period(a \o SubSeq(a, s + 1, s + g), o, d, B) /\ Len(a \o SubSeq(a, s + 1, s + g)) = Len(a) + g
        <4>1. Grown(a, s, g, o, d, B)
          BY <2>2, <3>1, <3>2, PeriodGrow
        <4> QED
          BY <4>1 DEF Grown
      <3>4. Period(f[k + 1], o, d, B) /\ Len(f[k + 1]) = l + g
        BY <2>4, <2>6, <3>3
      <3>5. CASE g = end - l
        <4>1. l + g = end
          BY <2>4, <3>5
        <4> QED
          BY <3>4, <4>1
      <3>6. CASE g # end - l
        <4>1. g = l - s /\ l + g <= end /\ l + g >= n + (k + 1)
          BY <1>2, <2>4, <2>5, <3>1, <3>6
        <4>2. PICK c \in Nat : Len(a) = s + c * d
          BY <3>1 DEF Periods
        <4>3. PICK v \in Nat : v = c * d /\ l = s + v
          BY <2>4, <4>2
        <4>4. (2 * c) * d = v + v
          BY <4>3
        <4>5. l + g = s + (v + v)
          BY <4>1, <4>3
        <4>6. Len(f[k + 1]) = s + (2 * c) * d /\ 2 * c \in Nat
          BY <3>4, <4>4, <4>5
        <4>7. Periods(f[k + 1], s, d)
          BY <4>6 DEF Periods
        <4> QED
          BY <3>4, <4>1, <4>7
      <3> QED
        BY <3>5, <3>6
    <2> QED
      BY <2>7, <2>8
  <1> HIDE DEF T
  <1>7. m \in T
    BY <1>5, <1>6, NatInduct
  <1>8. Period(f[m], o, d, B) /\ (Len(f[m]) = end \/ Len(f[m]) >= n + m) /\ Len(f[m]) <= end
    BY <1>7 DEF T
  <1>9. Len(f[m]) \in Nat
    BY <1>8, LenIs DEF Period
  <1>10. Len(f[m]) = end
    <2>1. PICK v \in Nat : v = Len(f[m])
      BY <1>9
    <2>2. n + m = end
      BY <1>4
    <2>3. (v = end \/ v >= n + m) /\ v <= end
      BY <1>8, <2>1
    <2> QED
      BY <2>1, <2>2, <2>3
  <1> QED
    BY <1>1, <1>8, <1>10, <1>11

LEMMA PeriodicIs ==
  ASSUME NEW B, NEW o \in Seq(B), NEW d \in 1..Len(o), NEW m \in Nat
  PROVE  Period(periodic(o, d, m), o, d, B) /\ Len(periodic(o, d, m)) = Len(o) + m
  <1> DEFINE seed == SubSeq(o, Len(o) - d + 1, Len(o))
  <1>0. PICK f : PeriodicSteps(f, B, o, d, m)
    BY PeriodicRec
  <1>1. /\ f[0] = o
        /\ periodic(o, d, m) = f[(m \div d)] \o SubSeq(seed, 1, m % d)
        /\ \A k \in 1..(m \div d) : f[k] = f[k - 1] \o seed
    BY <1>0 DEF PeriodicSteps
  <1>2. PICK b \in Nat : b = Len(o) - d /\ b + d = Len(o)
    BY BaseIs
  <1>3. d \in Nat \ {0}
    OBVIOUS
  <1>4. PICK q \in Nat, z \in 0..(d - 1) : q = m \div d /\ z = m % d /\ m = q * d + z
    BY <1>3, Divided
  <1>5. PICK n \in Nat : n = Len(o) /\ n = b + d /\ Len(o) - d + 1 = b + 1 /\ b >= Len(o) - d
    BY <1>2
  <1>6. seed = SubSeq(o, b + 1, b + d)
    BY <1>2, <1>5
  <1>7. ASSUME NEW a, Period(a, o, d, B), NEW l \in Nat, l <= d
        PROVE  SubSeq(a, b + 1, b + l) = SubSeq(o, b + 1, b + l)
    <2>1. a \in Seq(B) /\ b + l <= Len(a) /\ b <= b + l /\ b + l <= Len(o) /\ \A k \in 1..Len(o) : a[k] = o[k]
      <3>1. a \in Seq(B) /\ Len(a) >= Len(o) /\ \A k \in 1..Len(o) : a[k] = o[k]
        BY <1>7 DEF Period
      <3>2. Len(a) \in Nat
        BY <3>1, LenIs
      <3> QED
        BY <1>5, <1>7, <3>1, <3>2
    <2>2. Part(SubSeq(a, b + 1, b + l), a, b, b + l, B)
      BY <2>1, SubSeqPart
    <2>3. Part(SubSeq(o, b + 1, b + l), o, b, b + l, B)
      BY <2>1, SubSeqPart
    <2>4. \A k \in 1..((b + l) - b) : b + k \in 1..Len(o)
      BY <2>1
    <2>5. Part(SubSeq(a, b + 1, b + l), o, b, b + l, B)
      BY <2>1, <2>2, <2>4 DEF Part
    <2>6. b + l \in Nat
      OBVIOUS
    <2> QED
      BY <2>3, <2>5, <2>6, SamePart
  <1>8. SubSeq(seed, 1, z) = SubSeq(o, b + 1, b + z)
    <2>1. z \in Nat /\ z <= d /\ b + z <= Len(o) /\ b <= b + z /\ b + d <= Len(o) /\ b <= b + d
      BY <1>4, <1>5
    <2>2. Part(seed, o, b, b + d, B)
      <3>1. b + d \in Nat
        BY <2>1
      <3>2. Part(SubSeq(o, b + 1, b + d), o, b, b + d, B)
        BY <2>1, <3>1, SubSeqPart
      <3> QED
        BY <1>6, <3>2, Zenon
    <2>3. seed \in Seq(B) /\ Len(seed) = d
      BY <2>2 DEF Part
    <2>4. Part(SubSeq(seed, 0 + 1, z), seed, 0, z, B)
      <3> HIDE DEF seed
      <3> QED
        BY <2>1, <2>3, SubSeqPart
    <2>5. Part(SubSeq(seed, 1, z), seed, 0, z, B)
      BY <2>4
    <2> HIDE DEF seed
    <2>6. Part(SubSeq(seed, 1, z), o, b + 0, b + z, B)
      <3>1. 0 <= z /\ b + z <= b + d /\ b + d \in Nat
        BY <2>1
      <3> QED
        BY <2>1, <2>2, <2>5, <3>1, PartPart
    <2>7. b + 0 = b /\ b + z \in Nat
      BY <2>1
    <2>8. Part(SubSeq(o, b + 1, b + z), o, b, b + z, B)
      BY <2>1, SubSeqPart
    <2>9. Part(SubSeq(seed, 1, z), o, b, b + z, B)
      BY <2>6, <2>7
    <2> QED
      BY <2>7, <2>8, <2>9, SamePart
  <1> HIDE DEF seed
  <1> DEFINE T == {k \in Nat : k <= q => Period(f[k], o, d, B) /\ Len(f[k]) = n + k * d}
  <1>9. ASSUME NEW a, Period(a, o, d, B), NEW k \in Nat, Len(a) = n + k * d, NEW l \in Nat, l <= d
        PROVE  /\ Period(a \o SubSeq(o, b + 1, b + l), o, d, B)
               /\ Len(a \o SubSeq(o, b + 1, b + l)) = Len(a) + l
    <2>1. Periods(a, b, d)
      <3>1. PICK v \in Nat : v = k * d
        OBVIOUS
      <3>2. (k + 1) * d = v + d
        BY <3>1
      <3>3. Len(a) = b + (k + 1) * d
        BY <1>5, <1>9, <3>1, <3>2
      <3> QED
        BY <3>3 DEF Periods
    <2>2. b + l <= Len(a)
      <3>1. Len(a) \in Nat /\ Len(a) >= Len(o)
        BY <1>9, LenIs DEF Period
      <3>2. l <= d
        BY <1>9
      <3> QED
        BY <1>5, <3>1, <3>2
    <2>3. SubSeq(a, b + 1, b + l) = SubSeq(o, b + 1, b + l)
      BY <1>7, <1>9
    <2>4. Period(a \o SubSeq(a, b + 1, b + l), o, d, B) /\ Len(a \o SubSeq(a, b + 1, b + l)) = Len(a) + l
      <3>1. Grown(a, b, l, o, d, B)
        BY <1>5, <1>9, <2>1, <2>2, PeriodGrow
      <3> QED
        BY <3>1 DEF Grown
    <2> QED
      BY <2>3, <2>4
  <1>10. 0 \in T
    <2>1. Period(f[0], o, d, B)
      BY <1>1, PeriodStart
    <2>2. Len(f[0]) = n /\ 0 * d = 0 /\ n + 0 = n
      BY <1>1, <1>5
    <2> QED
      BY <2>1, <2>2
  <1>11. ASSUME NEW k \in Nat, k \in T PROVE k + 1 \in T
    <2> SUFFICES ASSUME k + 1 <= q PROVE Period(f[k + 1], o, d, B) /\ Len(f[k + 1]) = n + (k + 1) * d
      OBVIOUS
    <2>1. k + 1 \in 1..q /\ (k + 1) - 1 = k /\ k <= q
      OBVIOUS
    <2>2. PICK a : a = f[k] /\ Period(a, o, d, B) /\ Len(a) = n + k * d
      BY <1>11, <2>1
    <2>3. f[k + 1] = a \o SubSeq(o, b + 1, b + d)
      BY <1>1, <1>4, <1>6, <2>1, <2>2
    <2>4. d \in Nat /\ d <= d
      OBVIOUS
    <2>5. Period(f[k + 1], o, d, B) /\ Len(f[k + 1]) = Len(a) + d
      BY <1>9, <2>2, <2>3, <2>4
    <2>6. (n + k * d) + d = n + (k + 1) * d
      OBVIOUS
    <2> QED
      BY <2>2, <2>5, <2>6
  <1> HIDE DEF T
  <1>12. q \in T
    BY <1>10, <1>11, NatInduct
  <1>13. Period(f[q], o, d, B) /\ Len(f[q]) = n + q * d
    BY <1>12 DEF T
  <1>14. periodic(o, d, m) = f[q] \o SubSeq(o, b + 1, b + z)
    BY <1>1, <1>4, <1>8
  <1>15. z \in Nat /\ z <= d
    BY <1>4
  <1>16. Period(periodic(o, d, m), o, d, B) /\ Len(periodic(o, d, m)) = Len(f[q]) + z
    BY <1>9, <1>13, <1>14, <1>15
  <1>17. (n + q * d) + z = n + m
    BY <1>4
  <1> QED
    BY <1>5, <1>13, <1>16, <1>17

\* nr_expand, in every mode, is Repeat.
LEMMA NativeCopy ==
  ASSUME NEW B, NEW o \in Seq(B), NEW d \in 1..Len(o), NEW m \in Nat
  PROVE  nr_expand(o, d, m) = Repeat(o, d, m)
  <1>1. Period(Repeat(o, d, m), o, d, B) /\ Len(Repeat(o, d, m)) = Len(o) + m
    BY RepeatIs
  <1>2. CASE mode = "scalar"
    <2>1. nr_expand(o, d, m) = Bytewise(o, d, m)
      BY <1>2 DEF nr_expand
    <2>2. Period(Bytewise(o, d, m), o, d, B) /\ Len(Bytewise(o, d, m)) = Len(o) + m
      BY BytewiseIs
    <2> QED
      BY <1>1, <2>1, <2>2, PeriodUnique
  <1>3. CASE mode # "scalar"
    <2> DEFINE c == IF mode = "sse2" /\ d >= Chunk THEN m \div Chunk ELSE 0
               w == Wide(o, d, c)
    <2>1. nr_expand(o, d, m) = Grow(w, Len(w) - d + 1, Len(o) + m)
      BY <1>3 DEF nr_expand
    <2>2. PICK n \in Nat, h \in Nat \ {0} : n = Len(o) /\ h = Chunk
      BY LenIs, SizesAssumption
    <2>3. Period(w, o, d, B) /\ Len(w) \in Nat /\ Len(w) <= n + m
      <3>1. CASE mode = "sse2" /\ d >= Chunk
        <4>0. m \div h \in Nat /\ m % h \in 0..(h - 1) /\ m = (m \div h) * h + (m % h)
          BY Divided
        <4>1. PICK q \in Nat, z \in Nat : q = m \div h /\ m = q * h + z
          <5>1. m % h \in Nat
            BY <4>0
          <5> QED
            BY <4>0, <5>1
        <4>2. w = Wide(o, d, q)
          BY <2>2, <3>1, <4>1
        <4>3. Period(Wide(o, d, q), o, d, B) /\ Len(Wide(o, d, q)) = Len(o) + q * Chunk
          BY <3>1, WideIs
        <4>4. PICK v \in Nat : v = q * h /\ m = v + z
          <5>1. q * h \in Nat
            OBVIOUS
          <5> QED
            BY <4>1, <5>1
        <4>5. Len(w) = n + v
          BY <2>2, <4>2, <4>3, <4>4
        <4> QED
          BY <2>2, <4>2, <4>3, <4>4, <4>5
      <3>2. CASE ~(mode = "sse2" /\ d >= Chunk)
        <4>1. w = o
          BY <3>2, WideNone
        <4> QED
          BY <2>2, <4>1, PeriodStart
      <3> QED
        BY <3>1, <3>2
    <2> HIDE DEF w, c
    <2>4. PICK end \in Nat : end = Len(o) + m /\ end >= Len(w)
      BY <2>2, <2>3
    <2>5. Period(Grow(w, Len(w) - d + 1, end), o, d, B) /\ Len(Grow(w, Len(w) - d + 1, end)) = end
      BY <2>3, <2>4, GrowIs
    <2> QED
      BY <1>1, <2>1, <2>4, <2>5, PeriodUnique
  <1> QED
    BY <1>2, <1>3

LEMMA CopyIs ==
  ASSUME NEW B, NEW o \in Seq(B), NEW d \in 1..Len(o), NEW m \in Nat
  PROVE  /\ Copy(o, d, m) = Repeat(o, d, m)
         /\ Repeat(o, d, m) \in Seq(B) /\ Len(Repeat(o, d, m)) = Len(o) + m
  <1>1. Period(Repeat(o, d, m), o, d, B) /\ Len(Repeat(o, d, m)) = Len(o) + m
    BY RepeatIs
  <1>2. Period(periodic(o, d, m), o, d, B) /\ Len(periodic(o, d, m)) = Len(o) + m
    BY PeriodicIs
  <1>3. periodic(o, d, m) = Repeat(o, d, m)
    BY <1>1, <1>2, PeriodUnique
  <1>4. Copy(o, d, m) = Repeat(o, d, m)
    BY <1>3, NativeCopy DEF Copy
  <1>5. Repeat(o, d, m) \in Seq(B)
    BY <1>1 DEF Period
  <1> QED
    BY <1>1, <1>4, <1>5

-------------------------------------------------------------------------------
(* Plans: what the commands of a plan p come to.                           *)

Step(p, x, k) ==
  LET c == p.commands[k]
      q == x \o SubSeq(p.literals, c.offset + 1, c.offset + c.literals)
  IN  IF c.length = 0 THEN q ELSE Repeat(q, c.distance, c.length)

PlayedOf(p, n) ==
  LET o[k \in 0..n] == IF k = 0 THEN <<>> ELSE Step(p, o[k - 1], k)
  IN  o[n]

LEMMA PlayedRec ==
  ASSUME NEW p
  PROVE  /\ PlayedOf(p, 0) = <<>>
         /\ \A n \in Nat : PlayedOf(p, n + 1) = Step(p, PlayedOf(p, n), n + 1)
  <1> DEFINE body(x, k) == Step(p, x, k)
             P(v, n) == v = [k \in 0..n |-> IF k = 0 THEN <<>> ELSE body(v[k - 1], k)]
             q(n) == CHOOSE v : P(v, n)
             T == {n \in Nat : \E v : P(v, n)}
  <1>1. \A n : PlayedOf(p, n) = q(n)[n]
    BY DEF PlayedOf
  <1> HIDE DEF body
  <1>2. 0 \in T
    <2> DEFINE w == [k \in 0..0 |-> <<>>]
    <2>1. P(w, 0)
      OBVIOUS
    <2> HIDE DEF w, P
    <2> QED
      BY <2>1
  <1>3. ASSUME NEW n \in Nat, n \in T PROVE n + 1 \in T
    <2>1. PICK v : P(v, n)
      BY <1>3
    <2>2. \A k \in 0..n : v[k] = IF k = 0 THEN <<>> ELSE body(v[k - 1], k)
      BY <2>1
    <2> DEFINE w == [k \in 0..(n + 1) |-> IF k <= n THEN v[k] ELSE body(v[n], n + 1)]
               u == [k \in 0..(n + 1) |-> IF k = 0 THEN <<>> ELSE body(w[k - 1], k)]
    <2>3. ASSUME NEW k \in 0..(n + 1) PROVE w[k] = IF k = 0 THEN <<>> ELSE body(w[k - 1], k)
      <3>1. CASE k = 0
        BY <2>2, <3>1
      <3>2. CASE k \in 1..n
        <4>1. k - 1 \in 0..(n + 1) /\ k - 1 <= n /\ k <= n /\ k # 0 /\ k \in 0..n
          BY <3>2
        <4>2. w[k] = v[k] /\ w[k - 1] = v[k - 1]
          BY <4>1
        <4> QED
          BY <2>2, <4>1, <4>2
      <3>3. CASE k = n + 1
        <4>1. (n + 1) - 1 = n /\ n \in 0..(n + 1) /\ ~(n + 1 <= n) /\ n <= n /\ n + 1 \in 0..(n + 1) /\ n + 1 # 0
          OBVIOUS
        <4>2. w[n + 1] = body(v[n], n + 1) /\ w[n] = v[n]
          BY <4>1
        <4> QED
          BY <3>3, <4>1, <4>2
      <3> QED
        BY <3>1, <3>2, <3>3
    <2>4. w = [k \in 0..(n + 1) |-> w[k]]
      OBVIOUS
    <2> HIDE DEF w
    <2>5. P(w, n + 1)
      BY <2>3, <2>4
    <2> HIDE DEF P
    <2> QED
      BY <2>5
  <1>4. ASSUME NEW n \in Nat PROVE P(q(n), n)
    <2>1. n \in T
      <3> HIDE DEF T
      <3> QED
        BY <1>2, <1>3, NatInduct
    <2> HIDE DEF P
    <2> QED
      BY <2>1
  <1> HIDE DEF q, T
  <1>5. ASSUME NEW n \in Nat
        PROVE  q(n)[0] = <<>> /\ \A k \in 1..n : q(n)[k] = body(q(n)[k - 1], k)
    BY <1>4
  <1> HIDE DEF P
  <1>6. ASSUME NEW n \in Nat PROVE PlayedOf(p, n + 1) = Step(p, PlayedOf(p, n), n + 1)
    <2>1. PICK v, w : v = q(n) /\ w = q(n + 1)
      OBVIOUS
    <2>2. /\ v[0] = w[0] /\ \A k \in 1..n : v[k - 1] = w[k - 1] => v[k] = w[k]
          /\ w[n + 1] = body(w[n], n + 1)
      <3>1. v[0] = <<>> /\ \A k \in 1..n : v[k] = body(v[k - 1], k)
        BY <1>5, <2>1
      <3>2. w[0] = <<>> /\ \A k \in 1..(n + 1) : w[k] = body(w[k - 1], k)
        BY <1>5, <2>1
      <3>3. n + 1 \in 1..(n + 1) /\ (n + 1) - 1 = n /\ \A k \in 1..n : k \in 1..(n + 1)
        OBVIOUS
      <3> QED
        BY <3>1, <3>2, <3>3
    <2>3. v[n] = w[n]
      <3>1. Agree(v, w, n)
        BY <2>2 DEF Agree
      <3> QED
        BY <3>1, Agreed
    <2>4. PlayedOf(p, n) = v[n] /\ PlayedOf(p, n + 1) = w[n + 1]
      BY <1>1, <2>1
    <2> QED
      BY <2>2, <2>3, <2>4 DEF body
  <1>7. PlayedOf(p, 0) = <<>>
    BY <1>1, <1>5
  <1> QED
    BY <1>6, <1>7

CommandGood(p, k) ==
  LET c == p.commands[k]
  IN  /\ c.offset + c.literals <= Len(p.literals)
      /\ c.length > 0 => c.distance \in 1..(Len(PlayedOf(p, k - 1)) + c.literals)

PlanGood(p) ==
  /\ p = [literals |-> p.literals, commands |-> p.commands, size |-> p.size, anchor |-> p.anchor]
  /\ p.literals \in Seq(ByteVal) /\ p.anchor \in 0..Len(p.literals)
  /\ p.commands \in Seq(Cmd)
  /\ \A k \in 1..Len(p.commands) : CommandGood(p, k)

LEMMA CommandIs ==
  ASSUME NEW p, PlanGood(p), NEW k \in 1..Len(p.commands)
  PROVE  /\ p.commands[k].offset \in Nat /\ p.commands[k].literals \in Nat
         /\ p.commands[k].distance \in Nat /\ p.commands[k].length \in Nat
  <1>1. p.commands[k] \in Cmd
    BY ElementIn DEF PlanGood
  <1> QED
    BY <1>1 DEF Cmd

Kept(s, a, n) == \A t \in Seq(ByteVal) : SubSeq(s \o t, a + 1, a + n) = SubSeq(s, a + 1, a + n)

\* Literals of a command, taken from the literals of a plan or of one with more.
LEMMA LiteralsIs ==
  ASSUME NEW s \in Seq(ByteVal), NEW a \in Nat, NEW n \in Nat, a + n <= Len(s)
  PROVE  /\ SubSeq(s, a + 1, a + n) \in Seq(ByteVal) /\ Len(SubSeq(s, a + 1, a + n)) = n
         /\ Kept(s, a, n)
  <1>1. PICK B : B = ByteVal
    OBVIOUS
  <1>2. s \in Seq(B) /\ a + n \in Nat /\ a <= a + n /\ (a + n) - a = n
    BY <1>1
  <1>3. Part(SubSeq(s, a + 1, a + n), s, a, a + n, B)
    BY <1>2, SubSeqPart
  <1>4. SubSeq(s, a + 1, a + n) \in Seq(B) /\ Len(SubSeq(s, a + 1, a + n)) = n
    BY <1>2, <1>3 DEF Part
  <1>5. ASSUME NEW t \in Seq(B) PROVE SubSeq(s \o t, a + 1, a + n) = SubSeq(s, a + 1, a + n)
    <2>1. PICK w \in Seq(B) : w = s \o t /\ Len(s) <= Len(w) /\ \A k \in 1..Len(s) : w[k] = s[k]
      <3>1. /\ s \o t \in Seq(B) /\ Len(s \o t) = Len(s) + Len(t)
            /\ Len(s) \in Nat /\ Len(t) \in Nat
            /\ \A k \in 1..Len(s) : (s \o t)[k] = s[k]
        BY <1>2, CatIs
      <3>2. PICK w : w = s \o t
        OBVIOUS
      <3>3. Len(s) <= Len(w)
        BY <3>1, <3>2
      <3> QED
        BY <3>1, <3>2, <3>3
    <2>2. Part(SubSeq(w, a + 1, a + n), w, a, a + n, B)
      <3>1. a + n <= Len(w)
        BY <1>2, <2>1, LenIs
      <3> QED
        BY <1>2, <3>1, SubSeqPart
    <2>3. \A k \in 1..n : a + k \in 1..Len(s)
      OBVIOUS
    <2>4. Part(SubSeq(w, a + 1, a + n), s, a, a + n, B)
      BY <1>2, <2>1, <2>2, <2>3 DEF Part
    <2> QED
      BY <1>2, <1>3, <2>1, <2>4, SamePart
  <1> QED
    BY <1>1, <1>4, <1>5 DEF Kept

\* Command k of a plan can be carried out where those before it have been.
Carried(p, k) ==
  LET c == p.commands[k]
      x == PlayedOf(p, k - 1)
      q == x \o SubSeq(p.literals, c.offset + 1, c.offset + c.literals)
  IN  /\ q \in Seq(ByteVal) /\ Len(q) = Len(x) + c.literals
      /\ c.length > 0 => c.distance \in 1..Len(q)
      /\ PlayedOf(p, k) = IF c.length = 0 THEN q ELSE Repeat(q, c.distance, c.length)
      /\ PlayedOf(p, k) \in Seq(ByteVal)
      /\ Len(PlayedOf(p, k)) = Len(x) + c.literals + c.length

LEMMA StepIs ==
  ASSUME NEW p, PlanGood(p), NEW k \in 1..Len(p.commands), PlayedOf(p, k - 1) \in Seq(ByteVal)
  PROVE  Carried(p, k)
  <1>1. PICK B : B = ByteVal
    OBVIOUS
  <1> DEFINE c == p.commands[k]
             q == PlayedOf(p, k - 1) \o SubSeq(p.literals, c.offset + 1, c.offset + c.literals)
  <1>2. PICK x \in Seq(B) : x = PlayedOf(p, k - 1)
    BY <1>1
  <1>3. PICK a \in Nat, n \in Nat, d \in Nat, m \in Nat :
          a = c.offset /\ n = c.literals /\ d = c.distance /\ m = c.length
    BY CommandIs
  <1>4. a + n <= Len(p.literals) /\ (m > 0 => d \in 1..(Len(x) + n))
    <2>1. CommandGood(p, k)
      BY DEF PlanGood
    <2> QED
      BY <1>2, <1>3, <2>1 DEF CommandGood
  <1>5. PICK t \in Seq(B) : t = SubSeq(p.literals, a + 1, a + n) /\ Len(t) = n
    <2>1. p.literals \in Seq(ByteVal)
      BY DEF PlanGood
    <2>2. SubSeq(p.literals, a + 1, a + n) \in Seq(ByteVal) /\ Len(SubSeq(p.literals, a + 1, a + n)) = n
      BY <1>4, <2>1, LiteralsIs
    <2> QED
      BY <1>1, <2>2
  <1>6. PICK l \in Nat : l = Len(x)
    BY LenIs
  <1>7. q = x \o t
    BY <1>2, <1>3, <1>5
  <1>8. x \o t \in Seq(B) /\ Len(x \o t) = l + n
    BY <1>5, <1>6, CatNamed
  <1> HIDE DEF q
  <1>9. k - 1 \in Nat /\ (k - 1) + 1 = k
    OBVIOUS
  <1>10. PlayedOf(p, k) = Step(p, PlayedOf(p, k - 1), k)
    <2>1. PlayedOf(p, (k - 1) + 1) = Step(p, PlayedOf(p, k - 1), (k - 1) + 1)
      BY <1>9, PlayedRec
    <2> QED
      BY <1>9, <2>1
  <1>11. PlayedOf(p, k) = IF m = 0 THEN q ELSE Repeat(q, d, m)
    BY <1>3, <1>10 DEF Step, q
  <1>12. PlayedOf(p, k) \in Seq(B) /\ Len(PlayedOf(p, k)) = l + n + m
    <2>1. CASE m = 0
      BY <1>7, <1>8, <1>11, <2>1
    <2>2. CASE m # 0
      <3>1. d \in 1..Len(x \o t)
        BY <1>4, <1>6, <1>8, <2>2
      <3>2. Repeat(x \o t, d, m) \in Seq(B) /\ Len(Repeat(x \o t, d, m)) = Len(x \o t) + m
        BY <1>8, <3>1, CopyIs
      <3> QED
        BY <1>7, <1>8, <1>11, <2>2, <3>2
    <2> QED
      BY <2>1, <2>2
  <1>13. m > 0 => d \in 1..Len(q)
    BY <1>4, <1>6, <1>7, <1>8
  <1>14. q \in Seq(ByteVal) /\ Len(q) = l + n
    BY <1>1, <1>7, <1>8
  <1>15. /\ q \in Seq(ByteVal) /\ Len(q) = Len(PlayedOf(p, k - 1)) + c.literals
         /\ c.length > 0 => c.distance \in 1..Len(q)
         /\ PlayedOf(p, k) = IF c.length = 0 THEN q ELSE Repeat(q, c.distance, c.length)
         /\ PlayedOf(p, k) \in Seq(ByteVal)
         /\ Len(PlayedOf(p, k)) = Len(PlayedOf(p, k - 1)) + c.literals + c.length
    BY <1>1, <1>2, <1>3, <1>6, <1>11, <1>12, <1>13, <1>14
  <1> QED
    BY <1>15 DEF Carried, q, c

LEMMA AllCarried ==
  ASSUME NEW p, PlanGood(p)
  PROVE  /\ \A k \in 1..Len(p.commands) : Carried(p, k)
         /\ \A k \in 0..Len(p.commands) : PlayedOf(p, k) \in Seq(ByteVal)
  <1>1. PICK L \in Nat : L = Len(p.commands)
    BY LenIs DEF PlanGood
  <1> DEFINE T == {k \in Nat : k <= L => PlayedOf(p, k) \in Seq(ByteVal)}
  <1>2. 0 \in T
    <2>1. PlayedOf(p, 0) = <<>>
      BY PlayedRec
    <2>2. <<>> \in Seq(ByteVal)
      OBVIOUS
    <2> QED
      BY <2>1, <2>2
  <1>3. ASSUME NEW k \in Nat, k \in T PROVE k + 1 \in T
    <2> SUFFICES ASSUME k + 1 <= L PROVE PlayedOf(p, k + 1) \in Seq(ByteVal)
      OBVIOUS
    <2>1. k + 1 \in 1..Len(p.commands) /\ (k + 1) - 1 = k /\ PlayedOf(p, k) \in Seq(ByteVal)
      BY <1>1, <1>3
    <2>2. Carried(p, k + 1)
      BY <2>1, StepIs
    <2> QED
      BY <2>2 DEF Carried
  <1> HIDE DEF T
  <1>4. Nat \subseteq T
    BY <1>2, <1>3, NatInduct
  <1>5. ASSUME NEW k \in 0..Len(p.commands) PROVE PlayedOf(p, k) \in Seq(ByteVal)
    BY <1>1, <1>4 DEF T
  <1>6. ASSUME NEW k \in 1..Len(p.commands) PROVE Carried(p, k)
    <2>1. k - 1 \in 0..Len(p.commands)
      BY <1>1
    <2> QED
      BY <1>5, <2>1, StepIs
  <1> QED
    BY <1>5, <1>6

\* What is carried out never shrinks.
LEMMA PlayedGrows ==
  ASSUME NEW p, PlanGood(p), NEW k \in 0..Len(p.commands)
  PROVE  Len(PlayedOf(p, k)) \in Nat /\ Len(PlayedOf(p, k)) <= Len(PlayedOf(p, Len(p.commands)))
  <1>1. PICK L \in Nat : L = Len(p.commands)
    BY LenIs DEF PlanGood
  <1>2. \A j \in 0..L : Len(PlayedOf(p, j)) \in Nat
    <2> TAKE j \in 0..L
    <2>1. PlayedOf(p, j) \in Seq(ByteVal)
      BY <1>1, AllCarried
    <2> QED
      BY <2>1, LenIs
  <1> DEFINE T == {j \in Nat : k + j <= L => Len(PlayedOf(p, k)) <= Len(PlayedOf(p, k + j))}
  <1>3. k \in Nat /\ k + 0 = k /\ k \in 0..L
    BY <1>1
  <1>4. 0 \in T
    BY <1>2, <1>3
  <1>5. ASSUME NEW j \in Nat, j \in T PROVE j + 1 \in T
    <2> SUFFICES ASSUME k + (j + 1) <= L PROVE Len(PlayedOf(p, k)) <= Len(PlayedOf(p, k + (j + 1)))
      OBVIOUS
    <2>1. PICK i \in Nat : i = k + (j + 1) /\ i \in 1..L /\ i - 1 = k + j /\ k + j \in 0..L /\ k + j <= L /\ i \in 0..L
      BY <1>3
    <2>2. PICK a \in Nat, b \in Nat, c \in Nat :
            a = Len(PlayedOf(p, k)) /\ b = Len(PlayedOf(p, k + j)) /\ c = Len(PlayedOf(p, i))
      BY <1>2, <1>3, <2>1
    <2>3. a <= b
      BY <1>5, <2>1, <2>2
    <2>4. PICK n \in Nat, m \in Nat : n = p.commands[i].literals /\ m = p.commands[i].length
      BY <1>1, <2>1, CommandIs
    <2>5. Carried(p, i)
      BY <1>1, <2>1, AllCarried
    <2>6. c = b + n + m
      BY <2>1, <2>2, <2>4, <2>5 DEF Carried
    <2> QED
      BY <2>1, <2>2, <2>3, <2>6
  <1>6. L - k \in T
    <2> HIDE DEF T
    <2>1. L - k \in Nat
      BY <1>1
    <2> QED
      BY <1>4, <1>5, <2>1, NatInduct
  <1>7. k + (L - k) = L /\ L - k \in Nat /\ k + (L - k) <= L
    BY <1>1
  <1> QED
    BY <1>1, <1>2, <1>3, <1>6, <1>7

\* Plans that agree on the first n commands come to the same there.
LEMMA SamePlayed ==
  ASSUME NEW p, NEW q, NEW n \in Nat, \A k \in 1..n : \A x : Step(p, x, k) = Step(q, x, k)
  PROVE  \A k \in 0..n : PlayedOf(p, k) = PlayedOf(q, k)
  <1> DEFINE f == [k \in Nat |-> PlayedOf(p, k)]
             g == [k \in Nat |-> PlayedOf(q, k)]
  <1>1. f[0] = g[0]
    BY PlayedRec
  <1>2. ASSUME NEW k \in 1..n, f[k - 1] = g[k - 1] PROVE f[k] = g[k]
    <2>1. k - 1 \in Nat /\ (k - 1) + 1 = k /\ k \in Nat
      OBVIOUS
    <2>2. PlayedOf(p, k - 1) = PlayedOf(q, k - 1)
      BY <1>2, <2>1
    <2>3. /\ PlayedOf(p, (k - 1) + 1) = Step(p, PlayedOf(p, k - 1), (k - 1) + 1)
          /\ PlayedOf(q, (k - 1) + 1) = Step(q, PlayedOf(q, k - 1), (k - 1) + 1)
      BY <2>1, PlayedRec
    <2>4. PlayedOf(p, k) = Step(p, PlayedOf(p, k - 1), k) /\ PlayedOf(q, k) = Step(q, PlayedOf(q, k - 1), k)
      BY <2>1, <2>3
    <2> QED
      BY <2>1, <2>2, <2>4
  <1>3. \A k \in 0..n : k \in Nat
    OBVIOUS
  <1>4. \A k \in Nat : f[k] = PlayedOf(p, k) /\ g[k] = PlayedOf(q, k)
    OBVIOUS
  <1> HIDE DEF f, g
  <1>5. \A k \in 0..n : f[k] = g[k]
    <2>1. Agree(f, g, n)
      BY <1>1, <1>2 DEF Agree
    <2> QED
      BY <2>1, Agreed
  <1> QED
    BY <1>3, <1>4, <1>5

\* Literals not yet in a command, and what a plan in the making comes to.
Pending(p) == SubSeq(p.literals, p.anchor + 1, Len(p.literals))
So(p)   == PlayedOf(p, Len(p.commands)) \o Pending(p)

LEMMA CatAssoc ==
  ASSUME NEW B, NEW s \in Seq(B), NEW t \in Seq(B), NEW u \in Seq(B)
  PROVE  s \o (t \o u) = (s \o t) \o u
  OBVIOUS

Joined(s, t, u) == s \o (t \o u) = (s \o t) \o u

LEMMA CatJoined ==
  ASSUME NEW B, NEW s \in Seq(B), NEW t \in Seq(B), NEW u \in Seq(B)
  PROVE  Joined(s, t, u)
  BY CatAssoc DEF Joined

LEMMA TailIs ==
  ASSUME NEW p, PlanGood(p)
  PROVE  /\ Pending(p) \in Seq(ByteVal) /\ Len(Pending(p)) = Len(p.literals) - p.anchor
         /\ So(p) \in Seq(ByteVal)
         /\ Len(So(p)) = Len(PlayedOf(p, Len(p.commands))) + (Len(p.literals) - p.anchor)
         /\ Len(p.literals) \in Nat /\ p.anchor \in Nat /\ p.anchor <= Len(p.literals)
         /\ Len(p.commands) \in Nat
  <1>1. PICK B : B = ByteVal
    OBVIOUS
  <1>2. p.literals \in Seq(B) /\ p.anchor \in 0..Len(p.literals) /\ p.commands \in Seq(Cmd)
    BY <1>1 DEF PlanGood
  <1>3. PICK n \in Nat, a \in Nat, L \in Nat : n = Len(p.literals) /\ a = p.anchor /\ L = Len(p.commands) /\ a <= n
    BY <1>2, LenIs
  <1>4. Part(SubSeq(p.literals, a + 1, n), p.literals, a, n, B)
    BY <1>2, <1>3, SubSeqPart
  <1>5. PICK t \in Seq(B) : t = Pending(p) /\ Len(t) = n - a
    BY <1>3, <1>4 DEF Part, Pending
  <1>6. PICK x \in Seq(B) : x = PlayedOf(p, L)
    <2>1. L \in 0..Len(p.commands)
      BY <1>3
    <2> QED
      BY <1>1, <2>1, AllCarried
  <1>7. So(p) = x \o t
    BY <1>3, <1>5, <1>6 DEF So
  <1>8. n - a \in Nat /\ x \o t \in Seq(B) /\ Len(x \o t) = Len(x) + Len(t)
    BY <1>3, CatIs
  <1>9. Len(So(p)) = Len(x) + (n - a) /\ So(p) \in Seq(B)
    BY <1>5, <1>7, <1>8
  <1> QED
    BY <1>1, <1>3, <1>5, <1>6, <1>9

\* More literals: the commands come to what they did.
More(q, p, bytes) ==
  q = [literals |-> p.literals \o bytes, commands |-> p.commands, size |-> q.size,
       anchor |-> p.anchor]

LEMMA PlanLiterals ==
  ASSUME NEW p, PlanGood(p), NEW bytes \in Seq(ByteVal), NEW q, More(q, p, bytes)
  PROVE  /\ PlanGood(q) /\ So(q) = So(p) \o bytes
         /\ \A k \in 0..Len(p.commands) : PlayedOf(q, k) = PlayedOf(p, k)
  <1>1. PICK B : B = ByteVal
    OBVIOUS
  <1>2. /\ q.literals = p.literals \o bytes /\ q.commands = p.commands /\ q.anchor = p.anchor
        /\ q = [literals |-> q.literals, commands |-> q.commands, size |-> q.size, anchor |-> q.anchor]
    <2>1. PICK a, b, c, d : q = [literals |-> a, commands |-> b, size |-> c, anchor |-> d] /\
                            a = p.literals \o bytes /\ b = p.commands /\ d = p.anchor
      BY DEF More
    <2> QED
      BY <2>1
  <1>3. PICK s \in Seq(B) : s = p.literals
    BY <1>1 DEF PlanGood
  <1>4. PICK n \in Nat, a \in Nat, L \in Nat :
          n = Len(s) /\ a = p.anchor /\ L = Len(p.commands) /\ a <= n
    BY <1>3, TailIs
  <1>5. PICK l \in Nat : l = Len(bytes)
    BY LenIs
  <1>6. s \o bytes \in Seq(B) /\ Len(s \o bytes) = n + l
    BY <1>1, <1>4, <1>5, CatNamed
  <1>7. \A k \in 1..L : \A x : Step(q, x, k) = Step(p, x, k)
    <2> TAKE k \in 1..L
    <2> TAKE x
    <2>1. PICK c : c = p.commands[k] /\ c.offset \in Nat /\ c.literals \in Nat
      BY <1>4, CommandIs
    <2>2. PICK e \in Nat, g \in Nat : e = c.offset /\ g = c.literals
      BY <2>1
    <2>5. e + g <= Len(s) /\ s \in Seq(ByteVal)
      BY <1>1, <1>3, <1>4, <2>1, <2>2 DEF PlanGood, CommandGood
    <2>6. Kept(s, e, g)
      BY <2>5, LiteralsIs
    <2>3. SubSeq(s \o bytes, c.offset + 1, c.offset + c.literals) = SubSeq(s, c.offset + 1, c.offset + c.literals)
      BY <2>2, <2>6 DEF Kept
    <2>4. q.commands[k] = c
      BY <1>2, <2>1
    <2> QED
      BY <1>2, <1>3, <2>1, <2>3, <2>4, Zenon DEF Step
  <1>8. \A k \in 0..L : PlayedOf(q, k) = PlayedOf(p, k)
    BY <1>7, SamePlayed
  <1>9. PlanGood(q)
    <2>1. ASSUME NEW k \in 1..L PROVE CommandGood(q, k)
      <3>1. CommandGood(p, k)
        BY <1>4 DEF PlanGood
      <3>2. PICK c : c = p.commands[k] /\ c.offset \in Nat /\ c.literals \in Nat
        BY <1>4, CommandIs
      <3>3. PlayedOf(q, k - 1) = PlayedOf(p, k - 1)
        <4>1. k - 1 \in 0..L
          OBVIOUS
        <4> QED
          BY <1>8, <4>1
      <3>4. c.offset + c.literals <= n
        BY <1>3, <1>4, <3>1, <3>2 DEF CommandGood
      <3>5. c.offset + c.literals <= Len(s \o bytes)
        <4>1. PICK e \in Nat, g \in Nat : e = c.offset /\ g = c.literals
          BY <3>2
        <4>2. e + g <= n + l
          BY <3>4, <4>1
        <4> QED
          BY <1>6, <4>1, <4>2
      <3>6. c.length > 0 => c.distance \in 1..(Len(PlayedOf(p, k - 1)) + c.literals)
        BY <3>1, <3>2 DEF CommandGood
      <3> QED
        BY <1>2, <1>3, <3>2, <3>3, <3>5, <3>6 DEF CommandGood
    <2>2. q.anchor \in 0..Len(q.literals)
      BY <1>2, <1>3, <1>4, <1>6
    <2>3. q.literals \in Seq(ByteVal)
      BY <1>1, <1>2, <1>3, <1>6
    <2>4. q.commands \in Seq(Cmd) /\ Len(q.commands) = L
      BY <1>2, <1>4 DEF PlanGood
    <2> QED
      BY <1>2, <2>1, <2>2, <2>3, <2>4 DEF PlanGood
  <1>10. Pending(q) = Pending(p) \o bytes
    <2>1. n + l \in Nat /\ a <= n + l
      BY <1>4
    <2>2. Part(SubSeq(s, a + 1, n), s, a, n, B)
      BY <1>4, SubSeqPart
    <2> DEFINE w == s \o bytes
    <2>3. \A k \in 1..n : w[k] = s[k]
      BY <1>1, <1>4, <1>5, CatNamed
    <2>4. \A k \in 1..l : w[n + k] = bytes[k]
      BY <1>1, <1>4, <1>5, CatNamed
    <2>5. w \in Seq(B) /\ Len(w) = n + l
      BY <1>6
    <2> HIDE DEF w
    <2>6. Part(SubSeq(s, a + 1, n), w, a, n, B)
      <3>1. \A k \in 1..(n - a) : a + k \in 1..n
        BY <1>4
      <3> QED
        BY <2>2, <2>3, <3>1 DEF Part
    <2>7. Part(bytes, w, n, n + l, B)
      <3>1. (n + l) - n = l
        OBVIOUS
      <3> QED
        BY <1>1, <1>5, <2>4, <3>1 DEF Part
    <2>8. Part(SubSeq(s, a + 1, n) \o bytes, w, a, n + l, B)
      <3>1. n <= n + l
        OBVIOUS
      <3> QED
        BY <1>4, <2>1, <2>6, <2>7, <3>1, CatPart
    <2>9. Part(SubSeq(w, a + 1, n + l), w, a, n + l, B)
      BY <2>1, <2>5, SubSeqPart
    <2>10. SubSeq(w, a + 1, n + l) = SubSeq(s, a + 1, n) \o bytes
      BY <2>1, <2>8, <2>9, SamePart
    <2>11. Pending(q) = SubSeq(w, a + 1, n + l)
      BY <1>2, <1>3, <1>4, <2>5 DEF Pending, w
    <2>12. Pending(p) = SubSeq(s, a + 1, n)
      BY <1>3, <1>4 DEF Pending
    <2> QED
      BY <2>10, <2>11, <2>12
  <1>11. So(q) = So(p) \o bytes
    <2>1. PICK x \in Seq(B), t \in Seq(B) : x = PlayedOf(p, L) /\ t = Pending(p)
      <3>1. L \in 0..Len(p.commands)
        BY <1>4
      <3> QED
        BY <1>1, <3>1, AllCarried, TailIs
    <2>2. L \in 0..L
      OBVIOUS
    <2>3. So(q) = x \o (t \o bytes)
      BY <1>2, <1>4, <1>8, <1>10, <2>1, <2>2 DEF So
    <2>4. So(p) = x \o t
      BY <1>4, <2>1 DEF So
    <2>5. x \o (t \o bytes) = (x \o t) \o bytes
      <3>1. PICK v \in Seq(B) : v = bytes
        BY <1>1
      <3>2. x \o (t \o v) = (x \o t) \o v
        <4>1. Joined(x, t, v)
          BY CatJoined
        <4> QED
          BY <4>1 DEF Joined
      <3> QED
        BY <3>1, <3>2, Zenon
    <2> QED
      BY <2>3, <2>4, <2>5
  <1> QED
    BY <1>4, <1>8, <1>9, <1>11

NewCommand(p, d, m) ==
  [offset |-> p.anchor, literals |-> Len(p.literals) - p.anchor, distance |-> d, length |-> m]

\* Plan q is p and one more command; m bytes are repeated from d back.
OneMore(q, p, d, m) ==
  /\ q = [literals |-> p.literals, commands |-> q.commands, size |-> q.size, anchor |-> q.anchor]
  /\ q.literals = p.literals /\ q.commands = Append(p.commands, NewCommand(p, d, m))
  /\ q.anchor \in 0..Len(p.literals)

LEMMA PlanCommand ==
  ASSUME NEW p, PlanGood(p), NEW d \in Nat, NEW m \in Nat, m > 0 => d \in 1..Len(So(p)),
         NEW q, OneMore(q, p, d, m)
  PROVE  /\ PlanGood(q) /\ Len(q.commands) = Len(p.commands) + 1
         /\ \A k \in 0..Len(p.commands) : PlayedOf(q, k) = PlayedOf(p, k)
         /\ PlayedOf(q, Len(q.commands)) = IF m = 0 THEN So(p) ELSE Repeat(So(p), d, m)
         /\ q.anchor = Len(p.literals) => So(q) = PlayedOf(q, Len(q.commands))
  <1>1. PICK n \in Nat, a \in Nat, L \in Nat :
          n = Len(p.literals) /\ a = p.anchor /\ L = Len(p.commands) /\ a <= n
    BY TailIs
  <1>2. PICK c : c = NewCommand(p, d, m)
    OBVIOUS
  <1>3. c \in Cmd /\ c.offset = a /\ c.literals = n - a /\ c.distance = d /\ c.length = m
    <2>1. n - a \in Nat
      BY <1>1
    <2>2. c = [offset |-> a, literals |-> n - a, distance |-> d, length |-> m]
      BY <1>1, <1>2 DEF NewCommand
    <2> QED
      BY <2>1, <2>2 DEF Cmd
  <1>4. p.commands \in Seq(Cmd) /\ p.literals \in Seq(ByteVal)
    BY DEF PlanGood
  <1>5. /\ q.commands \in Seq(Cmd) /\ Len(q.commands) = L + 1
        /\ \A k \in 1..L : q.commands[k] = p.commands[k]
        /\ q.commands[L + 1] = c
    <2>1. q.commands = Append(p.commands, c)
      BY <1>2 DEF OneMore
    <2> QED
      BY <1>1, <1>3, <1>4, <2>1
  <1>6. q.literals = p.literals
    BY DEF OneMore
  <1>7. \A k \in 1..L : \A x : Step(q, x, k) = Step(p, x, k)
    BY <1>5, <1>6, Zenon DEF Step
  <1>8. \A k \in 0..L : PlayedOf(q, k) = PlayedOf(p, k)
    BY <1>7, SamePlayed
  <1>9. Len(So(p)) = Len(PlayedOf(p, L)) + (n - a)
    BY <1>1, TailIs
  <1>10. PlanGood(q)
    <2>1. ASSUME NEW k \in 1..L PROVE CommandGood(q, k)
      <3>1. CommandGood(p, k)
        BY <1>1 DEF PlanGood
      <3>2. PlayedOf(q, k - 1) = PlayedOf(p, k - 1)
        <4>1. k - 1 \in 0..L
          OBVIOUS
        <4> QED
          BY <1>8, <4>1
      <3>3. q.commands[k] = p.commands[k]
        BY <1>5
      <3> QED
        BY <1>6, <3>1, <3>2, <3>3, Zenon DEF CommandGood
    <2>2. CommandGood(q, L + 1)
      <3>1. (L + 1) - 1 = L /\ L \in 0..L /\ a + (n - a) <= n
        BY <1>1
      <3>2. PlayedOf(q, (L + 1) - 1) = PlayedOf(p, L)
        BY <1>8, <3>1
      <3>3. m > 0 => d \in 1..(Len(PlayedOf(q, (L + 1) - 1)) + (n - a))
        BY <1>9, <3>2
      <3> QED
        BY <1>1, <1>3, <1>5, <1>6, <3>1, <3>3 DEF CommandGood
    <2>3. \A k \in 1..(L + 1) : k \in 1..L \/ k = L + 1
      OBVIOUS
    <2>4. \A k \in 1..Len(q.commands) : CommandGood(q, k)
      BY <1>5, <2>1, <2>2, <2>3
    <2>5. q.anchor \in 0..Len(q.literals) /\ q.literals \in Seq(ByteVal)
      BY <1>4, <1>6 DEF OneMore
    <2>6. q = [literals |-> q.literals, commands |-> q.commands, size |-> q.size, anchor |-> q.anchor]
      BY <1>6 DEF OneMore
    <2> QED
      BY <1>5, <2>4, <2>5, <2>6 DEF PlanGood
  <1>11. PlayedOf(q, L + 1) = IF m = 0 THEN So(p) ELSE Repeat(So(p), d, m)
    <2>1. PlayedOf(q, L + 1) = Step(q, PlayedOf(q, L), L + 1)
      BY PlayedRec
    <2>2. PlayedOf(q, L) = PlayedOf(p, L)
      <3>1. L \in 0..L
        OBVIOUS
      <3> QED
        BY <1>8, <3>1
    <2>3. a + (n - a) = n
      BY <1>1
    <2>4. PICK x : x = PlayedOf(p, L)
      OBVIOUS
    <2>5. So(p) = x \o SubSeq(p.literals, a + 1, n)
      BY <1>1, <2>4 DEF So, Pending
    <2>6. x \o SubSeq(q.literals, c.offset + 1, c.offset + c.literals) = So(p)
      BY <1>3, <1>6, <2>3, <2>5
    <2>7. Step(q, x, L + 1) = IF c.length = 0 THEN So(p) ELSE Repeat(So(p), c.distance, c.length)
      BY <1>5, <2>6, Zenon DEF Step
    <2> QED
      BY <1>3, <2>1, <2>2, <2>4, <2>7
  <1>12. ASSUME q.anchor = n PROVE So(q) = PlayedOf(q, L + 1)
    <2>1. Pending(q) = <<>>
      <3>1. Pending(q) = SubSeq(p.literals, n + 1, n)
        BY <1>1, <1>6, <1>12 DEF Pending
      <3> QED
        BY <3>1
    <2>2. PlayedOf(q, L + 1) \in Seq(ByteVal)
      <3>1. L + 1 \in 0..Len(q.commands)
        BY <1>5
      <3> QED
        BY <1>10, <3>1, AllCarried
    <2>3. So(q) = PlayedOf(q, L + 1) \o <<>>
      BY <1>5, <2>1 DEF So
    <2> QED
      BY <2>2, <2>3
  <1> QED
    BY <1>1, <1>5, <1>8, <1>10, <1>11, <1>12

-------------------------------------------------------------------------------
(* The plan and the output of a state, and of the next one.                *)

LEMMA PlayedAre ==
  /\ \A n : Played(n) = PlayedOf(plan, n)
  /\ \A n : Played(n)' = PlayedOf(plan', n)
  BY DEF Played, PlayedOf, Step

LEMMA PlanIs ==
  /\ PlanOk <=> PlanGood(plan) /\ plan.size = Len(Outcome)
  /\ PlanOk' <=> PlanGood(plan') /\ (plan.size)' = Len(Outcome')
  BY PlayedAre DEF PlanOk, PlanGood, CommandOk, CommandGood

LEMMA OutcomeIs ==
  /\ PlanGood(plan) =>
       Outcome = IF Parsing THEN So(plan) ELSE PlayedOf(plan, Len(plan.commands))
  /\ PlanGood(plan') =>
       Outcome' = IF Parsing' THEN So(plan') ELSE PlayedOf(plan', Len((plan.commands)'))
  <1>1. ASSUME NEW p, PlanGood(p)
        PROVE  PlayedOf(p, Len(p.commands)) \o <<>> = PlayedOf(p, Len(p.commands))
    <2>1. Len(p.commands) \in 0..Len(p.commands)
      BY <1>1, TailIs
    <2>2. PlayedOf(p, Len(p.commands)) \in Seq(ByteVal)
      BY <1>1, <2>1, AllCarried
    <2> QED
      BY <2>2
  <1>2. Outcome = PlayedOf(plan, Len(plan.commands)) \o (IF Parsing THEN Pending(plan) ELSE <<>>)
    BY PlayedAre DEF Outcome, Parsing, Pending
  <1>3. Outcome' = PlayedOf(plan', Len((plan.commands)')) \o (IF Parsing' THEN Pending(plan') ELSE <<>>)
    BY PlayedAre DEF Outcome, Parsing, Pending
  <1>4. ASSUME PlanGood(plan)
        PROVE  Outcome = IF Parsing THEN So(plan) ELSE PlayedOf(plan, Len(plan.commands))
    <2>1. PlayedOf(plan, Len(plan.commands)) \o <<>> = PlayedOf(plan, Len(plan.commands))
      BY <1>1, <1>4
    <2> QED
      BY <1>2, <2>1, Zenon DEF So
  <1>5. ASSUME PlanGood(plan')
        PROVE  Outcome' = IF Parsing' THEN So(plan') ELSE PlayedOf(plan', Len((plan.commands)'))
    <2>1. PlayedOf(plan', Len((plan.commands)')) \o <<>> = PlayedOf(plan', Len((plan.commands)'))
      BY <1>1, <1>5
    <2> QED
      BY <1>3, <2>1, Zenon DEF So
  <1> QED
    BY <1>4, <1>5

\* What is mapped to the output of the abstract decoder.
Output == IF impl = "ir" THEN Outcome ELSE out

\* What an action leaves that makes no output.
LEMMA SameOutput ==
  ASSUME DeflateInv, impl' = impl, plan' = plan, out' = out, ran' = ran, Parsing, Parsing'
  PROVE  PlanOk' /\ OutOk' /\ Output' = Output
  <1>1. Outcome' = Outcome
    BY PlayedAre, Zenon DEF Outcome, Parsing
  <1>2. PlanOk'
    BY <1>1, PlanIs DEF DeflateInv
  <1>3. state' # "planned" /\ state' # "done"
    BY DEF Parsing
  <1>4. Made' = Made /\ \A n : Played(n)' = Played(n)
    BY PlayedAre DEF Made
  <1>5. OutOk'
    BY <1>3, <1>4 DEF DeflateInv, OutOk
  <1> QED
    BY <1>1, <1>2, <1>5 DEF Output

LEMMA MadeIs ==
  ASSUME DeflateInv, Parsing
  PROVE  /\ Made \in Nat /\ Made = Len(Output) /\ Output \in Seq(ByteVal) /\ Made <= MaxOutput
         /\ \A k \in Nat : Room(k) <=> Made + k <= MaxOutput
  <1>1. PlanGood(plan) /\ plan.size = Len(Outcome)
    BY PlanIs DEF DeflateInv
  <1>2. Outcome = So(plan)
    BY <1>1, OutcomeIs
  <1>3. Outcome \in Seq(ByteVal)
    BY <1>1, <1>2, TailIs
  <1>4. out \in Seq(ByteVal) /\ Made <= MaxOutput
    BY DEF DeflateInv, OutOk
  <1>5. Output \in Seq(ByteVal) /\ Made = Len(Output)
    BY <1>1, <1>3, <1>4 DEF Output, Made
  <1>6. Made \in Nat
    BY <1>5, LenIs
  <1>7. \A k \in Nat : Room(k) <=> Made + k <= MaxOutput
    BY <1>6, SizesAssumption DEF Room
  <1> QED
    BY <1>4, <1>5, <1>6, <1>7

\* Bytes are emitted: to the output, or to the plan.
LEMMA EmitStep ==
  ASSUME DeflateInv, NEW bytes \in Seq(ByteVal), Emit(bytes), Room(Len(bytes)),
         impl' = impl, ran' = ran, Parsing, Parsing'
  PROVE  PlanOk' /\ OutOk' /\ Output' = Output \o bytes
  <1>1. PICK l \in Nat, n \in Nat : l = Len(bytes) /\ n = Made /\ n + l <= MaxOutput
    BY LenIs, MadeIs
  <1>2. n = Len(Output) /\ Output \in Seq(ByteVal)
    BY <1>1, MadeIs
  <1>3. state' # "planned" /\ state' # "done"
    BY DEF Parsing
  <1>4. PlanGood(plan) /\ plan.size = Len(Outcome) /\ Outcome = So(plan)
    BY PlanIs, OutcomeIs DEF DeflateInv
  <1>5. Output \o bytes \in Seq(ByteVal) /\ Len(Output \o bytes) = n + l
    BY <1>1, <1>2, CatNamed
  <1>6. CASE impl = "ir"
    <2>1. plan' = [plan EXCEPT !.literals = @ \o bytes, !.size = @ + Len(bytes)] /\ out' = out
      BY <1>6 DEF Emit
    <2>2. plan = [literals |-> plan.literals, commands |-> plan.commands, size |-> plan.size, anchor |-> plan.anchor]
      BY <1>4 DEF PlanGood
    <2>3. plan' = [literals |-> plan.literals \o bytes, commands |-> plan.commands,
                   size |-> plan.size + Len(bytes), anchor |-> plan.anchor]
      BY <2>1, <2>2
    <2>4. (plan.size)' = plan.size + Len(bytes)
      BY <2>3
    <2>5. More(plan', plan, bytes)
      BY <2>3, <2>4 DEF More
    <2>6. PlanGood(plan') /\ So(plan') = So(plan) \o bytes
      BY <1>4, <2>5, PlanLiterals
    <2>7. Outcome' = Outcome \o bytes
      BY <1>4, <2>6, OutcomeIs
    <2>8. Output = Outcome /\ Output' = Outcome' /\ n = plan.size
      BY <1>1, <1>6 DEF Output, Made
    <2>9. (plan.size)' = n + l
      BY <1>1, <2>4, <2>8
    <2>10. PlanOk'
      BY <1>5, <2>6, <2>7, <2>8, <2>9, PlanIs
    <2>11. ran = 0 /\ out = <<>>
      <3>1. ran = 0 /\ out = Played(ran)
        BY <1>6 DEF DeflateInv, OutOk
      <3> QED
        BY <3>1, PlayedAre, PlayedRec
    <2>12. OutOk'
      <3>1. Played(0)' = <<>>
        BY PlayedAre, PlayedRec
      <3>2. Made' <= MaxOutput
        BY <1>1, <1>6, <2>9 DEF Made
      <3>3. 0 \in 0..Len((plan.commands)')
        BY <2>6, TailIs
      <3>4. out' = <<>> /\ <<>> \in Seq(ByteVal) /\ ran' = 0
        BY <2>1, <2>11
      <3> QED
        BY <1>3, <1>6, <3>1, <3>2, <3>3, <3>4 DEF OutOk
    <2> QED
      BY <2>7, <2>8, <2>10, <2>12
  <1>7. CASE impl # "ir"
    <2>1. out' = out \o bytes /\ plan' = plan /\ Output = out /\ Output' = out'
      BY <1>7 DEF Emit, Output
    <2>2. Outcome' = Outcome
      BY <2>1, PlayedAre, Zenon DEF Outcome, Parsing
    <2>3. PlanOk'
      BY <2>1, <2>2, PlanIs DEF DeflateInv
    <2>4. out' \in Seq(ByteVal) /\ Len(out') = n + l
      BY <1>5, <2>1
    <2>5. Made' <= MaxOutput
      BY <1>1, <1>7, <2>4 DEF Made
    <2>6. OutOk'
      BY <1>3, <1>7, <2>1, <2>4, <2>5 DEF DeflateInv, OutOk
    <2> QED
      BY <2>1, <2>3, <2>6
  <1> QED
    BY <1>6, <1>7

\* A match is copied: in the output, or to a command.
Copied(d, m) ==
  IF impl = "ir"
  THEN /\ plan' = [plan EXCEPT !.commands = Append(@, Planned(d, m)),
                               !.anchor = Len(plan.literals), !.size = @ + m]
       /\ out' = out
  ELSE out' = Copy(out, d, m) /\ plan' = plan

LEMMA CopyStep ==
  ASSUME DeflateInv, NEW d \in Nat \ {0}, NEW m \in Nat \ {0}, d <= Made, Room(m), Copied(d, m),
         impl' = impl, ran' = ran, Parsing, Parsing'
  PROVE  PlanOk' /\ OutOk' /\ Output' = Repeat(Output, d, m)
  <1>1. PICK n \in Nat : n = Made /\ n + m <= MaxOutput
    BY MadeIs
  <1>2. n = Len(Output) /\ Output \in Seq(ByteVal) /\ d \in 1..Len(Output)
    BY <1>1, MadeIs
  <1>3. state' # "planned" /\ state' # "done"
    BY DEF Parsing
  <1>4. PlanGood(plan) /\ plan.size = Len(Outcome) /\ Outcome = So(plan)
    BY PlanIs, OutcomeIs DEF DeflateInv
  <1>5. /\ Repeat(Output, d, m) \in Seq(ByteVal) /\ Len(Repeat(Output, d, m)) = n + m
        /\ Copy(Output, d, m) = Repeat(Output, d, m)
    BY <1>2, CopyIs
  <1>6. CASE impl = "ir"
    <2>1. /\ plan' = [plan EXCEPT !.commands = Append(@, Planned(d, m)),
                                  !.anchor = Len(plan.literals), !.size = @ + m]
          /\ out' = out
      BY <1>6 DEF Copied
    <2>2. plan = [literals |-> plan.literals, commands |-> plan.commands, size |-> plan.size, anchor |-> plan.anchor]
      BY <1>4 DEF PlanGood
    <2>3. plan' = [literals |-> plan.literals, commands |-> Append(plan.commands, Planned(d, m)),
                   size |-> plan.size + m, anchor |-> Len(plan.literals)]
      BY <2>1, <2>2
    <2>4. /\ (plan.size)' = plan.size + m /\ (plan.literals)' = plan.literals
          /\ (plan.commands)' = Append(plan.commands, Planned(d, m))
          /\ (plan.anchor)' = Len(plan.literals)
      BY <2>3
    <2>5. Planned(d, m) = NewCommand(plan, d, m) /\ Len(plan.literals) \in 0..Len(plan.literals)
      BY <1>4, TailIs DEF Planned, NewCommand
    <2>6. OneMore(plan', plan, d, m)
      BY <2>3, <2>4, <2>5 DEF OneMore
    <2>7. m > 0 /\ d \in 1..Len(So(plan)) /\ m # 0 /\ d \in Nat /\ m \in Nat
      BY <1>2, <1>4, <1>6 DEF Output
    <2>8. /\ PlanGood(plan')
          /\ PlayedOf(plan', Len((plan.commands)')) = Repeat(So(plan), d, m)
          /\ So(plan') = PlayedOf(plan', Len((plan.commands)'))
      BY <1>4, <2>4, <2>6, <2>7, PlanCommand
    <2>9. Output = Outcome /\ Output' = Outcome' /\ n = plan.size
      BY <1>1, <1>6 DEF Output, Made
    <2>10. Outcome' = Repeat(Output, d, m)
      BY <1>4, <2>8, <2>9, OutcomeIs
    <2>11. (plan.size)' = n + m
      BY <2>4, <2>9
    <2>12. PlanOk'
      BY <1>5, <2>8, <2>10, <2>11, PlanIs
    <2>13. ran = 0 /\ out = <<>>
      <3>1. ran = 0 /\ out = Played(ran)
        BY <1>6 DEF DeflateInv, OutOk
      <3> QED
        BY <3>1, PlayedAre, PlayedRec
    <2>14. OutOk'
      <3>1. Played(0)' = <<>>
        BY PlayedAre, PlayedRec
      <3>2. Made' <= MaxOutput
        BY <1>1, <1>6, <2>11 DEF Made
      <3>3. 0 \in 0..Len((plan.commands)')
        BY <2>8, TailIs
      <3>4. out' = <<>> /\ <<>> \in Seq(ByteVal) /\ ran' = 0
        BY <2>1, <2>13
      <3> QED
        BY <1>3, <1>6, <3>1, <3>2, <3>3, <3>4 DEF OutOk
    <2> QED
      BY <2>9, <2>10, <2>12, <2>14
  <1>7. CASE impl # "ir"
    <2>1. out' = Copy(out, d, m) /\ plan' = plan /\ Output = out /\ Output' = out'
      BY <1>7 DEF Copied, Output
    <2>2. Outcome' = Outcome
      BY <2>1, PlayedAre, Zenon DEF Outcome, Parsing
    <2>3. PlanOk'
      BY <2>1, <2>2, PlanIs DEF DeflateInv
    <2>4. out' \in Seq(ByteVal) /\ Len(out') = n + m /\ out' = Repeat(Output, d, m)
      BY <1>5, <2>1
    <2>5. Made' <= MaxOutput
      BY <1>1, <1>7, <2>4 DEF Made
    <2>6. OutOk'
      BY <1>3, <1>7, <2>1, <2>4, <2>5 DEF DeflateInv, OutOk
    <2> QED
      BY <2>1, <2>3, <2>4, <2>6
  <1> QED
    BY <1>6, <1>7

\* tokenize returns: the literals left make the last command.
LEMMA ReturnStep ==
  ASSUME DeflateInv, Return
  PROVE  PlanOk' /\ OutOk' /\ Output' = Output
  <1>1. state = "block" /\ Parsing /\ impl' = impl /\ out' = out /\ ran' = ran
    BY DEF Return, Ends, call, Parsing
  <1>2. PlanGood(plan) /\ plan.size = Len(Outcome) /\ Outcome = So(plan)
    BY <1>1, PlanIs, OutcomeIs DEF DeflateInv
  <1>3. CASE impl = "ir"
    <2>1. plan' = [plan EXCEPT !.commands = Append(@, Planned(0, 0))] /\ state' = "planned"
      BY <1>3 DEF Return
    <2>2. plan = [literals |-> plan.literals, commands |-> plan.commands, size |-> plan.size, anchor |-> plan.anchor]
      BY <1>2 DEF PlanGood
    <2>3. plan' = [literals |-> plan.literals, commands |-> Append(plan.commands, Planned(0, 0)),
                   size |-> plan.size, anchor |-> plan.anchor]
      BY <2>1, <2>2
    <2>4. /\ (plan.size)' = plan.size /\ (plan.literals)' = plan.literals
          /\ (plan.commands)' = Append(plan.commands, Planned(0, 0))
          /\ (plan.anchor)' = plan.anchor
      BY <2>3
    <2>5. Planned(0, 0) = NewCommand(plan, 0, 0) /\ plan.anchor \in 0..Len(plan.literals)
      BY <1>2, TailIs DEF Planned, NewCommand
    <2>6. OneMore(plan', plan, 0, 0)
      BY <2>3, <2>4, <2>5 DEF OneMore
    <2>7. /\ PlanGood(plan')
          /\ PlayedOf(plan', Len((plan.commands)')) = So(plan)
      BY <1>2, <2>4, <2>6, PlanCommand
    <2>8. ~Parsing'
      BY <2>1 DEF Parsing
    <2>9. Outcome' = Outcome
      BY <1>2, <2>7, <2>8, OutcomeIs
    <2>10. PlanOk'
      BY <1>2, <2>4, <2>7, <2>9, PlanIs
    <2>11. ran = 0 /\ out = <<>>
      <3>1. ran = 0 /\ out = Played(ran)
        BY <1>1, <1>3 DEF DeflateInv, OutOk
      <3> QED
        BY <3>1, PlayedAre, PlayedRec
    <2>12. OutOk'
      <3>1. Played(0)' = <<>>
        BY PlayedAre, PlayedRec
      <3>2. Made' <= MaxOutput
        BY <1>1, <1>3, <2>4 DEF DeflateInv, OutOk, Made
      <3>3. 0 \in 0..Len((plan.commands)')
        BY <2>7, TailIs
      <3>4. out' = <<>> /\ <<>> \in Seq(ByteVal) /\ ran' = 0
        BY <1>1, <2>11
      <3> QED
        BY <1>1, <1>3, <2>1, <2>8, <3>1, <3>2, <3>3, <3>4 DEF OutOk
    <2> QED
      BY <1>1, <1>3, <2>9, <2>10, <2>12 DEF Output
  <1>4. CASE impl # "ir"
    <2>1. plan' = plan /\ state' = "done"
      BY <1>4 DEF Return
    <2>2. plan = NoPlan
      BY <1>4 DEF DeflateInv, OutOk
    <2>3. Outcome = <<>> /\ Outcome' = <<>>
      <3>1. Played(0) = <<>> /\ Played(0)' = <<>>
        BY PlayedAre, PlayedRec
      <3>2. Len(plan.commands) = 0 /\ plan.literals = <<>> /\ plan.anchor = 0 /\ Len(plan.literals) = 0
        BY <2>2 DEF NoPlan
      <3>3. SubSeq(<<>>, 0 + 1, 0) = <<>>
        OBVIOUS
      <3>4. So(plan) = <<>> /\ PlayedOf(plan', Len((plan.commands)')) = <<>>
        <4>1. PlayedOf(plan, 0) = <<>> /\ <<>> \o <<>> = <<>>
          BY PlayedRec
        <4> QED
          BY <2>1, <3>2, <3>3, <4>1 DEF So, Pending
      <3>5. ~Parsing' /\ PlanGood(plan')
        BY <1>2, <2>1 DEF Parsing
      <3> QED
        BY <1>2, <3>4, <3>5, OutcomeIs
    <2>4. PlanOk'
      BY <1>2, <2>1, <2>3, PlanIs
    <2>5. Made' = Made
      BY <1>1, <2>1 DEF Made
    <2>6. OutOk'
      BY <1>1, <1>4, <2>1, <2>5 DEF DeflateInv, OutOk
    <2> QED
      BY <1>1, <1>4, <2>4, <2>6 DEF Output
  <1> QED
    BY <1>3, <1>4

\* nr_execute at work: what is in the buffer is what the commands carried out
\* come to, and a next command is always sound.
LEMMA PlannedIs ==
  ASSUME DeflateInv, state = "planned"
  PROVE  /\ impl = "ir" /\ PlanGood(plan) /\ ~Parsing
         /\ plan.size = Len(Outcome) /\ Outcome = PlayedOf(plan, Len(plan.commands))
         /\ out = PlayedOf(plan, ran) /\ ran \in 0..Len(plan.commands)
         /\ Len(plan.commands) \in Nat /\ Len(out) <= plan.size
  <1>1. impl = "ir" /\ ~Parsing
    BY DEF DeflateInv, OutOk, Parsing
  <1>2. PlanGood(plan) /\ plan.size = Len(Outcome)
    BY PlanIs DEF DeflateInv
  <1>3. Outcome = PlayedOf(plan, Len(plan.commands))
    BY <1>1, <1>2, OutcomeIs
  <1>4. out = PlayedOf(plan, ran) /\ ran \in 0..Len(plan.commands)
    BY <1>1, PlayedAre DEF DeflateInv, OutOk
  <1>5. Len(plan.commands) \in Nat /\ Len(out) <= plan.size
    BY <1>2, <1>3, <1>4, TailIs, PlayedGrows
  <1> QED
    BY <1>1, <1>2, <1>3, <1>4, <1>5

LEMMA CommandSound ==
  ASSUME DeflateInv, state = "planned", ran < Len(plan.commands)
  PROVE  /\ Sound(Command)
         /\ LET o == out \o SubSeq(plan.literals, Command.offset + 1, Command.offset + Command.literals)
            IN  PlayedOf(plan, ran + 1)
                  = IF Command.length > 0 THEN nr_expand(o, Command.distance, Command.length) ELSE o
  <1>1. PICK k \in 1..Len(plan.commands) : k = ran + 1 /\ k - 1 = ran /\ k \in 0..Len(plan.commands)
    BY PlannedIs
  <1>2. PICK c : c = Command /\ c = plan.commands[k]
    BY <1>1 DEF Command
  <1>3. PICK a \in Nat, n \in Nat, d \in Nat, m \in Nat :
          a = c.offset /\ n = c.literals /\ d = c.distance /\ m = c.length
    BY <1>2, PlannedIs, CommandIs
  <1>4. CommandGood(plan, k) /\ Carried(plan, k)
    BY PlannedIs, AllCarried DEF PlanGood
  <1>5. a + n <= Len(plan.literals) /\ Len(plan.literals) \in Nat
    BY <1>2, <1>3, <1>4, PlannedIs, TailIs DEF CommandGood
  <1> DEFINE q == out \o SubSeq(plan.literals, a + 1, a + n)
  <1>6. /\ q \in Seq(ByteVal) /\ Len(q) = Len(out) + n
        /\ m > 0 => d \in 1..Len(q)
        /\ PlayedOf(plan, k) = IF m = 0 THEN q ELSE Repeat(q, d, m)
        /\ Len(PlayedOf(plan, k)) = Len(out) + n + m
    BY <1>1, <1>2, <1>3, <1>4, PlannedIs DEF Carried
  <1> HIDE DEF q
  <1>7. PICK l \in Nat, z \in Nat : l = Len(out) /\ z = plan.size /\ l + n + m <= z
    <2>1. Len(PlayedOf(plan, k)) <= plan.size
      BY <1>1, PlannedIs, PlayedGrows
    <2>2. Len(PlayedOf(plan, Len(plan.commands))) \in Nat
      BY PlannedIs, PlayedGrows
    <2>3. plan.size \in Nat
      BY <2>2, PlannedIs
    <2>4. Len(out) \in Nat
      BY LenIs DEF DeflateInv, OutOk
    <2> QED
      BY <1>6, <2>1, <2>3, <2>4
  <1>8. Sound(c)
    <2>1. a <= Len(plan.literals) /\ n <= Len(plan.literals) - a
      BY <1>5
    <2>2. n <= z - l /\ m <= z - (l + n)
      BY <1>7
    <2>3. m > 0 => d > 0 /\ d <= l + n
      BY <1>6, <1>7
    <2> QED
      BY <1>3, <1>7, <2>1, <2>2, <2>3 DEF Sound
  <1>9. m > 0 => nr_expand(q, d, m) = Repeat(q, d, m)
    <2>1. PICK B : B = ByteVal
      OBVIOUS
    <2> QED
      BY <1>6, <2>1, NativeCopy
  <1>10. m > 0 <=> m # 0
    OBVIOUS
  <1>11. PlayedOf(plan, ran + 1) = IF m > 0 THEN nr_expand(q, d, m) ELSE q
    BY <1>1, <1>6, <1>9, <1>10
  <1> QED
    BY <1>2, <1>3, <1>8, <1>11 DEF q

LEMMA ExecuteStep ==
  ASSUME DeflateInv, Execute
  PROVE  PlanOk' /\ OutOk' /\ Output' = Output
  <1>1. state = "planned" /\ ran < Len(plan.commands) /\ impl' = impl /\ plan' = plan /\ state' = state
    BY DEF Execute, call
  <1>2. ran' = ran + 1 /\ out' = PlayedOf(plan, ran + 1)
    BY <1>1, CommandSound DEF Execute
  <1>3. ran + 1 \in 0..Len(plan.commands) /\ ran' \in 0..Len(plan.commands)
    BY <1>1, <1>2, PlannedIs
  <1>4. out' \in Seq(ByteVal)
    BY <1>1, <1>2, <1>3, PlannedIs, AllCarried
  <1>5. Outcome' = Outcome
    BY <1>1, PlayedAre, Zenon DEF Outcome
  <1>6. PlanOk'
    BY <1>1, <1>5, PlanIs DEF DeflateInv
  <1>7. out' = Played(ran)'
    BY <1>1, <1>2, PlayedAre
  <1>8. impl = "ir" /\ Made' = Made /\ ~Parsing' /\ (state # "done")'
    BY <1>1, PlannedIs DEF Made, Parsing
  <1>9. OutOk'
    BY <1>1, <1>3, <1>4, <1>7, <1>8 DEF DeflateInv, OutOk
  <1> QED
    BY <1>1, <1>5, <1>6, <1>8, <1>9 DEF Output

LEMMA ExecutedStep ==
  ASSUME DeflateInv, Executed
  PROVE  /\ PlanOk' /\ OutOk' /\ Output' = Output
         /\ state' = "done" /\ out = Outcome /\ Len(out) = plan.size
  <1>1. /\ state = "planned" /\ (ran < Len(plan.commands) => ~Sound(Command))
        /\ impl' = impl /\ plan' = plan /\ out' = out /\ ran' = ran
        /\ state' = IF ran = Len(plan.commands) /\ Len(out) = plan.size THEN "done" ELSE "failed"
    BY DEF Executed, call
  <1>2. ran = Len(plan.commands)
    BY <1>1, PlannedIs, CommandSound
  <1>3. out = Outcome /\ Len(out) = plan.size
    BY <1>1, <1>2, PlannedIs
  <1>4. state' = "done" /\ ~Parsing' /\ ~Parsing
    BY <1>1, <1>2, <1>3 DEF Parsing
  <1>5. Outcome' = Outcome
    BY <1>1, <1>4, PlayedAre, Zenon DEF Outcome, Parsing
  <1>6. PlanOk'
    BY <1>1, <1>5, PlanIs DEF DeflateInv
  <1>7. Made' = Made /\ Played(ran)' = Played(ran)
    BY <1>1, PlayedAre DEF Made
  <1>8. OutOk'
    BY <1>1, <1>2, <1>4, <1>7, PlannedIs DEF DeflateInv, OutOk
  <1> QED
    BY <1>1, <1>3, <1>4, <1>5, <1>6, <1>8 DEF Output

-------------------------------------------------------------------------------
(* What a decoder reads next, as bits of the stream.                       *)

\* The next k bits as a number; 0 past the end of the stream.
Value(p, k) == IF p + k <= Len(data) THEN Num(SubSeq(data, p + 1, p + k)) ELSE 0

LEMMA ValueIs ==
  ASSUME DataOk, NEW p \in Nat, NEW k \in Nat
  PROVE  /\ Value(p, k) \in Nat
         /\ p + k <= Len(data) =>
              Value(p, k) = Num(SubSeq(data, p + 1, p + k)) /\ Value(p, k) \in 0..(Pow2[k] - 1)
  <1>1. CASE p + k <= Len(data)
    <2>1. p <= p + k /\ p + k \in Nat /\ (p + k) - p = k
      OBVIOUS
    <2>2. Part(SubSeq(data, p + 1, p + k), data, p, p + k, {0, 1})
      BY <1>1, <2>1, SubSeqPart DEF DataOk
    <2>3. SubSeq(data, p + 1, p + k) \in Seq({0, 1}) /\ Len(SubSeq(data, p + 1, p + k)) = k
      BY <2>1, <2>2 DEF Part
    <2>4. Num(SubSeq(data, p + 1, p + k)) \in 0..(Pow2[k] - 1)
      BY <2>3, NumRange
    <2>5. Value(p, k) \in 0..(Pow2[k] - 1)
      BY <1>1, <2>4 DEF Value
    <2> QED
      BY <1>1, <2>5 DEF Value
  <1>2. CASE ~(p + k <= Len(data))
    BY <1>2 DEF Value
  <1> QED
    BY <1>1, <1>2

LEMMA StateIs ==
  ASSUME DeflateInv
  PROVE  /\ DataOk /\ HeaderOk(header) /\ At(r, Place) /\ Place \in Nat /\ Len(data) \in Nat
         /\ TreeOk(trees[1]) /\ TreeOk(trees[2])
  <1>1. DataOk /\ HeaderOk(header)
    BY DataIs DEF DeflateInv
  <1>2. At(r, Place)
    BY <1>1, ReaderAt DEF DeflateInv, Place
  <1> QED
    BY <1>1, <1>2 DEF DeflateInv, At, DataOk

\* A reader that reads a value at p + k, if there are k bits left.
LEMMA BitsRead ==
  ASSUME DataOk, NEW x, NEW p, At(x, p), NEW k \in 0..(Word - ByteBits + 1)
  PROVE  IF p + k <= Len(data) THEN Reads(bits(x, k), Value(p, k), p + k) ELSE bits(x, k) = {}
  <1>1. p \in Nat /\ k \in Nat
    BY SizesAssumption DEF At
  <1>2. CASE p + k <= Len(data)
    <2>1. Reads(bits(x, k), Num(SubSeq(data, p + 1, p + k)), p + k)
      BY <1>2, BitsAre
    <2>2. Value(p, k) = Num(SubSeq(data, p + 1, p + k))
      BY <1>2 DEF Value
    <2> QED
      BY <1>2, <2>1, <2>2
  <1>3. CASE ~(p + k <= Len(data))
    BY <1>3, BitsAre
  <1> QED
    BY <1>2, <1>3

\* The set of blocks is one block: last or not, of this kind, with the reader at q.
Lone(S, l, kind, q) == \E z : At(z, q) /\ S = {<<l, kind, z>>}

LEMMA OneHead ==
  ASSUME NEW a, NEW v, NEW z
  PROVE  {<<a, k[1], k[2]>> : k \in {<<v, z>>}} = {<<a, v, z>>}
  OBVIOUS

LEMMA OneBit ==
  ASSUME NEW v, NEW z
  PROVE  UNION {{<<l[1] = 1, k[1], k[2]>> : k \in bits(l[2], 2)} : l \in {<<v, z>>}}
           = {<<v = 1, k[1], k[2]>> : k \in bits(z, 2)}
  <1> DEFINE F(l) == {<<l[1] = 1, k[1], k[2]>> : k \in bits(l[2], 2)}
  <1>1. ASSUME NEW l PROVE UNION {F(k) : k \in {l}} = F(l)
    <2> HIDE DEF F
    <2>1. {F(k) : k \in {l}} = {F(l)}
      OBVIOUS
    <2> QED
      BY <2>1
  <1>2. F(<<v, z>>) = {<<v = 1, k[1], k[2]>> : k \in bits(z, 2)}
    <2>1. <<v, z>>[1] = v /\ <<v, z>>[2] = z
      OBVIOUS
    <2> QED
      BY <2>1, Zenon
  <1>3. UNION {F(l) : l \in {<<v, z>>}} = F(<<v, z>>)
    <2> HIDE DEF F
    <2> QED
      BY <1>1
  <1> QED
    BY <1>2, <1>3

\* A block's first three bits.
LEMMA HeadsAre ==
  ASSUME DeflateInv
  PROVE  IF state = "block" /\ ~last /\ Place + 3 <= Len(data)
         THEN Lone(BlockHeads, Value(Place, 1) = 1, Value(Place + 1, 2), Place + 3)
         ELSE BlockHeads = {}
  <1>1. PICK p \in Nat : p = Place /\ At(r, p) /\ DataOk
    BY StateIs
  <1>2. 1 \in 0..(Word - ByteBits + 1) /\ 2 \in 0..(Word - ByteBits + 1)
    BY SizesAssumption
  <1>3. CASE ~(state = "block" /\ ~last)
    BY <1>3 DEF BlockHeads
  <1>4. CASE state = "block" /\ ~last
    <2>1. BlockHeads = UNION {{<<l[1] = 1, k[1], k[2]>> : k \in bits(l[2], 2)} : l \in bits(r, 1)}
      BY <1>4 DEF BlockHeads
    <2>2. CASE ~(p + 1 <= Len(data))
      <3>1. bits(r, 1) = {}
        BY <1>1, <1>2, <2>2, BitsRead
      <3>2. ~(p + 3 <= Len(data))
        BY <1>1, <2>2, StateIs
      <3> QED
        BY <1>1, <2>1, <3>1, <3>2
    <2>3. CASE p + 1 <= Len(data)
      <3>1. Reads(bits(r, 1), Value(p, 1), p + 1)
        BY <1>1, <1>2, <2>3, BitsRead
      <3>2. PICK z : At(z, p + 1) /\ bits(r, 1) = {<<Value(p, 1), z>>}
        BY <3>1 DEF Reads
      <3>3. BlockHeads = {<<Value(p, 1) = 1, k[1], k[2]>> : k \in bits(z, 2)}
        <4>1. UNION {{<<l[1] = 1, k[1], k[2]>> : k \in bits(l[2], 2)} : l \in {<<Value(p, 1), z>>}}
                = {<<Value(p, 1) = 1, k[1], k[2]>> : k \in bits(z, 2)}
          BY OneBit
        <4>2. bits(r, 1) = {<<Value(p, 1), z>>}
          BY <3>2
        <4> QED
          BY <2>1, <4>1, <4>2, Zenon
      <3>4. (p + 1) + 2 = p + 3
        OBVIOUS
      <3>5. CASE p + 3 <= Len(data)
        <4>1. Reads(bits(z, 2), Value(p + 1, 2), p + 3)
          <5>1. Reads(bits(z, 2), Value(p + 1, 2), (p + 1) + 2)
            BY <1>1, <1>2, <3>2, <3>4, <3>5, BitsRead
          <5> QED
            BY <3>4, <5>1
        <4>2. PICK y : At(y, p + 3) /\ bits(z, 2) = {<<Value(p + 1, 2), y>>}
          BY <4>1 DEF Reads
        <4>3. BlockHeads = {<<Value(p, 1) = 1, Value(p + 1, 2), y>>}
          <5> DEFINE a == Value(p, 1) = 1
          <5>1. BlockHeads = {<<a, k[1], k[2]>> : k \in {<<Value(p + 1, 2), y>>}}
            BY <3>3, <4>2, Zenon
          <5> HIDE DEF a
          <5>2. BlockHeads = {<<a, Value(p + 1, 2), y>>}
            BY <5>1, OneHead, Zenon
          <5> QED
            BY <5>2 DEF a
        <4> QED
          BY <1>1, <1>4, <3>5, <4>2, <4>3 DEF Lone
      <3>6. CASE ~(p + 3 <= Len(data))
        <4>1. bits(z, 2) = {}
          BY <1>1, <1>2, <3>2, <3>4, <3>6, BitsRead
        <4> QED
          BY <1>1, <3>3, <3>6, <4>1
      <3> QED
        BY <3>5, <3>6
    <2> QED
      BY <2>2, <2>3
  <1> QED
    BY <1>3, <1>4

\* The number of the first byte that starts at bit q or later.
Ceil(q) == (q + ByteBits - 1) \div ByteBits

\* A reader at byte Ceil(q), with nothing in its buffer.
Aligned(x, q) == Ceil(q) \in 0..Whole(data) /\ x = [i |-> Ceil(q), buf |-> <<>>]

\* Whole bytes given back (native) or a started byte dropped (Python): the
\* reader is at the next byte boundary.
LEMMA AlignIs ==
  ASSUME DataOk, NEW z, NEW q, At(z, q)
  PROVE  Aligned(align(z), q)
  <1>1. PICK b \in Nat \ {0} : b = ByteBits
    BY SizesAssumption
  <1>2. PICK X \in Nat : X = z.i /\ X \in 0..Whole(data) /\ X <= Whole(data) /\ Whole(data) \in Nat
    BY DEF At, DataOk
  <1>3. PICK e \in Nat : e = X * b /\ e = ByteBits * z.i
    <2>1. X * b \in Nat /\ X * b = b * X
      OBVIOUS
    <2> QED
      BY <1>1, <1>2, <2>1
  <1>4. PICK n \in Nat : n = Len(z.buf) /\ q + n = e /\ q \in Nat /\ (impl # "native" => n < b)
    <2>1. q \in Nat /\ q <= e /\ Len(z.buf) = e - q /\ (impl # "native" => e - q < b)
      BY <1>1, <1>3 DEF At, Part
    <2> QED
      BY <2>1
  <1>5. PICK m \in Nat, s \in Nat : /\ m = IF impl = "native" THEN n \div b ELSE 0
                                    /\ s < b /\ n = m * b + s
    <2>1. CASE impl = "native"
      <3>1. n \div b \in Nat /\ n % b \in 0..(b - 1) /\ n = (n \div b) * b + (n % b)
        BY Divided
      <3>2. n % b \in Nat /\ n % b < b
        BY <3>1
      <3> QED
        BY <2>1, <3>1, <3>2
    <2>2. CASE impl # "native"
      <3>1. 0 * b = 0 /\ n = 0 * b + n /\ n < b
        <4>1. 0 * b = 0
          OBVIOUS
        <4>2. n < b
          BY <1>4, <2>2
        <4> QED
          BY <4>1, <4>2
      <3> QED
        BY <2>2, <3>1
    <2> QED
      BY <2>1, <2>2
  <1>15. q + n = e /\ q \in Nat /\ e = X * b
    BY <1>3, <1>4
  <1>16. s < b /\ n = m * b + s
    BY <1>5
  <1>6. m <= X
    <2>1. SUFFICES ASSUME X + 1 <= m PROVE FALSE
      OBVIOUS
    <2>2. (X + 1) * b <= m * b
      BY <2>1, MulUp
    <2>3. (X + 1) * b = X * b + b
      OBVIOUS
    <2> QED
      <3>1. PICK c \in Nat, d \in Nat : c = X * b /\ d = m * b
        OBVIOUS
      <3>2. c + b <= d /\ q + n = c /\ n = d + s
        BY <1>15, <1>16, <2>2, <2>3, <3>1
      <3> QED
        BY <1>15, <3>2
  <1>7. PICK i \in Nat : i = X - m /\ i + m = X /\ i \in 0..Whole(data)
    BY <1>2, <1>6
  <1>8. X * b = i * b + m * b
    <2>1. (i + m) * b = i * b + m * b
      OBVIOUS
    <2> QED
      BY <1>7, <2>1
  <1>9. PICK u \in Nat : u = i * b
    OBVIOUS
  <1>10. PICK v \in Nat : v = m * b
    OBVIOUS
  <1>11. u = q + s
    <2>1. PICK c \in Nat : c = X * b
      OBVIOUS
    <2>2. c = u + v /\ q + n = c /\ n = v + s
      BY <1>8, <1>9, <1>10, <1>15, <1>16, <2>1
    <2> QED
      BY <1>15, <2>2
  <1>12. (q + b - 1) \div b = i
    <2>1. (i + 1) * b = i * b + b
      OBVIOUS
    <2>2. q + b - 1 \in Nat /\ u <= q + b - 1 /\ q + b - 1 < u + b
      BY <1>4, <1>5, <1>11
    <2>3. i * b <= q + b - 1 /\ q + b - 1 < (i + 1) * b
      BY <1>9, <2>1, <2>2
    <2> QED
      BY <2>2, <2>3, DivIs
  <1>13. align(z) = [i |-> i, buf |-> <<>>]
    BY <1>1, <1>2, <1>4, <1>5, <1>7 DEF align
  <1>14. Ceil(q) = i
    BY <1>1, <1>12 DEF Ceil
  <1> QED
    BY <1>7, <1>13, <1>14 DEF Aligned

LEMMA WholeUp ==
  ASSUME DataOk, NEW i \in Nat, NEW k \in Nat
  PROVE  /\ i * ByteBits \in Nat /\ k * ByteBits \in Nat
         /\ (i + k) * ByteBits = i * ByteBits + k * ByteBits
         /\ i + k <= Whole(data) <=> i * ByteBits + k * ByteBits <= Len(data)
  <1>1. PICK b \in Nat \ {0} : b = ByteBits
    BY SizesAssumption
  <1>2. PICK W \in Nat : W = Whole(data) /\ Len(data) = b * W
    BY <1>1 DEF DataOk
  <1>3. b * W = W * b /\ (i + k) * b = i * b + k * b /\ (W + 1) * b = W * b + b
    OBVIOUS
  <1>4. PICK u \in Nat : u = i * b
    OBVIOUS
  <1>5. PICK v \in Nat : v = k * b
    OBVIOUS
  <1>6. PICK w \in Nat : w = W * b
    OBVIOUS
  <1>7. (i + k) * b = u + v
    BY <1>3, <1>4, <1>5
  <1>8. CASE i + k <= W
    <2>1. (i + k) * b <= W * b
      BY <1>8, MulUp
    <2>2. u + v <= w
      BY <1>6, <1>7, <2>1
    <2> QED
      BY <1>1, <1>2, <1>3, <1>4, <1>5, <1>6, <1>8, <2>2
  <1>9. CASE ~(i + k <= W)
    <2>1. W + 1 <= i + k /\ W + 1 \in Nat /\ i + k \in Nat
      BY <1>9
    <2>2. (W + 1) * b <= (i + k) * b
      BY <2>1, MulUp
    <2>3. w + b <= u + v
      BY <1>3, <1>6, <1>7, <2>2
    <2>4. ~(u + v <= w)
      BY <2>3
    <2> QED
      BY <1>1, <1>2, <1>3, <1>4, <1>5, <1>6, <1>9, <2>4
  <1> QED
    BY <1>8, <1>9

LEMMA ByteIs ==
  ASSUME DataOk, NEW i \in Nat, i + 1 <= Whole(data)
  PROVE  Num(Bytes(i, 1)) = Value(i * ByteBits, ByteBits) /\ Num(Bytes(i, 1)) \in ByteVal
  <1>1. PICK b \in Nat \ {0} : b = ByteBits
    BY SizesAssumption
  <1>2. PICK u \in Nat : u = i * b
    OBVIOUS
  <1>3. (i + 1) * b = u + b
    BY <1>2
  <1>4. u + b <= Len(data)
    <2>1. 1 * ByteBits = b
      BY <1>1
    <2> QED
      BY <1>1, <1>2, <2>1, WholeUp
  <1>5. Bytes(i, 1) = SubSeq(data, u + 1, u + b)
    BY <1>1, <1>2, <1>3 DEF Bytes
  <1>6. Value(u, b) = Num(SubSeq(data, u + 1, u + b)) /\ Value(u, b) \in 0..(Pow2[b] - 1)
    BY <1>4, ValueIs
  <1> QED
    BY <1>1, <1>2, <1>5, <1>6 DEF ByteVal

\* A stored block: its length, its length's complement and its bytes follow
\* from the next byte boundary on.
StoreAt  == Ceil(Place + 3) * ByteBits
StoreLen == Value(StoreAt, ByteBits)

Fits(B, n) ==
  /\ B + 2 * ByteBits <= Len(data)
  /\ n + Value(B + ByteBits, ByteBits) = Pow2[ByteBits] - 1
  /\ B + (2 + n) * ByteBits <= Len(data)
  /\ Room(n)

StoreHead == state = "block" /\ ~last /\ Place + 3 <= Len(data) /\ Value(Place + 1, 2) = 0
StoreOk   == StoreHead /\ Fits(StoreAt, StoreLen)

LEMMA FitsIs ==
  ASSUME DataOk, NEW i \in Nat
  PROVE  LET B == i * ByteBits
             n == Value(B, ByteBits)
         IN  /\ Fits(B, n) <=> /\ i + 2 <= Whole(data)
                               /\ Num(Bytes(i, 1)) + Num(Bytes(i + 1, 1)) = Pow2[ByteBits] - 1
                               /\ i + 2 + Num(Bytes(i, 1)) <= Whole(data)
                               /\ Room(Num(Bytes(i, 1)))
             /\ n \in Nat
             /\ i + 2 <= Whole(data) => Num(Bytes(i, 1)) = n
  <1>1. PICK b \in Nat \ {0} : b = ByteBits
    BY SizesAssumption
  <1>2. PICK u \in Nat : u = i * ByteBits /\ u = i * b
    BY <1>1
  <1>3. PICK W \in Nat : W = Whole(data)
    BY DEF DataOk
  <1>4. PICK n \in Nat : n = Value(u, ByteBits)
    BY <1>1, ValueIs
  <1>5. i + 2 <= W <=> u + 2 * ByteBits <= Len(data)
    BY <1>2, <1>3, WholeUp
  <1>6. i + (2 + n) <= W <=> u + (2 + n) * ByteBits <= Len(data)
    <2>1. 2 + n \in Nat
      OBVIOUS
    <2> QED
      BY <1>2, <1>3, <2>1, WholeUp
  <1>7. i + (2 + n) = i + 2 + n
    OBVIOUS
  <1>8. ASSUME i + 2 <= W
        PROVE  Num(Bytes(i, 1)) = n /\ Num(Bytes(i + 1, 1)) = Value(u + ByteBits, ByteBits)
    <2>1. i + 1 <= W /\ (i + 1) + 1 <= W /\ i + 1 \in Nat
      BY <1>8
    <2>2. (i + 1) * b = u + b
      BY <1>2
    <2>3. Num(Bytes(i, 1)) = Value(i * ByteBits, ByteBits)
      BY <1>3, <2>1, ByteIs
    <2>4. Num(Bytes(i + 1, 1)) = Value((i + 1) * ByteBits, ByteBits)
      BY <1>3, <2>1, ByteIs
    <2> QED
      BY <1>1, <1>2, <1>4, <2>2, <2>3, <2>4
  <1> DEFINE m == Num(Bytes(i, 1))
             c == Num(Bytes(i + 1, 1))
             d == Value(u + ByteBits, ByteBits)
             E == u + 2 * ByteBits <= Len(data)
             F(k) == u + (2 + k) * ByteBits <= Len(data)
             G(k) == i + 2 + k <= W
             H(x, y) == x + y = Pow2[ByteBits] - 1
  <1>9. i + 2 <= W => m = n /\ c = d
    BY <1>8
  <1>10. (i + 2 <= W <=> E) /\ (G(n) <=> F(n))
    BY <1>5, <1>6, <1>7
  <1> HIDE DEF m, c, d, E, F, G, H
  <1>11. (E /\ H(n, d) /\ F(n) /\ Room(n)) <=> (i + 2 <= W /\ H(m, c) /\ G(m) /\ Room(m))
    <2>1. CASE i + 2 <= W
      BY <1>9, <1>10, <2>1, Zenon
    <2>2. CASE ~(i + 2 <= W)
      BY <1>10, <2>2, Zenon
    <2> QED
      BY <2>1, <2>2
  <1>12. Fits(u, n) <=> (E /\ H(n, d) /\ F(n) /\ Room(n))
    BY Zenon DEF Fits, E, H, F, d
  <1>13. Fits(u, n) <=> (i + 2 <= W /\ H(m, c) /\ G(m) /\ Room(m))
    BY <1>11, <1>12
  <1>14. Fits(u, n) <=> /\ i + 2 <= W
                        /\ Num(Bytes(i, 1)) + Num(Bytes(i + 1, 1)) = Pow2[ByteBits] - 1
                        /\ i + 2 + Num(Bytes(i, 1)) <= W
                        /\ Room(Num(Bytes(i, 1)))
    BY <1>13, Zenon DEF H, G, m, c
  <1>15. i + 2 <= W => Num(Bytes(i, 1)) = n
    BY <1>9 DEF m
  <1> QED
    BY <1>2, <1>3, <1>4, <1>14, <1>15, Zenon

\* The set of stored blocks is one.
Store(S, l, q) == \E x : Aligned(x, q) /\ S = {<<l, x>>}

LEMMA OneFrom ==
  ASSUME NEW l, NEW k, NEW z
  PROVE  {<<h[1], align(h[3])>> : h \in {h \in {<<l, k, z>>} : h[2] = 0}}
           = IF k = 0 THEN {<<l, align(z)>>} ELSE {}
  <1>1. <<l, k, z>>[1] = l /\ <<l, k, z>>[2] = k /\ <<l, k, z>>[3] = z
    OBVIOUS
  <1>2. {h \in {<<l, k, z>>} : h[2] = 0} = IF k = 0 THEN {<<l, k, z>>} ELSE {}
    OBVIOUS
  <1> QED
    BY <1>1, <1>2

LEMMA StoredAre ==
  ASSUME DeflateInv
  PROVE  IF StoreOk THEN Store(StoredBlocks, Value(Place, 1) = 1, Place + 3) ELSE StoredBlocks = {}
  <1>1. DataOk /\ Place \in Nat
    BY StateIs
  <1> DEFINE S == {<<h[1], align(h[3])>> : h \in {h \in BlockHeads : h[2] = 0}}
             C(i) == /\ i + 2 <= Whole(data)
                     /\ Num(Bytes(i, 1)) + Num(Bytes(i + 1, 1)) = Pow2[ByteBits] - 1
                     /\ i + 2 + Num(Bytes(i, 1)) <= Whole(data)
                     /\ Room(Num(Bytes(i, 1)))
             l == Value(Place, 1) = 1
             k == Value(Place + 1, 2)
  <1>2. StoredBlocks = {b \in S : C(b[2].i)}
    BY Zenon DEF StoredBlocks
  <1> HIDE DEF C
  <1>3. CASE ~StoreHead
    <2>1. S = {}
      <3>1. CASE ~(state = "block" /\ ~last /\ Place + 3 <= Len(data))
        <4>1. BlockHeads = {}
          BY <3>1, HeadsAre
        <4> QED
          BY <4>1
      <3>2. CASE state = "block" /\ ~last /\ Place + 3 <= Len(data)
        <4>1. k # 0
          BY <1>3, <3>2 DEF StoreHead
        <4>2. PICK z : BlockHeads = {<<l, k, z>>}
          BY <3>2, HeadsAre DEF Lone
        <4> HIDE DEF l, k
        <4>3. {<<h[1], align(h[3])>> : h \in {h \in {<<l, k, z>>} : h[2] = 0}} = {}
          BY <4>1, OneFrom
        <4> QED
          BY <4>2, <4>3, Zenon
      <3> QED
        BY <3>1, <3>2
    <2> HIDE DEF S
    <2>2. StoredBlocks = {}
      BY <1>2, <2>1
    <2> QED
      BY <1>3, <2>2 DEF StoreOk
  <1>4. CASE StoreHead
    <2>1. PICK z : At(z, Place + 3) /\ BlockHeads = {<<l, k, z>>}
      BY <1>4, HeadsAre DEF Lone, StoreHead
    <2>2. k = 0
      BY <1>4 DEF StoreHead
    <2>3. S = {<<l, align(z)>>}
      <3> HIDE DEF l, k
      <3>1. {<<h[1], align(h[3])>> : h \in {h \in {<<l, k, z>>} : h[2] = 0}} = {<<l, align(z)>>}
        BY <2>2, OneFrom
      <3> QED
        BY <2>1, <3>1, Zenon
    <2>4. PICK x : x = align(z) /\ Aligned(x, Place + 3)
      BY <1>1, <2>1, AlignIs
    <2>5. PICK i \in Nat : i = Ceil(Place + 3) /\ x.i = i
      BY <1>1, <2>4 DEF Aligned, DataOk
    <2>6. C(i) <=> Fits(StoreAt, StoreLen)
      <3>1. StoreAt = i * ByteBits
        BY <2>5 DEF StoreAt
      <3> QED
        BY <1>1, <3>1, FitsIs, Zenon DEF C, StoreLen
    <2>7. StoredBlocks = IF C(i) THEN {<<l, x>>} ELSE {}
      <3>1. StoredBlocks = {b \in {<<l, x>>} : C(b[2].i)}
        BY <1>2, <2>3, <2>4, Zenon
      <3> HIDE DEF l
      <3>2. <<l, x>>[2].i = i
        BY <2>5
      <3>3. \A b \in {<<l, x>>} : C(b[2].i) <=> C(i)
        BY <3>2, Zenon
      <3> QED
        BY <3>1, <3>3
    <2>8. StoreOk <=> C(i)
      BY <1>4, <2>6 DEF StoreOk
    <2> QED
      BY <2>4, <2>7, <2>8 DEF Store
  <1> QED
    BY <1>3, <1>4

-------------------------------------------------------------------------------
(* The steps of a decoder.                                                 *)

\* A reader with nothing in its buffer.
LEMMA EmptyAt ==
  ASSUME DataOk, NEW j \in 0..Whole(data)
  PROVE  At([i |-> j, buf |-> <<>>], j * ByteBits)
  <1>1. PICK b \in Nat \ {0}, w \in Nat : b = ByteBits /\ w = Word
    BY SizesAssumption
  <1>2. j \in Nat
    BY DEF DataOk
  <1>3. PICK u \in Nat : u = j * b
    BY <1>2
  <1>4. b * j = u
    BY <1>2, <1>3
  <1> DEFINE x == [i |-> j, buf |-> <<>>]
  <1>5. x.i = j /\ x.buf = <<>> /\ x = [i |-> x.i, buf |-> x.buf]
    OBVIOUS
  <1> HIDE DEF x
  <1>6. Part(<<>>, data, u, u, {0, 1})
    BY DEF Part
  <1>7. u - u <= Word /\ u - u < ByteBits /\ u <= u
    BY <1>1
  <1>8. At(x, u)
    BY <1>1, <1>4, <1>5, <1>6, <1>7 DEF At
  <1> QED
    BY <1>1, <1>3, <1>8 DEF x

LEMMA NextReader ==
  ASSUME DataOk, impl' = impl, data' = data, NEW p, At(r', p)
  PROVE  ReaderOk(r)' /\ Place' = p
  <1>1. PICK x : x = r'
    OBVIOUS
  <1>2. ReaderOk(x) /\ ByteBits * x.i - Len(x.buf) = p
    BY <1>1, AtReader
  <1>3. Whole(data)' = Whole(data)
    BY DEF Whole
  <1>4. ReaderOk(r)'
    BY <1>1, <1>2, <1>3 DEF ReaderOk
  <1> QED
    BY <1>1, <1>2, <1>4 DEF Place

\* What is left to show of a step, if the call and the codes are what they were.
LEMMA KeptCodes ==
  ASSUME DeflateInv, UNCHANGED <<call, trees>>, PlanOk', OutOk', ReaderOk(r)', last' \in BOOLEAN,
         state' \in {"block", "symbols", "planned", "done", "rejected"}
  PROVE  DeflateInv'
  <1>1. CallOk'
    BY DEF DeflateInv, CallOk, call
  <1>2. (trees = <<trees[1], trees[2]>> /\ TreeOk(trees[1]) /\ TreeOk(trees[2]))'
    BY DEF DeflateInv, TreeOk
  <1> QED
    BY <1>1, <1>2 DEF DeflateInv

\* The bytes of a stored block.
StoreBytes(B, n) == [k \in 1..n |-> Value(B + (1 + k) * ByteBits, ByteBits)]

LEMMA StoreBytesAre ==
  ASSUME DataOk, NEW i \in Nat, NEW n \in Nat, i + 2 + n <= Whole(data)
  PROVE  /\ [k \in 1..n |-> Num(Bytes(i + 1 + k, 1))] = StoreBytes(i * ByteBits, n)
         /\ StoreBytes(i * ByteBits, n) \in Seq(ByteVal) /\ Len(StoreBytes(i * ByteBits, n)) = n
  <1>1. ASSUME NEW k \in 1..n
        PROVE  /\ Num(Bytes(i + 1 + k, 1)) = Value(i * ByteBits + (1 + k) * ByteBits, ByteBits)
               /\ Value(i * ByteBits + (1 + k) * ByteBits, ByteBits) \in ByteVal
    <2>1. i + 1 + k \in Nat /\ (i + 1 + k) + 1 <= Whole(data) /\ 1 + k \in Nat /\ i + 1 + k = i + (1 + k)
      BY DEF DataOk
    <2>2. (i + (1 + k)) * ByteBits = i * ByteBits + (1 + k) * ByteBits
      BY <2>1, WholeUp
    <2>3. /\ Num(Bytes(i + 1 + k, 1)) = Value((i + 1 + k) * ByteBits, ByteBits)
          /\ Num(Bytes(i + 1 + k, 1)) \in ByteVal
      BY <2>1, ByteIs
    <2> QED
      BY <2>1, <2>2, <2>3
  <1> DEFINE f(k) == Num(Bytes(i + 1 + k, 1))
             g(k) == Value(i * ByteBits + (1 + k) * ByteBits, ByteBits)
  <1>2. \A k \in 1..n : f(k) = g(k) /\ g(k) \in ByteVal
    BY <1>1
  <1>3. StoreBytes(i * ByteBits, n) = [k \in 1..n |-> g(k)]
    BY Zenon DEF StoreBytes
  <1> HIDE DEF f, g
  <1>4. [k \in 1..n |-> f(k)] = [k \in 1..n |-> g(k)]
    BY <1>2
  <1>5. [k \in 1..n |-> g(k)] \in Seq(ByteVal) /\ Len([k \in 1..n |-> g(k)]) = n
    BY <1>2
  <1>6. [k \in 1..n |-> Num(Bytes(i + 1 + k, 1))] = [k \in 1..n |-> f(k)]
    BY Zenon DEF f
  <1> QED
    BY <1>3, <1>4, <1>5, <1>6, Zenon

LEMMA StoredStep ==
  ASSUME DeflateInv, Stored
  PROVE  /\ StoreOk /\ last' = (Value(Place, 1) = 1)
         /\ Place' = StoreAt + (2 + StoreLen) * ByteBits
         /\ Output' = Output \o StoreBytes(StoreAt, StoreLen)
         /\ UNCHANGED <<call, trees, state>>
         /\ DeflateInv'
  <1>1. DataOk /\ Place \in Nat
    BY StateIs
  <1>2. PICK b \in StoredBlocks :
          /\ last' = b[1]
          /\ Emit([k \in 1..Num(Bytes(b[2].i, 1)) |-> Num(Bytes(b[2].i + 1 + k, 1))])
          /\ r' = [b[2] EXCEPT !.i = b[2].i + 2 + Num(Bytes(b[2].i, 1))]
    BY Zenon DEF Stored
  <1>3. UNCHANGED <<call, trees, ran, state>>
    BY DEF Stored
  <1>4. StoreOk /\ Store(StoredBlocks, Value(Place, 1) = 1, Place + 3)
    BY <1>2, StoredAre
  <1> DEFINE l == Value(Place, 1) = 1
  <1>5. PICK x : Aligned(x, Place + 3) /\ StoredBlocks = {<<l, x>>}
    BY <1>4 DEF Store
  <1>6. last' = l /\ b[2] = x
    <2> HIDE DEF l
    <2>1. b = <<l, x>>
      BY <1>2, <1>5
    <2> QED
      BY <1>2, <2>1
  <1>7. PICK i \in Nat : i = Ceil(Place + 3) /\ x = [i |-> i, buf |-> <<>>]
    BY <1>1, <1>5 DEF Aligned, DataOk
  <1>8. PICK n \in Nat : n = StoreLen /\ StoreAt = i * ByteBits /\ n = Value(i * ByteBits, ByteBits)
    <2>1. StoreAt = i * ByteBits
      BY <1>7 DEF StoreAt
    <2> QED
      BY <1>1, <2>1, FitsIs DEF StoreLen
  <1>9. Fits(StoreAt, StoreLen) /\ Fits(i * ByteBits, Value(i * ByteBits, ByteBits))
    BY <1>4, <1>8 DEF StoreOk
  <1>10. i + 2 <= Whole(data) /\ i + 2 + Num(Bytes(i, 1)) <= Whole(data) /\ Num(Bytes(i, 1)) = n
    BY <1>1, <1>8, <1>9, FitsIs
  <1>11. Room(n)
    BY <1>8, <1>9 DEF Fits
  <1>12. i + 2 + n <= Whole(data) /\ i + (2 + n) = i + 2 + n /\ 2 + n \in Nat /\ i + 2 + n \in 0..Whole(data)
    BY <1>1, <1>10 DEF DataOk
  <1>13. /\ Emit([k \in 1..n |-> Num(Bytes(i + 1 + k, 1))])
         /\ r' = [x EXCEPT !.i = i + 2 + n]
    <2>1. x.i = i
      BY <1>7
    <2> QED
      BY <1>2, <1>6, <1>10, <2>1, Zenon
  <1>14. r' = [i |-> i + 2 + n, buf |-> <<>>]
    BY <1>7, <1>13
  <1>15. (i + 2 + n) * ByteBits = StoreAt + (2 + n) * ByteBits
    BY <1>1, <1>8, <1>12, WholeUp
  <1>16. ReaderOk(r)' /\ Place' = (i + 2 + n) * ByteBits
    <2>1. At(r', (i + 2 + n) * ByteBits)
      BY <1>1, <1>12, <1>14, EmptyAt
    <2> QED
      BY <1>1, <1>3, <2>1, NextReader DEF call
  <1>17. PICK bytes \in Seq(ByteVal) :
           bytes = StoreBytes(i * ByteBits, n) /\ Len(bytes) = n /\ Emit(bytes)
    BY <1>1, <1>12, <1>13, StoreBytesAre
  <1>18. state = "block" /\ state' = state /\ Parsing /\ Parsing'
    BY <1>3, <1>4 DEF Parsing, StoreOk, StoreHead
  <1>19. PlanOk' /\ OutOk' /\ Output' = Output \o bytes
    <2>1. Room(Len(bytes)) /\ impl' = impl /\ ran' = ran
      BY <1>3, <1>11, <1>17 DEF call
    <2> QED
      BY <1>17, <1>18, <2>1, EmitStep
  <1>20. DeflateInv'
    <2>1. l \in BOOLEAN
      OBVIOUS
    <2>2. last' \in BOOLEAN
      BY <1>6, <2>1, Zenon
    <2> QED
      BY <1>3, <1>16, <1>18, <1>19, <2>2, KeptCodes
  <1> QED
    BY <1>3, <1>4, <1>6, <1>8, <1>15, <1>16, <1>17, <1>19, <1>20

\* A block with codes: the fixed ones, or those its header gives.
Start(kind) == state = "block" /\ ~last /\ Place + 3 <= Len(data) /\ Value(Place + 1, 2) = kind

Lengths    == Split(Expand(header.runs), header)
GoodHeader == HeaderGood(header) /\ \A k \in 1..2 : ~Oversubscribed(Lengths[k])
StartOk    == Start(1) \/ (Start(2) /\ GoodHeader)

NextTrees == IF Start(1) THEN <<Codes(FixedLit), Codes(FixedDist)>>
             ELSE <<Codes(Lengths[1]), Codes(Lengths[2])>>

\* The set of blocks is one, with the reader at place q.
Begun(S, l, q, t) == \E z : At(z, q) /\ S = {<<l, z, t>>}

LEMMA OneStart ==
  ASSUME NEW l, NEW k, NEW z
  PROVE  UNION {{<<h[1], h[3], t>> : t \in CASE h[2] = 1 -> {FixedTables}
                                             [] h[2] = 2 -> DynamicTrees
                                             [] OTHER    -> {}} : h \in {<<l, k, z>>}}
           = {<<l, z, t>> : t \in IF k = 1 THEN {FixedTables} ELSE IF k = 2 THEN DynamicTrees ELSE {}}
  <1> DEFINE F(h) == {<<h[1], h[3], t>> : t \in CASE h[2] = 1 -> {FixedTables}
                                                  [] h[2] = 2 -> DynamicTrees
                                                  [] OTHER    -> {}}
  <1>1. ASSUME NEW h PROVE UNION {F(g) : g \in {h}} = F(h)
    <2> HIDE DEF F
    <2>1. {F(g) : g \in {h}} = {F(h)}
      OBVIOUS
    <2> QED
      BY <2>1
  <1>2. F(<<l, k, z>>)
          = {<<l, z, t>> : t \in IF k = 1 THEN {FixedTables} ELSE IF k = 2 THEN DynamicTrees ELSE {}}
    <2>1. <<l, k, z>>[1] = l /\ <<l, k, z>>[2] = k /\ <<l, k, z>>[3] = z
      OBVIOUS
    <2>2. F(<<l, k, z>>) = {<<l, z, t>> : t \in CASE k = 1 -> {FixedTables}
                                                  [] k = 2 -> DynamicTrees
                                                  [] OTHER    -> {}}
      BY <2>1, Zenon
    <2> HIDE DEF F
    <2>3. (CASE k = 1 -> {FixedTables} [] k = 2 -> DynamicTrees [] OTHER -> {})
            = IF k = 1 THEN {FixedTables} ELSE IF k = 2 THEN DynamicTrees ELSE {}
      OBVIOUS
    <2> QED
      BY <2>2, <2>3, Zenon
  <1>3. UNION {F(h) : h \in {<<l, k, z>>}} = F(<<l, k, z>>)
    <2> HIDE DEF F
    <2> QED
      BY <1>1
  <1> QED
    BY <1>2, <1>3, Zenon

LEMMA CompressedAre ==
  ASSUME DeflateInv
  PROVE  /\ IF StartOk THEN Begun(CompressedBlocks, Value(Place, 1) = 1, Place + 3, NextTrees)
            ELSE CompressedBlocks = {}
         /\ StartOk => TreeOk(NextTrees[1]) /\ TreeOk(NextTrees[2])
                       /\ NextTrees = <<NextTrees[1], NextTrees[2]>>
  <1>1. DataOk /\ Place \in Nat /\ HeaderOk(header)
    BY StateIs
  <1> DEFINE l == Value(Place, 1) = 1
             k == Value(Place + 1, 2)
             H == state = "block" /\ ~last /\ Place + 3 <= Len(data)
             T == IF k = 1 THEN {FixedTables} ELSE IF k = 2 THEN DynamicTrees ELSE {}
  <1>2. StartOk <=> H /\ (k = 1 \/ (k = 2 /\ GoodHeader))
    BY DEF StartOk, Start
  <1>3. GoodHeader => /\ DynamicTrees = {<<Codes(Lengths[1]), Codes(Lengths[2])>>}
                      /\ TreeOk(Codes(Lengths[1])) /\ TreeOk(Codes(Lengths[2]))
    BY <1>1, DynamicTreesAre, Zenon DEF GoodHeader, Lengths
  <1>4. ~GoodHeader => DynamicTrees = {}
    BY <1>1, DynamicTreesAre, Zenon DEF GoodHeader, Lengths
  <1>5. H => (Start(1) <=> k = 1)
    BY DEF Start
  <1>6. CompressedBlocks
          = UNION {{<<h[1], h[3], t>> : t \in CASE h[2] = 1 -> {FixedTables}
                                               [] h[2] = 2 -> DynamicTrees
                                               [] OTHER    -> {}} : h \in BlockHeads}
    BY DEF CompressedBlocks
  <1>7. StartOk => NextTrees \in {<<Codes(FixedLit), Codes(FixedDist)>>, <<Codes(Lengths[1]), Codes(Lengths[2])>>}
                   /\ (k = 1 => NextTrees = <<Codes(FixedLit), Codes(FixedDist)>>)
                   /\ (k # 1 => NextTrees = <<Codes(Lengths[1]), Codes(Lengths[2])>>)
    BY <1>2, <1>5 DEF NextTrees
  <1>8. StartOk => T = {NextTrees}
    <2>1. CASE k = 1
      BY <1>7, <2>1, FixedTrees
    <2>2. CASE k # 1
      BY <1>2, <1>3, <1>7, <2>2
    <2> QED
      BY <2>1, <2>2
  <1>9. H /\ ~StartOk => T = {}
    BY <1>2, <1>4
  <1>10. StartOk => TreeOk(NextTrees[1]) /\ TreeOk(NextTrees[2]) /\ NextTrees = <<NextTrees[1], NextTrees[2]>>
    <2>1. CASE k = 1
      <3>1. StartOk => NextTrees = <<Codes(FixedLit), Codes(FixedDist)>>
        BY <1>7, <2>1
      <3> QED
        BY <3>1, FixedTrees
    <2>2. CASE k # 1
      <3>1. StartOk => NextTrees = <<Codes(Lengths[1]), Codes(Lengths[2])>> /\ GoodHeader
        BY <1>2, <1>7, <2>2
      <3> QED
        BY <1>3, <3>1
    <2> QED
      BY <2>1, <2>2
  <1>11. H => \E z : At(z, Place + 3) /\ CompressedBlocks = {<<l, z, t>> : t \in T}
    <2> SUFFICES ASSUME H PROVE \E z : At(z, Place + 3) /\ CompressedBlocks = {<<l, z, t>> : t \in T}
      OBVIOUS
    <2>1. PICK z : At(z, Place + 3) /\ BlockHeads = {<<l, k, z>>}
      BY HeadsAre DEF Lone
    <2>2. CompressedBlocks
            = UNION {{<<h[1], h[3], t>> : t \in CASE h[2] = 1 -> {FixedTables}
                                                 [] h[2] = 2 -> DynamicTrees
                                                 [] OTHER    -> {}} : h \in {<<l, k, z>>}}
      BY <1>6, <2>1, Zenon
    <2> HIDE DEF l, k, H
    <2> DEFINE U == UNION {{<<h[1], h[3], t>> : t \in CASE h[2] = 1 -> {FixedTables}
                                                         [] h[2] = 2 -> DynamicTrees
                                                         [] OTHER    -> {}} : h \in {<<l, k, z>>}}
    <2>4. U = {<<l, z, t>> : t \in T}
      BY OneStart
    <2>5. CompressedBlocks = U
      BY <2>2
    <2> HIDE DEF T, U
    <2>3. CompressedBlocks = {<<l, z, t>> : t \in T}
      BY <2>4, <2>5, Zenon
    <2> QED
      BY <2>1, <2>3
  <1>12. ~H => CompressedBlocks = {}
    <2> SUFFICES ASSUME ~H PROVE CompressedBlocks = {}
      OBVIOUS
    <2>1. BlockHeads = {}
      BY HeadsAre
    <2> QED
      BY <1>6, <2>1
  <1>13. StartOk => H
    BY <1>2
  <1> HIDE DEF l, k, H, T
  <1>14. CASE StartOk
    <2>1. PICK z : At(z, Place + 3) /\ CompressedBlocks = {<<l, z, t>> : t \in T}
      BY <1>11, <1>13, <1>14
    <2>2. CompressedBlocks = {<<l, z, NextTrees>>}
      BY <1>8, <1>14, <2>1
    <2>3. Begun(CompressedBlocks, l, Place + 3, NextTrees)
      BY <2>1, <2>2 DEF Begun
    <2> QED
      BY <1>10, <1>14, <2>3 DEF l
  <1>15. CASE ~StartOk
    <2>1. CompressedBlocks = {}
      <3>1. CASE H
        <4>1. PICK z : CompressedBlocks = {<<l, z, t>> : t \in T}
          BY <1>11, <3>1
        <4> QED
          BY <1>9, <1>15, <3>1, <4>1
      <3> QED
        BY <1>12, <3>1
    <2> QED
      BY <1>15, <2>1
  <1> QED
    BY <1>14, <1>15

LEMMA CompressedStep ==
  ASSUME DeflateInv, Compressed
  PROVE  /\ StartOk /\ last' = (Value(Place, 1) = 1)
         /\ Place' = Place + 3 /\ trees' = NextTrees /\ Output' = Output
         /\ state' = "symbols" /\ UNCHANGED call
         /\ DeflateInv'
  <1>1. DataOk /\ Place \in Nat
    BY StateIs
  <1>2. PICK b \in CompressedBlocks : last' = b[1] /\ r' = b[2] /\ trees' = b[3]
    BY Zenon DEF Compressed
  <1>3. UNCHANGED <<call, plan, out, ran>> /\ state' = "symbols"
    BY DEF Compressed
  <1> DEFINE l == Value(Place, 1) = 1
  <1>4. StartOk /\ Begun(CompressedBlocks, l, Place + 3, NextTrees)
    BY <1>2, CompressedAre
  <1>5. TreeOk(NextTrees[1]) /\ TreeOk(NextTrees[2]) /\ NextTrees = <<NextTrees[1], NextTrees[2]>>
    BY <1>4, CompressedAre
  <1>6. l \in BOOLEAN
    OBVIOUS
  <1> HIDE DEF l
  <1>7. PICK z : At(z, Place + 3) /\ CompressedBlocks = {<<l, z, NextTrees>>}
    BY <1>4 DEF Begun
  <1>8. last' = l /\ r' = z /\ trees' = NextTrees
    <2>1. b = <<l, z, NextTrees>>
      BY <1>2, <1>7
    <2> QED
      BY <1>2, <2>1
  <1>9. ReaderOk(r)' /\ Place' = Place + 3
    <2>1. impl' = impl /\ data' = data /\ At(r', Place + 3)
      BY <1>3, <1>7, <1>8 DEF call
    <2> QED
      BY <1>1, <2>1, NextReader
  <1>10. Parsing /\ Parsing'
    BY <1>3, <1>4 DEF StartOk, Start, Parsing
  <1>11. PlanOk' /\ OutOk' /\ Output' = Output
    BY <1>3, <1>10, SameOutput DEF call
  <1>12. CallOk'
    BY <1>3 DEF DeflateInv, CallOk, call
  <1>13. (trees = <<trees[1], trees[2]>> /\ TreeOk(trees[1]) /\ TreeOk(trees[2]))'
    BY <1>5, <1>8 DEF TreeOk
  <1>14. DeflateInv'
    BY <1>3, <1>6, <1>8, <1>9, <1>11, <1>12, <1>13 DEF DeflateInv
  <1> QED
    BY <1>3, <1>4, <1>8, <1>9, <1>11, <1>14 DEF l

\* The symbol that comes next in the stream, and is read.
SymbolNext(s) ==
  /\ s \in DOMAIN trees[1] /\ SymbolsAt(data, Place, trees[1]) = {s}
  /\ Reads(Symbols, s, Place + Len(trees[1][s]))

LEMMA SymbolsNext ==
  ASSUME DeflateInv
  PROVE  IF state = "symbols"
         THEN \/ SymbolsAt(data, Place, trees[1]) = {} /\ Symbols = {}
              \/ \E s \in Nat : SymbolNext(s)
         ELSE Symbols = {}
  <1>1. CASE state = "symbols"
    <2>1. Symbols = Symbol(r, trees[1])
      BY <1>1 DEF Symbols
    <2>2. \/ SymbolsAt(data, Place, trees[1]) = {} /\ Symbol(r, trees[1]) = {}
          \/ \E s \in DOMAIN trees[1] : /\ SymbolsAt(data, Place, trees[1]) = {s}
                                        /\ Reads(Symbol(r, trees[1]), s, Place + Len(trees[1][s]))
      BY StateIs, SymbolIs
    <2>3. DOMAIN trees[1] \subseteq Nat
      BY StateIs DEF TreeOk
    <2> QED
      BY <1>1, <2>1, <2>2, <2>3, Zenon DEF SymbolNext
  <1>2. CASE state # "symbols"
    BY <1>2 DEF Symbols
  <1> QED
    BY <1>1, <1>2

LEMMA SymbolLen ==
  ASSUME DeflateInv, NEW s, SymbolNext(s)
  PROVE  Len(trees[1][s]) \in Nat /\ Len(trees[1][s]) > 0 /\ Place \in Nat
  <1>1. Len(trees[1][s]) \in 1..MaxCode /\ MaxCode \in Nat
    BY StateIs, SizesAssumption DEF TreeOk, SymbolNext
  <1> QED
    BY <1>1, StateIs

\* A literal: one symbol forward, one byte more.
LEMMA LiteralStep ==
  ASSUME DeflateInv, Literal
  PROVE  /\ state = "symbols"
         /\ \E s \in Nat : /\ SymbolNext(s) /\ s < Literals /\ Room(1)
                           /\ Output' = Append(Output, s) /\ Place' = Place + Len(trees[1][s])
         /\ UNCHANGED <<call, last, trees, state>> /\ Place' > Place
         /\ DeflateInv'
  <1>1. PICK b \in LiteralBytes : Emit(<<b[1]>>) /\ r' = b[2]
    BY DEF Literal
  <1>2. b \in Symbols /\ b[1] < Literals /\ Room(1)
    BY <1>1 DEF LiteralBytes
  <1>3. state = "symbols"
    BY <1>2, SymbolsNext
  <1>4. UNCHANGED <<call, last, trees, ran, state>>
    BY DEF Literal
  <1>5. PICK s \in Nat : SymbolNext(s)
    BY <1>2, <1>3, SymbolsNext
  <1>6. PICK l \in Nat, p \in Nat : l = Len(trees[1][s]) /\ l > 0 /\ p = Place
    BY <1>5, SymbolLen
  <1>7. PICK z : At(z, p + l) /\ Symbols = {<<s, z>>}
    BY <1>5, <1>6 DEF SymbolNext, Reads
  <1>8. b[1] = s /\ b[2] = z
    <2>1. b = <<s, z>>
      BY <1>2, <1>7
    <2> QED
      BY <2>1
  <1>9. ReaderOk(r)' /\ Place' = p + l
    <2>1. impl' = impl /\ data' = data /\ At(r', p + l)
      BY <1>1, <1>4, <1>7, <1>8 DEF call
    <2> QED
      BY <2>1, NextReader, StateIs
  <1>10. s < Literals /\ s \in ByteVal
    <2>1. PICK c \in Nat, d \in Nat : c = Literals /\ d = Pow2[ByteBits] /\ c <= d
      <3>1. ByteBits \in Nat
        BY SizesAssumption
      <3>2. Pow2[ByteBits] \in Nat
        BY <3>1, Pow2Is
      <3> QED
        BY <3>2, SizesAssumption
    <2> QED
      BY <1>2, <1>8, <2>1 DEF ByteVal
  <1>11. Parsing /\ Parsing' /\ state' = state
    BY <1>3, <1>4 DEF Parsing
  <1>12. <<s>> \in Seq(ByteVal) /\ Len(<<s>>) = 1
    BY <1>10
  <1>13. PlanOk' /\ OutOk' /\ Output' = Output \o <<s>>
    <2>1. PICK bytes \in Seq(ByteVal) : bytes = <<s>> /\ Len(bytes) = 1
      BY <1>12
    <2>2. Emit(bytes) /\ Room(Len(bytes)) /\ impl' = impl /\ ran' = ran
      BY <1>1, <1>2, <1>4, <1>8, <2>1 DEF call
    <2> QED
      BY <1>11, <2>1, <2>2, EmitStep
  <1>14. Output \o <<s>> = Append(Output, s)
    <2>1. PICK B : B = ByteVal /\ s \in B /\ Output \in Seq(B)
      BY <1>10, <1>11, MadeIs
    <2> QED
      BY <2>1
  <1>15. DeflateInv'
    <2>1. last' \in BOOLEAN
      BY <1>4 DEF DeflateInv
    <2> QED
      BY <1>3, <1>4, <1>9, <1>11, <1>13, <2>1, KeptCodes
  <1>16. p + l > p
    BY <1>6
  <1> QED
    BY <1>2, <1>3, <1>4, <1>5, <1>6, <1>9, <1>10, <1>13, <1>14, <1>15, <1>16

\* The end of the block: one symbol forward.
LEMMA EndStep ==
  ASSUME DeflateInv, End
  PROVE  /\ state = "symbols" /\ SymbolNext(EndOfBlock)
         /\ Output' = Output /\ Place' = Place + Len(trees[1][EndOfBlock])
         /\ state' = "block" /\ UNCHANGED <<call, last, trees>> /\ Place' > Place
         /\ DeflateInv'
  <1>1. PICK b \in Symbols : b[1] = EndOfBlock /\ r' = b[2]
    BY DEF End
  <1>2. state = "symbols"
    BY <1>1, SymbolsNext
  <1>3. UNCHANGED <<call, last, trees, plan, out, ran>> /\ state' = "block"
    BY DEF End
  <1>4. PICK s \in Nat : SymbolNext(s)
    BY <1>1, <1>2, SymbolsNext
  <1>5. PICK l \in Nat, p \in Nat : l = Len(trees[1][s]) /\ l > 0 /\ p = Place
    BY <1>4, SymbolLen
  <1>6. PICK z : At(z, p + l) /\ Symbols = {<<s, z>>}
    BY <1>4, <1>5 DEF SymbolNext, Reads
  <1>7. b[1] = s /\ b[2] = z
    <2>1. b = <<s, z>>
      BY <1>1, <1>6
    <2> QED
      BY <2>1
  <1>8. ReaderOk(r)' /\ Place' = p + l
    <2>1. impl' = impl /\ data' = data /\ At(r', p + l)
      BY <1>1, <1>3, <1>6, <1>7 DEF call
    <2> QED
      BY <2>1, NextReader, StateIs
  <1>9. Parsing /\ Parsing'
    BY <1>2, <1>3 DEF Parsing
  <1>10. PlanOk' /\ OutOk' /\ Output' = Output
    BY <1>3, <1>9, SameOutput DEF call
  <1>11. DeflateInv'
    <2>1. last' \in BOOLEAN
      BY <1>3 DEF DeflateInv
    <2> QED
      BY <1>3, <1>8, <1>10, <2>1, KeptCodes
  <1>12. p + l > p
    BY <1>5
  <1> QED
    BY <1>1, <1>2, <1>3, <1>4, <1>5, <1>7, <1>8, <1>10, <1>11, <1>12

\* The three parts of a match as they are read, each from the one before.
LengthsOf(S) ==
  UNION {{<<LenBase[s[1] - EndOfBlock] + e[1], e[2]>> : e \in bits(s[2], LenExtra[s[1] - EndOfBlock])} :
           s \in {s \in S : s[1] - EndOfBlock \in 1..Len(LenBase)}}

StartsOf(S) ==
  UNION {{<<l[1], d[1], d[2]>> : d \in {d \in Symbol(l[2], trees[2]) : d[1] < Len(DistBase)}} : l \in S}

AllOf(S) ==
  UNION {{<<m[1], DistBase[m[2] + 1] + e[1], e[2]>> : e \in bits(m[3], DistExtra[m[2] + 1])} : m \in S}

LEMMA MatchesOf ==
  /\ Matches = {m \in AllOf(StartsOf(LengthsOf(Symbols))) : m[2] <= Made /\ Room(m[1])}
  /\ LengthsOf({}) = {} /\ StartsOf({}) = {} /\ AllOf({}) = {}
  <1>1. Matches = {m \in AllOf(StartsOf(LengthsOf(Symbols))) : m[2] <= Made /\ Room(m[1])}
    BY Zenon DEF Matches, AllOf, StartsOf, LengthsOf
  <1>2. LengthsOf({}) = {} /\ StartsOf({}) = {} /\ AllOf({}) = {}
    BY DEF AllOf, StartsOf, LengthsOf
  <1> QED
    BY <1>1, <1>2

LEMMA OneLength ==
  ASSUME NEW s, NEW z
  PROVE  LengthsOf({<<s, z>>})
           = IF s - EndOfBlock \in 1..Len(LenBase)
             THEN {<<LenBase[s - EndOfBlock] + e[1], e[2]>> : e \in bits(z, LenExtra[s - EndOfBlock])}
             ELSE {}
  <1> DEFINE F(x) == {<<LenBase[x[1] - EndOfBlock] + e[1], e[2]>> : e \in bits(x[2], LenExtra[x[1] - EndOfBlock])}
             P(x) == x[1] - EndOfBlock \in 1..Len(LenBase)
             a == <<s, z>>
  <1>1. LengthsOf({a}) = UNION {F(x) : x \in {x \in {a} : P(x)}}
    BY Zenon DEF LengthsOf
  <1>2. a[1] = s /\ a[2] = z
    OBVIOUS
  <1>3. F(a) = {<<LenBase[s - EndOfBlock] + e[1], e[2]>> : e \in bits(z, LenExtra[s - EndOfBlock])}
    <2> HIDE DEF a
    <2> QED
      BY <1>2, Zenon
  <1>4. P(a) <=> s - EndOfBlock \in 1..Len(LenBase)
    <2> HIDE DEF a
    <2> QED
      BY <1>2, Zenon
  <1> HIDE DEF F, P, a
  <1>5. CASE P(a)
    <2>1. {x \in {a} : P(x)} = {a}
      BY <1>5
    <2>2. {F(x) : x \in {a}} = {F(a)}
      OBVIOUS
    <2>3. LengthsOf({a}) = F(a)
      BY <1>1, <2>1, <2>2
    <2> QED
      BY <1>3, <1>4, <1>5, <2>3 DEF a
  <1>6. CASE ~P(a)
    <2>1. {x \in {a} : P(x)} = {}
      BY <1>6
    <2>2. LengthsOf({a}) = {}
      BY <1>1, <2>1
    <2> QED
      BY <1>4, <1>6, <2>2 DEF a
  <1> QED
    BY <1>5, <1>6

LEMMA OneDistance ==
  ASSUME NEW n, NEW z
  PROVE  StartsOf({<<n, z>>})
           = {<<n, d[1], d[2]>> : d \in {d \in Symbol(z, trees[2]) : d[1] < Len(DistBase)}}
  <1> DEFINE F(l) == {<<l[1], d[1], d[2]>> : d \in {d \in Symbol(l[2], trees[2]) : d[1] < Len(DistBase)}}
             a == <<n, z>>
  <1>1. StartsOf({a}) = UNION {F(x) : x \in {a}}
    BY Zenon DEF StartsOf
  <1>2. a[1] = n /\ a[2] = z
    OBVIOUS
  <1>3. F(a) = {<<n, d[1], d[2]>> : d \in {d \in Symbol(z, trees[2]) : d[1] < Len(DistBase)}}
    <2> HIDE DEF a
    <2> QED
      BY <1>2, Zenon
  <1> HIDE DEF F, a
  <1>4. UNION {F(x) : x \in {a}} = F(a)
    <2>1. {F(x) : x \in {a}} = {F(a)}
      OBVIOUS
    <2> QED
      BY <2>1
  <1> QED
    BY <1>1, <1>3, <1>4 DEF a

MatchesOne(n, d, z) == {<<n, DistBase[d + 1] + e[1], e[2]>> : e \in bits(z, DistExtra[d + 1])}

LEMMA OneMatch ==
  ASSUME NEW n, NEW d, NEW z
  PROVE  AllOf({<<n, d, z>>}) = MatchesOne(n, d, z)
  <1> DEFINE F(m) == {<<m[1], DistBase[m[2] + 1] + e[1], e[2]>> : e \in bits(m[3], DistExtra[m[2] + 1])}
             a == <<n, d, z>>
  <1>1. AllOf({a}) = UNION {F(x) : x \in {a}}
    BY Zenon DEF AllOf
  <1>2. a[1] = n /\ a[2] = d /\ a[3] = z
    OBVIOUS
  <1>3. F(a) = {<<n, DistBase[d + 1] + e[1], e[2]>> : e \in bits(z, DistExtra[d + 1])}
    <2> HIDE DEF a
    <2> QED
      BY <1>2, Zenon
  <1> HIDE DEF F, a
  <1>4. UNION {F(x) : x \in {a}} = F(a)
    <2>1. {F(x) : x \in {a}} = {F(a)}
      OBVIOUS
    <2> QED
      BY <2>1
  <1> QED
    BY <1>1, <1>3, <1>4 DEF a, MatchesOne

\* The places between the parts of a match: length symbol s, distance symbol d.
P1(s)    == Place + Len(trees[1][s])
P2(s)    == P1(s) + LenExtra[s - EndOfBlock]
P3(s, d) == P2(s) + Len(trees[2][d])
P4(s, d) == P3(s, d) + DistExtra[d + 1]

LengthOf(s)      == LenBase[s - EndOfBlock] + Value(P1(s), LenExtra[s - EndOfBlock])
DistanceOf(s, d) == DistBase[d + 1] + Value(P3(s, d), DistExtra[d + 1])

LengthGood(s) == s - EndOfBlock \in 1..Len(LenBase) /\ P2(s) <= Len(data)

MatchGood(s, d) ==
  /\ LengthGood(s)
  /\ d \in SymbolsAt(data, P2(s), trees[2]) /\ d < Len(DistBase)
  /\ P4(s, d) <= Len(data) /\ DistanceOf(s, d) <= Made /\ Room(LengthOf(s))

LEMMA ExtraIs ==
  /\ \A l \in 1..Len(LenBase) : /\ LenExtra[l] \in Nat /\ LenExtra[l] \in 0..(Word - ByteBits + 1)
                                /\ LenBase[l] \in Nat \ {0}
  /\ \A d \in Nat : d < Len(DistBase) =>
       /\ DistExtra[d + 1] \in Nat /\ DistExtra[d + 1] \in 0..(Word - ByteBits + 1)
       /\ DistBase[d + 1] \in Nat \ {0}
  <1>1. /\ LenBase \in Seq(Nat \ {0}) /\ DistBase \in Seq(Nat \ {0})
        /\ LenExtra \in Seq(0..Word - ByteBits + 1) /\ DistExtra \in Seq(0..Word - ByteBits + 1)
        /\ Len(LenExtra) = Len(LenBase) /\ Len(DistExtra) = Len(DistBase)
    BY MatchAssumption
  <1>2. Word - ByteBits + 1 \in Int
    BY SizesAssumption
  <1>3. PICK B : B = 0..(Word - ByteBits + 1) /\ B \subseteq Nat
    BY <1>2
  <1>4. ASSUME NEW l \in 1..Len(LenBase) PROVE LenExtra[l] \in B /\ LenBase[l] \in Nat \ {0}
    BY <1>1, <1>3, ElementIn
  <1>5. ASSUME NEW d \in Nat, d < Len(DistBase)
        PROVE  DistExtra[d + 1] \in B /\ DistBase[d + 1] \in Nat \ {0}
    <2>1. d + 1 \in 1..Len(DistBase) /\ d + 1 \in 1..Len(DistExtra)
      <3>1. Len(DistBase) \in Nat
        BY <1>1, LenIs
      <3> QED
        BY <1>1, <1>5, <3>1
    <2> QED
      BY <1>1, <1>3, <2>1, ElementIn
  <1> QED
    BY <1>3, <1>4, <1>5

LEMMA LengthRead ==
  ASSUME DeflateInv, NEW s \in Nat, SymbolNext(s)
  PROVE  /\ IF LengthGood(s) THEN Reads(LengthsOf(Symbols), LengthOf(s), P2(s))
            ELSE LengthsOf(Symbols) = {}
         /\ P1(s) \in Nat /\ P1(s) > Place /\ Place \in Nat
         /\ LengthGood(s) => P2(s) \in Nat /\ P2(s) >= P1(s) /\ LengthOf(s) \in Nat \ {0}
  <1>1. DataOk /\ Place \in Nat
    BY StateIs
  <1>2. P1(s) \in Nat /\ P1(s) > Place
    <2>1. PICK p \in Nat, l \in Nat : p = Place /\ l = Len(trees[1][s]) /\ l > 0
      BY SymbolLen
    <2>2. P1(s) = p + l
      BY <2>1 DEF P1
    <2> QED
      BY <2>1, <2>2
  <1>3. PICK z : At(z, P1(s)) /\ Symbols = {<<s, z>>}
    BY DEF SymbolNext, Reads, P1
  <1>4. CASE ~(s - EndOfBlock \in 1..Len(LenBase))
    <2>1. LengthsOf(Symbols) = {}
      BY <1>3, <1>4, OneLength
    <2> QED
      BY <1>1, <1>2, <1>4, <2>1 DEF LengthGood
  <1>5. CASE s - EndOfBlock \in 1..Len(LenBase)
    <2>1. PICK l \in 1..Len(LenBase) : l = s - EndOfBlock
      BY <1>5
    <2>2. PICK k \in Nat, b \in Nat \ {0} :
            k = LenExtra[l] /\ b = LenBase[l] /\ k \in 0..(Word - ByteBits + 1)
      BY ExtraIs
    <2>3. PICK p \in Nat : p = P1(s)
      BY <1>2
    <2>4. P2(s) = p + k /\ LengthOf(s) = b + Value(p, k)
      BY <2>1, <2>2, <2>3 DEF P2, LengthOf
    <2>5. LengthsOf(Symbols) = {<<b + e[1], e[2]>> : e \in bits(z, k)}
      <3>1. LengthsOf({<<s, z>>}) = {<<LenBase[s - EndOfBlock] + e[1], e[2]>> : e \in bits(z, LenExtra[s - EndOfBlock])}
        BY <1>5, OneLength
      <3> QED
        BY <1>3, <2>1, <2>2, <3>1, Zenon
    <2>6. CASE p + k <= Len(data)
      <3>1. PICK y : At(y, p + k) /\ bits(z, k) = {<<Value(p, k), y>>}
        <4>1. Reads(bits(z, k), Value(p, k), p + k)
          BY <1>1, <1>3, <2>2, <2>3, <2>6, BitsRead
        <4> QED
          BY <4>1 DEF Reads
      <3>2. LengthsOf(Symbols) = {<<b + Value(p, k), y>>}
        <4> DEFINE v == Value(p, k)
        <4> HIDE DEF v
        <4>1. {<<b + e[1], e[2]>> : e \in {<<v, y>>}} = {<<b + v, y>>}
          OBVIOUS
        <4>2. bits(z, k) = {<<v, y>>}
          BY <3>1 DEF v
        <4>3. LengthsOf(Symbols) = {<<b + v, y>>}
          BY <2>5, <4>1, <4>2, Zenon
        <4> QED
          BY <4>3 DEF v
      <3>3. Reads(LengthsOf(Symbols), LengthOf(s), P2(s))
        BY <2>4, <3>1, <3>2 DEF Reads
      <3>4. Value(p, k) \in Nat
        BY <1>1, ValueIs
      <3>5. LengthOf(s) \in Nat \ {0}
        <4>1. PICK v \in Nat : v = Value(p, k)
          BY <3>4
        <4> QED
          BY <2>2, <2>4, <4>1
      <3>6. LengthGood(s)
        BY <1>5, <2>4, <2>6 DEF LengthGood
      <3>7. P2(s) \in Nat /\ P2(s) >= P1(s)
        BY <2>2, <2>3, <2>4
      <3> QED
        BY <1>1, <1>2, <3>3, <3>5, <3>6, <3>7
    <2>7. CASE ~(p + k <= Len(data))
      <3>1. bits(z, k) = {}
        BY <1>1, <1>3, <2>2, <2>3, <2>7, BitsRead
      <3>2. LengthsOf(Symbols) = {}
        BY <2>5, <3>1
      <3>3. ~LengthGood(s)
        BY <2>4, <2>7 DEF LengthGood
      <3> QED
        BY <1>1, <1>2, <3>2, <3>3
    <2> QED
      BY <2>6, <2>7
  <1> QED
    BY <1>4, <1>5

\* One distance symbol is read, or the one that comes next is reserved, or none does.
DistanceRight(n, z, p) ==
  LET S == StartsOf({<<n, z>>})
  IN  \/ S = {} /\ \A d \in SymbolsAt(data, p, trees[2]) : ~(d < Len(DistBase))
      \/ \E d \in Nat : /\ SymbolsAt(data, p, trees[2]) = {d} /\ d < Len(DistBase)
                        /\ Len(trees[2][d]) \in Nat
                        /\ \E y : At(y, p + Len(trees[2][d])) /\ S = {<<n, d, y>>}

LEMMA DistanceRead ==
  ASSUME DeflateInv, NEW z, NEW p, At(z, p), NEW n
  PROVE  DistanceRight(n, z, p)
  <1> DEFINE S == StartsOf({<<n, z>>})
             P(d) == d[1] < Len(DistBase)
             Y == Symbol(z, trees[2])
  <1>1. S = {<<n, d[1], d[2]>> : d \in {d \in Y : P(d)}}
    BY OneDistance
  <1>2. \/ SymbolsAt(data, p, trees[2]) = {} /\ Y = {}
        \/ \E s \in DOMAIN trees[2] : /\ SymbolsAt(data, p, trees[2]) = {s}
                                      /\ Reads(Y, s, p + Len(trees[2][s]))
    BY StateIs, SymbolIs
  <1>3. CASE SymbolsAt(data, p, trees[2]) = {} /\ Y = {}
    <2>1. S = {}
      BY <1>1, <1>3
    <2> QED
      BY <1>3, <2>1 DEF DistanceRight
  <1>4. CASE \E s \in DOMAIN trees[2] : /\ SymbolsAt(data, p, trees[2]) = {s}
                                        /\ Reads(Y, s, p + Len(trees[2][s]))
    <2>1. PICK d \in DOMAIN trees[2] : /\ SymbolsAt(data, p, trees[2]) = {d}
                                       /\ Reads(Y, d, p + Len(trees[2][d]))
      BY <1>4
    <2>2. d \in Nat /\ Len(trees[2][d]) \in Nat
      <3>1. DOMAIN trees[2] \subseteq Nat /\ Len(trees[2][d]) \in 1..MaxCode /\ MaxCode \in Nat
        BY StateIs, SizesAssumption DEF TreeOk
      <3> QED
        BY <3>1
    <2>3. PICK y : At(y, p + Len(trees[2][d])) /\ Y = {<<d, y>>}
      BY <2>1 DEF Reads
    <2> DEFINE a == <<d, y>>
    <2>4. a[1] = d /\ a[2] = y
      OBVIOUS
    <2>5. P(a) <=> d < Len(DistBase)
      <3> HIDE DEF a
      <3> QED
        BY <2>4
    <2>6. Y = {a}
      BY <2>3
    <2> HIDE DEF P, a, S, Y
    <2>7. CASE P(a)
      <3>1. {x \in Y : P(x)} = {a}
        BY <2>6, <2>7
      <3>2. S = {<<n, d, y>>}
        BY <1>1, <2>4, <3>1
      <3> QED
        BY <2>1, <2>2, <2>3, <2>5, <2>7, <3>2 DEF S, DistanceRight
    <2>8. CASE ~P(a)
      <3>1. {x \in Y : P(x)} = {}
        BY <2>6, <2>8
      <3>2. S = {}
        BY <1>1, <3>1
      <3> QED
        BY <2>1, <2>5, <2>8, <3>2 DEF S, DistanceRight
    <2> QED
      BY <2>7, <2>8
  <1> QED
    BY <1>2, <1>3, <1>4, Zenon DEF DistanceRight

LEMMA MatchRead ==
  ASSUME DeflateInv, NEW z, NEW p, At(z, p), NEW n, NEW d \in Nat, d < Len(DistBase)
  PROVE  LET S == AllOf({<<n, d, z>>})
             k == DistExtra[d + 1]
         IN  /\ IF p + k <= Len(data)
                THEN \E y : At(y, p + k) /\ S = {<<n, DistBase[d + 1] + Value(p, k), y>>}
                ELSE S = {}
             /\ p \in Nat /\ p + k \in Nat /\ p + k >= p
             /\ DistBase[d + 1] + Value(p, k) \in Nat \ {0}
  <1>1. DataOk /\ p \in Nat
    BY StateIs DEF At
  <1>2. PICK k \in Nat, b \in Nat \ {0} :
          k = DistExtra[d + 1] /\ b = DistBase[d + 1] /\ k \in 0..(Word - ByteBits + 1)
    BY ExtraIs
  <1>3. PICK v \in Nat : v = Value(p, k)
    BY <1>1, ValueIs
  <1> DEFINE S == AllOf({<<n, d, z>>})
  <1>4. S = {<<n, b + e[1], e[2]>> : e \in bits(z, k)}
    <2>1. S = MatchesOne(n, d, z)
      BY OneMatch DEF S
    <2> HIDE DEF S
    <2>2. MatchesOne(n, d, z) = {<<n, b + e[1], e[2]>> : e \in bits(z, k)}
      BY <1>2, Zenon DEF MatchesOne
    <2> QED
      BY <2>1, <2>2, Zenon
  <1> HIDE DEF S
  <1>5. IF p + k <= Len(data) THEN \E y : At(y, p + k) /\ S = {<<n, b + v, y>>} ELSE S = {}
    <2>1. CASE p + k <= Len(data)
      <3>1. PICK y : At(y, p + k) /\ bits(z, k) = {<<v, y>>}
        <4>1. Reads(bits(z, k), Value(p, k), p + k)
          BY <1>1, <1>2, <2>1, BitsRead
        <4> QED
          BY <1>3, <4>1 DEF Reads
      <3>2. {<<n, b + e[1], e[2]>> : e \in {<<v, y>>}} = {<<n, b + v, y>>}
        OBVIOUS
      <3>3. S = {<<n, b + v, y>>}
        BY <1>4, <3>1, <3>2, Zenon
      <3> QED
        BY <2>1, <3>1, <3>3
    <2>2. CASE ~(p + k <= Len(data))
      <3>1. bits(z, k) = {}
        BY <1>1, <1>2, <2>2, BitsRead
      <3> QED
        BY <1>4, <2>2, <3>1
    <2> QED
      BY <2>1, <2>2
  <1>6. b + v \in Nat \ {0} /\ p + k \in Nat /\ p + k >= p
    BY <1>1
  <1> QED
    BY <1>1, <1>2, <1>3, <1>5, <1>6 DEF S

\* The match that comes next in the stream is read, if there is one that can
\* be copied, and only then.
LEMMA MatchesAre ==
  ASSUME DeflateInv, NEW s \in Nat, SymbolNext(s)
  PROVE  \/ Matches = {} /\ \A d : ~MatchGood(s, d)
         \/ \E d \in Nat : /\ MatchGood(s, d) /\ SymbolsAt(data, P2(s), trees[2]) = {d}
                           /\ LengthOf(s) \in Nat \ {0} /\ DistanceOf(s, d) \in Nat \ {0}
                           /\ P4(s, d) > Place
                           /\ \E z : At(z, P4(s, d)) /\ Matches = {<<LengthOf(s), DistanceOf(s, d), z>>}
  <1> DEFINE A == LengthsOf(Symbols)
             B == StartsOf(A)
             C == AllOf(B)
             Q(m) == m[2] <= Made /\ Room(m[1])
  <1>1. Matches = {m \in C : Q(m)}
    BY MatchesOf, Zenon
  <1>2. CASE ~LengthGood(s)
    <2>1. A = {} /\ \A d : ~MatchGood(s, d)
      BY <1>2, LengthRead DEF MatchGood
    <2>2. B = {}
      BY <2>1, MatchesOf, Zenon
    <2>3. C = {}
      BY <2>2, MatchesOf, Zenon
    <2> HIDE DEF C
    <2>4. Matches = {}
      BY <1>1, <2>3
    <2> QED
      BY <2>1, <2>4
  <1>3. CASE LengthGood(s)
    <2>1. /\ Reads(A, LengthOf(s), P2(s)) /\ P1(s) \in Nat /\ P1(s) > Place /\ Place \in Nat
          /\ P2(s) \in Nat /\ P2(s) >= P1(s) /\ LengthOf(s) \in Nat \ {0}
      BY <1>3, LengthRead
    <2>2. PICK p \in Nat, n \in Nat \ {0} : p = P2(s) /\ n = LengthOf(s) /\ p > Place
      BY <2>1
    <2>3. PICK z : At(z, p) /\ A = {<<n, z>>}
      BY <2>1, <2>2 DEF Reads
    <2>4. B = StartsOf({<<n, z>>})
      BY <2>3, Zenon
    <2> HIDE DEF A, B
    <2>5. CASE B = {} /\ \A d \in SymbolsAt(data, p, trees[2]) : ~(d < Len(DistBase))
      <3>1. C = {}
        BY <2>5, MatchesOf, Zenon
      <3>2. \A d : ~MatchGood(s, d)
        BY <2>2, <2>5 DEF MatchGood
      <3> HIDE DEF C
      <3>3. Matches = {}
        BY <1>1, <3>1
      <3> QED
        BY <3>2, <3>3
    <2>6. CASE \E d \in Nat : /\ SymbolsAt(data, p, trees[2]) = {d} /\ d < Len(DistBase)
                              /\ Len(trees[2][d]) \in Nat
                              /\ \E y : At(y, p + Len(trees[2][d])) /\ B = {<<n, d, y>>}
      <3>0. PICK d \in Nat : /\ SymbolsAt(data, p, trees[2]) = {d} /\ d < Len(DistBase)
                             /\ Len(trees[2][d]) \in Nat
                             /\ \E y : At(y, p + Len(trees[2][d])) /\ B = {<<n, d, y>>}
        BY <2>6
      <3>1. PICK y : /\ SymbolsAt(data, p, trees[2]) = {d} /\ d < Len(DistBase)
                     /\ Len(trees[2][d]) \in Nat
                     /\ At(y, p + Len(trees[2][d])) /\ B = {<<n, d, y>>}
        BY <3>0
      <3>2. PICK q \in Nat : q = P3(s, d) /\ q >= p /\ At(y, q)
        <4>1. PICK l \in Nat : l = Len(trees[2][d])
          BY <3>1
        <4>2. P3(s, d) = p + l /\ p + l \in Nat /\ p + l >= p
          BY <2>2, <4>1 DEF P3
        <4> QED
          BY <3>1, <4>1, <4>2
      <3>3. C = AllOf({<<n, d, y>>})
        BY <3>1, Zenon
      <3> HIDE DEF C
      <3>4. /\ IF q + DistExtra[d + 1] <= Len(data)
               THEN \E x : At(x, q + DistExtra[d + 1])
                           /\ C = {<<n, DistBase[d + 1] + Value(q, DistExtra[d + 1]), x>>}
               ELSE C = {}
            /\ q + DistExtra[d + 1] \in Nat /\ q + DistExtra[d + 1] >= q
            /\ DistBase[d + 1] + Value(q, DistExtra[d + 1]) \in Nat \ {0}
        <4>1. At(y, q) /\ d < Len(DistBase)
          BY <3>1, <3>2
        <4>2. LET S == AllOf({<<n, d, y>>})
                  k == DistExtra[d + 1]
              IN  /\ IF q + k <= Len(data)
                     THEN \E x : At(x, q + k) /\ S = {<<n, DistBase[d + 1] + Value(q, k), x>>}
                     ELSE S = {}
                  /\ q + k \in Nat /\ q + k >= q
                  /\ DistBase[d + 1] + Value(q, k) \in Nat \ {0}
          BY <4>1, MatchRead
        <4> QED
          BY <3>3, <4>2, Zenon
      <3>5. PICK e \in Nat, m \in Nat \ {0} : e = P4(s, d) /\ m = DistanceOf(s, d) /\ e >= q
                                              /\ IF e <= Len(data)
                                                 THEN \E x : At(x, e) /\ C = {<<n, m, x>>} ELSE C = {}
        <4>1. P4(s, d) = q + DistExtra[d + 1] /\ DistanceOf(s, d) = DistBase[d + 1] + Value(q, DistExtra[d + 1])
          BY <3>2 DEF P4, DistanceOf
        <4> QED
          BY <3>4, <4>1, Zenon
      <3>6. MatchGood(s, d) <=> e <= Len(data) /\ m <= Made /\ Room(n)
        BY <1>3, <2>2, <3>1, <3>5 DEF MatchGood
      <3>7. \A c : MatchGood(s, c) => c = d
        BY <2>2, <3>1 DEF MatchGood
      <3>8. e > Place
        BY <2>1, <2>2, <3>2, <3>5
      <3>9. CASE ~(e <= Len(data))
        <4>1. C = {}
          BY <3>5, <3>9
        <4>2. Matches = {}
          BY <1>1, <4>1
        <4> QED
          BY <3>6, <3>7, <3>9, <4>2
      <3>10. CASE e <= Len(data)
        <4>1. PICK x : At(x, e) /\ C = {<<n, m, x>>}
          BY <3>5, <3>10
        <4> DEFINE a == <<n, m, x>>
        <4>2. a[1] = n /\ a[2] = m
          OBVIOUS
        <4>3. Q(a) <=> m <= Made /\ Room(n)
          <5> HIDE DEF a
          <5> QED
            BY <4>2, Zenon
        <4>4. C = {a}
          BY <4>1
        <4> HIDE DEF a, Q
        <4>5. CASE Q(a)
          <5>1. Matches = {a}
            BY <1>1, <4>4, <4>5
          <5>2. MatchGood(s, d)
            BY <3>6, <3>10, <4>3, <4>5
          <5>3. Matches = {<<n, m, x>>}
            BY <5>1 DEF a
          <5>4. LengthOf(s) \in Nat \ {0} /\ DistanceOf(s, d) \in Nat \ {0} /\ P4(s, d) > Place
            BY <2>2, <3>5, <3>8
          <5>5. At(x, P4(s, d)) /\ Matches = {<<LengthOf(s), DistanceOf(s, d), x>>}
            BY <2>2, <3>5, <4>1, <5>3
          <5>6. SymbolsAt(data, P2(s), trees[2]) = {d}
            BY <2>2, <3>1
          <5> QED
            BY <5>2, <5>4, <5>5, <5>6
        <4>6. CASE ~Q(a)
          <5>1. Matches = {}
            BY <1>1, <4>4, <4>6
          <5> QED
            BY <3>6, <3>7, <4>3, <4>6, <5>1
        <4> QED
          BY <4>5, <4>6
      <3> QED
        BY <3>9, <3>10
    <2>7. \/ B = {} /\ \A d \in SymbolsAt(data, p, trees[2]) : ~(d < Len(DistBase))
          \/ \E d \in Nat : /\ SymbolsAt(data, p, trees[2]) = {d} /\ d < Len(DistBase)
                            /\ Len(trees[2][d]) \in Nat
                            /\ \E y : At(y, p + Len(trees[2][d])) /\ B = {<<n, d, y>>}
      <3>1. \/ StartsOf({<<n, z>>}) = {} /\ \A d \in SymbolsAt(data, p, trees[2]) : ~(d < Len(DistBase))
            \/ \E d \in Nat : /\ SymbolsAt(data, p, trees[2]) = {d} /\ d < Len(DistBase)
                              /\ Len(trees[2][d]) \in Nat
                              /\ \E y : At(y, p + Len(trees[2][d])) /\ StartsOf({<<n, z>>}) = {<<n, d, y>>}
        <4>1. DistanceRight(n, z, p)
          BY <2>3, DistanceRead
        <4> QED
          BY <4>1, Zenon DEF DistanceRight
      <3> QED
        BY <2>4, <3>1, Zenon
    <2> QED
      BY <2>5, <2>6, <2>7
  <1> QED
    BY <1>2, <1>3

\* A match: past its last bit, and what it repeats is repeated.
LEMMA MatchStep ==
  ASSUME DeflateInv, Match
  PROVE  /\ state = "symbols"
         /\ \E s \in Nat, d \in Nat :
              /\ SymbolNext(s) /\ MatchGood(s, d) /\ SymbolsAt(data, P2(s), trees[2]) = {d}
              /\ Output' = Repeat(Output, DistanceOf(s, d), LengthOf(s)) /\ Place' = P4(s, d)
         /\ UNCHANGED <<call, last, trees, state>> /\ Place' > Place
         /\ DeflateInv'
  <1>1. PICK m \in Matches :
          /\ r' = m[3]
          /\ IF impl = "ir"
             THEN /\ plan' = [plan EXCEPT
                       !.commands = Append(@, Planned(m[2], m[1])),
                       !.anchor = Len(plan.literals), !.size = @ + m[1]]
                  /\ UNCHANGED out
             ELSE out' = Copy(out, m[2], m[1]) /\ UNCHANGED plan
    BY Zenon DEF Match
  <1>2. r' = m[3] /\ Copied(m[2], m[1])
    BY <1>1 DEF Copied
  <1>3. UNCHANGED <<call, last, trees, ran, state>>
    BY DEF Match
  <1>4. Symbols # {}
    <2>1. CASE Symbols = {}
      <3>1. Matches = {m2 \in AllOf(StartsOf(LengthsOf({}))) : m2[2] <= Made /\ Room(m2[1])}
        BY <2>1, MatchesOf, Zenon
      <3>2. AllOf(StartsOf(LengthsOf({}))) = {}
        BY MatchesOf, Zenon
      <3>3. Matches = {}
        BY <3>1, <3>2
      <3> QED
        BY <1>1, <3>3
    <2> QED
      BY <2>1
  <1>5. state = "symbols"
    BY <1>4, SymbolsNext
  <1>6. PICK s \in Nat : SymbolNext(s)
    BY <1>4, <1>5, SymbolsNext
  <1>7. PICK d \in Nat : /\ MatchGood(s, d) /\ SymbolsAt(data, P2(s), trees[2]) = {d}
                         /\ LengthOf(s) \in Nat \ {0} /\ DistanceOf(s, d) \in Nat \ {0}
                         /\ P4(s, d) > Place
                         /\ \E z : At(z, P4(s, d)) /\ Matches = {<<LengthOf(s), DistanceOf(s, d), z>>}
    BY <1>1, <1>6, MatchesAre
  <1>8. PICK z : At(z, P4(s, d)) /\ Matches = {<<LengthOf(s), DistanceOf(s, d), z>>}
    BY <1>7
  <1>9. m[1] = LengthOf(s) /\ m[2] = DistanceOf(s, d) /\ m[3] = z
    <2>1. m = <<LengthOf(s), DistanceOf(s, d), z>>
      BY <1>1, <1>8
    <2> QED
      BY <2>1
  <1>10. PICK l \in Nat \ {0}, t \in Nat \ {0} :
           l = LengthOf(s) /\ t = DistanceOf(s, d) /\ Copied(t, l) /\ t <= Made /\ Room(l)
    BY <1>2, <1>7, <1>9 DEF MatchGood
  <1>11. ReaderOk(r)' /\ Place' = P4(s, d)
    <2>1. impl' = impl /\ data' = data /\ At(r', P4(s, d))
      BY <1>2, <1>3, <1>8, <1>9 DEF call
    <2> QED
      BY <2>1, NextReader, StateIs
  <1>12. Parsing /\ Parsing' /\ state' = state
    BY <1>3, <1>5 DEF Parsing
  <1>13. PlanOk' /\ OutOk' /\ Output' = Repeat(Output, t, l)
    <2>1. impl' = impl /\ ran' = ran
      BY <1>3 DEF call
    <2> QED
      BY <1>10, <1>12, <2>1, CopyStep
  <1>14. DeflateInv'
    <2>1. last' \in BOOLEAN
      BY <1>3 DEF DeflateInv
    <2> QED
      BY <1>3, <1>5, <1>11, <1>12, <1>13, <2>1, KeptCodes
  <1>15. Output' = Repeat(Output, DistanceOf(s, d), LengthOf(s)) /\ Place' > Place
    BY <1>7, <1>10, <1>11, <1>13
  <1> QED
    BY <1>3, <1>5, <1>6, <1>7, <1>11, <1>14, <1>15

\* A stream is rejected where nothing can be read, and only there.
LEMMA RejectStep ==
  ASSUME DeflateInv, Reject
  PROVE  /\ state \in {"block", "symbols"} /\ state' = "rejected"
         /\ ~StoreOk /\ ~StartOk /\ ~Ends
         /\ state = "symbols" => \A s \in SymbolsAt(data, Place, trees[1]) :
              /\ s \in Nat /\ s # EndOfBlock /\ ~(s < Literals /\ Room(1))
              /\ \A d : ~MatchGood(s, d)
         /\ UNCHANGED <<call, last, trees>> /\ Place' = Place /\ Output' = Output
         /\ DeflateInv'
  <1>1. /\ state \in {"block", "symbols"} /\ StoredBlocks = {} /\ CompressedBlocks = {} /\ ~Ends
        /\ LiteralBytes = {} /\ Matches = {} /\ (\A s \in Symbols : s[1] # EndOfBlock)
        /\ state' = "rejected" /\ UNCHANGED <<call, r, last, trees, plan, out, ran>>
    BY DEF Reject
  <1>2. ~StoreOk
    BY <1>1, StoredAre DEF Store
  <1>3. ~StartOk
    BY <1>1, CompressedAre DEF Begun
  <1>4. ASSUME state = "symbols", NEW s \in SymbolsAt(data, Place, trees[1])
        PROVE  /\ s \in Nat /\ s # EndOfBlock /\ ~(s < Literals /\ Room(1))
               /\ \A d : ~MatchGood(s, d)
    <2>1. PICK t \in Nat : SymbolNext(t)
      BY <1>4, SymbolsNext
    <2>2. s = t
      BY <1>4, <2>1 DEF SymbolNext
    <2>3. PICK z : Symbols = {<<t, z>>}
      BY <2>1 DEF SymbolNext, Reads
    <2>4. <<t, z>>[1] = t
      OBVIOUS
    <2>5. t # EndOfBlock
      BY <1>1, <2>3, <2>4
    <2>6. ~(t < Literals /\ Room(1))
      BY <1>1, <2>3, <2>4 DEF LiteralBytes
    <2>7. \A d : ~MatchGood(t, d)
      BY <1>1, <2>1, MatchesAre
    <2> QED
      BY <2>1, <2>2, <2>5, <2>6, <2>7
  <1>5. Parsing /\ Parsing'
    BY <1>1 DEF Parsing
  <1>6. PlanOk' /\ OutOk' /\ Output' = Output
    BY <1>1, <1>5, SameOutput DEF call
  <1>7. ReaderOk(r)' /\ Place' = Place
    <2>1. impl' = impl /\ data' = data /\ At(r', Place)
      BY <1>1, StateIs DEF call
    <2> QED
      BY <2>1, NextReader, StateIs
  <1>8. DeflateInv'
    <2>1. last' \in BOOLEAN
      BY <1>1 DEF DeflateInv
    <2> QED
      BY <1>1, <1>6, <1>7, <2>1, KeptCodes
  <1> QED
    BY <1>1, <1>2, <1>3, <1>4, <1>6, <1>7, <1>8

\* The steps that leave the reader where it is.
LEMMA StayStep ==
  ASSUME DeflateInv, Return \/ Execute \/ Executed
  PROVE  /\ UNCHANGED <<call, last, trees>> /\ Place' = Place /\ Output' = Output
         /\ DeflateInv'
  <1>1. UNCHANGED <<call, r, last, trees>>
    BY DEF Return, Execute, Executed
  <1>2. PlanOk' /\ OutOk' /\ Output' = Output
    BY ReturnStep, ExecuteStep, ExecutedStep
  <1>3. state' \in {"block", "symbols", "planned", "done", "rejected"}
    <2>1. Return => state' \in {"planned", "done"}
      BY DEF Return
    <2>2. Execute => state' = "planned"
      BY DEF Execute
    <2>3. Executed => state' = "done"
      BY ExecutedStep
    <2> QED
      BY <2>1, <2>2, <2>3
  <1>4. ReaderOk(r)' /\ Place' = Place
    <2>1. impl' = impl /\ data' = data /\ At(r', Place)
      BY <1>1, StateIs DEF call
    <2> QED
      BY <2>1, NextReader, StateIs
  <1>5. DeflateInv'
    <2>1. last' \in BOOLEAN
      BY <1>1 DEF DeflateInv
    <2> QED
      BY <1>1, <1>2, <1>3, <1>4, <2>1, KeptCodes
  <1> QED
    BY <1>1, <1>2, <1>4, <1>5

LEMMA CeilUp ==
  ASSUME NEW q \in Nat
  PROVE  Ceil(q) \in Nat /\ Ceil(q) * ByteBits \in Nat /\ Ceil(q) * ByteBits >= q
  <1>1. PICK b \in Nat \ {0} : b = ByteBits
    BY SizesAssumption
  <1>2. q + b - 1 \in Nat
    OBVIOUS
  <1>3. PICK c \in Nat, m \in 0..(b - 1) : c = (q + b - 1) \div b /\ q + b - 1 = c * b + m
    BY <1>2, Divided
  <1>4. PICK u \in Nat : u = c * b
    OBVIOUS
  <1>5. q + b - 1 = u + m
    BY <1>3, <1>4
  <1>6. u >= q
    BY <1>5
  <1>7. Ceil(q) = c
    BY <1>1, <1>3 DEF Ceil
  <1> QED
    BY <1>1, <1>4, <1>6, <1>7

\* Every block read takes bits, a stored one those of its length at least.
LEMMA BlocksForward ==
  ASSUME DeflateInv, Stored \/ Compressed
  PROVE  Place' > Place
  <1>1. PICK p \in Nat : p = Place
    BY StateIs
  <1>2. CASE Stored
    <2>1. Place' = StoreAt + (2 + StoreLen) * ByteBits /\ StoreAt = Ceil(p + 3) * ByteBits
      BY <1>1, <1>2, StoredStep DEF StoreAt
    <2>2. PICK u \in Nat : u = StoreAt /\ u >= p + 3
      <3>1. p + 3 \in Nat
        OBVIOUS
      <3> QED
        BY <2>1, <3>1, CeilUp
    <2>3. PICK n \in Nat : n = StoreLen
      BY <2>2, SizesAssumption, StateIs, ValueIs DEF StoreLen
    <2>4. PICK v \in Nat : v = (2 + n) * ByteBits
      <3>1. ByteBits \in Nat /\ 2 + n \in Nat
        BY SizesAssumption
      <3> QED
        BY <3>1
    <2>5. Place' = u + v
      BY <2>1, <2>2, <2>3, <2>4
    <2> QED
      BY <1>1, <2>2, <2>5
  <1>3. CASE Compressed
    <2>1. Place' = p + 3
      BY <1>1, <1>3, CompressedStep
    <2>2. p + 3 > p
      OBVIOUS
    <2> QED
      BY <1>1, <2>1, <2>2
  <1> QED
    BY <1>2, <1>3

-------------------------------------------------------------------------------
(* The invariant.                                                          *)

LEMMA EmptyPlan ==
  /\ PlanGood(NoPlan) /\ So(NoPlan) = <<>> /\ Pending(NoPlan) = <<>>
  /\ PlayedOf(NoPlan, Len(NoPlan.commands)) = <<>> /\ Len(NoPlan.commands) = 0
  <1>1. /\ NoPlan.literals = <<>> /\ NoPlan.commands = <<>> /\ NoPlan.size = 0 /\ NoPlan.anchor = 0
        /\ NoPlan = [literals |-> NoPlan.literals, commands |-> NoPlan.commands,
                     size |-> NoPlan.size, anchor |-> NoPlan.anchor]
    BY DEF NoPlan
  <1>2. PlayedOf(NoPlan, 0) = <<>>
    BY PlayedRec
  <1>3. PlanGood(NoPlan)
    BY <1>1 DEF PlanGood
  <1>4. Pending(NoPlan) = <<>>
    BY <1>1 DEF Pending
  <1>5. So(NoPlan) = <<>>
    <2>1. <<>> \o <<>> = <<>>
      OBVIOUS
    <2> QED
      BY <1>1, <1>2, <1>4, <2>1 DEF So
  <1> QED
    BY <1>1, <1>2, <1>3, <1>4, <1>5

\* What a call starts with.
LEMMA Starts ==
  ASSUME Init
  PROVE  DeflateInv /\ Place = 0 /\ Output = <<>>
  <1>1. /\ impl \in {"native", "ir", "trace"}
        /\ mode \in IF impl = "trace" THEN {"scalar", "periodic"} ELSE {"scalar", "grow", "sse2"}
        /\ \E in \in Inputs : data = in[1] /\ header = in[2]
        /\ r = [i |-> 0, buf |-> <<>>] /\ last = FALSE /\ trees = FixedTables
        /\ plan = NoPlan /\ out = <<>> /\ ran = 0 /\ state = "block"
    BY DEF Init, Empty
  <1>2. CallOk
    BY <1>1 DEF CallOk
  <1>3. DataOk
    BY <1>2, DataIs
  <1>4. ReaderOk(r) /\ Place = 0
    <2>1. 0 \in 0..Whole(data) /\ 0 * ByteBits = 0
      BY <1>3, SizesAssumption DEF DataOk
    <2>2. At(r, 0)
      BY <1>1, <1>3, <2>1, EmptyAt
    <2> QED
      BY <1>3, <2>2, AtReader DEF Place
  <1>5. PlanGood(plan) /\ Parsing
    BY <1>1, EmptyPlan DEF Parsing
  <1>6. Outcome = <<>>
    BY <1>1, <1>5, EmptyPlan, OutcomeIs
  <1>7. PlanOk
    <2>1. plan.size = 0 /\ Len(<<>>) = 0
      BY <1>1 DEF NoPlan
    <2> QED
      BY <1>5, <1>6, <2>1, PlanIs
  <1>8. OutOk
    <2>1. Made = 0 /\ 0 <= MaxOutput
      <3>1. plan.size = 0 /\ Len(out) = 0
        BY <1>1 DEF NoPlan
      <3> QED
        BY <3>1, SizesAssumption DEF Made
    <2>2. Played(0) = <<>>
      BY PlayedAre, PlayedRec
    <2>3. 0 \in 0..Len(plan.commands)
      BY <1>1, EmptyPlan
    <2> QED
      BY <1>1, <2>1, <2>2, <2>3 DEF OutOk
  <1>9. trees = <<trees[1], trees[2]>> /\ TreeOk(trees[1]) /\ TreeOk(trees[2])
    BY <1>1, FixedTrees
  <1> QED
    BY <1>1, <1>2, <1>4, <1>6, <1>7, <1>8, <1>9 DEF DeflateInv, Output

\* Every step keeps the invariant.
LEMMA Steps ==
  ASSUME DeflateInv, [Next]_vars
  PROVE  DeflateInv'
  <1>1. CASE Stored
    BY <1>1, StoredStep
  <1>2. CASE Compressed
    BY <1>2, CompressedStep
  <1>3. CASE Literal
    BY <1>3, LiteralStep
  <1>4. CASE Match
    BY <1>4, MatchStep
  <1>5. CASE End
    BY <1>5, EndStep
  <1>6. CASE Reject
    BY <1>6, RejectStep
  <1>7. CASE Return \/ Execute \/ Executed
    BY <1>7, StayStep
  <1>8. CASE UNCHANGED vars
    <2>1. Place' = Place /\ impl' = impl /\ data' = data /\ r' = r /\ DataOk /\ At(r, Place)
      BY <1>8, StateIs DEF vars, Place
    <2>2. ReaderOk(r)'
      BY <2>1, NextReader
    <2>3. CallOk' /\ Outcome' = Outcome /\ (trees = <<trees[1], trees[2]>> /\ TreeOk(trees[1]) /\ TreeOk(trees[2]))'
      <3>1. CallOk'
        BY <1>8 DEF DeflateInv, CallOk, vars
      <3>2. Outcome' = Outcome
        BY <1>8, PlayedAre, Zenon DEF Outcome, vars
      <3> QED
        BY <1>8, <3>1, <3>2 DEF DeflateInv, TreeOk, vars
    <2>4. PlanOk'
      BY <1>8, <2>3, PlanIs DEF DeflateInv, vars
    <2>5. Made' = Made /\ Parsing' = Parsing /\ \A n : Played(n)' = Played(n)
      BY <1>8, PlayedAre DEF Made, Parsing, vars
    <2>6. OutOk'
      BY <1>8, <2>5 DEF DeflateInv, OutOk, vars
    <2> QED
      BY <1>8, <2>2, <2>3, <2>4, <2>6 DEF DeflateInv, vars
  <1> QED
    BY <1>1, <1>2, <1>3, <1>4, <1>5, <1>6, <1>7, <1>8 DEF Next, Returned

\* In every state the reader is at a place of its stream, codes are free of
\* prefixes, a plan's commands can be carried out one after the other, and the
\* buffer holds what those carried out come to.
THEOREM Invariance == Spec => []DeflateInv
  <1>1. Init => DeflateInv
    BY Starts
  <1>2. DeflateInv /\ [Next]_vars => DeflateInv'
    BY Steps
  <1> QED
    BY <1>1, <1>2, PTL DEF Spec

\* nr_execute (lz4_decode.c) takes every plan tokenize (deflate_ir.py) returns,
\* fills the buffer it is given and leaves there what the plan stands for.
THEOREM Carries == Spec => []PlanCarriedOut
  <1>1. DeflateInv => PlanCarriedOut
    <2> SUFFICES ASSUME DeflateInv, impl = "ir", state = "done"
                 PROVE  out = Outcome /\ Len(out) = plan.size
      BY DEF PlanCarriedOut, DeflateInv
    <2>1. PlanGood(plan) /\ plan.size = Len(Outcome) /\ ~Parsing
      BY PlanIs DEF DeflateInv, Parsing
    <2>2. Outcome = PlayedOf(plan, Len(plan.commands))
      BY <2>1, OutcomeIs
    <2>3. out = PlayedOf(plan, Len(plan.commands))
      BY PlayedAre DEF DeflateInv, OutOk
    <2> QED
      BY <2>1, <2>2, <2>3
  <1> QED
    BY <1>1, Invariance, PTL

\* No decoder's output passes its limit, no reader passes the end of the
\* stream, and bits taken but not used are those just before its place.
THEOREM Typed == Spec => []TypeOK
  <1>1. DeflateInv => TypeOK
    <2> SUFFICES ASSUME DeflateInv PROVE TypeOK
      OBVIOUS
    <2>1. /\ impl \in {"native", "ir", "trace"} /\ mode \in {"scalar", "grow", "sse2", "periodic"}
          /\ last \in BOOLEAN
          /\ state \in {"block", "symbols", "planned", "done", "rejected", "failed"}
      BY DEF DeflateInv, CallOk
    <2>2. /\ r.i \in 0..Whole(data) /\ Len(r.buf) <= Word
          /\ r.buf = SubSeq(data, Place + 1, ByteBits * r.i)
      BY DEF DeflateInv, ReaderOk, Place
    <2>3. PlanGood(plan) /\ plan.size = Len(Outcome)
      BY PlanIs DEF DeflateInv
    <2>4. Outcome = IF Parsing THEN So(plan) ELSE PlayedOf(plan, Len(plan.commands))
      BY <2>3, OutcomeIs
    <2>5. /\ Len(plan.literals) \in Nat /\ plan.anchor \in 0..Len(plan.literals)
          /\ Len(plan.commands) \in Nat
          /\ Len(So(plan)) = Len(PlayedOf(plan, Len(plan.commands))) + (Len(plan.literals) - plan.anchor)
          /\ So(plan) \in Seq(ByteVal)
      BY <2>3, TailIs DEF PlanGood
    <2>6. /\ out \in Seq(ByteVal) /\ ran \in 0..Len(plan.commands) /\ Made <= MaxOutput
          /\ IF impl = "ir" THEN out = PlayedOf(plan, ran) ELSE plan = NoPlan
      BY PlayedAre DEF DeflateInv, OutOk
    <2>7. PICK n \in Nat, m \in Nat : n = Len(out) /\ m = plan.size
      <3>1. PlayedOf(plan, Len(plan.commands)) \in Seq(ByteVal)
        BY <2>3, <2>5, AllCarried
      <3>2. Outcome \in Seq(ByteVal)
        BY <2>4, <2>5, <3>1
      <3> QED
        BY <2>3, <2>6, <3>2, LenIs
    <2>8. n <= MaxOutput /\ m <= MaxOutput
      <3>1. CASE impl = "ir"
        <4>1. m <= MaxOutput
          BY <2>6, <2>7, <3>1 DEF Made
        <4>2. n <= Len(PlayedOf(plan, Len(plan.commands)))
          BY <2>3, <2>6, <2>7, <3>1, PlayedGrows
        <4>3. PICK a \in Nat, d \in Nat :
                a = Len(PlayedOf(plan, Len(plan.commands))) /\ d = Len(plan.literals) - plan.anchor
          <5>1. Len(PlayedOf(plan, Len(plan.commands))) \in Nat
            <6>1. Len(plan.commands) \in 0..Len(plan.commands)
              BY <2>5
            <6> QED
              BY <2>3, <6>1, PlayedGrows
          <5>2. Len(plan.literals) - plan.anchor \in Nat
            BY <2>5
          <5> QED
            BY <5>1, <5>2
        <4>4. m = IF Parsing THEN a + d ELSE a
          BY <2>3, <2>4, <2>5, <2>7, <4>3
        <4>5. n <= m
          BY <4>2, <4>3, <4>4
        <4> QED
          BY <4>1, <4>5, SizesAssumption
      <3>2. CASE impl # "ir"
        <4>1. n <= MaxOutput /\ m = 0
          BY <2>6, <2>7, <3>2 DEF Made, NoPlan
        <4> QED
          BY <4>1, SizesAssumption
      <3> QED
        BY <3>1, <3>2
    <2>9. plan.size \in 0..MaxOutput /\ Len(out) \in 0..MaxOutput
      BY <2>7, <2>8, SizesAssumption
    <2>10. \A k \in DOMAIN out : out[k] \in 0..Pow2[ByteBits] - 1
      <3>1. \A k \in DOMAIN out : out[k] \in ByteVal
        BY <2>6
      <3> QED
        BY <3>1, Zenon DEF ByteVal
    <2> QED
      BY <2>1, <2>2, <2>5, <2>6, <2>9, <2>10 DEF TypeOK
  <1> QED
    BY <1>1, Invariance, PTL

\* Every step of decoding takes bits the stream has not given before or ends
\* the call, and every step of nr_execute takes a command.
THEOREM GoesOn == Spec => Further
  <1> DEFINE A == \/ state \in {"block", "symbols"} /\ state' \in {"block", "symbols"} /\ Place' > Place
                  \/ state \in {"block", "symbols"} /\ state' \in {"planned", "done", "rejected"}
                  \/ state = "planned" /\ (ran' = ran + 1 \/ state' \in {"done", "failed"})
  <1>1. DeflateInv /\ [Next]_vars => [A]_vars
    <2> SUFFICES ASSUME DeflateInv, Next PROVE [A]_vars
      OBVIOUS
    <2>1. CASE Stored
      BY <2>1, StoredStep, BlocksForward DEF StoreOk, StoreHead
    <2>2. CASE Compressed
      BY <2>2, CompressedStep, BlocksForward DEF StartOk, Start
    <2>3. CASE Literal
      BY <2>3, LiteralStep
    <2>4. CASE Match
      BY <2>4, MatchStep
    <2>5. CASE End
      BY <2>5, EndStep
    <2>6. CASE Return
      BY <2>6 DEF Return, Ends
    <2>7. CASE Reject
      BY <2>7, RejectStep
    <2>8. CASE Execute
      BY <2>8 DEF Execute
    <2>9. CASE Executed
      BY <2>9, ExecutedStep DEF Executed
    <2>10. CASE Returned
      BY <2>10 DEF Returned
    <2> QED
      BY <2>1, <2>2, <2>3, <2>4, <2>5, <2>6, <2>7, <2>8, <2>9, <2>10 DEF Next
  <1>2. [][A]_vars <=> Further
    BY DEF Further
  <1> HIDE DEF A
  <1> QED
    BY <1>1, <1>2, Invariance, PTL DEF Spec

-------------------------------------------------------------------------------
(* The refinement: the abstract decoder's definitions are those of the     *)
(* format, and its conditions those that the decoders test.                *)

LEMMA AbsPow == Abstract!Pow2 = Pow2
  BY Zenon DEF Abstract!Pow2, Pow2

LEMMA AbsNum == ASSUME NEW s PROVE Abstract!Num(s) = Num(s)
  BY AbsPow, Zenon DEF Abstract!Num, Num

LEMMA AbsRun == ASSUME NEW s, NEW c PROVE Abstract!Run(s, c) = Run(s, c)
  BY DEF Abstract!Run, Run, Abstract!Last, Last

LEMMA AbsExpand == ASSUME NEW s PROVE Abstract!Expand(s) = Expand(s)
  BY AbsRun, Zenon DEF Abstract!Expand, Expand

LEMMA AbsSplit == ASSUME NEW s, NEW h PROVE Abstract!Split(s, h) = Split(s, h)
  BY Zenon DEF Abstract!Split, Split

LEMMA AbsRepeat == ASSUME NEW o, NEW d, NEW m PROVE Abstract!Repeat(o, d, m) = Repeat(o, d, m)
  BY Zenon DEF Abstract!Repeat, Repeat

LEMMA AbsCoded == ASSUME NEW lens PROVE Abstract!Coded(lens) = Coded(lens)
  BY Zenon DEF Abstract!Coded, Coded

LEMMA AbsShare == ASSUME NEW lens, NEW S PROVE Abstract!Share(lens, S) = Share(lens, S)
  BY AbsPow, Zenon DEF Abstract!Share, Share, Abstract!MapThenSumSet, MapThenSumSet,
                       Abstract!MapThenFoldSet, MapThenFoldSet

LEMMA AbsBefore == ASSUME NEW lens, NEW s PROVE Abstract!Before(lens, s) = Before(lens, s)
  BY AbsCoded, Zenon DEF Abstract!Before, Before

LEMMA AbsCode == ASSUME NEW lens, NEW s PROVE Abstract!Code(lens, s) = Code(lens, s)
  BY AbsPow, AbsShare, AbsBefore, Zenon DEF Abstract!Code, Code

LEMMA AbsCodes == ASSUME NEW lens PROVE Abstract!Codes(lens) = Codes(lens)
  BY AbsCode, AbsCoded, Zenon DEF Abstract!Codes, Codes

LEMMA AbsFixed == Abstract!FixedCodes = <<Codes(FixedLit), Codes(FixedDist)>>
  BY AbsCodes DEF Abstract!FixedCodes

LEMMA AbsOversubscribed == ASSUME NEW lens PROVE Abstract!Oversubscribed(lens) <=> Oversubscribed(lens)
  BY AbsCoded, AbsShare, AbsPow DEF Abstract!Oversubscribed, Oversubscribed

LEMMA AbsSymbolsAt == ASSUME NEW d, NEW p, NEW t PROVE Abstract!SymbolsAt(d, p, t) = SymbolsAt(d, p, t)
  BY DEF Abstract!SymbolsAt, SymbolsAt

LEMMA AbsWhole == ASSUME NEW d PROVE Abstract!Whole(d) = Whole(d)
  BY DEF Abstract!Whole, Whole

LEMMA AbsField == ASSUME NEW p, NEW k PROVE Abstract!Field(p, k) = Value(p, k)
  BY AbsNum DEF Abstract!Field, Abstract!Has, Value

LEMMA AbsEnd == Abstract!EndOfBlock = EndOfBlock
  BY DEF Abstract!EndOfBlock, EndOfBlock

\* The state the abstract decoder is in, and its rules.
Phase == IF state \in {"planned", "failed"} THEN "done" ELSE state
Rules == [trailing |-> impl # "ir",
          literals |-> IF impl = "native" THEN NativeLiterals ELSE AllLiterals,
          end      |-> impl # "native"]

LEMMA AbsAtBlock == ASSUME NEW kind PROVE Abstract!AtBlock(kind) <=> Start(kind)
  <1>1. Phase = "block" <=> state = "block"
    BY DEF Phase
  <1> QED
    BY <1>1, AbsField DEF Abstract!AtBlock, Abstract!Has, Start, Phase

LEMMA AbsStore ==
  ASSUME DeflateInv
  PROVE  /\ Abstract!CanStore <=> StoreOk
         /\ Abstract!Boundary = StoreAt /\ Abstract!StoredLen = StoreLen
         /\ [k \in 1..Abstract!StoredLen |->
               Abstract!Field(Abstract!Boundary + (1 + k) * ByteBits, ByteBits)]
              = StoreBytes(StoreAt, StoreLen)
  <1>1. Abstract!Boundary = StoreAt
    BY Zenon DEF Abstract!Boundary, StoreAt, Ceil
  <1>2. Abstract!StoredLen = StoreLen
    BY <1>1, AbsField, Zenon DEF Abstract!StoredLen, StoreLen
  <1>3. PICK B \in Nat, n \in Nat : B = StoreAt /\ n = StoreLen
    <2>1. Place + 3 \in Nat
      BY StateIs
    <2>2. StoreAt \in Nat
      BY <2>1, CeilUp DEF StoreAt
    <2> QED
      BY <2>2, SizesAssumption, StateIs, ValueIs DEF StoreLen
  <1>4. [k \in 1..Abstract!StoredLen |->
           Abstract!Field(Abstract!Boundary + (1 + k) * ByteBits, ByteBits)]
          = StoreBytes(StoreAt, StoreLen)
    BY <1>1, <1>2, AbsField, Zenon DEF StoreBytes
  <1>5. Abstract!AtBlock(0) <=> StoreHead
    BY AbsAtBlock DEF Start, StoreHead
  <1>6. ASSUME StoreHead PROVE Abstract!Room(n) <=> Room(n)
    <2>1. Parsing
      BY <1>6 DEF StoreHead, Parsing
    <2>2. PICK m \in Nat : m = Made /\ m = Len(Output) /\ (Room(n) <=> m + n <= MaxOutput)
      BY <2>1, MadeIs
    <2>3. Abstract!Room(n) <=> Len(Output) + n <= MaxOutput
      BY Zenon DEF Abstract!Room, Output
    <2> QED
      BY <2>2, <2>3
  <1>7. Abstract!Pow2[ByteBits] = Pow2[ByteBits]
    BY AbsPow, Zenon
  <1>8. Abstract!Field(B + ByteBits, ByteBits) = Value(B + ByteBits, ByteBits)
    BY AbsField
  <1>9. Abstract!CanStore <=> /\ StoreHead
                              /\ B + 2 * ByteBits <= Len(data)
                              /\ n + Value(B + ByteBits, ByteBits) = Pow2[ByteBits] - 1
                              /\ B + (2 + n) * ByteBits <= Len(data)
                              /\ Abstract!Room(n)
    BY <1>1, <1>2, <1>3, <1>5, <1>7, <1>8, Zenon DEF Abstract!CanStore, Abstract!Has
  <1>10. StoreOk <=> /\ StoreHead
                     /\ B + 2 * ByteBits <= Len(data)
                     /\ n + Value(B + ByteBits, ByteBits) = Pow2[ByteBits] - 1
                     /\ B + (2 + n) * ByteBits <= Len(data)
                     /\ Room(n)
    BY <1>3, Zenon DEF StoreOk, Fits
  <1>11. Abstract!CanStore <=> StoreOk
    BY <1>6, <1>9, <1>10, Zenon
  <1> QED
    BY <1>1, <1>2, <1>4, <1>11

LEMMA AbsStart == Abstract!CanStart <=> StartOk
  <1>1. Abstract!Expand(header.runs) = Expand(header.runs)
    BY AbsExpand
  <1>2. Abstract!Split(Abstract!Expand(header.runs), header) = Lengths
    BY <1>1, AbsSplit, Zenon DEF Lengths
  <1>3. Abstract!Oversubscribed(Lengths[1]) <=> Oversubscribed(Lengths[1])
    BY AbsOversubscribed
  <1>4. Abstract!Oversubscribed(Lengths[2]) <=> Oversubscribed(Lengths[2])
    BY AbsOversubscribed
  <1>5. (\A k \in 1..2 : ~Abstract!Oversubscribed(Lengths[k])) <=> \A k \in 1..2 : ~Oversubscribed(Lengths[k])
    BY <1>3, <1>4
  <1>6. Abstract!ValidHeader <=> GoodHeader
    <2> DEFINE X == Expand(header.runs)
               T == \A k \in 1..2 : ~Oversubscribed(Lengths[k])
               E == X[EndOfBlock + 1] > 0
    <2>1. Rules.literals = MostLiterals /\ (Rules.end <=> impl # "native")
      BY DEF Rules, MostLiterals
    <2>2. Abstract!ValidHeader <=> /\ header.lit <= Rules.literals
                                   /\ header.runs # <<>> /\ header.runs[1][1] # "copy"
                                   /\ Len(X) = header.lit + header.dist
                                   /\ Rules.end => E
                                   /\ T
      <3>1. Abstract!ValidHeader <=> /\ header.lit <= Rules.literals
                                     /\ header.runs # <<>> /\ header.runs[1][1] # "copy"
                                     /\ Len(X) = header.lit + header.dist
                                     /\ Rules.end => E
                                     /\ \A k \in 1..2 : ~Abstract!Oversubscribed(Lengths[k])
        BY <1>1, <1>2, AbsEnd, Zenon DEF Abstract!ValidHeader, Rules
      <3> QED
        BY <1>5, <3>1
    <2> HIDE DEF X, E, T
    <2>3. GoodHeader <=> /\ header.lit <= MostLiterals
                         /\ header.runs # <<>> /\ header.runs[1][1] # "copy"
                         /\ Len(X) = header.lit + header.dist
                         /\ impl # "native" => E
                         /\ T
      BY Zenon DEF GoodHeader, HeaderGood, Started, X, E, T
    <2> QED
      BY <2>1, <2>2, <2>3, Zenon
  <1> QED
    BY <1>6, AbsAtBlock DEF Abstract!CanStart, StartOk

LEMMA AbsTrees ==
  (IF Abstract!AtBlock(1) THEN Abstract!FixedCodes
   ELSE [k \in 1..2 |-> Abstract!Codes(Abstract!Split(Abstract!Expand(header.runs), header)[k])])
    = NextTrees
  <1>1. Abstract!Split(Abstract!Expand(header.runs), header) = Lengths
    BY AbsExpand, AbsSplit, Zenon DEF Lengths
  <1>2. Abstract!Codes(Lengths[1]) = Codes(Lengths[1]) /\ Abstract!Codes(Lengths[2]) = Codes(Lengths[2])
    BY AbsCodes
  <1>3. [k \in 1..2 |-> Abstract!Codes(Lengths[k])] = <<Codes(Lengths[1]), Codes(Lengths[2])>>
    BY <1>2
  <1> QED
    BY <1>1, <1>3, AbsAtBlock, AbsFixed, Zenon DEF NextTrees

LEMMA AbsSymbols ==
  Abstract!Symbols = IF state = "symbols" THEN SymbolsAt(data, Place, trees[1]) ELSE {}
  <1>1. Phase = "symbols" <=> state = "symbols"
    BY DEF Phase
  <1>2. Abstract!SymbolsAt(data, Place, trees[1]) = SymbolsAt(data, Place, trees[1])
    BY AbsSymbolsAt
  <1> QED
    BY <1>1, <1>2, Zenon DEF Abstract!Symbols, Phase

LEMMA AbsRoom ==
  ASSUME DeflateInv, Parsing, NEW k \in Nat
  PROVE  Abstract!Room(k) <=> Room(k)
  <1>1. PICK m \in Nat : m = Made /\ m = Len(Output) /\ (Room(k) <=> m + k <= MaxOutput)
    BY MadeIs
  <1>2. Abstract!Room(k) <=> Len(Output) + k <= MaxOutput
    BY Zenon DEF Abstract!Room, Output
  <1> QED
    BY <1>1, <1>2

MatchRecord(s, d) == [length |-> LengthOf(s), distance |-> DistanceOf(s, d), end |-> P4(s, d)]

LEMMA AbsMatches ==
  ASSUME DeflateInv, NEW s \in Nat, SymbolNext(s), state = "symbols"
  PROVE  /\ \A d : MatchGood(s, d) => MatchRecord(s, d) \in Abstract!Matches(s)
         /\ Abstract!Matches(s) # {} => \E d : MatchGood(s, d)
  <1>1. Parsing
    BY DEF Parsing
  <1> DEFINE S == {d \in SymbolsAt(data, P2(s), trees[2]) : d < Len(DistBase)}
             Good(m) == m.end <= Len(data) /\ m.distance <= Len(Output) /\ Abstract!Room(m.length)
  <1>2. Abstract!Matches(s)
          = IF ~LengthGood(s) THEN {} ELSE {m \in {MatchRecord(s, d) : d \in S} : Good(m)}
    <2> DEFINE l == s - EndOfBlock
               p1 == Place + Len(trees[1][s])
               p2 == p1 + LenExtra[l]
    <2>1. Abstract!Matches(s)
            = IF ~(l \in 1..Len(LenBase) /\ p1 + LenExtra[l] <= Len(data)) THEN {}
              ELSE {m \in {[length   |-> LenBase[l] + Value(p1, LenExtra[l]),
                            distance |-> DistBase[d + 1] + Value(p2 + Len(trees[2][d]), DistExtra[d + 1]),
                            end      |-> p2 + Len(trees[2][d]) + DistExtra[d + 1]] :
                             d \in {d \in SymbolsAt(data, p2, trees[2]) : d < Len(DistBase)}} : Good(m)}
      BY AbsEnd, AbsSymbolsAt, AbsField, Zenon DEF Abstract!Matches, Abstract!Has, Output
    <2>2. P1(s) = p1 /\ P2(s) = p2
      BY Zenon DEF P1, P2
    <2>3. LengthGood(s) <=> l \in 1..Len(LenBase) /\ p1 + LenExtra[l] <= Len(data)
      BY <2>2, Zenon DEF LengthGood
    <2>4. \A d : MatchRecord(s, d) = [length   |-> LenBase[l] + Value(p1, LenExtra[l]),
                                      distance |-> DistBase[d + 1] + Value(p2 + Len(trees[2][d]), DistExtra[d + 1]),
                                      end      |-> p2 + Len(trees[2][d]) + DistExtra[d + 1]]
      BY <2>2, Zenon DEF MatchRecord, LengthOf, DistanceOf, P3, P4
    <2>5. S = {d \in SymbolsAt(data, p2, trees[2]) : d < Len(DistBase)}
      BY <2>2, Zenon
    <2> HIDE DEF S, Good
    <2> QED
      BY <2>1, <2>3, <2>4, <2>5, Zenon
  <1>3. \A d : /\ MatchRecord(s, d).end = P4(s, d) /\ MatchRecord(s, d).distance = DistanceOf(s, d)
               /\ MatchRecord(s, d).length = LengthOf(s)
    BY DEF MatchRecord
  <1>4. LengthGood(s) => LengthOf(s) \in Nat /\ Made = Len(Output) /\ (Abstract!Room(LengthOf(s)) <=> Room(LengthOf(s)))
    <2>1. LengthGood(s) => LengthOf(s) \in Nat
      BY LengthRead
    <2> QED
      BY <1>1, <2>1, AbsRoom, MadeIs
  <1>5. \A d : MatchGood(s, d) <=> LengthGood(s) /\ d \in S /\ Good(MatchRecord(s, d))
    BY <1>3, <1>4, Zenon DEF MatchGood
  <1> HIDE DEF S, Good
  <1> QED
    BY <1>2, <1>5, Zenon

LEMMA AbsReadable ==
  ASSUME DeflateInv, NEW s \in Nat, SymbolNext(s), state = "symbols",
         s # EndOfBlock, ~(s < Literals /\ Room(1)), \A d : ~MatchGood(s, d)
  PROVE  ~Abstract!Readable(s)
  <1>1. Parsing
    BY DEF Parsing
  <1>2. Abstract!Room(1) <=> Room(1)
    BY <1>1, AbsRoom
  <1>3. Abstract!Matches(s) = {}
    BY AbsMatches
  <1>4. ~(s < Literals /\ Abstract!Room(1)) /\ s # Abstract!EndOfBlock
    BY <1>2, AbsEnd, Zenon
  <1> QED
    BY <1>3, <1>4, Zenon DEF Abstract!Readable

\* The stream has no byte left where the abstract decoder sees none.
LEMMA AbsCanEnd ==
  ASSUME DeflateInv
  PROVE  Abstract!CanEnd <=> Ends
  <1>1. Phase = "block" <=> state = "block"
    BY DEF Phase
  <1>2. impl = "ir" => (Abstract!Trailing <=> r.i # Whole(data))
    <2> SUFFICES ASSUME impl = "ir" PROVE Abstract!Trailing <=> r.i # Whole(data)
      OBVIOUS
    <2>1. Aligned(align(r), Place)
      BY StateIs, AlignIs
    <2>2. PICK i \in Nat, w \in Nat : i = r.i /\ w = Whole(data) /\ i <= w
      BY StateIs DEF At, DataOk
    <2>3. align(r).i = i
      BY <2>2 DEF align
    <2>4. Ceil(Place) = i
      BY <2>1, <2>3 DEF Aligned
    <2>5. Abstract!Trailing <=> Ceil(Place) < Whole(data)
      BY AbsWhole, Zenon DEF Abstract!Trailing, Ceil
    <2>6. i < w <=> i # w
      BY <2>2
    <2> QED
      BY <2>2, <2>4, <2>5, <2>6
  <1>3. Rules.trailing <=> impl # "ir"
    BY DEF Rules
  <1>4. Abstract!CanEnd <=> Phase = "block" /\ last /\ (Rules.trailing \/ ~Abstract!Trailing)
    BY Zenon DEF Abstract!CanEnd, Phase, Rules
  <1> QED
    BY <1>1, <1>2, <1>3, <1>4 DEF Ends

LEMMA AbsInit == Init => Abstract!Init
  <1> SUFFICES ASSUME Init PROVE Abstract!Init
    OBVIOUS
  <1>1. DeflateInv /\ Place = 0 /\ Output = <<>>
    BY Starts
  <1>2. data \in Seq({0, 1}) /\ header \in Headers
    BY <1>1, StateIs DEF DataOk, HeaderOk
  <1>3. Abstract!Headers = Headers
    BY Zenon DEF Abstract!Headers, Headers
  <1>4. Rules \in Abstract!Rules
    BY SizesAssumption DEF Rules, Abstract!Rules
  <1>5. trees = Abstract!FixedCodes
    BY AbsFixed, FixedTrees DEF Init
  <1>6. state = "block" /\ last = FALSE /\ Phase = "block"
    BY DEF Init, Phase
  <1>7. Rules \in Abstract!Rules => [trailing |-> impl # "ir",
            literals |-> IF impl = "native" THEN NativeLiterals ELSE AllLiterals,
            end      |-> impl # "native"] \in Abstract!Rules
    BY Zenon DEF Rules
  <1> QED
    BY <1>1, <1>2, <1>3, <1>4, <1>5, <1>6, <1>7, Zenon DEF Abstract!Init, Output, Phase

\* Each step maps to the step of the same name, or to none.
LEMMA AbsStored ==
  ASSUME DeflateInv, Stored
  PROVE  Abstract!Stored
  <1>1. /\ StoreOk /\ last' = (Value(Place, 1) = 1)
        /\ Place' = StoreAt + (2 + StoreLen) * ByteBits
        /\ Output' = Output \o StoreBytes(StoreAt, StoreLen)
        /\ UNCHANGED <<call, trees, state>>
    BY StoredStep
  <1>2. /\ Abstract!CanStore /\ Abstract!Boundary = StoreAt /\ Abstract!StoredLen = StoreLen
        /\ [k \in 1..Abstract!StoredLen |->
              Abstract!Field(Abstract!Boundary + (1 + k) * ByteBits, ByteBits)]
             = StoreBytes(StoreAt, StoreLen)
    BY <1>1, AbsStore
  <1>3. Abstract!Field(Place, 1) = Value(Place, 1)
    BY AbsField
  <1>4. last' = (Abstract!Field(Place, 1) = 1)
    BY <1>1, <1>3, Zenon
  <1>5. Place' = Abstract!Boundary + (2 + Abstract!StoredLen) * ByteBits
    BY <1>1, <1>2, Zenon
  <1>6. Output' = Output \o [k \in 1..Abstract!StoredLen |->
                               Abstract!Field(Abstract!Boundary + (1 + k) * ByteBits, ByteBits)]
    BY <1>1, <1>2, Zenon
  <1>7. UNCHANGED <<Abstract!input, trees>> /\ Phase' = Phase
    BY <1>1 DEF Abstract!input, Phase, call
  <1> QED
    BY <1>2, <1>4, <1>5, <1>6, <1>7, Zenon DEF Abstract!Stored, Output, Phase

LEMMA AbsCompressed ==
  ASSUME DeflateInv, Compressed
  PROVE  Abstract!Compressed
  <1>1. /\ StartOk /\ last' = (Value(Place, 1) = 1)
        /\ Place' = Place + 3 /\ trees' = NextTrees /\ Output' = Output
        /\ state' = "symbols" /\ UNCHANGED call
    BY CompressedStep
  <1>2. Abstract!CanStart
    BY <1>1, AbsStart
  <1>3. Abstract!Field(Place, 1) = Value(Place, 1)
    BY AbsField
  <1>4. last' = (Abstract!Field(Place, 1) = 1)
    BY <1>1, <1>3, Zenon
  <1>5. trees' = IF Abstract!AtBlock(1) THEN Abstract!FixedCodes
                 ELSE [k \in 1..2 |-> Abstract!Codes(Abstract!Split(Abstract!Expand(header.runs), header)[k])]
    BY <1>1, AbsTrees, Zenon
  <1>6. UNCHANGED <<Abstract!input>> /\ Phase' = "symbols"
    BY <1>1 DEF Abstract!input, Phase, call
  <1> QED
    BY <1>1, <1>2, <1>4, <1>5, <1>6, Zenon DEF Abstract!Compressed, Output, Phase

LEMMA AbsLiteral ==
  ASSUME DeflateInv, Literal
  PROVE  \E s \in Abstract!Symbols : Abstract!Literal(s)
  <1>1. state = "symbols" /\ UNCHANGED <<call, last, trees, state>>
    BY LiteralStep
  <1>2. PICK s \in Nat : /\ SymbolNext(s) /\ s < Literals /\ Room(1)
                         /\ Output' = Append(Output, s) /\ Place' = Place + Len(trees[1][s])
    BY LiteralStep
  <1>3. s \in Abstract!Symbols
    BY <1>1, <1>2, AbsSymbols DEF SymbolNext
  <1>4. Abstract!Room(1)
    BY <1>1, <1>2, AbsRoom DEF Parsing
  <1>5. UNCHANGED <<Abstract!input, last, trees>> /\ Phase' = Phase
    BY <1>1 DEF Abstract!input, Phase, call
  <1>6. Abstract!Literal(s)
    BY <1>2, <1>3, <1>4, <1>5, Zenon DEF Abstract!Literal, Output, Phase
  <1> QED
    BY <1>3, <1>6

LEMMA AbsMatch ==
  ASSUME DeflateInv, Match
  PROVE  \E s \in Abstract!Symbols : Abstract!Match(s)
  <1>1. state = "symbols" /\ UNCHANGED <<call, last, trees, state>>
    BY MatchStep
  <1>2. PICK s \in Nat, d \in Nat :
          /\ SymbolNext(s) /\ MatchGood(s, d)
          /\ Output' = Repeat(Output, DistanceOf(s, d), LengthOf(s)) /\ Place' = P4(s, d)
    BY MatchStep
  <1>3. s \in Abstract!Symbols
    BY <1>1, <1>2, AbsSymbols DEF SymbolNext
  <1>4. s > Abstract!EndOfBlock
    <2>1. s - EndOfBlock \in 1..Len(LenBase)
      BY <1>2 DEF MatchGood, LengthGood
    <2>2. PICK e \in Nat : e = EndOfBlock
      <3>1. ByteBits \in Nat
        BY SizesAssumption
      <3>2. Pow2[ByteBits] \in Nat
        BY <3>1, Pow2Is
      <3> QED
        BY <3>2, SizesAssumption DEF EndOfBlock
    <2>3. s - e > 0
      BY <2>1, <2>2
    <2> QED
      BY <2>2, <2>3, AbsEnd
  <1>5. MatchRecord(s, d) \in Abstract!Matches(s)
    BY <1>1, <1>2, AbsMatches
  <1>6. PICK m : m = MatchRecord(s, d) /\ m.distance = DistanceOf(s, d) /\ m.length = LengthOf(s) /\ m.end = P4(s, d)
    <2>1. /\ MatchRecord(s, d).distance = DistanceOf(s, d) /\ MatchRecord(s, d).length = LengthOf(s)
          /\ MatchRecord(s, d).end = P4(s, d)
      BY DEF MatchRecord
    <2> QED
      BY <2>1, Zenon
  <1>7. Output' = Abstract!Repeat(Output, m.distance, m.length) /\ Place' = m.end
    BY <1>2, <1>6, AbsRepeat, Zenon
  <1>8. UNCHANGED <<Abstract!input, last, trees>> /\ Phase' = Phase
    BY <1>1 DEF Abstract!input, Phase, call
  <1>9. Abstract!Match(s)
    BY <1>3, <1>4, <1>5, <1>6, <1>7, <1>8, Zenon DEF Abstract!Match, Output, Phase
  <1> QED
    BY <1>3, <1>9

LEMMA AbsEndBlock ==
  ASSUME DeflateInv, End
  PROVE  Abstract!End
  <1>1. /\ state = "symbols" /\ SymbolNext(EndOfBlock)
        /\ Output' = Output /\ Place' = Place + Len(trees[1][EndOfBlock])
        /\ state' = "block" /\ UNCHANGED <<call, last, trees>>
    BY EndStep
  <1>2. Abstract!EndOfBlock = EndOfBlock /\ EndOfBlock \in Abstract!Symbols
    BY <1>1, AbsEnd, AbsSymbols DEF SymbolNext
  <1>3. UNCHANGED <<Abstract!input, last, trees>> /\ Phase' = "block"
    BY <1>1 DEF Abstract!input, Phase, call
  <1> QED
    BY <1>1, <1>2, <1>3, Zenon DEF Abstract!End, Output, Phase

LEMMA AbsDone ==
  ASSUME DeflateInv, Return
  PROVE  Abstract!Done
  <1>1. Ends /\ Phase' = "done"
    BY DEF Return, Phase
  <1>2. UNCHANGED <<call, last, trees>> /\ Place' = Place /\ Output' = Output
    BY StayStep
  <1>3. Abstract!CanEnd
    BY <1>1, AbsCanEnd
  <1>4. UNCHANGED <<Abstract!input, last, trees>>
    BY <1>2 DEF Abstract!input, call
  <1> QED
    BY <1>1, <1>2, <1>3, <1>4, Zenon DEF Abstract!Done, Output, Phase

LEMMA AbsReject ==
  ASSUME DeflateInv, Reject
  PROVE  Abstract!Reject
  <1>1. /\ state \in {"block", "symbols"} /\ state' = "rejected"
        /\ ~StoreOk /\ ~StartOk /\ ~Ends
        /\ UNCHANGED <<call, last, trees>> /\ Place' = Place /\ Output' = Output
    BY RejectStep
  <1>2. ~Abstract!CanStore /\ ~Abstract!CanStart /\ ~Abstract!CanEnd
    BY <1>1, AbsStore, AbsStart, AbsCanEnd
  <1>3. \A s \in Abstract!Symbols : ~Abstract!Readable(s)
    <2> SUFFICES ASSUME NEW s \in Abstract!Symbols PROVE ~Abstract!Readable(s)
      OBVIOUS
    <2>1. state = "symbols" /\ s \in SymbolsAt(data, Place, trees[1])
      BY AbsSymbols
    <2>2. s \in Nat /\ s # EndOfBlock /\ ~(s < Literals /\ Room(1)) /\ \A d : ~MatchGood(s, d)
      BY <2>1, RejectStep
    <2>3. SymbolNext(s)
      <3>1. PICK t \in Nat : SymbolNext(t)
        BY <2>1, SymbolsNext
      <3> QED
        BY <2>1, <3>1 DEF SymbolNext
    <2> QED
      BY <2>1, <2>2, <2>3, AbsReadable
  <1>4. Phase \in {"block", "symbols"} /\ Phase' = "rejected"
    BY <1>1 DEF Phase
  <1>5. UNCHANGED <<Abstract!input, last, trees>>
    BY <1>1 DEF Abstract!input, call
  <1> QED
    BY <1>1, <1>2, <1>3, <1>4, <1>5, Zenon DEF Abstract!Reject, Output, Phase

\* nr_execute, and a call that has returned, are no steps of the abstract decoder.
LEMMA AbsStutter ==
  ASSUME DeflateInv, Execute \/ Executed \/ UNCHANGED vars
  PROVE  UNCHANGED Abstract!vars
  <1>1. UNCHANGED <<call, last, trees>> /\ Place' = Place /\ Output' = Output /\ Phase' = Phase
    <2>1. CASE Execute \/ Executed
      <3>1. Execute => Phase' = Phase
        BY DEF Execute, Phase
      <3>2. Executed => Phase' = Phase
        BY ExecutedStep DEF Executed, Phase
      <3> QED
        BY <2>1, <3>1, <3>2, StayStep
    <2>2. CASE UNCHANGED vars
      <3>1. UNCHANGED <<call, last, trees>> /\ Place' = Place /\ Phase' = Phase
        BY <2>2 DEF vars, call, Place, Phase
      <3>2. Outcome' = Outcome
        BY <2>2, PlayedAre, Zenon DEF Outcome, vars
      <3> QED
        BY <2>2, <3>1, <3>2 DEF Output, vars
    <2> QED
      BY <2>1, <2>2
  <1>2. UNCHANGED <<data, header, impl>>
    BY <1>1 DEF call
  <1> QED
    BY <1>1, <1>2 DEF Abstract!vars, Output, Phase

\* Each of the three decoders, with its own reader, tables and way of copying,
\* takes the same symbols from the same bits, has the same output and refuses
\* the same streams as the decoder that reads bit by bit.
THEOREM Implements == Spec => ImplementsInflate
  <1>1. Init => Abstract!Init
    BY AbsInit
  <1>2. DeflateInv /\ [Next]_vars => [Abstract!Next]_(Abstract!vars)
    <2> SUFFICES ASSUME DeflateInv, [Next]_vars PROVE [Abstract!Next]_(Abstract!vars)
      OBVIOUS
    <2>1. CASE Stored
      BY <2>1, AbsStored DEF Abstract!Next
    <2>2. CASE Compressed
      BY <2>2, AbsCompressed DEF Abstract!Next
    <2>3. CASE Literal
      BY <2>3, AbsLiteral DEF Abstract!Next
    <2>4. CASE Match
      BY <2>4, AbsMatch DEF Abstract!Next
    <2>5. CASE End
      BY <2>5, AbsEndBlock DEF Abstract!Next
    <2>6. CASE Return
      BY <2>6, AbsDone DEF Abstract!Next
    <2>7. CASE Reject
      BY <2>7, AbsReject DEF Abstract!Next
    <2>8. CASE Execute \/ Executed \/ UNCHANGED vars
      BY <2>8, AbsStutter
    <2> QED
      BY <2>1, <2>2, <2>3, <2>4, <2>5, <2>6, <2>7, <2>8 DEF Next, Returned
  <1> QED
    BY <1>1, <1>2, Invariance, PTL DEF Spec, ImplementsInflate, Abstract!Spec
=============================================================================
