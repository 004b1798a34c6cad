---------------------------- MODULE ResearchProofs ----------------------------
(***************************************************************************)
(* Proofs about the research side.  For any streams, chunk sizes and       *)
(* limits (TransformStream): a call that returns has decoded one whole     *)
(* stream, and one that refuses has its reason.  For any processes, files  *)
(* and jobs (Commands): no file is overwritten, what a command reported as *)
(* written stays, and what a command makes can be undone.                  *)
(***************************************************************************)
EXTENDS TransformStream, Commands, WellFoundedInduction, TLAPS

-------------------------------------------------------------------------------
(* Induction over the naturals, for a set of them.                         *)

LEMMA LeastNat ==
  ASSUME NEW T, T \subseteq Nat, T # {}
  PROVE  \E x \in T : \A y \in T : x <= y
  <1> DEFINE R == OpToRel(<, Nat)
  <1>1. IsWellFoundedOn(R, Nat)
    BY NatLessThanWellFounded
  <1>2. \A x, y \in Nat : x < y => <<x, y>> \in R
    BY DEF OpToRel
  <1> HIDE DEF R
  <1>3. PICK x \in T : \A y \in T : ~(<<y, x>> \in R)
    BY <1>1, WFMin
  <1>4. \A y \in T : ~(y < x)
    BY <1>2, <1>3
  <1> QED
    BY <1>4

LEMMA NatInduct ==
  ASSUME NEW T, 0 \in T, \A n \in Nat : n \in T => n + 1 \in T
  PROVE  Nat \subseteq T
  <1> SUFFICES ASSUME Nat \ T # {} PROVE FALSE
    OBVIOUS
  <1>1. PICK x \in Nat \ T : \A y \in Nat \ T : x <= y
    BY LeastNat
  <1>2. x # 0 /\ x - 1 \in Nat /\ x - 1 \in T
    BY <1>1
  <1> QED
    BY <1>1, <1>2

-------------------------------------------------------------------------------
(* Running totals.                                                         *)

\* g[n] is the sum of the first n members of s.
Totals(g, s, N) == /\ g \in [0..N -> Nat]
                   /\ g[0] = 0
                   /\ \A k \in 1..N : g[k] = g[k - 1] + s[k]

LEMMA TotalsExist ==
  ASSUME NEW N \in Nat, NEW s \in [1..N -> Nat]
  PROVE  \E g : Totals(g, s, N)
  <1> DEFINE T == {n \in Nat : n <= N => \E g : Totals(g, s, n)}
  <1>1. 0 \in T
    <2>1. Totals([k \in 0..0 |-> 0], s, 0)
      BY DEF Totals
    <2> QED
      BY <2>1
  <1>2. ASSUME NEW n \in Nat, n \in T PROVE n + 1 \in T
    <2> SUFFICES ASSUME n + 1 <= N PROVE \E g : Totals(g, s, n + 1)
      OBVIOUS
    <2>1. PICK g : Totals(g, s, n)
      BY <1>2
    <2> DEFINE e == [k \in 0..(n + 1) |-> IF k = n + 1 THEN g[n] + s[n + 1] ELSE g[k]]
    <2>2. s[n + 1] \in Nat /\ \A k \in 0..n : g[k] \in Nat
      BY <2>1 DEF Totals
    <2>3. e \in [0..(n + 1) -> Nat] /\ e[0] = 0
      BY <2>1, <2>2 DEF Totals
    <2>4. \A k \in 1..(n + 1) : e[k] = e[k - 1] + s[k]
      <3> TAKE k \in 1..(n + 1)
      <3>1. k - 1 \in 0..n /\ e[k - 1] = g[k - 1]
        OBVIOUS
      <3>2. CASE k = n + 1
        BY <3>1, <3>2
      <3>3. CASE k # n + 1
        <4>1. k \in 1..n /\ e[k] = g[k]
          BY <3>3
        <4> QED
          BY <2>1, <3>1, <4>1 DEF Totals
      <3> QED
        BY <3>2, <3>3
    <2>5. Totals(e, s, n + 1)
      BY <2>3, <2>4 DEF Totals
    <2> QED
      BY <2>5
  <1> HIDE DEF T
  <1>3. N \in T
    BY <1>1, <1>2, NatInduct
  <1> QED
    BY <1>3 DEF T

\* What a sum computed by recursion over its last n members is.
LEMMA SumIsTotal ==
  ASSUME NEW N \in Nat, NEW s, NEW g, Totals(g, s, N), NEW n \in 0..N,
         NEW sum, \A k \in 0..n : sum[k] = IF k = 0 THEN 0 ELSE sum[k - 1] + s[k]
  PROVE  sum[n] = g[n]
  <1> DEFINE T == {k \in Nat : k <= n => sum[k] = g[k]}
  <1>2. 0 \in T
    BY DEF Totals
  <1>3. ASSUME NEW k \in Nat, k \in T PROVE k + 1 \in T
    <2> SUFFICES ASSUME k + 1 <= n PROVE sum[k + 1] = g[k + 1]
      OBVIOUS
    <2>1. k + 1 \in 0..n /\ k + 1 # 0 /\ (k + 1) - 1 = k /\ k + 1 \in 1..N
      OBVIOUS
    <2>2. sum[k + 1] = sum[k] + s[k + 1]
      BY <2>1
    <2>3. g[k + 1] = g[k] + s[k + 1]
      BY <2>1 DEF Totals
    <2> QED
      BY <1>3, <2>2, <2>3
  <1> HIDE DEF T
  <1>4. n \in T
    BY <1>2, <1>3, NatInduct
  <1> QED
    BY <1>4 DEF T


-------------------------------------------------------------------------------
(* The largest and the least of a set.                                     *)

LEMMA MinTwo ==
  ASSUME NEW a \in Nat, NEW b \in Nat
  PROVE  Min({a, b}) = IF a <= b THEN a ELSE b
  <1> DEFINE m == IF a <= b THEN a ELSE b
  <1>1. m \in {a, b} /\ \A y \in {a, b} : m <= y
    OBVIOUS
  <1>2. \A x \in {a, b} : (\A y \in {a, b} : x <= y) => x = m
    OBVIOUS
  <1> QED
    BY <1>1, <1>2 DEF Min

LEMMA MaxUpTo ==
  ASSUME NEW T, NEW n \in Nat, T \subseteq 0..n, T # {}
  PROVE  Max(T) \in T /\ \A y \in T : y <= Max(T)
  <1> DEFINE U == {k \in Nat : k <= n /\ n - k \in T}
  <1>1. U # {}
    <2>1. PICK x : x \in T
      OBVIOUS
    <2>2. n - x \in U
      <3>1. x \in Nat /\ x <= n /\ n - x \in Nat /\ n - (n - x) = x /\ n - x <= n
        BY <2>1
      <3> QED
        BY <2>1, <3>1
    <2> QED
      BY <2>2
  <1>2. PICK u \in U : \A v \in U : u <= v
    BY <1>1, LeastNat
  <1>3. n - u \in T /\ \A y \in T : n - u >= y
    <2>1. ASSUME NEW y \in T PROVE n - u >= y
      <3>1. y \in Nat /\ y <= n /\ n - y \in Nat /\ n - (n - y) = y /\ n - y <= n
        BY <2>1
      <3>2. n - y \in U
        BY <2>1, <3>1
      <3> QED
        BY <1>2, <3>1, <3>2
    <2> QED
      BY <1>2, <2>1
  <1> HIDE DEF U
  <1>4. \E x \in T : \A y \in T : x >= y
    BY <1>3
  <1>5. Max(T) \in T /\ \A y \in T : Max(T) >= y
    BY <1>4 DEF Max
  <1> QED
    BY <1>5

-------------------------------------------------------------------------------
(* What a stream yields.                                                   *)

LEMMA FullNat ==
  ASSUME CallOk
  PROVE  /\ Len(file.yields) \in Nat \ {0} /\ Full \in Nat \ {0} /\ Len(file.yields) <= Full
         /\ file.trailer => Full = Len(file.yields) + 1
         /\ ~file.trailer => Full = Len(file.yields)
         /\ \A i \in 1..Full : Yield(i) \in Nat
         /\ file.trailer => Yield(Full) = 0
  <1>1. file.yields \in Seq(Nat) /\ file.yields # <<>>
    BY DEF CallOk
  <1>2. Len(file.yields) \in Nat \ {0}
    BY <1>1
  <1>3. \A i \in 1..Len(file.yields) : file.yields[i] \in Nat
    BY <1>1
  <1>4. /\ file.trailer => Full = Len(file.yields) + 1
        /\ ~file.trailer => Full = Len(file.yields)
        /\ file.trailer \in BOOLEAN
    <2>1. file.trailer \in BOOLEAN
      BY DEF CallOk
    <2>2. CASE file.trailer
      BY <1>2, <2>1, <2>2 DEF Full
    <2>3. CASE ~file.trailer
      BY <1>2, <2>1, <2>3 DEF Full
    <2> QED
      BY <2>1, <2>2, <2>3
  <1>5. Full \in Nat \ {0} /\ Len(file.yields) <= Full
    BY <1>2, <1>4
  <1>6. \A i \in 1..Full : Yield(i) \in Nat
    <2> TAKE i \in 1..Full
    <2>1. i <= Len(file.yields) => i \in 1..Len(file.yields)
      BY <1>2, <1>5
    <2> QED
      BY <1>3, <2>1 DEF Yield
  <1>7. file.trailer => Yield(Full) = 0
    BY <1>2, <1>4 DEF Yield
  <1> QED
    BY <1>2, <1>4, <1>5, <1>6, <1>7

\* The total of the yields, growing from byte to byte.
LEMMA YieldedTotal ==
  ASSUME CallOk
  PROVE  /\ Yielded(0) = 0
         /\ \A i \in 0..Full : Yielded(i) \in Nat
         /\ \A i \in 1..Full : Yielded(i) = Yielded(i - 1) + Yield(i)
  <1> DEFINE N == Full
             s == [k \in 1..N |-> Yield(k)]
  <1>1. N \in Nat /\ s \in [1..N -> Nat]
    BY FullNat
  <1>2. PICK g : Totals(g, s, N)
    BY <1>1, TotalsExist
  <1>3. ASSUME NEW n \in 0..N PROVE Yielded(n) = g[n]
    <2> DEFINE Step(h_) == [k \in 0..n |-> IF k = 0 THEN 0 ELSE h_[k - 1] + Yield(k)]
               sum == CHOOSE h_ : h_ = Step(h_)
               r == [k \in 0..n |-> g[k]]
    <2>1. r = Step(r)
      <3>1. \A k \in 0..n : r[k] = Step(r)[k]
        <4> TAKE k \in 0..n
        <4>1. CASE k = 0
          BY <1>2, <4>1 DEF Totals
        <4>2. CASE k # 0
          <5>1. k \in 1..N /\ k - 1 \in 0..n
            BY <1>1, <4>2
          <5> QED
            BY <1>2, <4>2, <5>1 DEF Totals
        <4> QED
          BY <4>1, <4>2
      <3> QED
        BY <3>1
    <2>2. sum = Step(sum)
      BY <2>1
    <2>3. Yielded(n) = sum[n]
      BY DEF Yielded
    <2> HIDE DEF sum
    <2>4. ASSUME NEW k \in 0..n
          PROVE  sum[k] = IF k = 0 THEN 0 ELSE sum[k - 1] + s[k]
      <3>1. sum[k] = Step(sum)[k]
        BY <2>2
      <3>2. k # 0 => k \in 1..N
        BY <1>1
      <3> QED
        BY <3>1, <3>2
    <2> HIDE DEF s, Step, N
    <2>5. sum[n] = g[n]
      BY <1>1, <1>2, <2>4, SumIsTotal, SMTT(30)
    <2> QED
      BY <2>3, <2>5
  <1>4. N = Full /\ \A k \in 1..Full : s[k] = Yield(k)
    OBVIOUS
  <1> HIDE DEF s, N
  <1>5. 0 \in 0..N /\ \A i \in 1..N : i \in 0..N /\ i - 1 \in 0..N
    BY <1>1
  <1> QED
    BY <1>2, <1>3, <1>4, <1>5 DEF Totals

LEMMA YieldedGrows ==
  ASSUME CallOk, NEW i \in 0..Full, NEW j \in 0..Full, i <= j
  PROVE  Yielded(i) <= Yielded(j)
  <1> DEFINE T == {k \in Nat : i + k <= Full => Yielded(i) <= Yielded(i + k)}
  <1>0. Full \in Nat
    BY FullNat
  <1>1. 0 \in T
    BY <1>0, YieldedTotal
  <1>2. ASSUME NEW k \in Nat, k \in T PROVE k + 1 \in T
    <2> SUFFICES ASSUME i + (k + 1) <= Full PROVE Yielded(i) <= Yielded(i + (k + 1))
      OBVIOUS
    <2>1. /\ i + (k + 1) \in 1..Full /\ (i + (k + 1)) - 1 = i + k /\ i + k \in 0..Full
      BY <1>0
    <2>2. /\ Yielded(i + (k + 1)) = Yielded(i + k) + Yield(i + (k + 1))
          /\ Yield(i + (k + 1)) \in Nat
          /\ Yielded(i) \in Nat /\ Yielded(i + k) \in Nat
      <3> HIDE DEF T
      <3> QED
        BY <2>1, YieldedTotal, FullNat
    <2>3. Yielded(i) <= Yielded(i + k)
      BY <1>0, <1>2, <2>1
    <2> QED
      BY <2>2, <2>3
  <1> HIDE DEF T
  <1>3. j - i \in T
    BY <1>1, <1>2, NatInduct
  <1>4. j - i \in Nat /\ i + (j - i) = j /\ j <= Full
    BY <1>0
  <1> QED
    BY <1>3, <1>4 DEF T
-------------------------------------------------------------------------------
(* zlib's decoder.                                                         *)

\* What fed bytes yield, and the decoder keeps.
LEMMA OwedNat ==
  ASSUME CallOk, Fed, NEW i \in Nat, engine.fed + i <= Full
  PROVE  /\ Owed(i) \in Nat /\ Owed(i) = engine.pending + Yielded(engine.fed + i) - Yielded(engine.fed)
         /\ engine.fed + i \in 0..Full /\ engine.fed \in 0..Full
         /\ Yielded(engine.fed + i) \in Nat /\ Yielded(engine.fed) \in Nat
         /\ Yielded(engine.fed + i) <= Yielded(Full) /\ Yielded(Full) \in Nat
  <1>1. /\ engine.fed \in 0..Full /\ engine.pending \in Nat
        /\ engine.fed + i \in 0..Full /\ engine.fed <= engine.fed + i /\ Full \in 0..Full
    BY FullNat DEF Fed
  <1>2. /\ Yielded(engine.fed) \in Nat /\ Yielded(engine.fed + i) \in Nat /\ Yielded(Full) \in Nat
        /\ Yielded(engine.fed) <= Yielded(engine.fed + i)
        /\ Yielded(engine.fed + i) <= Yielded(Full)
    BY <1>1, FullNat, YieldedTotal, YieldedGrows
  <1> QED
    BY <1>1, <1>2 DEF Owed

\* The decoder takes no byte beyond the stream, none without room for what the
\* ones before yield, and any other.
LEMMA TakenIs ==
  ASSUME CallOk, Fed, NEW n \in Nat, NEW r \in Nat, NEW j, j = Taken(n, r)
  PROVE  /\ j \in 0..n /\ engine.fed + j \in 0..Full
         /\ \A i \in 0..(j - 1) : Owed(i) <= r
         /\ j < n /\ engine.fed + j < Full => Owed(j) > r
  <1> DEFINE left == Full - engine.fed
             m == Min({n, left})
             T == {k \in 0..m : \A i \in 0..(k - 1) : Owed(i) <= r}
  <1>1. engine.fed \in 0..Full /\ Full \in Nat /\ left \in Nat
    BY FullNat DEF Fed
  <1>2. m = IF n <= left THEN n ELSE left
    BY <1>1, MinTwo
  <1> HIDE DEF left, m
  <1>3. m \in Nat /\ m <= n /\ m <= left /\ (m = n \/ m = left)
    BY <1>1, <1>2
  <1>4. 0 \in T /\ T \subseteq 0..m
    BY <1>3
  <1>5. j = Max(T)
    BY DEF Taken, m, left
  <1>6. j \in T /\ \A k \in T : k <= j
    BY <1>3, <1>4, <1>5, MaxUpTo
  <1>7. j \in 0..m /\ \A i \in 0..(j - 1) : Owed(i) <= r
    BY <1>6
  <1>8. j \in 0..n /\ engine.fed + j \in 0..Full
    BY <1>1, <1>3, <1>7 DEF left
  <1>9. ASSUME j < n, engine.fed + j < Full
        PROVE  Owed(j) > r
    <2>1. j + 1 \in 0..m
      BY <1>1, <1>3, <1>7, <1>9 DEF left
    <2>2. ~(j + 1 \in T)
      BY <1>6, <1>7
    <2>3. PICK i \in 0..j : ~(Owed(i) <= r)
      BY <1>7, <2>1, <2>2
    <2>4. i = j
      BY <1>7, <2>3
    <2>5. Owed(j) \in Nat
      BY <1>7, <1>8, OwedNat
    <2> QED
      BY <2>3, <2>4, <2>5
  <1> QED
    BY <1>7, <1>8, <1>9

\* What a call of the decoder gives that has taken j of n bytes.
Gave(d, n, r, j) ==
  /\ engine.fed + j \in 0..Full /\ d.rest = n - j
  /\ d.damaged => file.bad \in (engine.fed + 1)..(engine.fed + j)
  /\ ~d.damaged => file.bad \notin (engine.fed + 1)..(engine.fed + j)
  /\ d.out = (IF r <= Owed(j) THEN r ELSE Owed(j))
  /\ d.engine.fed = engine.fed + j /\ d.engine.pending = Owed(j) - d.out
  /\ d.engine.eof \in BOOLEAN
  /\ d.engine.eof => engine.fed + j = Full /\ Owed(j) = d.out
  /\ ~d.engine.eof => ~(engine.fed + j = Full /\ Owed(j) = d.out)
  /\ j < n /\ engine.fed + j < Full => Owed(j) > r
  /\ file.trailer /\ engine.fed + j = Full => Owed(j) <= r

LEMMA Decoded ==
  ASSUME CallOk, Fed, NEW n \in Nat, NEW r \in Nat, NEW d, d = Decompress(n, r)
  PROVE  \E j \in 0..n : Gave(d, n, r, j)
  <1>1. PICK j : j = Taken(n, r)
    OBVIOUS
  <1>2. /\ j \in 0..n /\ engine.fed + j \in 0..Full
        /\ \A i \in 0..(j - 1) : Owed(i) <= r
        /\ j < n /\ engine.fed + j < Full => Owed(j) > r
    BY <1>1, TakenIs
  <1>3. Owed(j) \in Nat
    BY <1>2, OwedNat
  <1>4. PICK g : g = Min({r, Owed(j)})
    OBVIOUS
  <1>5. g = IF r <= Owed(j) THEN r ELSE Owed(j)
    BY <1>3, <1>4, MinTwo
  <1>6. d = [out |-> g, rest |-> n - j,
             damaged |-> file.bad \in (engine.fed + 1)..(engine.fed + j),
             engine |-> [fed |-> engine.fed + j, pending |-> Owed(j) - g,
                         eof |-> engine.fed + j = Full /\ Owed(j) = g]]
    BY <1>1, <1>4 DEF Decompress
  <1>7. ASSUME file.trailer, engine.fed + j = Full
        PROVE  Owed(j) <= r
    <2>1. CASE j = 0
      <3>1. engine.fed = Full
        BY <1>7, <2>1 DEF Fed
      <3>2. engine.pending = 0 /\ Owed(0) = engine.pending + Yielded(engine.fed + 0) - Yielded(engine.fed)
        BY <1>7, <3>1 DEF Fed, Owed
      <3>3. engine.fed + 0 = engine.fed /\ Yielded(engine.fed) \in Nat
        BY <3>1, FullNat, YieldedTotal
      <3> QED
        BY <2>1, <3>2, <3>3
    <2>2. CASE j # 0
      <3>1. /\ j - 1 \in Nat /\ j - 1 \in 0..(j - 1) /\ engine.fed \in Nat
            /\ engine.fed + (j - 1) = Full - 1 /\ engine.fed + (j - 1) <= Full
            /\ Full \in 1..Full
        BY <1>2, <1>7, <2>2, FullNat DEF Fed
      <3>2. Owed(j - 1) <= r
        BY <1>2, <3>1
      <3>3. Yielded(Full) = Yielded(Full - 1) + 0
        BY <1>7, <3>1, FullNat, YieldedTotal
      <3>4. /\ Owed(j) = engine.pending + Yielded(Full) - Yielded(engine.fed)
            /\ Owed(j - 1) = engine.pending + Yielded(Full - 1) - Yielded(engine.fed)
            /\ Yielded(Full) \in Nat /\ Yielded(Full - 1) \in Nat
        BY <1>2, <1>7, <3>1, OwedNat
      <3> QED
        BY <3>2, <3>3, <3>4
    <2> QED
      BY <2>1, <2>2
  <1>8. /\ d.rest = n - j /\ d.out = g
        /\ d.damaged = (file.bad \in (engine.fed + 1)..(engine.fed + j))
        /\ d.engine.fed = engine.fed + j /\ d.engine.pending = Owed(j) - d.out
        /\ d.engine.eof = (engine.fed + j = Full /\ Owed(j) = d.out)
    BY <1>6
  <1>9. /\ d.damaged => file.bad \in (engine.fed + 1)..(engine.fed + j)
        /\ ~d.damaged => file.bad \notin (engine.fed + 1)..(engine.fed + j)
        /\ d.engine.eof \in BOOLEAN
        /\ d.engine.eof => engine.fed + j = Full /\ Owed(j) = d.out
        /\ ~d.engine.eof => ~(engine.fed + j = Full /\ Owed(j) = d.out)
    BY <1>8, Zenon
  <1> QED
    BY <1>2, <1>5, <1>7, <1>8, <1>9 DEF Gave

-------------------------------------------------------------------------------
(* The call stays the same.                                                *)

LEMMA CallSame ==
  ASSUME UNCHANGED call
  PROVE  /\ Full' = Full /\ Whole' = Whole /\ Length' = Length /\ decode' = decode
         /\ Cut' = Cut /\ CallOk' = CallOk
         /\ \A i : Yielded(i)' = Yielded(i)
  <1>1. file' = file /\ chunk_size' = chunk_size /\ max_output' = max_output
    BY DEF call
  <1>2. Full' = Full
    BY <1>1 DEF Full
  <1>3. decode' = decode
    BY <1>1 DEF decode
  <1>4. \A i : Yielded(i)' = Yielded(i)
    BY <1>1 DEF Yielded, Yield
  <1>5. Whole' = Whole
    BY <1>1 DEF Whole, Yielded, Yield, Full, decode
  <1>6. Length' = Length /\ Cut' = Cut
    BY <1>1 DEF Length, decode, Cut, Full
  <1>7. CallOk' = CallOk
    BY <1>1 DEF CallOk, Full
  <1> QED
    BY <1>2, <1>3, <1>4, <1>5, <1>6, <1>7

LEMMA YieldedNext ==
  ASSUME UNCHANGED call, NEW x, engine'.fed = x
  PROVE  Yielded(engine.fed)' = Yielded(x)
  <1>1. file' = file
    BY DEF call
  <1> QED
    BY <1>1 DEF Yielded, Yield

-------------------------------------------------------------------------------
(* A step goes on, fails or returns.                                       *)

LEMMA GoesOn ==
  ASSUME StreamInv, UNCHANGED call, pc' \in {"read", "inflate"}, why' = "none", Flow'
  PROVE  StreamInv'
  <1>1. CallOk'
    BY CallSame DEF StreamInv
  <1>2. sink' <= max_output'
    BY <1>1 DEF Flow, CallOk
  <1>3. Complete' /\ RefusedForCause'
    BY <1>2 DEF Complete, RefusedForCause
  <1> QED
    BY <1>1, <1>3 DEF StreamInv

LEMMA Fails ==
  ASSUME StreamInv, UNCHANGED call, NEW e, Fail(e), sink' <= max_output,
         e = "limit" => \/ Whole > max_output
                        \/ file.mode = "adaptive" /\ (file.size > max_output \/ Whole > file.size),
         e = "mismatch" => file.size # Whole,
         e = "trailing" => file.junk > 0,
         e = "zlib.error" => file.bad > 0,
         e = "truncated" /\ file.trailer => Cut
  PROVE  StreamInv'
  <1>1. file' = file /\ max_output' = max_output /\ Whole' = Whole /\ Cut' = Cut /\ CallOk'
    BY CallSame DEF StreamInv, call
  <1>2. pc' = "failed" /\ why' = e
    BY DEF Fail
  <1>3. Complete'
    BY <1>1, <1>2 DEF Complete
  <1>4. RefusedForCause'
    BY <1>1, <1>2 DEF RefusedForCause
  <1> QED
    BY <1>1, <1>2, <1>3, <1>4 DEF StreamInv

LEMMA Returns ==
  ASSUME StreamInv, UNCHANGED call, pc' = "returned", why' = "none",
         sink' = Whole, Whole <= max_output,
         file.mode = "adaptive" => file.size = Whole,
         decode => file.have = Full /\ file.junk = 0 /\ file.bad = 0
  PROVE  StreamInv'
  <1>1. /\ file' = file /\ max_output' = max_output /\ Whole' = Whole /\ Full' = Full
        /\ decode' = decode /\ CallOk'
    BY CallSame DEF StreamInv, call
  <1>2. Complete'
    BY <1>1 DEF Complete
  <1>3. RefusedForCause'
    BY <1>1 DEF RefusedForCause
  <1> QED
    BY <1>1, <1>2, <1>3 DEF StreamInv

\* emit does not get rid of all that it is given.
LEMMA EmitFails ==
  ASSUME StreamInv, pc \in {"read", "inflate"}, UNCHANGED call, NEW n \in Nat,
         \/ n > max_output - total /\ Fail("limit") /\ UNCHANGED <<total, sink>>
         \/ \E w \in 0..n - 1 : n <= max_output - total /\ sink' = sink + w /\ Fail("sink")
                                /\ UNCHANGED total,
         n > max_output - total => Whole > max_output
  PROVE  StreamInv'
  <1>1. total = sink /\ sink \in 0..max_output /\ max_output \in Nat
    BY DEF StreamInv, Flow, CallOk
  <1>2. CASE n > max_output - total /\ Fail("limit") /\ UNCHANGED <<total, sink>>
    BY <1>1, <1>2, Fails
  <1>3. CASE \E w \in 0..n - 1 : n <= max_output - total /\ sink' = sink + w /\ Fail("sink")
                                 /\ UNCHANGED total
    <2>1. sink' <= max_output /\ Fail("sink")
      BY <1>1, <1>3
    <2> QED
      BY <2>1, Fails
  <1> QED
    BY <1>2, <1>3

-------------------------------------------------------------------------------
(* One lemma for each action.                                              *)

LEMMA ReadStep ==
  ASSUME StreamInv, Read
  PROVE  StreamInv'
  <1> USE DEF StreamInv, Flow
  <1>1. /\ pc = "read" /\ file.mode = "stream" /\ pc' = "inflate" /\ why = "none" /\ at < Length
        /\ UNCHANGED <<call, engine, total, sink, why>>
    BY DEF Read
  <1>2. PICK n \in 1..Min({chunk_size, Length - at}) : chunk' = n /\ at' = at + n
    BY DEF Read
  <1>3. Length \in Nat /\ at \in 0..Length /\ chunk_size \in Nat
    BY <1>1, FullNat DEF Length, decode, CallOk
  <1>4. n \in Nat /\ n >= 1 /\ n <= Length - at
    <2>1. Length - at \in Nat
      BY <1>1, <1>3
    <2> QED
      BY <1>2, <1>3, <2>1, MinTwo
  <1>5. Fed'
    BY <1>1, CallSame DEF Fed, call
  <1>6. decode /\ decode' = decode /\ Length' = Length /\ file' = file /\ max_output' = max_output
    BY <1>1, CallSame DEF decode, call
  <1>7. Yielded(engine.fed)' = Yielded(engine.fed)
    BY <1>1, YieldedNext
  <1>8. sink + engine.pending = Yielded(engine.fed) /\ engine.fed + chunk = at /\ chunk = 0
    BY <1>1, <1>6
  <1>9. engine.fed \in Nat
    BY <1>1 DEF Fed
  <1>10. Flow'
    BY <1>1, <1>2, <1>3, <1>4, <1>5, <1>6, <1>7, <1>8, <1>9
  <1> QED
    BY <1>1, <1>10, GoesOn

LEMMA ReadTrailingStep ==
  ASSUME StreamInv, ReadTrailing
  PROVE  StreamInv'
  <1>1. /\ pc = "read" /\ file.mode = "stream" /\ at < Length /\ engine.eof /\ Fail("trailing")
        /\ UNCHANGED call /\ UNCHANGED sink
    BY DEF ReadTrailing
  <1>2. CallOk /\ Flow
    BY <1>1 DEF StreamInv
  <1>3. engine.fed = Full /\ engine.fed + chunk = at /\ chunk = 0 /\ Length = file.have + file.junk
    BY <1>1, <1>2 DEF Flow, Fed, Length, decode
  <1>4. file.junk > 0
    BY <1>1, <1>2, <1>3, FullNat DEF CallOk
  <1>5. sink' <= max_output
    BY <1>1, <1>2 DEF Flow, CallOk
  <1> QED
    BY <1>1, <1>4, <1>5, Fails

LEMMA EndOfSourceStep ==
  ASSUME StreamInv, EndOfSource
  PROVE  StreamInv'
  <1>1. /\ pc = "read" /\ file.mode = "stream" /\ at = Length /\ why = "none"
        /\ UNCHANGED call /\ UNCHANGED sink
    BY DEF EndOfSource, StreamInv
  <1>2. CallOk /\ Flow
    BY <1>1 DEF StreamInv
  <1>3. /\ engine.fed + chunk = at /\ chunk = 0 /\ Length = file.have + file.junk /\ decode
        /\ engine.fed \in 0..Full /\ engine.pending \in Nat
        /\ sink + engine.pending = Yielded(engine.fed) /\ sink \in 0..max_output
        /\ file.bad \notin 1..engine.fed
    BY <1>1, <1>2 DEF Flow, Fed, Length, decode
  <1>4. engine.fed = file.have + file.junk /\ file.have \in 0..Full /\ file.junk \in 0..1
    BY <1>1, <1>2, <1>3 DEF CallOk
  <1>5. Full \in Nat /\ (file.have = Full => file.junk = 0 /\ engine.fed = Full)
    BY <1>3, <1>4, FullNat, <1>2
  <1>6. CASE engine.eof
    <2>1. pc' = "returned" /\ why' = "none"
      BY <1>1, <1>6 DEF EndOfSource
    <2>2. engine.fed = Full /\ engine.pending = 0
      BY <1>2, <1>6 DEF Flow, Fed
    <2>3. file.have = Full /\ file.junk = 0
      BY <1>2, <1>4, <1>5, <2>2 DEF CallOk
    <2>4. file.bad = 0
      <3>1. file.bad \in 0..Len(file.yields) /\ Len(file.yields) <= Full /\ Len(file.yields) \in Nat
        BY <1>2, FullNat DEF CallOk
      <3> QED
        BY <1>3, <1>5, <2>2, <3>1
    <2>5. sink' = Whole /\ Whole <= max_output /\ (file.mode = "adaptive" => file.size = Whole)
      BY <1>1, <1>2, <1>3, <2>2 DEF Whole, CallOk
    <2> QED
      BY <1>1, <2>1, <2>3, <2>4, <2>5, Returns
  <1>7. CASE ~engine.eof
    <2>1. Fail("truncated")
      BY <1>7 DEF EndOfSource
    <2>2. file.trailer => Cut
      BY <1>2, <1>4, <1>5, <1>7 DEF Flow, Fed, Cut
    <2>3. sink' <= max_output
      BY <1>1, <1>2, <1>3 DEF CallOk
    <2> QED
      BY <1>1, <2>1, <2>2, <2>3, Fails
  <1> QED
    BY <1>6, <1>7

\* What is fed to the decoder is accounted for, as far as it is not damaged.
LEMMA FedOn ==
  ASSUME CallOk, Fed, UNCHANGED call, NEW j \in Nat, NEW g \in Nat, NEW r \in Nat,
         engine.fed + j \in 0..Full, Owed(j) \in Nat,
         g = (IF r <= Owed(j) THEN r ELSE Owed(j)),
         file.trailer /\ engine.fed + j = Full => Owed(j) <= r,
         file.bad \notin (engine.fed + 1)..(engine.fed + j),
         engine'.fed = engine.fed + j, engine'.pending = Owed(j) - g, engine'.eof \in BOOLEAN,
         engine'.eof => engine.fed + j = Full /\ Owed(j) = g,
         ~engine'.eof => ~(engine.fed + j = Full /\ Owed(j) = g),
         file.mode = "stream"
  PROVE  Fed'
  <1>2. Full' = Full /\ Full \in Nat /\ engine.fed \in Nat /\ file' = file
    BY FullNat, CallSame DEF Fed, call
  <1>3. engine'.fed \in 0..Full' /\ engine'.pending \in Nat
    BY <1>2
  <1>5. engine'.eof => engine'.fed = Full' /\ engine'.pending = 0
    BY <1>2
  <1>6. file'.trailer /\ engine'.fed = Full' => engine'.eof
    <2>1. file.trailer /\ engine.fed + j = Full => Owed(j) = g
      OBVIOUS
    <2> QED
      BY <1>2, <2>1
  <1>7. file'.bad \notin 1..engine'.fed
    <2>1. file.bad \in Nat
      BY FullNat DEF CallOk
    <2>2. file.bad \notin 1..engine.fed
      BY DEF Fed
    <2> QED
      BY <1>2, <2>1, <2>2
  <1> QED
    BY <1>2, <1>3, <1>5, <1>6, <1>7 DEF Fed

LEMMA InflateStep ==
  ASSUME StreamInv, Inflate
  PROVE  StreamInv'
  <1>1. pc = "inflate" /\ UNCHANGED call /\ UNCHANGED at /\ UNCHANGED file
    BY DEF Inflate, call
  <1>2. /\ CallOk /\ Flow /\ Fed /\ why = "none" /\ chunk \in Nat /\ total = sink
        /\ sink \in 0..max_output /\ chunk_size \in Nat \ {0} /\ max_output \in Nat
        /\ file.mode = "stream" /\ decode /\ engine.fed + chunk = at /\ at \in 0..Length
    BY <1>1 DEF StreamInv, Flow, CallOk, Fed, decode
  <1>3. PICK r : r = Room
    OBVIOUS
  <1>4. r \in Nat
    BY <1>2, <1>3, MinTwo DEF Room
  <1>5. PICK d : /\ d = Decompress(chunk, r)
                 /\ engine' = d.engine /\ chunk' = d.rest
                 /\ IF d.damaged THEN Fail("zlib.error") /\ UNCHANGED <<total, sink>>
                    ELSE Emit(d.out, IF d.engine.eof /\ d.rest > 0 THEN Fail("trailing")
                             ELSE pc' = (IF d.rest = 0 THEN "read" ELSE "inflate") /\ UNCHANGED why)
    BY <1>3 DEF Inflate
  <1>a. d = Decompress(chunk, r)
    BY <1>5
  <1>6. PICK j \in 0..chunk : Gave(d, chunk, r, j)
    BY <1>2, <1>4, <1>a, Decoded
  <1>7. /\ Owed(j) \in Nat /\ Owed(j) = engine.pending + Yielded(engine.fed + j) - Yielded(engine.fed)
        /\ Yielded(engine.fed + j) \in Nat /\ Yielded(engine.fed) \in Nat
        /\ Yielded(engine.fed + j) <= Yielded(Full) /\ Yielded(Full) \in Nat
        /\ sink + engine.pending = Yielded(engine.fed) /\ engine.pending \in Nat /\ engine.fed \in Nat
    BY <1>2, <1>6, OwedNat, FullNat DEF Flow, Fed, Gave
  <1>b. /\ j \in Nat /\ j <= chunk /\ d.rest = chunk - j /\ d.rest \in Nat
        /\ engine.fed \in Nat /\ engine.fed + j <= Full /\ Full \in Nat
    <2>1. d.rest = chunk - j /\ engine.fed + j \in 0..Full
      BY <1>6 DEF Gave
    <2>2. Full \in Nat /\ chunk \in Nat
      BY <1>2, FullNat
    <2> QED
      BY <1>7, <2>1, <2>2
  <1>8. sink + Owed(j) = Yielded(engine.fed + j) /\ Whole = Yielded(Full)
    BY <1>2, <1>7 DEF Whole
  <1>9. d.out \in Nat /\ d.out <= Owed(j)
    BY <1>4, <1>6, <1>7 DEF Gave
  <1>10. CASE d.damaged
    <2>1. Fail("zlib.error") /\ sink' <= max_output
      BY <1>2, <1>5, <1>10
    <2>2. file.bad \in (engine.fed + 1)..(engine.fed + j)
      BY <1>6, <1>10 DEF Gave
    <2>3. file.bad > 0
      BY <1>b, <2>2
    <2> QED
      BY <1>1, <2>1, <2>3, Fails
  <1>11. CASE ~d.damaged
    <2> DEFINE ok == IF d.engine.eof /\ d.rest > 0 THEN Fail("trailing")
                     ELSE pc' = (IF d.rest = 0 THEN "read" ELSE "inflate") /\ UNCHANGED why
    <2>1. Emit(d.out, ok)
      BY <1>5, <1>11
    <2> HIDE DEF ok
    <2>2. CASE \/ d.out > max_output - total /\ Fail("limit") /\ UNCHANGED <<total, sink>>
               \/ \E w \in 0..d.out - 1 : d.out <= max_output - total /\ sink' = sink + w
                                          /\ Fail("sink") /\ UNCHANGED total
      <3>1. d.out > max_output - total => Whole > max_output
        BY <1>2, <1>7, <1>8, <1>9
      <3> QED
        BY <1>1, <1>9, <2>2, <3>1, EmitFails
    <2>3. CASE d.out <= max_output - total /\ total' = total + d.out /\ sink' = sink + d.out /\ ok
      <3>1. total' = sink' /\ sink' \in 0..max_output
        BY <1>2, <1>9, <2>3
      <3>2. CASE d.engine.eof /\ d.rest > 0
        <4>1. Fail("trailing")
          BY <2>3, <3>2 DEF ok
        <4>2. engine.fed + j = Full /\ chunk - j > 0
          BY <1>6, <3>2 DEF Gave
        <4>3. Length = file.have + file.junk /\ file.have \in 0..Full /\ file.junk \in 0..1
          BY <1>2 DEF Length, CallOk
        <4>4. file.junk > 0
          BY <1>2, <1>b, <4>2, <4>3
        <4>5. sink' <= max_output
          BY <1>2, <3>1
        <4> QED
          BY <1>1, <4>1, <4>4, <4>5, Fails
      <3>3. CASE ~(d.engine.eof /\ d.rest > 0)
        <4>1. pc' = (IF d.rest = 0 THEN "read" ELSE "inflate") /\ why' = "none"
          BY <1>2, <2>3, <3>3 DEF ok
        <4>2. Fed'
          BY <1>1, <1>2, <1>4, <1>5, <1>6, <1>7, <1>9, <1>11, FedOn DEF Gave
        <4>3. engine'.fed = engine.fed + j /\ engine'.pending = Owed(j) - d.out
          BY <1>5, <1>6 DEF Gave
        <4>4. Yielded(engine.fed)' = Yielded(engine.fed + j)
          BY <1>1, <4>3, YieldedNext
        <4>5. decode' /\ Length' = Length /\ max_output' = max_output /\ file' = file
          BY <1>1, <1>2, CallSame DEF call
        <4>6. sink' + engine'.pending = Yielded(engine.fed)'
          BY <1>2, <1>7, <1>8, <1>9, <2>3, <4>3, <4>4
        <4>7. chunk' \in Nat /\ engine'.fed + chunk' = at' /\ (pc' = "read" => chunk' = 0)
          BY <1>1, <1>2, <1>5, <1>b, <4>1, <4>3
        <4>8. Flow'
          BY <1>1, <1>2, <3>1, <4>2, <4>5, <4>6, <4>7 DEF Flow
        <4> QED
          BY <1>1, <4>1, <4>8, GoesOn
      <3> QED
        BY <3>2, <3>3
    <2> QED
      BY <2>1, <2>2, <2>3 DEF Emit
  <1> QED
    BY <1>10, <1>11

LEMMA CompressStep ==
  ASSUME StreamInv, Compress
  PROVE  StreamInv'
  <1>1. /\ pc = "read" /\ file.mode = "encode" /\ at < Length /\ UNCHANGED <<call, chunk, engine>>
        /\ why = "none" /\ Flow /\ CallOk /\ ~decode /\ UNCHANGED file
    BY DEF Compress, StreamInv, decode, call
  <1>2. PICK n \in 1..Min({chunk_size, Length - at}) : at' = at + n
    BY DEF Compress
  <1>3. PICK g \in 0..(Whole - sink) : Emit(g, UNCHANGED <<pc, why>>)
    BY DEF Compress
  <1>4. /\ Length = file.size /\ Whole = file.size /\ file.size \in Nat /\ sink <= Whole
        /\ total = sink /\ sink \in 0..max_output /\ max_output \in Nat /\ at \in 0..Length
        /\ chunk_size \in Nat
    BY <1>1 DEF Length, Whole, Flow, CallOk
  <1>5. n \in Nat /\ n >= 1 /\ n <= Length - at
    <2>1. Length - at \in Nat
      BY <1>1, <1>4
    <2> QED
      BY <1>2, <1>4, <2>1, MinTwo
  <1>6. g \in Nat /\ g <= Whole - sink
    BY <1>4
  <1>7. CASE \/ g > max_output - total /\ Fail("limit") /\ UNCHANGED <<total, sink>>
             \/ \E w \in 0..g - 1 : g <= max_output - total /\ sink' = sink + w /\ Fail("sink")
                                    /\ UNCHANGED total
    <2>1. g > max_output - total => Whole > max_output
      BY <1>4, <1>6
    <2> QED
      BY <1>1, <1>6, <1>7, <2>1, EmitFails
  <1>8. CASE g <= max_output - total /\ total' = total + g /\ sink' = sink + g /\ UNCHANGED <<pc, why>>
    <2>1. /\ Whole' = Whole /\ Length' = Length /\ max_output' = max_output /\ decode' = decode
          /\ Full' = Full
      BY <1>1, CallSame DEF call
    <2>2. total' = sink' /\ sink' \in 0..max_output' /\ sink' <= Whole' /\ at' \in 0..Length'
      BY <1>2, <1>4, <1>5, <1>6, <1>8, <2>1
    <2>3. Fed'
      BY <1>1, <1>8, <2>1 DEF Flow, Fed
    <2>4. Flow'
      BY <1>1, <1>8, <2>1, <2>2, <2>3 DEF Flow
    <2> QED
      BY <1>1, <1>8, <2>4, GoesOn
  <1> QED
    BY <1>3, <1>7, <1>8 DEF Emit

LEMMA FlushStep ==
  ASSUME StreamInv, Flush
  PROVE  StreamInv'
  <1>1. /\ pc = "read" /\ file.mode = "encode" /\ UNCHANGED call
        /\ why = "none" /\ Flow /\ CallOk /\ ~decode
    BY DEF Flush, StreamInv, decode
  <1>2. PICK g : g = Whole - sink
    OBVIOUS
  <1>3. Emit(g, pc' = "returned" /\ UNCHANGED why)
    BY <1>2 DEF Flush
  <1>4. /\ Whole = file.size /\ file.size \in Nat /\ sink <= Whole
        /\ total = sink /\ sink \in 0..max_output /\ max_output \in Nat
    BY <1>1 DEF Whole, Flow, CallOk
  <1>5. g \in Nat /\ sink + g = Whole
    BY <1>2, <1>4
  <1>6. CASE \/ g > max_output - total /\ Fail("limit") /\ UNCHANGED <<total, sink>>
             \/ \E w \in 0..g - 1 : g <= max_output - total /\ sink' = sink + w /\ Fail("sink")
                                    /\ UNCHANGED total
    <2>1. g > max_output - total => Whole > max_output
      BY <1>4, <1>5
    <2> QED
      BY <1>1, <1>5, <1>6, <2>1, EmitFails
  <1>7. CASE /\ g <= max_output - total /\ total' = total + g /\ sink' = sink + g
             /\ pc' = "returned" /\ UNCHANGED why
    <2>1. sink' = Whole /\ Whole <= max_output
      BY <1>4, <1>5, <1>7
    <2> QED
      BY <1>1, <1>7, <2>1, Returns
  <1> QED
    BY <1>3, <1>6, <1>7 DEF Emit

\* One call of the decoder, from the start and with room for one byte more
\* than the limit.
LEMMA OneCall ==
  ASSUME CallOk, Fed, file.mode \in {"once", "adaptive"}, NEW limit \in Nat,
         NEW d, d = Decompress(Length, limit + 1)
  PROVE  /\ Wrong(d, limit) = "none" => /\ d.out = Whole /\ Whole <= limit
                                        /\ file.have = Full /\ file.junk = 0 /\ file.bad = 0
         /\ Wrong(d, limit) = "zlib.error" => file.bad > 0
         /\ Wrong(d, limit) = "limit" => Whole > limit
         /\ Wrong(d, limit) = "truncated" /\ file.trailer => Cut
         /\ Wrong(d, limit) = "trailing" => file.junk > 0
         /\ Wrong(d, limit) # "mismatch"
  <1>1. /\ engine.fed = 0 /\ engine.pending = 0 /\ decode /\ Length = file.have + file.junk
        /\ file.have \in 0..Full /\ file.junk \in 0..1 /\ (file.junk > 0 => file.have = Full)
    BY DEF Fed, decode, Length, CallOk
  <1>2. /\ Length \in Nat /\ Full \in Nat \ {0} /\ Len(file.yields) <= Full
        /\ file.bad \in 0..Len(file.yields) /\ Len(file.yields) \in Nat
    BY <1>1, FullNat DEF CallOk
  <1>3. PICK j \in 0..Length : Gave(d, Length, limit + 1, j)
    BY <1>2, Decoded
  <1>4. /\ j \in Nat /\ j <= Full /\ j <= Length /\ d.rest = Length - j /\ engine.fed + j = j
    BY <1>1, <1>2, <1>3 DEF Gave
  <1>5. /\ Owed(j) \in Nat /\ Owed(j) = Yielded(j) /\ Yielded(j) \in Nat
        /\ Yielded(j) <= Yielded(Full) /\ Yielded(Full) \in Nat /\ Whole = Yielded(Full)
    BY <1>1, <1>2, <1>4, OwedNat, YieldedTotal DEF Whole
  <1>6. /\ d.out = (IF limit + 1 <= Owed(j) THEN limit + 1 ELSE Owed(j))
        /\ d.damaged => file.bad \in 1..j
        /\ ~d.damaged => file.bad \notin 1..j
        /\ d.engine.eof => j = Full /\ Owed(j) = d.out
        /\ ~d.engine.eof => ~(j = Full /\ Owed(j) = d.out)
        /\ j < Length /\ j < Full => Owed(j) > limit + 1
        /\ file.trailer /\ j = Full => Owed(j) <= limit + 1
    BY <1>1, <1>3, <1>4 DEF Gave
  <1>7. d.out \in Nat /\ d.out <= Owed(j)
    BY <1>5, <1>6
  <1>8. ASSUME Wrong(d, limit) = "none"
        PROVE  /\ d.out = Whole /\ Whole <= limit
               /\ file.have = Full /\ file.junk = 0 /\ file.bad = 0
    <2>1. ~d.damaged /\ ~(d.out > limit) /\ d.engine.eof /\ ~(d.rest > 0)
      BY <1>8 DEF Wrong
    <2>2. j = Full /\ d.out = Whole /\ Length = Full
      BY <1>2, <1>4, <1>5, <1>6, <2>1
    <2> QED
      BY <1>1, <1>2, <1>5, <1>6, <1>7, <2>1, <2>2
  <1>9. ASSUME Wrong(d, limit) = "zlib.error" PROVE file.bad > 0
    <2>1. d.damaged
      BY <1>9 DEF Wrong
    <2> QED
      BY <1>6, <2>1
  <1>10. ASSUME Wrong(d, limit) = "limit" PROVE Whole > limit
    <2>1. d.out > limit
      BY <1>10 DEF Wrong
    <2> QED
      BY <1>5, <1>7, <2>1
  <1>11. ASSUME Wrong(d, limit) = "truncated", file.trailer PROVE Cut
    <2>1. ~(d.out > limit) /\ ~d.engine.eof
      BY <1>11 DEF Wrong
    <2>2. ~(limit + 1 <= Owed(j)) /\ d.out = Owed(j)
      BY <1>5, <1>6, <2>1
    <2>3. ~(j = Full) /\ ~(j < Length /\ j < Full)
      BY <1>5, <1>6, <2>1, <2>2
    <2>4. Length < Full
      BY <1>2, <1>4, <2>3
    <2> QED
      BY <1>1, <1>2, <2>4 DEF Cut
  <1>12. ASSUME Wrong(d, limit) = "trailing" PROVE file.junk > 0
    <2>1. d.engine.eof /\ d.rest > 0
      BY <1>12 DEF Wrong
    <2> QED
      BY <1>1, <1>2, <1>4, <1>6, <2>1
  <1>13. Wrong(d, limit) # "mismatch"
    BY DEF Wrong
  <1> QED
    BY <1>8, <1>9, <1>10, <1>11, <1>12, <1>13

LEMMA OnceStep ==
  ASSUME StreamInv, Once
  PROVE  StreamInv'
  <1>1. /\ pc = "read" /\ file.mode = "once" /\ UNCHANGED call /\ why = "none"
        /\ Flow /\ CallOk /\ Fed /\ max_output \in Nat /\ sink <= max_output
    BY DEF Once, StreamInv, Flow, CallOk
  <1>2. PICK d : /\ d = Decompress(Length, max_output + 1)
                 /\ IF Wrong(d, max_output) = "none" THEN Return(d.out)
                    ELSE Fail(Wrong(d, max_output)) /\ UNCHANGED sink
    BY DEF Once
  <1>3. d = Decompress(Length, max_output + 1)
    BY <1>2
  <1>4. /\ Wrong(d, max_output) = "none" =>
             /\ d.out = Whole /\ Whole <= max_output
             /\ file.have = Full /\ file.junk = 0 /\ file.bad = 0
        /\ Wrong(d, max_output) = "zlib.error" => file.bad > 0
        /\ Wrong(d, max_output) = "limit" => Whole > max_output
        /\ Wrong(d, max_output) = "truncated" /\ file.trailer => Cut
        /\ Wrong(d, max_output) = "trailing" => file.junk > 0
        /\ Wrong(d, max_output) # "mismatch"
    BY <1>1, <1>3, OneCall
  <1>5. CASE Wrong(d, max_output) = "none"
    BY <1>1, <1>2, <1>4, <1>5, Returns DEF Return
  <1>6. CASE Wrong(d, max_output) # "none"
    <2>1. Fail(Wrong(d, max_output)) /\ sink' <= max_output
      BY <1>1, <1>2, <1>6
    <2> QED
      BY <1>1, <1>4, <2>1, Fails
  <1> QED
    BY <1>5, <1>6

LEMMA AdaptiveStep ==
  ASSUME StreamInv, Adaptive
  PROVE  StreamInv'
  <1>1. /\ pc = "read" /\ file.mode = "adaptive" /\ UNCHANGED call /\ why = "none"
        /\ Flow /\ CallOk /\ Fed /\ max_output \in Nat /\ sink <= max_output /\ file.size \in Nat
    BY DEF Adaptive, StreamInv, Flow, CallOk
  <1>2. CASE file.size > max_output
    <2>1. Fail("limit") /\ sink' <= max_output
      BY <1>1, <1>2 DEF Adaptive
    <2> QED
      BY <1>1, <1>2, <2>1, Fails
  <1>3. CASE ~(file.size > max_output)
    <2>1. PICK d : /\ d = Decompress(Length, file.size + 1)
                   /\ IF Wrong(d, file.size) # "none" THEN Fail(Wrong(d, file.size)) /\ UNCHANGED sink
                      ELSE IF d.out # file.size THEN Fail("mismatch") /\ UNCHANGED sink
                      ELSE Return(d.out)
      BY <1>3 DEF Adaptive
    <2>2. d = Decompress(Length, file.size + 1)
      BY <2>1
    <2>3. /\ Wrong(d, file.size) = "none" =>
               /\ d.out = Whole /\ Whole <= file.size
               /\ file.have = Full /\ file.junk = 0 /\ file.bad = 0
          /\ Wrong(d, file.size) = "zlib.error" => file.bad > 0
          /\ Wrong(d, file.size) = "limit" => Whole > file.size
          /\ Wrong(d, file.size) = "truncated" /\ file.trailer => Cut
          /\ Wrong(d, file.size) = "trailing" => file.junk > 0
          /\ Wrong(d, file.size) # "mismatch"
      BY <1>1, <2>2, OneCall
    <2>4. CASE Wrong(d, file.size) # "none"
      <3>1. Fail(Wrong(d, file.size)) /\ sink' <= max_output
        BY <1>1, <2>1, <2>4
      <3> QED
        BY <1>1, <2>3, <3>1, Fails
    <2>5. CASE Wrong(d, file.size) = "none" /\ d.out # file.size
      <3>1. Fail("mismatch") /\ sink' <= max_output
        BY <1>1, <2>1, <2>5
      <3> QED
        BY <1>1, <2>3, <2>5, <3>1, Fails
    <2>6. CASE Wrong(d, file.size) = "none" /\ d.out = file.size
      <3>1. Return(d.out)
        BY <2>1, <2>6
      <3>2. Whole <= max_output
        BY <1>1, <1>3, <2>3, <2>6
      <3> QED
        BY <1>1, <2>3, <2>6, <3>1, <3>2, Returns DEF Return
    <2> QED
      BY <2>4, <2>5, <2>6
  <1> QED
    BY <1>2, <1>3

-------------------------------------------------------------------------------
(* The theorems.                                                           *)

LEMMA StreamStart ==
  ASSUME Init
  PROVE  StreamInv
  <1>a. PICK m \in {"stream", "once", "adaptive", "encode"}, y \in Streams, t \in BOOLEAN,
             j \in 0..1, n \in 0..MaxSize :
           \E h \in 0..(Len(y) + 1), b \in 0..Len(y) :
             /\ file = [mode |-> m, yields |-> y, trailer |-> t, have |-> h, junk |-> j,
                        bad |-> b, size |-> n]
             /\ m = "encode" => t /\ h = 0 /\ j = 0 /\ b = 0
             /\ m \in {"stream", "once"} => n = 0
    BY DEF Init
  <1>1. PICK h \in 0..(Len(y) + 1), b \in 0..Len(y) :
           file = [mode |-> m, yields |-> y, trailer |-> t, have |-> h, junk |-> j,
                   bad |-> b, size |-> n]
    BY <1>a
  <1>2. /\ file.have <= Full /\ (file.junk > 0 => file.have = Full)
        /\ chunk_size \in 1..MaxChunk /\ max_output \in 0..MaxLimit
        /\ pc = "read" /\ at = 0 /\ chunk = 0
        /\ engine = [fed |-> 0, pending |-> 0, eof |-> FALSE]
        /\ total = 0 /\ sink = 0 /\ why = "none"
    BY DEF Init
  <1>3. /\ file.mode = m /\ file.yields = y /\ file.trailer = t /\ file.have = h
        /\ file.junk = j /\ file.bad = b /\ file.size = n
    BY <1>1
  <1>4. y \in Seq(Nat) \ {<<>>} /\ Len(y) \in Nat \ {0}
    <2>1. y \in Seq(Nat) /\ y # <<>>
      BY StreamAssumption
    <2> QED
      BY <2>1
  <1>5. Full \in Nat \ {0}
    <2>1. CASE t
      BY <1>3, <1>4, <2>1 DEF Full
    <2>2. CASE ~t
      BY <1>3, <1>4, <2>2 DEF Full
    <2> QED
      BY <2>1, <2>2
  <1>6. CallOk
    <2>1. chunk_size \in Nat \ {0} /\ max_output \in Nat
      BY <1>2, BoundAssumption
    <2>2. file.have \in 0..Full
      BY <1>2, <1>3, <1>4, <1>5
    <2>3. file.size \in Nat
      BY <1>3, BoundAssumption
    <2> QED
      BY <1>2, <1>3, <1>4, <2>1, <2>2, <2>3 DEF CallOk
  <1>7. engine.fed = 0 /\ engine.pending = 0 /\ engine.eof = FALSE
    BY <1>2
  <1>8. Fed
    BY <1>2, <1>5, <1>7 DEF Fed
  <1>9. Length \in Nat /\ (~decode => Whole \in Nat)
    BY <1>5, <1>6 DEF Length, Whole, CallOk
  <1>10. Yielded(engine.fed) = 0
    BY <1>6, <1>7, YieldedTotal
  <1>11. Flow
    BY <1>2, <1>6, <1>7, <1>8, <1>9, <1>10 DEF Flow, CallOk
  <1>12. Complete /\ RefusedForCause
    BY <1>2, <1>6 DEF Complete, RefusedForCause, CallOk
  <1> QED
    BY <1>2, <1>6, <1>11, <1>12 DEF StreamInv

\* The decoder's account: what is written and what it keeps is what the bytes
\* fed to it yield, in every state of transform_stream and decompress.
THEOREM StreamInvariance == Spec => []StreamInv
  <1>1. Init => StreamInv
    BY StreamStart
  <1>2. StreamInv /\ [Next]_vars => StreamInv'
    <2> SUFFICES ASSUME StreamInv, [Next]_vars PROVE StreamInv'
      OBVIOUS
    <2>1. CASE Read \/ ReadTrailing \/ Inflate \/ EndOfSource
      BY <2>1, ReadStep, ReadTrailingStep, InflateStep, EndOfSourceStep
    <2>2. CASE Compress \/ Flush \/ Once \/ Adaptive
      BY <2>2, CompressStep, FlushStep, OnceStep, AdaptiveStep
    <2>3. CASE UNCHANGED vars
      <3>1. /\ UNCHANGED call
            /\ UNCHANGED <<file, max_output, pc, at, chunk, engine, total, sink, why>>
        BY <2>3 DEF vars, call
      <3>2. PICK x : x = engine.fed
        OBVIOUS
      <3>3. Yielded(engine.fed)' = Yielded(engine.fed)
        BY <3>1, <3>2, YieldedNext
      <3>4. /\ Full' = Full /\ Whole' = Whole /\ Length' = Length /\ decode' = decode
            /\ Cut' = Cut /\ CallOk' = CallOk
        BY <3>1, CallSame
      <3>5. Fed' = Fed
        BY <3>1, <3>4 DEF Fed
      <3>6. Flow' = Flow
        BY <3>1, <3>3, <3>4, <3>5 DEF Flow
      <3>7. Complete' /\ RefusedForCause'
        BY <3>1, <3>4 DEF StreamInv, Complete, RefusedForCause
      <3> QED
        BY <3>1, <3>4, <3>6, <3>7 DEF StreamInv
    <2> QED
      BY <2>1, <2>2, <2>3 DEF Next
  <1> QED
    BY <1>1, <1>2, PTL DEF Spec

\* A call of transform_stream or decompress that returns has processed one
\* whole stream and written all of its output, and none writes more than the
\* limit, for any stream, chunk size and limit.
THEOREM StreamComplete == Spec => []Complete
  <1>1. StreamInv => Complete
    BY DEF StreamInv
  <1> QED
    BY <1>1, StreamInvariance, PTL

\* A stream is refused only for what is wrong with it: the reason given is one
\* that the stream has.
THEOREM StreamRefused == Spec => []RefusedForCause
  <1>1. StreamInv => RefusedForCause
    BY DEF StreamInv
  <1> QED
    BY <1>1, StreamInvariance, PTL

-------------------------------------------------------------------------------
(* The state of a process, and the updates of it that actions make.        *)

IsRun(run) == run = [pc |-> run.pc, job |-> run.job, read |-> run.read, out |-> run.out,
                     status |-> run.status]

LEMMA Updates ==
  ASSUME NEW run, IsRun(run), NEW u, NEW v
  PROVE  /\ [run EXCEPT !.pc = u, !.read = v] = [pc |-> u, job |-> run.job, read |-> v,
                                                out |-> run.out, status |-> run.status]
         /\ [run EXCEPT !.pc = u, !.out = v] = [pc |-> u, job |-> run.job, read |-> run.read,
                                               out |-> v, status |-> run.status]
         /\ [run EXCEPT !.read = v] = [pc |-> run.pc, job |-> run.job, read |-> v,
                                       out |-> run.out, status |-> run.status]
         /\ [run EXCEPT !.pc = u, !.read = v, !.status = "ok"] =
              [pc |-> u, job |-> run.job, read |-> v, out |-> run.out, status |-> "ok"]
  <1> DEFINE moved == [pc |-> u, job |-> run.job, read |-> run.read, out |-> run.out,
                       status |-> run.status]
  <1>1. [run EXCEPT !.pc = u] = moved
    BY DEF IsRun
  <1>2. /\ [moved EXCEPT !.read = v] = [pc |-> u, job |-> run.job, read |-> v,
                                        out |-> run.out, status |-> run.status]
        /\ [moved EXCEPT !.out = v] = [pc |-> u, job |-> run.job, read |-> run.read,
                                       out |-> v, status |-> run.status]
    OBVIOUS
  <1>3. /\ [run EXCEPT !.pc = u, !.read = v] = [[run EXCEPT !.pc = u] EXCEPT !.read = v]
        /\ [run EXCEPT !.pc = u, !.out = v] = [[run EXCEPT !.pc = u] EXCEPT !.out = v]
        /\ [run EXCEPT !.pc = u, !.read = v, !.status = "ok"]
             = [[[run EXCEPT !.pc = u] EXCEPT !.read = v] EXCEPT !.status = "ok"]
    OBVIOUS
  <1>4. [run EXCEPT !.read = v] = [pc |-> run.pc, job |-> run.job, read |-> v,
                                   out |-> run.out, status |-> run.status]
    BY DEF IsRun
  <1>5. [[pc |-> u, job |-> run.job, read |-> v, out |-> run.out, status |-> run.status]
           EXCEPT !.status = "ok"]
         = [pc |-> u, job |-> run.job, read |-> v, out |-> run.out, status |-> "ok"]
    OBVIOUS
  <1> HIDE DEF moved
  <1> QED
    BY <1>1, <1>2, <1>3, <1>4, <1>5

-------------------------------------------------------------------------------
(* Steps that leave the files alone and put a process to a state in which  *)
(* it does not write and has not just succeeded keep the invariant.        *)

LEMMA QuietStep ==
  ASSUME NEW p \in Proc, CmdInv, UNCHANGED cmdFiles,
         NEW r, cmdRun' = [cmdRun EXCEPT ![p] = r],
         r = [pc |-> r.pc, job |-> r.job, read |-> r.read, out |-> r.out, status |-> r.status],
         r.pc # "write",
         r.status = "ok" => cmdRun[p].status = "ok" /\ r.job = cmdRun[p].job
  PROVE  CmdInv'
  <1> USE DEF CmdInv
  <1>1. /\ cmdRun'[p] = r
        /\ \A q \in Proc \ {p} : cmdRun'[q] = cmdRun[q]
        /\ cmdRun' = [q \in Proc |-> cmdRun'[q]]
    BY DEF CmdShape
  <1>2. CmdShape'
    BY <1>1 DEF CmdShape
  <1>3. CmdOwn'
    BY <1>1 DEF CmdOwn
  <1>4. CmdApart'
    BY <1>1 DEF CmdApart
  <1>5. CmdWhole'
    BY <1>1 DEF CmdWhole
  <1> QED
    BY <1>2, <1>3, <1>4, <1>5

\* A command that fails, or is killed.
LEMMA ExitStep ==
  ASSUME NEW p \in Proc, CmdInv, UNCHANGED cmdFiles,
         NEW how \in {"failed", "killed"}, Exit(p, how)
  PROVE  CmdInv'
  <1> DEFINE r == [Resting EXCEPT !.status = how]
  <1>1. cmdRun' = [cmdRun EXCEPT ![p] = r]
    BY DEF Exit, Put
  <1>2. /\ r = [pc |-> "idle", job |-> NoJob, read |-> <<>>, out |-> Err, status |-> how]
        /\ r = [pc |-> r.pc, job |-> r.job, read |-> r.read, out |-> r.out, status |-> r.status]
        /\ r.pc # "write" /\ r.status # "ok"
    BY DEF Resting
  <1> HIDE DEF r
  <1> QED
    BY <1>1, <1>2, QuietStep

-------------------------------------------------------------------------------
(* One lemma for each action.                                              *)

LEMMA StartStep ==
  ASSUME NEW p \in Proc, CmdInv, Start(p)
  PROVE  CmdInv'
  <1>1. PICK job \in Jobs : cmdRun' = [cmdRun EXCEPT ![p] = [Resting EXCEPT !.pc = "read", !.job = job]]
    BY DEF Start, Put
  <1> DEFINE r == [Resting EXCEPT !.pc = "read", !.job = job]
  <1>2. /\ r = [pc |-> "read", job |-> job, read |-> <<>>, out |-> Err, status |-> "none"]
        /\ r = [pc |-> r.pc, job |-> r.job, read |-> r.read, out |-> r.out, status |-> r.status]
        /\ r.pc = "read" /\ r.status = "none"
    <2>1. IsRun(Resting) /\ Resting.read = <<>> /\ Resting.out = Err /\ Resting.status = "none"
      BY DEF IsRun, Resting
    <2>2. r = [pc |-> "read", job |-> job, read |-> Resting.read, out |-> Resting.out,
               status |-> Resting.status]
      <3>1. ASSUME NEW z, IsRun(z), NEW j
            PROVE  [z EXCEPT !.pc = "read", !.job = j]
                     = [pc |-> "read", job |-> j, read |-> z.read, out |-> z.out,
                        status |-> z.status]
        <4>1. [z EXCEPT !.pc = "read"] = [pc |-> "read", job |-> z.job, read |-> z.read,
                                          out |-> z.out, status |-> z.status]
          BY <3>1 DEF IsRun
        <4>2. [z EXCEPT !.pc = "read", !.job = j] = [[z EXCEPT !.pc = "read"] EXCEPT !.job = j]
          OBVIOUS
        <4>3. [[pc |-> "read", job |-> z.job, read |-> z.read, out |-> z.out,
                status |-> z.status] EXCEPT !.job = j]
                = [pc |-> "read", job |-> j, read |-> z.read, out |-> z.out,
                   status |-> z.status]
          OBVIOUS
        <4> QED
          BY <4>1, <4>2, <4>3
      <3> QED
        BY <2>1, <3>1
    <2>3. r = [pc |-> "read", job |-> job, read |-> <<>>, out |-> Err, status |-> "none"]
      BY <2>1, <2>2
    <2> QED
      BY <2>3
  <1>3. UNCHANGED cmdFiles /\ cmdRun' = [cmdRun EXCEPT ![p] = r]
    BY <1>1 DEF Start
  <1> HIDE DEF r
  <1> QED
    BY <1>2, <1>3, QuietStep

LEMMA ReadInputStep ==
  ASSUME NEW p \in Proc, CmdInv, ReadInput(p)
  PROVE  CmdInv'
  <1>1. UNCHANGED cmdFiles /\ cmdRun[p].pc = "read"
    BY DEF ReadInput
  <1>2. CASE Exit(p, "failed")
    BY <1>1, <1>2, ExitStep
  <1>3. CASE \E x : Put(p, [cmdRun[p] EXCEPT !.read = Append(@, x)])
    <2>1. PICK x : cmdRun' = [cmdRun EXCEPT ![p] = [cmdRun[p] EXCEPT !.read = Append(@, x)]]
      BY <1>3 DEF Put
    <2> DEFINE r == [cmdRun[p] EXCEPT !.read = Append(@, x)]
    <2>2. cmdRun[p] = [pc |-> cmdRun[p].pc, job |-> cmdRun[p].job, read |-> cmdRun[p].read,
                       out |-> cmdRun[p].out, status |-> cmdRun[p].status]
      BY DEF CmdInv, CmdShape
    <2>4. r = [pc |-> "read", job |-> cmdRun[p].job, read |-> Append(cmdRun[p].read, x),
                  out |-> cmdRun[p].out, status |-> cmdRun[p].status]
      BY <1>1, <2>2
    <2>5. /\ r = [pc |-> r.pc, job |-> r.job, read |-> r.read, out |-> r.out, status |-> r.status]
          /\ r.pc = "read" /\ r.status = cmdRun[p].status /\ r.job = cmdRun[p].job
      BY <2>4
    <2>3. cmdRun' = [cmdRun EXCEPT ![p] = r]
      BY <2>1
    <2> HIDE DEF r
    <2> QED
      BY <1>1, <2>5, <2>3, QuietStep
  <1> QED
    BY <1>2, <1>3 DEF ReadInput

LEMMA ComputeStep ==
  ASSUME NEW p \in Proc, CmdInv, Compute(p)
  PROVE  CmdInv'
  <1>1. UNCHANGED cmdFiles
    BY DEF Compute
  <1>2. CASE Exit(p, "failed")
    BY <1>1, <1>2, ExitStep
  <1>3. CASE \E x : Put(p, [cmdRun[p] EXCEPT !.pc = "open", !.out = x])
    <2>1. PICK x : cmdRun' = [cmdRun EXCEPT ![p] = [cmdRun[p] EXCEPT !.pc = "open", !.out = x]]
      BY <1>3 DEF Put
    <2> DEFINE r == [cmdRun[p] EXCEPT !.pc = "open", !.out = x]
    <2>2. cmdRun[p] = [pc |-> cmdRun[p].pc, job |-> cmdRun[p].job, read |-> cmdRun[p].read,
                       out |-> cmdRun[p].out, status |-> cmdRun[p].status]
      BY DEF CmdInv, CmdShape
    <2>4. r = [pc |-> "open", job |-> cmdRun[p].job, read |-> cmdRun[p].read,
                  out |-> x, status |-> cmdRun[p].status]
      <3>1. IsRun(cmdRun[p])
        BY <2>2 DEF IsRun
      <3> QED
        BY <3>1, Updates
    <2>5. /\ r = [pc |-> r.pc, job |-> r.job, read |-> r.read, out |-> r.out, status |-> r.status]
          /\ r.pc = "open" /\ r.status = cmdRun[p].status /\ r.job = cmdRun[p].job
      BY <2>4
    <2>3. cmdRun' = [cmdRun EXCEPT ![p] = r]
      BY <2>1
    <2> HIDE DEF r
    <2> QED
      BY <1>1, <2>5, <2>3, QuietStep
  <1> QED
    BY <1>2, <1>3 DEF Compute

\* A file that was not there is added; who writes already, writes another.
LEMMA OpenStep ==
  ASSUME NEW p \in Proc, CmdInv, Open(p)
  PROVE  CmdInv'
  <1> USE DEF CmdInv
  <1> DEFINE f == cmdRun[p].job.out
             r == [cmdRun[p] EXCEPT !.pc = "write", !.read = <<>>]
  <1>1. CASE Exists(f)
    <2>1. UNCHANGED cmdFiles /\ Exit(p, "failed")
      BY <1>1 DEF Open
    <2> QED
      BY <2>1, ExitStep
  <1>2. CASE ~Exists(f)
    <2>1. /\ cmdRun' = [cmdRun EXCEPT ![p] = r]
          /\ cmdFiles' = With(cmdFiles, f, [c |-> cmdRun[p].out, n |-> "empty"])
      BY <1>2 DEF Open, Put
    <2>a. cmdRun[p] = [pc |-> cmdRun[p].pc, job |-> cmdRun[p].job, read |-> cmdRun[p].read,
                       out |-> cmdRun[p].out, status |-> cmdRun[p].status]
      BY DEF CmdShape
    <2>b. r = [pc |-> "write", job |-> cmdRun[p].job, read |-> <<>>,
                  out |-> cmdRun[p].out, status |-> cmdRun[p].status]
      <3>1. IsRun(cmdRun[p])
        BY <2>a DEF IsRun
      <3> QED
        BY <3>1, Updates, ZenonT(30)
    <2>2. /\ r = [pc |-> r.pc, job |-> r.job, read |-> r.read, out |-> r.out, status |-> r.status]
          /\ r.pc = "write" /\ r.status = cmdRun[p].status /\ r.job = cmdRun[p].job
      BY <2>b
    <2> HIDE DEF r
    <2>3. /\ cmdRun'[p] = r
          /\ \A q \in Proc \ {p} : cmdRun'[q] = cmdRun[q]
          /\ cmdRun' = [q \in Proc |-> cmdRun'[q]]
      BY <2>1 DEF CmdShape
    <2>4. /\ DOMAIN cmdFiles' = DOMAIN cmdFiles \cup {f}
          /\ cmdFiles'[f] = [c |-> cmdRun[p].out, n |-> "empty"]
          /\ \A g \in DOMAIN cmdFiles : cmdFiles'[g] = cmdFiles[g]
          /\ cmdFiles' = [g \in DOMAIN cmdFiles' |-> cmdFiles'[g]]
      BY <1>2, <2>1 DEF With, Exists
    <2>5. f \notin DOMAIN cmdFiles /\ r.job.out = f
      BY <1>2, <2>2 DEF Exists
    <2> HIDE DEF f
    <2>6. CmdShape'
      BY <2>2, <2>3, <2>4 DEF CmdShape
    <2>7. CmdOwn'
      BY <2>2, <2>3, <2>4, <2>5 DEF CmdOwn
    <2>8. CmdApart'
      BY <2>2, <2>3, <2>5 DEF CmdApart, CmdOwn
    <2>9. CmdWhole'
      BY <2>2, <2>3, <2>4, <2>5 DEF CmdWhole
    <2> QED
      BY <2>6, <2>7, <2>8, <2>9
  <1> QED
    BY <1>1, <1>2

\* The file a writing command advances is its own, and not whole before.
LEMMA WriteFile ==
  ASSUME NEW p \in Proc, CmdInv, Write(p)
  PROVE  LET f == cmdRun[p].job.out IN
         /\ f \in DOMAIN cmdFiles /\ DOMAIN cmdFiles' = DOMAIN cmdFiles
         /\ cmdFiles' = [g \in DOMAIN cmdFiles' |-> cmdFiles'[g]]
         /\ \A g \in DOMAIN cmdFiles \ {f} : cmdFiles'[g] = cmdFiles[g]
         /\ cmdFiles'[f] = [c |-> cmdFiles[f].c, n |-> cmdFiles'[f].n]
         /\ \/ cmdFiles[f].n = "empty" /\ cmdFiles'[f].n = "half"
            \/ cmdFiles[f].n = "half" /\ cmdFiles'[f].n = "whole"
  <1> DEFINE f == cmdRun[p].job.out
  <1>1. /\ cmdFiles' = [cmdFiles EXCEPT ![f].n = IF @ = "empty" THEN "half" ELSE "whole"]
        /\ cmdRun[p].pc = "write"
    BY DEF Write
  <1>2. f \in DOMAIN cmdFiles /\ cmdFiles[f].n \in {"empty", "half"}
    BY <1>1 DEF CmdInv, CmdOwn
  <1>3. cmdFiles[f] = [c |-> cmdFiles[f].c, n |-> cmdFiles[f].n]
    BY <1>2 DEF CmdInv, CmdShape
  <1>a. [cmdFiles[f] EXCEPT !.n = IF cmdFiles[f].n = "empty" THEN "half" ELSE "whole"]
          = [c |-> cmdFiles[f].c, n |-> IF cmdFiles[f].n = "empty" THEN "half" ELSE "whole"]
    BY <1>3
  <1>b. cmdFiles' = [cmdFiles EXCEPT ![f] =
                       [cmdFiles[f] EXCEPT !.n = IF cmdFiles[f].n = "empty" THEN "half" ELSE "whole"]]
    BY <1>1
  <1>4. cmdFiles' = [cmdFiles EXCEPT ![f] = [c |-> cmdFiles[f].c,
                       n |-> IF cmdFiles[f].n = "empty" THEN "half" ELSE "whole"]]
    BY <1>a, <1>b
  <1> HIDE DEF f
  <1>5. /\ DOMAIN cmdFiles' = DOMAIN cmdFiles
        /\ cmdFiles' = [g \in DOMAIN cmdFiles' |-> cmdFiles'[g]]
        /\ \A g \in DOMAIN cmdFiles \ {f} : cmdFiles'[g] = cmdFiles[g]
        /\ cmdFiles'[f] = [c |-> cmdFiles[f].c,
                           n |-> IF cmdFiles[f].n = "empty" THEN "half" ELSE "whole"]
    BY <1>2, <1>4 DEF CmdInv, CmdShape
  <1> QED
    BY <1>2, <1>5 DEF f

\* A write that is not the last leaves the processes alone; the last one makes
\* the file whole and the status 0.
LEMMA WriteStep ==
  ASSUME NEW p \in Proc, CmdInv, Write(p)
  PROVE  CmdInv'
  <1> USE DEF CmdInv
  <1> DEFINE f == cmdRun[p].job.out
  <1>1. /\ f \in DOMAIN cmdFiles /\ DOMAIN cmdFiles' = DOMAIN cmdFiles
        /\ cmdFiles' = [g \in DOMAIN cmdFiles' |-> cmdFiles'[g]]
        /\ \A g \in DOMAIN cmdFiles \ {f} : cmdFiles'[g] = cmdFiles[g]
        /\ cmdFiles'[f] = [c |-> cmdFiles[f].c, n |-> cmdFiles'[f].n]
        /\ \/ cmdFiles[f].n = "empty" /\ cmdFiles'[f].n = "half"
           \/ cmdFiles[f].n = "half" /\ cmdFiles'[f].n = "whole"
    BY WriteFile
  <1>2. cmdRun[p].pc = "write"
    BY DEF Write
  <1>3. \A q \in Proc \ {p} : cmdRun[q].pc = "write" => cmdRun[q].job.out # f
    BY <1>2 DEF CmdApart
  <1>4. \A g \in DOMAIN cmdFiles' : cmdFiles'[g] = [c |-> cmdFiles'[g].c, n |-> cmdFiles'[g].n]
    <2>1. cmdFiles'[f] = [c |-> cmdFiles'[f].c, n |-> cmdFiles'[f].n]
      BY <1>1
    <2> HIDE DEF f
    <2> QED
      BY <1>1, <2>1 DEF CmdShape
  <1>5. CASE cmdFiles[f].n = "empty"
    <2>1. UNCHANGED cmdRun
      BY <1>5 DEF Write
    <2> HIDE DEF f
    <2>2. CmdShape'
      BY <1>1, <1>4, <2>1 DEF CmdShape
    <2>3. CmdOwn'
      BY <1>1, <1>5, <2>1 DEF CmdOwn, f
    <2>4. CmdApart'
      BY <2>1 DEF CmdApart
    <2>5. CmdWhole'
      BY <1>1, <1>5, <2>1 DEF CmdWhole
    <2> QED
      BY <2>2, <2>3, <2>4, <2>5
  <1>6. CASE cmdFiles[f].n = "half"
    <2> DEFINE r == [cmdRun[p] EXCEPT !.pc = "idle", !.read = <<>>, !.status = "ok"]
    <2>1. cmdRun' = [cmdRun EXCEPT ![p] = r]
      BY <1>6 DEF Write, Exit, Put
    <2>2. IsRun(cmdRun[p])
      BY DEF CmdShape, IsRun
    <2>3. r = [pc |-> "idle", job |-> cmdRun[p].job, read |-> <<>>, out |-> cmdRun[p].out,
               status |-> "ok"]
      BY <2>2, Updates
    <2>4. /\ r = [pc |-> r.pc, job |-> r.job, read |-> r.read, out |-> r.out, status |-> r.status]
          /\ r.pc = "idle" /\ r.job.out = f
      BY <2>3
    <2> HIDE DEF r, f
    <2>5. /\ cmdRun'[p] = r
          /\ \A q \in Proc \ {p} : cmdRun'[q] = cmdRun[q]
          /\ cmdRun' = [q \in Proc |-> cmdRun'[q]]
      BY <2>1 DEF CmdShape
    <2>6. CmdShape'
      BY <1>1, <1>4, <2>4, <2>5 DEF CmdShape
    <2>7. CmdOwn'
      BY <1>1, <1>3, <2>4, <2>5 DEF CmdOwn
    <2>8. CmdApart'
      BY <2>4, <2>5 DEF CmdApart
    <2>9. CmdWhole'
      BY <1>1, <1>6, <2>4, <2>5 DEF CmdWhole
    <2> QED
      BY <2>6, <2>7, <2>8, <2>9
  <1> QED
    BY <1>1, <1>5, <1>6

LEMMA WriteFailsStep ==
  ASSUME NEW p \in Proc, CmdInv, WriteFails(p)
  PROVE  CmdInv'
  <1>1. UNCHANGED cmdFiles /\ Exit(p, "failed")
    BY DEF WriteFails
  <1> QED
    BY <1>1, ExitStep

LEMMA KillStep ==
  ASSUME NEW p \in Proc, CmdInv, Kill(p)
  PROVE  CmdInv'
  <1>1. UNCHANGED cmdFiles /\ Exit(p, "killed")
    BY DEF Kill
  <1> QED
    BY <1>1, ExitStep

\* Damage changes what a file holds, neither which files there are nor how
\* much of them is written.
LEMMA DamageFile ==
  ASSUME CmdInv, Damage
  PROVE  /\ UNCHANGED cmdRun /\ cmdDamaged' # cmdDamaged
         /\ DOMAIN cmdFiles' = DOMAIN cmdFiles
         /\ cmdFiles' = [g \in DOMAIN cmdFiles' |-> cmdFiles'[g]]
         /\ \A g \in DOMAIN cmdFiles :
              cmdFiles'[g] = [c |-> cmdFiles'[g].c, n |-> cmdFiles[g].n]
  <1>1. PICK f, x : cmdFiles' = [cmdFiles EXCEPT ![f].c = x]
    BY DEF Damage
  <1>2. cmdFiles' = [cmdFiles EXCEPT ![f] = [cmdFiles[f] EXCEPT !.c = x]]
    BY <1>1
  <1>3. UNCHANGED cmdRun /\ cmdDamaged' # cmdDamaged
    BY DEF Damage
  <1>4. /\ DOMAIN cmdFiles' = DOMAIN cmdFiles
        /\ cmdFiles' = [g \in DOMAIN cmdFiles' |-> cmdFiles'[g]]
        /\ \A g \in DOMAIN cmdFiles \ {f} : cmdFiles'[g] = cmdFiles[g]
        /\ f \in DOMAIN cmdFiles => cmdFiles'[f] = [cmdFiles[f] EXCEPT !.c = x]
    BY <1>2 DEF CmdInv, CmdShape
  <1>5. \A g \in DOMAIN cmdFiles : cmdFiles[g] = [c |-> cmdFiles[g].c, n |-> cmdFiles[g].n]
    BY DEF CmdInv, CmdShape
  <1>6. f \in DOMAIN cmdFiles => cmdFiles'[f] = [c |-> x, n |-> cmdFiles[f].n]
    BY <1>4, <1>5
  <1> QED
    BY <1>3, <1>4, <1>5, <1>6

LEMMA DamageStep ==
  ASSUME CmdInv, Damage
  PROVE  CmdInv'
  <1>1. /\ UNCHANGED cmdRun
        /\ DOMAIN cmdFiles' = DOMAIN cmdFiles
        /\ cmdFiles' = [g \in DOMAIN cmdFiles' |-> cmdFiles'[g]]
        /\ \A g \in DOMAIN cmdFiles :
             cmdFiles'[g] = [c |-> cmdFiles'[g].c, n |-> cmdFiles[g].n]
    BY DamageFile
  <1>2. \A g \in DOMAIN cmdFiles : cmdFiles'[g].n = cmdFiles[g].n
    BY <1>1
  <1>3. CmdShape'
    BY <1>1, <1>2 DEF CmdInv, CmdShape
  <1>4. CmdOwn'
    BY <1>1, <1>2 DEF CmdInv, CmdOwn
  <1>5. CmdApart'
    BY <1>1 DEF CmdInv, CmdApart
  <1>6. CmdWhole'
    BY <1>1, <1>2 DEF CmdInv, CmdWhole
  <1> QED
    BY <1>3, <1>4, <1>5, <1>6 DEF CmdInv

-------------------------------------------------------------------------------
(* The theorems.                                                           *)

\* In every reachable state a command that writes has its output to itself and
\* the output is not whole yet, and what a command reported as written is.
THEOREM CmdInvariance == CmdSpec => []CmdInv
  <1>1. CmdInit => CmdInv
    <2> SUFFICES ASSUME CmdInit PROVE CmdInv
      OBVIOUS
    <2>1. /\ \A p \in Proc : cmdRun[p] = Resting
          /\ cmdRun = [p \in Proc |-> cmdRun[p]]
      BY DEF CmdInit
    <2>2. \A f \in DOMAIN cmdFiles : cmdFiles[f] = [c |-> cmdFiles[f].c, n |-> cmdFiles[f].n]
      BY DEF CmdInit
    <2>3. cmdFiles = [f \in DOMAIN cmdFiles |-> cmdFiles[f]]
      BY DEF CmdInit
    <2>4. /\ Resting = [pc |-> Resting.pc, job |-> Resting.job, read |-> Resting.read,
                        out |-> Resting.out, status |-> Resting.status]
          /\ Resting.pc = "idle" /\ Resting.status = "none"
      BY DEF Resting
    <2> QED
      BY <2>1, <2>2, <2>3, <2>4 DEF CmdInv, CmdShape, CmdOwn, CmdApart, CmdWhole
  <1>2. CmdInv /\ [CmdNext]_cmdVars => CmdInv'
    <2> SUFFICES ASSUME CmdInv, [CmdNext]_cmdVars PROVE CmdInv'
      OBVIOUS
    <2>1. CASE \E p \in Proc : Start(p) \/ ReadInput(p) \/ Compute(p) \/ Open(p)
      BY <2>1, StartStep, ReadInputStep, ComputeStep, OpenStep
    <2>2. CASE \E p \in Proc : Write(p) \/ WriteFails(p) \/ Kill(p)
      BY <2>2, WriteStep, WriteFailsStep, KillStep
    <2>3. CASE Damage
      BY <2>3, DamageStep
    <2>4. CASE UNCHANGED cmdVars
      BY <2>4 DEF cmdVars, CmdInv, CmdShape, CmdOwn, CmdApart, CmdWhole
    <2> QED
      BY <2>1, <2>2, <2>3, <2>4 DEF CmdNext
  <1> QED
    BY <1>1, <1>2, PTL DEF CmdSpec

\* Exit status 0 means that the whole output is on disk, and stays there: no
\* other command, failure or kill takes it away (open 'xb' in novelrar_cli).
THEOREM WrittenStays == CmdSpec => []CmdWhole
  <1>1. CmdInv => CmdWhole
    BY DEF CmdInv
  <1> QED
    BY <1>1, CmdInvariance, PTL

\* A file that is there is never overwritten, and the one command that writes
\* it only adds to it (open 'xb' and the writes after it).
THEOREM NothingOverwritten == CmdSpec => CmdExclusive
  <1> DEFINE Kept(f) ==
               /\ f \in DOMAIN cmdFiles'
               /\ cmdDamaged' = cmdDamaged => cmdFiles'[f].c = cmdFiles[f].c
               /\ cmdFiles'[f] # cmdFiles[f] /\ cmdDamaged' = cmdDamaged =>
                    /\ <<cmdFiles[f].n, cmdFiles'[f].n>>
                         \in {<<"empty", "half">>, <<"half", "whole">>}
                    /\ \E p \in Proc : cmdRun[p].pc = "write" /\ cmdRun[p].job.out = f
                                       /\ \A q \in Proc \ {p} : cmdRun[q].pc = "write"
                                                                => cmdRun[q].job.out # f
             AllKept == \A f \in DOMAIN cmdFiles : Kept(f)
  <1>1. ASSUME CmdInv, [CmdNext]_cmdVars
        PROVE  [AllKept]_cmdVars
    <2>1. CASE UNCHANGED cmdFiles
      BY <2>1
    <2>2. ASSUME NEW p \in Proc, Open(p)
          PROVE  AllKept
      BY <2>2 DEF Open, Exists, With
    <2>3. ASSUME NEW p \in Proc, Write(p)
          PROVE  AllKept
      <3> DEFINE g == cmdRun[p].job.out
      <3>1. /\ DOMAIN cmdFiles' = DOMAIN cmdFiles
            /\ \A f \in DOMAIN cmdFiles \ {g} : cmdFiles'[f] = cmdFiles[f]
            /\ cmdFiles'[g].c = cmdFiles[g].c
            /\ \/ cmdFiles[g].n = "empty" /\ cmdFiles'[g].n = "half"
               \/ cmdFiles[g].n = "half" /\ cmdFiles'[g].n = "whole"
        <4>1. /\ g \in DOMAIN cmdFiles
              /\ cmdFiles'[g] = [c |-> cmdFiles[g].c, n |-> cmdFiles'[g].n]
              /\ DOMAIN cmdFiles' = DOMAIN cmdFiles
              /\ \A f \in DOMAIN cmdFiles \ {g} : cmdFiles'[f] = cmdFiles[f]
              /\ \/ cmdFiles[g].n = "empty" /\ cmdFiles'[g].n = "half"
                 \/ cmdFiles[g].n = "half" /\ cmdFiles'[g].n = "whole"
          BY <1>1, <2>3, WriteFile
        <4> HIDE DEF g
        <4> QED
          BY <4>1
      <3>2. \E q \in Proc : cmdRun[q].pc = "write" /\ cmdRun[q].job.out = g
                            /\ \A o \in Proc \ {q} : cmdRun[o].pc = "write" => cmdRun[o].job.out # g
        <4>1. cmdRun[p].pc = "write"
          BY <2>3 DEF Write
        <4> QED
          BY <1>1, <4>1 DEF CmdInv, CmdApart
      <3> HIDE DEF g
      <3> QED
        BY <3>1, <3>2
    <2>4. CASE Damage
      <3>1. DOMAIN cmdFiles' = DOMAIN cmdFiles /\ cmdDamaged' # cmdDamaged
        BY <1>1, <2>4, DamageFile
      <3> QED
        BY <3>1
    <2> QED
      BY <1>1, <2>1, <2>2, <2>3, <2>4
        DEF CmdNext, cmdVars, Start, ReadInput, Compute, WriteFails, Kill
  <1>2. CmdInv /\ [CmdNext]_cmdVars => [AllKept]_cmdVars
    BY <1>1
  <1> QED
    BY <1>2, CmdInvariance, PTL DEF CmdSpec, CmdExclusive

-------------------------------------------------------------------------------
(* What the files hold.                                                    *)

-------------------------------------------------------------------------------
(* The codecs.                                                             *)

LEMMA PredictIs ==
  ASSUME NEW d \in Seq({0, 1}), NEW s \in Nat \ {0}
  PROVE  /\ Len(Predict(d, s)) = Len(d)
         /\ DOMAIN Predict(d, s) = 1..Len(d)
         /\ \A i \in 1..Len(d) :
              /\ d[i] \in {0, 1}
              /\ i > s => Predict(d, s)[i] = (d[i] + d[i - s]) % 2 /\ i - s \in 1..Len(d)
              /\ ~(i > s) => Predict(d, s)[i] = d[i]
  <1>1. Len(d) \in Nat /\ DOMAIN d = 1..Len(d) /\ \A i \in 1..Len(d) : d[i] \in {0, 1}
    OBVIOUS
  <1>2. Predict(d, s) = [i \in 1..Len(d) |-> IF i > s THEN (d[i] + d[i - s]) % 2 ELSE d[i]]
    BY <1>1 DEF Predict
  <1>3. DOMAIN Predict(d, s) = 1..Len(d)
    BY <1>2
  <1>4. Len(Predict(d, s)) = Len(d)
    BY <1>1, <1>2
  <1> QED
    BY <1>1, <1>2, <1>3, <1>4

\* The predictor, undone.
LEMMA Unpredicted ==
  ASSUME NEW d \in Seq({0, 1}), NEW s \in Nat \ {0}
  PROVE  Unpredict(Predict(d, s), s) = d
  <1>1. PICK e : e = Predict(d, s)
    OBVIOUS
  <1>2. PICK n : n = Len(d)
    OBVIOUS
  <1>3. /\ n \in Nat /\ DOMAIN e = 1..n /\ d = [i \in 1..n |-> d[i]]
        /\ \A i \in 1..n : /\ d[i] \in {0, 1}
                           /\ i > s => e[i] = (d[i] + d[i - s]) % 2 /\ i - s \in 1..n
                           /\ ~(i > s) => e[i] = d[i]
    BY <1>1, <1>2, PredictIs
  <1> DEFINE Step(h_) == [i \in DOMAIN e |-> IF i > s THEN (e[i] + h_[i - s]) % 2 ELSE e[i]]
             out == CHOOSE h_ : h_ = Step(h_)
  <1>4. ASSUME NEW i \in 1..n, i > s
        PROVE  (e[i] + d[i - s]) % 2 = d[i]
    <2>1. d[i] \in {0, 1} /\ d[i - s] \in {0, 1} /\ e[i] = (d[i] + d[i - s]) % 2
      BY <1>3, <1>4
    <2> QED
      BY <2>1
  <1>5. d = Step(d)
    <2>1. \A i \in 1..n : d[i] = IF i > s THEN (e[i] + d[i - s]) % 2 ELSE e[i]
      BY <1>3, <1>4
    <2> QED
      BY <1>3, <2>1
  <1>6. out = Step(out)
    BY <1>5
  <1>7. Unpredict(e, s) = [i \in 1..n |-> out[i]]
    BY <1>3 DEF Unpredict
  <1> HIDE DEF out
  <1>8. \A i \in 1..n : out[i] = IF i > s THEN (e[i] + out[i - s]) % 2 ELSE e[i]
    <2>1. \A i \in 1..n : out[i] = Step(out)[i]
      BY <1>6
    <2> QED
      BY <1>3, <2>1
  <1> DEFINE T == {k \in Nat : \A i \in 1..n : i <= k => out[i] = d[i]}
  <1>9. 0 \in T
    OBVIOUS
  <1>10. ASSUME NEW k \in Nat, k \in T PROVE k + 1 \in T
    <2> SUFFICES ASSUME NEW i \in 1..n, i <= k + 1 PROVE out[i] = d[i]
      OBVIOUS
    <2>1. CASE i > s
      <3>1. i - s \in 1..n /\ i - s <= k
        BY <1>3, <2>1
      <3>2. out[i - s] = d[i - s]
        BY <1>10, <3>1
      <3> QED
        BY <1>4, <1>8, <2>1, <3>2
    <2>2. CASE ~(i > s)
      BY <1>3, <1>8, <2>2
    <2> QED
      BY <2>1, <2>2
  <1> HIDE DEF T
  <1>11. n \in T
    BY <1>3, <1>9, <1>10, NatInduct
  <1>12. \A i \in 1..n : out[i] = d[i]
    BY <1>11 DEF T
  <1> QED
    BY <1>1, <1>3, <1>7, <1>12

LEMMA OneIsSome ==
  ASSUME NEW s, Len(s) = 1
  PROVE  s # <<>>
  OBVIOUS

LEMMA PlainIs ==
  ASSUME NEW d
  PROVE  /\ Plain(d).t = "plain" /\ Plain(d).d = d /\ Plain(d) # Err
         /\ d \in Seq({0, 1}) => PlainOk(Plain(d))
  <1>1. Err.t = "error"
    BY DEF Err
  <1> QED
    BY <1>1 DEF Plain, PlainOk

LEMMA PackedIs ==
  ASSUME NEW codec, NEW d
  PROVE  /\ Packed(codec, d).t = "packed" /\ Packed(codec, d).codec = codec
         /\ Packed(codec, d).d = d /\ Packed(codec, d).is = "whole" /\ Packed(codec, d) # Err
         /\ d \in Seq({0, 1}) => Inner(Packed(codec, d))
  <1>1. Err.t = "error"
    BY DEF Err
  <1> QED
    BY <1>1 DEF Packed, Inner

LEMMA Na01Is ==
  ASSUME NEW m, NEW d, NEW s, NEW payload, NEW x, x = Na01(m, d, s, payload)
  PROVE  /\ x.t = "na01" /\ x.method = m /\ x.size = Len(d) /\ x.digest = d /\ x.stride = s
         /\ x.payload = payload /\ x.head /\ x # Err
         /\ d \in Seq({0, 1}) => Inner(x)
  <1>1. Err.t = "error"
    BY DEF Err
  <1>3. /\ x.t = "na01" /\ x.method = m /\ x.size = Len(d) /\ x.digest = d /\ x.stride = s
        /\ x.payload = payload /\ x.head
    BY DEF Na01
  <1>4. d \in Seq({0, 1}) => Inner(x)
    BY <1>3 DEF Inner
  <1> QED
    BY <1>1, <1>3, <1>4

\* What compress makes is fresh, and covers the data if it has a checksum.
LEMMA Compressed ==
  ASSUME NEW codec, NEW d \in Seq({0, 1}), NEW x \in compress(codec, d)
  PROVE  /\ Inner(x) /\ x # Err
         /\ x.t = "plain" => x = Plain(d)
         /\ x.t = "packed" => x.d = d
         /\ x.t = "na01" => x.digest = d
         /\ x.t \in {"plain", "packed", "na01"}
  <1>1. CASE codec = "store"
    <2>1. x = Plain(d)
      BY <1>1 DEF compress
    <2> QED
      BY <2>1, PlainIs DEF Inner
  <1>2. CASE codec = "adaptive"
    <2>1. x \in adaptive_compress(d)
      BY <1>2 DEF compress
    <2>2. \E m, s, payload : x = Na01(m, d, s, payload)
      BY <2>1 DEF adaptive_compress
    <2> QED
      BY <2>2, Na01Is
  <1>3. CASE codec \notin {"store", "adaptive"}
    <2>1. x = Packed(codec, d)
      BY <1>3 DEF compress
    <2> QED
      BY <2>1, PackedIs
  <1> QED
    BY <1>1, <1>2, <1>3

\* Undoing what was made, with a limit of at least its length.
LEMMA RoundTrip ==
  ASSUME NEW codec, NEW d \in Seq({0, 1}), NEW x \in compress(codec, d),
         NEW max \in Nat, Len(d) <= max, max <= Ceiling
  PROVE  decompress(codec, x, max) = Plain(d)
  <1>0. Len(d) \in Nat /\ Ceiling \in Nat /\ ~(max > Ceiling) /\ ~(Len(d) > max)
    BY LimitAssumption
  <1>1. CASE codec = "store"
    <2>1. x = Plain(d)
      BY <1>1 DEF compress
    <2> QED
      BY <1>0, <1>1, <2>1, PlainIs DEF decompress, decode_one
  <1>2. CASE codec \notin {"store", "adaptive"}
    <2>1. x = Packed(codec, d)
      BY <1>2 DEF compress
    <2> QED
      BY <1>0, <1>2, <2>1, PackedIs DEF decompress, decode_one
  <1>3. CASE codec = "adaptive"
    <2>1. x \in adaptive_compress(d)
      BY <1>3 DEF compress
    <2>2. decompress(codec, x, max) = adaptive_decompress(x, max)
      BY <1>0, <1>3 DEF decompress
    <2>3. CASE x = Na01(0, d, 0, Plain(d))
      <3>1. /\ x.t = "na01" /\ x.method = 0 /\ x.size = Len(d) /\ x.digest = d
            /\ x.payload = Plain(d) /\ x.head
        BY <2>3, Na01Is
      <3>2. decode_one("store", x.payload, x.size) = Plain(d)
        BY <1>0, <3>1, PlainIs DEF decode_one
      <3> QED
        BY <1>0, <2>2, <3>1, <3>2, PlainIs DEF adaptive_decompress
    <2>4. CASE x = Na01(1, d, 0, Packed("zlib", d))
      <3>1. /\ x.t = "na01" /\ x.method = 1 /\ x.size = Len(d) /\ x.digest = d
            /\ x.payload = Packed("zlib", d) /\ x.head
        BY <2>4, Na01Is
      <3>2. decode_one("zlib", x.payload, x.size) = Plain(d)
        BY <1>0, <3>1, PackedIs DEF decode_one
      <3> QED
        BY <1>0, <2>2, <3>1, <3>2, PlainIs DEF adaptive_decompress
    <2>5. CASE \E s \in Strides : x = Na01(4, d, s, Packed("zlib", Predict(d, s)))
      <3>1. PICK s \in Strides : x = Na01(4, d, s, Packed("zlib", Predict(d, s)))
        BY <2>5
      <3>2. s \in Nat \ {0}
        BY LimitAssumption
      <3>3. PICK e : e = Predict(d, s)
        OBVIOUS
      <3>4. Len(e) = Len(d) /\ Unpredict(e, s) = d
        BY <3>2, <3>3, PredictIs, Unpredicted
      <3>5. /\ x.t = "na01" /\ x.method = 4 /\ x.size = Len(d) /\ x.digest = d
            /\ x.payload = Packed("zlib", e) /\ x.head /\ x.stride = s
        BY <3>1, <3>3, Na01Is
      <3>6. decode_one("zlib", x.payload, x.size) = Plain(e)
        BY <1>0, <3>4, <3>5, PackedIs DEF decode_one
      <3> QED
        BY <1>0, <2>2, <3>4, <3>5, <3>6, PlainIs DEF adaptive_decompress
    <2> QED
      BY <2>1, <2>3, <2>4, <2>5 DEF adaptive_compress
  <1> QED
    BY <1>1, <1>2, <1>3
-------------------------------------------------------------------------------
(* Content that is cut off or altered.                                     *)

LEMMA PlainFaces ==
  ASSUME NEW x, PlainOk(x), NEW v \in Faces(x)
  PROVE  PlainOk(v)
  <1>1. x.t = "plain" /\ x.d \in Seq({0, 1})
    BY DEF PlainOk
  <1>2. CASE v = x
    BY <1>2
  <1>3. CASE v \in CutOff(x)
    <2>1. v = Plain(SubSeq(x.d, 1, Len(x.d) \div 2))
      BY <1>1, <1>3 DEF CutOff
    <2>2. PICK d : d = x.d
      OBVIOUS
    <2>3. PICK n : n = Len(d)
      OBVIOUS
    <2>4. PICK h : h = n \div 2
      OBVIOUS
    <2>5. d \in Seq({0, 1}) /\ n \in Nat /\ \A i \in 1..n : d[i] \in {0, 1}
      BY <1>1, <2>2, <2>3
    <2>6. h \in Nat /\ h <= n
      BY <2>4, <2>5
    <2>7. \A i \in 1..h : d[i] \in {0, 1}
      BY <2>5, <2>6
    <2>8. SubSeq(d, 1, h) \in Seq({0, 1})
      BY <2>3, <2>5, <2>6, <2>7
    <2>9. v = Plain(SubSeq(d, 1, h))
      BY <2>1, <2>2, <2>3, <2>4
    <2> QED
      BY <2>8, <2>9, PlainIs
  <1>4. CASE v \in Altered(x)
    <2>1. v = Plain(Append(x.d, 0))
      BY <1>1, <1>4 DEF Altered
    <2>2. Append(x.d, 0) \in Seq({0, 1})
      BY <1>1
    <2> QED
      BY <2>1, <2>2, PlainIs
  <1> QED
    BY <1>2, <1>3, <1>4 DEF Faces

LEMMA PackedFaces ==
  ASSUME NEW x, x.t = "packed", x = Packed(x.codec, x.d), NEW v \in Faces(x)
  PROVE  v.t = "packed" /\ v.d = x.d /\ v.codec = x.codec
  <1>1. CASE v = x
    BY <1>1
  <1>2. CASE \E u : v = [x EXCEPT !.is = u]
    BY <1>2 DEF Packed
  <1>3. v \in CutOff(x) => \E u : v = [x EXCEPT !.is = u]
    BY DEF CutOff
  <1>4. v \in Altered(x) => \E u : v = [x EXCEPT !.is = u]
    BY DEF Altered
  <1> QED
    BY <1>1, <1>2, <1>3, <1>4 DEF Faces

LEMMA Na01Faces ==
  ASSUME NEW x, x.t = "na01", x = Na01(x.method, x.digest, x.stride, x.payload), NEW v \in Faces(x)
  PROVE  /\ v.t = "na01"
         /\ v.digest = x.digest \/ (v.digest = Append(x.digest, 1) /\ v.size = Len(x.digest))
  <1>0. x = [t |-> "na01", method |-> x.method, size |-> x.size, digest |-> x.digest,
             stride |-> x.stride, payload |-> x.payload, head |-> x.head]
        /\ x.size = Len(x.digest)
    <2>1. PICK m, d, s, p : m = x.method /\ d = x.digest /\ s = x.stride /\ p = x.payload
      OBVIOUS
    <2>2. x = Na01(m, d, s, p)
      BY <2>1
    <2> QED
      BY <2>1, <2>2 DEF Na01
  <1>1. CASE v = x
    BY <1>1
  <1>2. CASE \E u : \/ v = [x EXCEPT !.head = u] \/ v = [x EXCEPT !.payload = u]
                    \/ v = [x EXCEPT !.method = u] \/ v = [x EXCEPT !.size = u]
                    \/ v = [x EXCEPT !.stride = u]
    BY <1>0, <1>2
  <1>3. CASE v = [x EXCEPT !.digest = Append(@, 1)]
    BY <1>0, <1>3
  <1>4. v \in CutOff(x) => \E u : v = [x EXCEPT !.head = u] \/ v = [x EXCEPT !.payload = u]
    <2> SUFFICES ASSUME v \in CutOff(x)
                 PROVE  \E u : v = [x EXCEPT !.head = u] \/ v = [x EXCEPT !.payload = u]
      OBVIOUS
    <2>1. \/ v = [x EXCEPT !.head = FALSE]
          \/ v = [x EXCEPT !.payload = IF @.t = "plain"
                                         THEN Plain(SubSeq(@.d, 1, Len(@.d) \div 2))
                                         ELSE [@ EXCEPT !.is = "cut"]]
      BY DEF CutOff
    <2> QED
      BY <2>1
  <1>5. v \in Altered(x) =>
          \/ v = [x EXCEPT !.digest = Append(@, 1)]
          \/ \E u : \/ v = [x EXCEPT !.payload = u] \/ v = [x EXCEPT !.method = u]
                    \/ v = [x EXCEPT !.size = u] \/ v = [x EXCEPT !.stride = u]
    <2> SUFFICES ASSUME v \in Altered(x)
                 PROVE  \/ v = [x EXCEPT !.digest = Append(@, 1)]
                        \/ \E u : \/ v = [x EXCEPT !.payload = u] \/ v = [x EXCEPT !.method = u]
                                  \/ v = [x EXCEPT !.size = u] \/ v = [x EXCEPT !.stride = u]
      OBVIOUS
    <2>1. \/ \E u : v = [x EXCEPT !.method = u] \/ v = [x EXCEPT !.size = u]
                    \/ v = [x EXCEPT !.stride = u] \/ v = [x EXCEPT !.payload.is = u]
          \/ v = [x EXCEPT !.digest = Append(@, 1)]
          \/ v = [x EXCEPT !.payload.d = [i \in DOMAIN @ |-> 1 - (@[i] % 2)]]
          \/ v = [x EXCEPT !.payload.d = Append(@, 0)]
      BY DEF Altered
    <2> QED
      BY <2>1
  <1> QED
    BY <1>1, <1>2, <1>3, <1>4, <1>5 DEF Faces

LEMMA NrxFaces ==
  ASSUME NEW x, x.t = "nrx1",
         x = [t |-> "nrx1", codec |-> x.codec, key |-> x.key, sealed |-> x.sealed, is |-> "whole"],
         NEW v \in Faces(x)
  PROVE  v.t = "nrx1" /\ v.sealed = x.sealed /\ v.codec = x.codec
  <1>1. CASE v = x
    BY <1>1
  <1>2. CASE \E u : v = [x EXCEPT !.is = u]
    BY <1>2
  <1>3. v \in CutOff(x) => \E u : v = [x EXCEPT !.is = u]
    BY DEF CutOff
  <1>4. v \in Altered(x) => \E u : v = [x EXCEPT !.is = u]
    BY DEF Altered
  <1> QED
    BY <1>1, <1>2, <1>3, <1>4 DEF Faces

LEMMA ArchiveFaces ==
  ASSUME NEW x, x.t = "archive", x = [t |-> "archive", of |-> x.of, is |-> "whole"], NEW v \in Faces(x)
  PROVE  v.t = "archive"
  <1>1. CASE v = x
    BY <1>1
  <1>2. CASE \E u : v = [x EXCEPT !.is = u]
    BY <1>2
  <1>3. v \in CutOff(x) => \E u : v = [x EXCEPT !.is = u]
    BY DEF CutOff
  <1>4. v \in Altered(x) => \E u : v = [x EXCEPT !.is = u]
    BY DEF Altered
  <1> QED
    BY <1>1, <1>2, <1>3, <1>4 DEF Faces

-------------------------------------------------------------------------------
(* What undoing gives.                                                     *)

\* One codec gives plain data; with a checksum, none but what was packed.
LEMMA DecodedOne ==
  ASSUME NEW codec, NEW x, NEW max, NEW r, r = decode_one(codec, x, max), r # Err
  PROVE  /\ r.t = "plain"
         /\ PlainOk(x) \/ (x.t = "packed" /\ x.d \in Seq({0, 1})) => PlainOk(r)
         /\ codec = "zlib" => x.t = "packed" /\ r = Plain(x.d)
  <1>1. CASE codec = "store"
    BY <1>1 DEF decode_one, PlainOk
  <1>2. CASE codec # "store"
    <2>1. x.t = "packed" /\ x.codec = codec
      BY <1>2 DEF decode_one
    <2>2. CASE x.is = "whole"
      <3>1. r = Plain(x.d)
        BY <1>2, <2>1, <2>2 DEF decode_one
      <3> QED
        BY <2>1, <3>1, PlainIs DEF PlainOk
    <2>3. CASE x.is # "whole"
      <3>1. codec = "deflate" /\ x.d # <<>> /\ r = Plain([x.d EXCEPT ![1] = 1 - (@ % 2)])
        BY <1>2, <2>1, <2>3 DEF decode_one
      <3>2. x.d \in Seq({0, 1}) => [x.d EXCEPT ![1] = 1 - (@ % 2)] \in Seq({0, 1})
        <4> SUFFICES ASSUME x.d \in Seq({0, 1})
                     PROVE  [x.d EXCEPT ![1] = 1 - (@ % 2)] \in Seq({0, 1})
          OBVIOUS
        <4>1. Len(x.d) \in Nat \ {0} /\ x.d[1] \in {0, 1}
          BY <3>1
        <4>2. 1 - (x.d[1] % 2) \in {0, 1}
          BY <4>1
        <4> QED
          BY <4>1, <4>2
      <3> QED
        BY <2>1, <3>1, <3>2, PlainIs DEF PlainOk
    <2> QED
      BY <2>2, <2>3
  <1> QED
    BY <1>1, <1>2

\* The adaptive container gives data of the length and the digest it states.
LEMMA DecodedAdaptive ==
  ASSUME NEW x, NEW max, NEW r, r = adaptive_decompress(x, max), r # Err
  PROVE  x.t = "na01" /\ r = Plain(x.digest) /\ Len(x.digest) = x.size
  <1>1. PICK raw : raw = decode_one(IF x.method = 0 THEN "store" ELSE "zlib", x.payload, x.size)
    OBVIOUS
  <1>2. PICK d : d = IF raw = Err THEN <<>>
                     ELSE IF x.method = 4 THEN Unpredict(raw.d, x.stride) ELSE raw.d
    OBVIOUS
  <1>3. r = IF x.t # "na01" \/ max > Ceiling THEN Err
            ELSE IF ~x.head \/ x.size > max \/ x.method \notin {0, 1, 4} THEN Err
            ELSE IF x.method = 4 /\ x.stride \notin Strides THEN Err
            ELSE IF raw = Err \/ Len(d) # x.size \/ d # x.digest THEN Err ELSE Plain(d)
    BY <1>1, <1>2 DEF adaptive_decompress
  <1> QED
    BY <1>3

LEMMA DecodedAny ==
  ASSUME NEW codec, NEW x, NEW max, NEW r, r = decompress(codec, x, max), r # Err
  PROVE  r.t = "plain"
  <1>1. CASE codec = "adaptive"
    <2>1. r = adaptive_decompress(x, max)
      BY <1>1 DEF decompress
    <2> QED
      BY <2>1, DecodedAdaptive, PlainIs
  <1>2. CASE codec # "adaptive"
    <2>1. r = decode_one(codec, x, max)
      BY <1>2 DEF decompress
    <2> QED
      BY <2>1, DecodedOne
  <1> QED
    BY <1>1, <1>2

\* A face of what a command made, decompressed: plain data, and where there is
\* a checksum none but the original.
LEMMA FaceDecoded ==
  ASSUME NEW c, Fresh(c), NEW x \in Faces(c), NEW codec, NEW max,
         NEW r, r = decompress(codec, x, max), r # Err
  PROVE  /\ PlainOk(r)
         /\ codec = "zlib" => c.t = "packed" /\ r = Plain(c.d)
         /\ codec = "adaptive" => c.t = "na01" /\ r = Plain(c.digest)
  <1>1. CASE codec = "adaptive"
    <2>1. r = adaptive_decompress(x, max)
      BY <1>1 DEF decompress
    <2>2. x.t = "na01" /\ r = Plain(x.digest) /\ Len(x.digest) = x.size
      BY <2>1, DecodedAdaptive
    <2>3. /\ c.t = "na01" /\ c = Na01(c.method, c.digest, c.stride, c.payload)
          /\ c.digest \in Seq({0, 1})
      BY <2>2, PlainFaces, PackedFaces, NrxFaces, ArchiveFaces DEF Fresh, Inner, PlainOk
    <2>4. x.digest = c.digest
      <3>1. CASE x.digest = Append(c.digest, 1) /\ x.size = Len(c.digest)
        BY <2>2, <2>3, <3>1
      <3> QED
        BY <2>3, <3>1, Na01Faces
    <2> QED
      BY <1>1, <2>2, <2>3, <2>4, PlainIs
  <1>2. CASE codec # "adaptive"
    <2>1. r = decode_one(codec, x, max)
      BY <1>2 DEF decompress
    <2>2. x.t \in {"plain", "packed"}
      BY <1>2, <2>1 DEF decode_one
    <2>3. CASE PlainOk(c)
      BY <1>2, <2>1, <2>3, PlainFaces, DecodedOne DEF PlainOk
    <2>4. CASE c.t = "packed" /\ c = Packed(c.codec, c.d) /\ c.d \in Seq({0, 1})
      <3>1. x.t = "packed" /\ x.d = c.d
        BY <2>4, PackedFaces
      <3> QED
        BY <1>2, <2>1, <2>4, <3>1, DecodedOne
    <2> QED
      BY <2>2, <2>3, <2>4, Na01Faces, NrxFaces, ArchiveFaces DEF Fresh, Inner
  <1> QED
    BY <1>1, <1>2

\* What was made, undone without harm, is the original or fails.
LEMMA Back ==
  ASSUME NEW codec, NEW d \in Seq({0, 1}), NEW x \in compress(codec, d), NEW max,
         NEW r, r = decompress(codec, x, max), r # Err
  PROVE  r = Plain(d)
  <1>1. CASE codec = "store"
    <2>1. x = Plain(d) /\ r = decode_one(codec, x, max)
      BY <1>1 DEF compress, decompress
    <2> QED
      BY <1>1, <2>1 DEF decode_one
  <1>2. CASE codec = "adaptive"
    <2>1. r = adaptive_decompress(x, max)
      BY <1>2 DEF decompress
    <2> QED
      BY <2>1, Compressed, DecodedAdaptive
  <1>3. CASE codec \notin {"store", "adaptive"}
    <2>1. x = Packed(codec, d) /\ r = decode_one(codec, x, max)
      BY <1>3 DEF compress, decompress
    <2>2. x.t = "packed" /\ x.is = "whole" /\ x.d = d
      BY <2>1, PackedIs
    <2> QED
      BY <1>3, <2>1, <2>2 DEF decode_one
  <1> QED
    BY <1>1, <1>2, <1>3

LEMMA Decrypted ==
  ASSUME NEW x, NEW key, NEW max, NEW r, r = decrypt(x, key, max), r # Err
  PROVE  x.t = "nrx1" /\ r = decompress(x.codec, x.sealed, max) /\ r.t = "plain"
  <1>1. x.t = "nrx1" /\ r = decompress(x.codec, x.sealed, max)
    BY DEF decrypt
  <1> QED
    BY <1>1, DecodedAny

LEMMA FaceDecrypted ==
  ASSUME NEW c, Fresh(c), NEW x \in Faces(c), NEW key, NEW max,
         NEW r, r = decrypt(x, key, max), r # Err
  PROVE  c.t = "nrx1" /\ r = decompress(c.codec, c.sealed, max) /\ PlainOk(r)
  <1>1. x.t = "nrx1" /\ r = decompress(x.codec, x.sealed, max)
    BY Decrypted
  <1>2. /\ c.t = "nrx1" /\ Inner(c.sealed)
        /\ c = [t |-> "nrx1", codec |-> c.codec, key |-> c.key, sealed |-> c.sealed, is |-> "whole"]
    BY <1>1, PlainFaces, PackedFaces, Na01Faces, ArchiveFaces DEF Fresh, Inner, PlainOk
  <1>3. x.sealed = c.sealed /\ x.codec = c.codec
    BY <1>2, NrxFaces
  <1>4. Fresh(c.sealed) /\ c.sealed \in Faces(c.sealed)
    BY <1>2 DEF Fresh, Faces
  <1>5. PlainOk(r)
    BY <1>1, <1>3, <1>4, FaceDecoded
  <1> QED
    BY <1>1, <1>2, <1>3, <1>5

-------------------------------------------------------------------------------
(* What jobs compute.                                                      *)

LEMMA EncryptIs ==
  ASSUME NEW d \in Seq({0, 1}), NEW key, NEW codec, NEW x \in encrypt(d, key, codec), x # Err
  PROVE  /\ Fresh(x) /\ x.t = "nrx1" /\ x.codec = codec /\ x.key = key /\ x.is = "whole"
         /\ x.sealed \in compress(codec, d) /\ key # NoKey /\ ~(Len(d) > DefaultLimit)
  <1>1. key # NoKey /\ ~(Len(d) > DefaultLimit)
    BY DEF encrypt
  <1>2. PICK inner \in compress(codec, d) :
           x = [t |-> "nrx1", codec |-> codec, key |-> key, sealed |-> inner, is |-> "whole"]
    BY <1>1 DEF encrypt
  <1>3. Inner(inner)
    BY Compressed
  <1>4. x.t = "nrx1" /\ x.codec = codec /\ x.key = key /\ x.is = "whole" /\ x.sealed = inner
    BY <1>2
  <1>5. Fresh(x)
    BY <1>2, <1>3, <1>4 DEF Fresh
  <1> QED
    BY <1>1, <1>4, <1>5

LEMMA SeenFace ==
  ASSUME NEW f, NEW x, NEW made, Seen(f, x, made)
  PROVE  \E c : Fresh(c) /\ x \in Faces(c)
  <1>1. CASE PlainOk(x)
    BY <1>1 DEF Fresh, Inner, Faces
  <1>2. CASE ~PlainOk(x)
    BY <1>2 DEF Seen, Done
  <1> QED
    BY <1>1, <1>2

\* What a job computes from what it may have read is fresh.
LEMMA ResultFresh ==
  ASSUME NEW job \in Jobs, NEW read, NEW made, ReadOk(job, read, made),
         NEW r \in Results(job, read), r # Err
  PROVE  r \in Done([job |-> job, read |-> read])
  <1>1. job.cmd \in {"compress", "decompress", "encrypt", "decrypt", "create"}
    BY JobsAssumption
  <1>2. CASE job.cmd = "compress"
    <2>1. r \in compress(job.codec, read[1].d) /\ read[1].d \in Seq({0, 1})
      BY <1>2 DEF Results, ReadOk, PlainOk
    <2>2. Fresh(r)
      BY <2>1, Compressed DEF Fresh
    <2> QED
      BY <2>2 DEF Done
  <1>3. CASE job.cmd = "encrypt"
    <2>1. r \in encrypt(read[1].d, job.key, job.codec) /\ read[1].d \in Seq({0, 1})
      BY <1>3 DEF Results, ReadOk, PlainOk
    <2>2. Fresh(r)
      BY <2>1, EncryptIs
    <2> QED
      BY <2>2 DEF Done
  <1>4. CASE job.cmd \in {"decompress", "decrypt"}
    <2>1. PICK x : x = read[1]
      OBVIOUS
    <2>2. Seen(job.ins[1], x, made)
      BY <1>4, <2>1 DEF ReadOk
    <2>3. PICK c : Fresh(c) /\ x \in Faces(c)
      BY <2>2, SeenFace
    <2>4. r = decompress(job.codec, x, job.max) \/ r = decrypt(x, job.key, job.max)
      BY <1>4, <2>1 DEF Results
    <2>5. PlainOk(r)
      BY <2>3, <2>4, FaceDecoded, FaceDecrypted
    <2> QED
      BY <2>5 DEF Done, Fresh, Inner
  <1>5. CASE job.cmd = "create"
    <2>1. r = [t |-> "archive", of |-> read, is |-> "whole"]
      BY <1>5 DEF Results
    <2>2. Fresh(r)
      BY <2>1 DEF Fresh
    <2> QED
      BY <2>2 DEF Done
  <1> QED
    BY <1>1, <1>2, <1>3, <1>4, <1>5

\* What a finished job's result was made from.
LEMMA MadeFrom ==
  ASSUME NEW m, m.job \in Jobs, m.job.cmd \in {"compress", "encrypt"} => PlainOk(m.read[1]),
         NEW c \in Done(m)
  PROVE  /\ c.t = "packed" => PlainOk(m.read[1]) /\ c.d = m.read[1].d
         /\ c.t = "na01" => PlainOk(m.read[1]) /\ c.digest = m.read[1].d
         /\ c.t = "nrx1" => PlainOk(m.read[1]) /\ c.sealed \in compress(c.codec, m.read[1].d)
  <1>1. /\ c \in Results(m.job, m.read) /\ c # Err
        /\ m.job.cmd \in {"compress", "decompress", "encrypt", "decrypt", "create"}
    BY JobsAssumption DEF Done
  <1>2. CASE m.job.cmd = "compress"
    <2>1. c \in compress(m.job.codec, m.read[1].d) /\ PlainOk(m.read[1]) /\ m.read[1].d \in Seq({0, 1})
      BY <1>1, <1>2 DEF Results, PlainOk
    <2>2. /\ c.t = "packed" => c.d = m.read[1].d
          /\ c.t = "na01" => c.digest = m.read[1].d
          /\ c.t \in {"plain", "packed", "na01"}
      BY <2>1, Compressed
    <2> QED
      BY <2>1, <2>2
  <1>3. CASE m.job.cmd = "encrypt"
    <2>1. /\ c \in encrypt(m.read[1].d, m.job.key, m.job.codec) /\ PlainOk(m.read[1])
          /\ m.read[1].d \in Seq({0, 1})
      BY <1>1, <1>3 DEF Results, PlainOk
    <2>2. c.t = "nrx1" /\ c.codec = m.job.codec /\ c.sealed \in compress(m.job.codec, m.read[1].d)
      BY <1>1, <2>1, EncryptIs
    <2> QED
      BY <2>1, <2>2
  <1>4. CASE m.job.cmd \in {"decompress", "decrypt"}
    <2>1. \/ c = decompress(m.job.codec, m.read[1], m.job.max)
          \/ c = decrypt(m.read[1], m.job.key, m.job.max)
      BY <1>1, <1>4 DEF Results
    <2>2. c.t = "plain"
      BY <1>1, <2>1, DecodedAny, Decrypted
    <2> QED
      BY <2>2
  <1>5. CASE m.job.cmd = "create"
    <2>1. c.t = "archive"
      BY <1>1, <1>5 DEF Results
    <2> QED
      BY <2>1
  <1> QED
    BY <1>1, <1>2, <1>3, <1>4, <1>5

\* Where the result is checked it is what its input was made from.
LEMMA CheckedIsOrigin ==
  ASSUME NEW job \in Jobs, Checked(job), NEW read, NEW made, ReadOk(job, read, made),
         NEW r \in Results(job, read), r # Err,
         \A f \in DOMAIN made :
           made[f].job \in Jobs /\ (made[f].job.cmd \in {"compress", "encrypt"} => PlainOk(made[f].read[1]))
  PROVE  job.ins[1] \in DOMAIN made /\ r = made[job.ins[1]].read[1]
  <1>1. PICK x : x = read[1]
    OBVIOUS
  <1>2. PICK f : f = job.ins[1]
    OBVIOUS
  <1>3. /\ job.cmd \in {"decompress", "decrypt"}
        /\ job.cmd = "decompress" => job.codec \in {"zlib", "adaptive"}
        /\ Seen(f, x, made)
    BY <1>1, <1>2 DEF Checked, ReadOk
  <1>4. /\ job.cmd = "decompress" => r = decompress(job.codec, x, job.max)
        /\ job.cmd = "decrypt" => r = decrypt(x, job.key, job.max)
    BY <1>1, <1>3 DEF Results
  <1>5. ~PlainOk(x)
    <2> SUFFICES ASSUME PlainOk(x) PROVE FALSE
      OBVIOUS
    <2>1. Fresh(x) /\ x \in Faces(x) /\ x.t = "plain"
      BY DEF Fresh, Inner, Faces, PlainOk
    <2> QED
      BY <1>3, <1>4, <2>1, FaceDecoded, FaceDecrypted
  <1>6. f \in DOMAIN made
    BY <1>3, <1>5 DEF Seen
  <1>7. PICK c \in Done(made[f]) : x \in Faces(c)
    BY <1>3, <1>5 DEF Seen
  <1>8. PICK m : m = made[f]
    OBVIOUS
  <1>9. /\ c.t = "packed" => PlainOk(m.read[1]) /\ c.d = m.read[1].d
        /\ c.t = "na01" => PlainOk(m.read[1]) /\ c.digest = m.read[1].d
        /\ c.t = "nrx1" => PlainOk(m.read[1]) /\ c.sealed \in compress(c.codec, m.read[1].d)
    BY <1>6, <1>7, <1>8, MadeFrom
  <1>10. Fresh(c)
    BY <1>7 DEF Done
  <1>11. CASE job.cmd = "decompress"
    <2>1. (c.t = "packed" /\ r = Plain(c.d)) \/ (c.t = "na01" /\ r = Plain(c.digest))
      BY <1>3, <1>4, <1>7, <1>10, <1>11, FaceDecoded
    <2>2. r = m.read[1]
      BY <1>9, <2>1 DEF PlainOk
    <2> QED
      BY <1>2, <1>6, <1>8, <2>2
  <1>12. CASE job.cmd = "decrypt"
    <2>1. c.t = "nrx1" /\ r = decompress(c.codec, c.sealed, job.max)
      BY <1>4, <1>7, <1>10, <1>12, FaceDecrypted
    <2>2. PlainOk(m.read[1]) /\ c.sealed \in compress(c.codec, m.read[1].d)
      BY <1>9, <2>1
    <2>3. r = Plain(m.read[1].d)
      BY <2>1, <2>2, Back DEF PlainOk
    <2>4. r = m.read[1]
      BY <2>2, <2>3 DEF PlainOk
    <2> QED
      BY <1>2, <1>6, <1>8, <2>4
  <1> QED
    BY <1>3, <1>11, <1>12

-------------------------------------------------------------------------------
(* What a command read stays explained while files are added.              *)

LEMMA RunOkKept ==
  ASSUME NEW run, NEW made, NEW more, RunOk(run, made),
         \A g \in DOMAIN made : g \in DOMAIN more /\ more[g] = made[g]
  PROVE  RunOk(run, more)
  <1>1. \A f, x : Seen(f, x, made) => Seen(f, x, more)
    BY DEF Seen
  <1>2. \A job, read : ReadOk(job, read, made) => ReadOk(job, read, more)
    BY <1>1 DEF ReadOk
  <1> QED
    BY <1>2 DEF RunOk

\* What a reader sees of a file is explained, and plain if it looks plain.
LEMMA ViewSeen ==
  ASSUME CmdData, NEW f \in DOMAIN cmdFiles, NEW x \in Views(f)
  PROVE  Seen(f, x, cmdMade)
  <1>1. CASE f \notin DOMAIN cmdMade
    <2>1. cmdFiles[f].n = "whole" /\ PlainOk(cmdFiles[f].c)
      BY <1>1 DEF CmdData
    <2>2. x = cmdFiles[f].c
      BY <2>1 DEF Views
    <2> QED
      BY <2>1, <2>2 DEF Seen
  <1>2. CASE f \in DOMAIN cmdMade
    <2>1. MadeOk(cmdMade[f], cmdFiles[f], cmdDamaged)
      BY <1>2 DEF CmdData
    <2>2. PICK c \in Done(cmdMade[f]) :
             IF cmdDamaged /\ cmdFiles[f].n = "whole" THEN cmdFiles[f].c \in Faces(c)
             ELSE cmdFiles[f].c = c
      BY <2>1 DEF MadeOk
    <2>3. cmdFiles[f].n \in {"empty", "half", "whole"}
      BY <2>1 DEF MadeOk
    <2>4. CASE cmdFiles[f].n = "empty"
      <3>1. x = Plain(<<>>)
        BY <2>4 DEF Views
      <3>2. <<>> \in Seq({0, 1})
        OBVIOUS
      <3>3. PlainOk(Plain(<<>>))
        BY <3>2, PlainIs
      <3> QED
        BY <3>1, <3>3 DEF Seen
    <2>5. CASE cmdFiles[f].n = "half"
      <3>1. x \in CutOff(cmdFiles[f].c) /\ cmdFiles[f].c = c
        BY <2>2, <2>5 DEF Views
      <3>2. x \in Faces(c)
        BY <3>1 DEF Faces
      <3> QED
        BY <1>2, <3>2 DEF Seen
    <2>6. CASE cmdFiles[f].n = "whole"
      <3>1. x = cmdFiles[f].c
        BY <2>6 DEF Views
      <3>2. x \in Faces(c)
        BY <2>2, <3>1 DEF Faces
      <3> QED
        BY <1>2, <3>2 DEF Seen
    <2> QED
      BY <2>3, <2>4, <2>5, <2>6
  <1> QED
    BY <1>1, <1>2

LEMMA SeenPlain ==
  ASSUME NEW f, NEW x, NEW made, Seen(f, x, made), x.t = "plain"
  PROVE  PlainOk(x)
  <1>1. PICK c : Fresh(c) /\ x \in Faces(c)
    BY SeenFace
  <1>2. PlainOk(c)
    BY <1>1, PackedFaces, Na01Faces, NrxFaces, ArchiveFaces DEF Fresh, Inner
  <1> QED
    BY <1>1, <1>2, PlainFaces

-------------------------------------------------------------------------------
(* Steps and the data.                                                     *)

LEMMA QuietData ==
  ASSUME NEW p \in Proc, CmdInv, CmdData, UNCHANGED <<cmdFiles, cmdMade, cmdDamaged>>,
         NEW r, cmdRun' = [cmdRun EXCEPT ![p] = r], RunOk(r, cmdMade)
  PROVE  CmdData'
  <1>1. \A q \in Proc : cmdRun'[q] = IF q = p THEN r ELSE cmdRun[q]
    BY DEF CmdInv, CmdShape
  <1>2. \A q \in Proc : RunOk(cmdRun'[q], cmdMade)
    BY <1>1 DEF CmdData
  <1> QED
    BY <1>2 DEF CmdData

LEMMA ExitData ==
  ASSUME NEW p \in Proc, CmdInv, CmdData, UNCHANGED <<cmdFiles, cmdMade, cmdDamaged>>,
         NEW how \in {"failed", "killed"}, Exit(p, how)
  PROVE  CmdData'
  <1> DEFINE r == [Resting EXCEPT !.status = how]
  <1>1. cmdRun' = [cmdRun EXCEPT ![p] = r]
    BY DEF Exit, Put
  <1>2. r = [pc |-> "idle", job |-> NoJob, read |-> <<>>, out |-> Err, status |-> how]
    BY DEF Resting
  <1>3. RunOk(r, cmdMade)
    BY <1>2 DEF RunOk
  <1> HIDE DEF r
  <1> QED
    BY <1>1, <1>3, QuietData

LEMMA StartData ==
  ASSUME NEW p \in Proc, CmdInv, CmdData, Start(p)
  PROVE  CmdData'
  <1>1. PICK job \in Jobs :
          cmdRun' = [cmdRun EXCEPT ![p] = [Resting EXCEPT !.pc = "read", !.job = job]]
    BY DEF Start, Put
  <1> DEFINE r == [Resting EXCEPT !.pc = "read", !.job = job]
  <1>2. Resting.read = <<>> /\ Resting.status = "none"
    BY DEF Resting
  <1>3. r.pc = "read" /\ r.job = job /\ r.read = <<>> /\ r.status = "none"
    BY <1>2 DEF Resting
  <1>4. cmdRun' = [cmdRun EXCEPT ![p] = r] /\ UNCHANGED <<cmdFiles, cmdMade, cmdDamaged>>
    BY <1>1 DEF Start
  <1> HIDE DEF r
  <1>5. RunOk(r, cmdMade)
    BY <1>3 DEF RunOk
  <1> QED
    BY <1>4, <1>5, QuietData

LEMMA ReadInputData ==
  ASSUME NEW p \in Proc, CmdInv, CmdData, ReadInput(p)
  PROVE  CmdData'
  <1>1. UNCHANGED <<cmdFiles, cmdMade, cmdDamaged>> /\ cmdRun[p].pc = "read"
    BY DEF ReadInput
  <1>2. CASE Exit(p, "failed")
    BY <1>1, <1>2, ExitData
  <1>3. CASE ~Exit(p, "failed")
    <2>1. PICK run : run = cmdRun[p]
      OBVIOUS
    <2>2. PICK f : f = run.job.ins[Len(run.read) + 1]
      OBVIOUS
    <2>3. PICK x \in Views(f) :
             /\ TakesAnyBytes(run.job) => x.t = "plain"
             /\ cmdRun' = [cmdRun EXCEPT ![p] = [run EXCEPT !.read = Append(@, x)]]
      BY <1>3, <2>1, <2>2 DEF ReadInput, Put
    <2>4. f \in DOMAIN cmdFiles /\ Len(run.read) + 1 <= Len(run.job.ins)
      BY <1>3, <2>1, <2>2 DEF ReadInput, Exists
    <2>5. /\ run = [pc |-> "read", job |-> run.job, read |-> run.read, out |-> run.out,
                    status |-> run.status]
          /\ RunOk(run, cmdMade) /\ run.job \in Jobs
      BY <1>1, <2>1 DEF CmdInv, CmdShape, CmdData, RunOk
    <2>6. PICK r : r = [run EXCEPT !.read = Append(@, x)]
      OBVIOUS
    <2>7. /\ r.pc = "read" /\ r.job = run.job /\ r.read = Append(run.read, x)
          /\ r.out = run.out /\ r.status = run.status
      BY <2>5, <2>6
    <2>8. ReadOk(run.job, Append(run.read, x), cmdMade)
      <3>1. CASE run.job.cmd = "create"
        BY <3>1 DEF ReadOk
      <3>2. CASE run.job.cmd # "create"
        <4>1. Len(run.job.ins) = 1
          BY <2>5, <3>2, JobsAssumption
        <4>2. run.read = <<>>
          <5>1. CASE ReadOk(run.job, run.read, cmdMade)
            <6>1. run.read = <<run.read[1]>>
              BY <3>2, <5>1 DEF ReadOk
            <6>2. \A z : Len(<<z>>) = 1
              OBVIOUS
            <6>3. Len(run.read) = 1
              BY <6>1, <6>2
            <6> QED
              BY <2>4, <4>1, <6>3
          <5> QED
            BY <2>5, <5>1 DEF RunOk
        <4>3. Append(run.read, x) = <<x>> /\ f = run.job.ins[1]
          BY <2>2, <4>2
        <4>4. Seen(f, x, cmdMade)
          BY <2>4, ViewSeen
        <4>5. run.job.cmd \in {"compress", "encrypt"} => PlainOk(x)
          BY <2>3, <4>4, SeenPlain DEF TakesAnyBytes
        <4>6. \A z : z = <<x>> => z[1] = x /\ z = <<z[1]>>
          OBVIOUS
        <4> QED
          BY <4>3, <4>4, <4>5, <4>6 DEF ReadOk
      <3> QED
        BY <3>1, <3>2
    <2>9. RunOk(r, cmdMade)
      BY <2>5, <2>7, <2>8 DEF RunOk
    <2>10. cmdRun' = [cmdRun EXCEPT ![p] = r]
      BY <2>3, <2>6
    <2> QED
      BY <1>1, <2>9, <2>10, QuietData
  <1> QED
    BY <1>2, <1>3

LEMMA ComputeData ==
  ASSUME NEW p \in Proc, CmdInv, CmdData, Compute(p)
  PROVE  CmdData'
  <1>1. UNCHANGED <<cmdFiles, cmdMade, cmdDamaged>>
    BY DEF Compute
  <1>2. PICK run : run = cmdRun[p]
    OBVIOUS
  <1>3. PICK u \in Results(run.job, run.read) :
           IF u = Err THEN Exit(p, "failed") ELSE Put(p, [run EXCEPT !.pc = "open", !.out = u])
    BY <1>2 DEF Compute
  <1>4. CASE u = Err
    BY <1>1, <1>3, <1>4, ExitData
  <1>5. CASE u # Err
    <2>1. /\ IsRun(run) /\ run.pc = "read" /\ RunOk(run, cmdMade) /\ run.job \in Jobs
          /\ Len(run.read) = Len(run.job.ins)
      BY <1>2 DEF Compute, CmdInv, CmdShape, CmdData, RunOk, IsRun
    <2>2. PICK r : r = [run EXCEPT !.pc = "open", !.out = u]
      OBVIOUS
    <2>3. r = [pc |-> "open", job |-> run.job, read |-> run.read, out |-> u, status |-> run.status]
      BY <2>1, <2>2, Updates
    <2>4. /\ r.pc = "open" /\ r.job = run.job /\ r.read = run.read /\ r.out = u
          /\ r.status = run.status
      BY <2>3
    <2>5. ReadOk(run.job, run.read, cmdMade)
      <3>1. CASE run.job.cmd = "create"
        BY <3>1 DEF ReadOk
      <3>2. CASE run.job.cmd # "create"
        <4>1. run.read # <<>>
          <5>1. Len(run.job.ins) = 1
            BY <2>1, <3>2, JobsAssumption
          <5>2. Len(run.read) = 1
            BY <2>1, <5>1
          <5> QED
            BY <5>2, OneIsSome
        <4> QED
          BY <2>1, <4>1 DEF RunOk
      <3> QED
        BY <3>1, <3>2
    <2>6. u \in Done([job |-> run.job, read |-> run.read])
      BY <1>5, <2>1, <2>5, ResultFresh
    <2>7. \A f \in DOMAIN cmdMade :
            /\ cmdMade[f].job \in Jobs
            /\ cmdMade[f].job.cmd \in {"compress", "encrypt"} => PlainOk(cmdMade[f].read[1])
      BY DEF CmdData, MadeOk
    <2>8. Checked(run.job) => /\ run.job.ins[1] \in DOMAIN cmdMade
                              /\ u = cmdMade[run.job.ins[1]].read[1]
      BY <1>5, <2>1, <2>5, <2>7, CheckedIsOrigin
    <2>9. RunOk(r, cmdMade)
      BY <2>1, <2>4, <2>5, <2>6, <2>8 DEF RunOk
    <2>10. cmdRun' = [cmdRun EXCEPT ![p] = r]
      BY <1>3, <1>5, <2>2 DEF Put
    <2> QED
      BY <1>1, <2>9, <2>10, QuietData
  <1> QED
    BY <1>4, <1>5

LEMMA OpenData ==
  ASSUME NEW p \in Proc, CmdInv, CmdData, Open(p)
  PROVE  CmdData'
  <1>1. PICK run : run = cmdRun[p]
    OBVIOUS
  <1>2. PICK f : f = run.job.out
    OBVIOUS
  <1>3. CASE Exists(f)
    <2>1. UNCHANGED <<cmdFiles, cmdMade, cmdDamaged>> /\ Exit(p, "failed")
      BY <1>1, <1>2, <1>3 DEF Open
    <2> QED
      BY <2>1, ExitData
  <1>4. CASE ~Exists(f)
    <2>1. PICK r : r = [run EXCEPT !.pc = "write", !.read = <<>>]
      OBVIOUS
    <2>2. PICK m : m = [job |-> run.job, read |-> run.read]
      OBVIOUS
    <2>3. /\ cmdRun' = [cmdRun EXCEPT ![p] = r] /\ cmdDamaged' = cmdDamaged
          /\ cmdFiles' = With(cmdFiles, f, [c |-> run.out, n |-> "empty"])
          /\ cmdMade' = With(cmdMade, f, m)
      BY <1>1, <1>2, <1>4, <2>1, <2>2 DEF Open, Put
    <2>4. IsRun(run) /\ run.pc = "open" /\ RunOk(run, cmdMade) /\ run.job \in Jobs
      BY <1>1 DEF Open, CmdInv, CmdShape, CmdData, RunOk, IsRun
    <2>5. r = [pc |-> "write", job |-> run.job, read |-> <<>>, out |-> run.out, status |-> run.status]
      BY <2>1, <2>4, Updates
    <2>6. r.pc = "write" /\ r.job = run.job /\ r.out = run.out /\ r.status = run.status
      BY <2>5
    <2>7. f \notin DOMAIN cmdFiles /\ f \notin DOMAIN cmdMade
      BY <1>4 DEF Exists, CmdData
    <2>8. /\ DOMAIN cmdFiles' = DOMAIN cmdFiles \cup {f}
          /\ cmdFiles'[f] = [c |-> run.out, n |-> "empty"]
          /\ \A g \in DOMAIN cmdFiles : cmdFiles'[g] = cmdFiles[g]
          /\ DOMAIN cmdMade' = DOMAIN cmdMade \cup {f}
          /\ cmdMade'[f] = m
          /\ \A g \in DOMAIN cmdMade : cmdMade'[g] = cmdMade[g]
      BY <2>3, <2>7 DEF With
    <2>9. \A q \in Proc : cmdRun'[q] = IF q = p THEN r ELSE cmdRun[q]
      BY <2>3 DEF CmdInv, CmdShape
    <2>10. RunOk(r, cmdMade)
      BY <2>4, <2>6 DEF RunOk
    <2>11. ASSUME NEW q \in Proc PROVE RunOk(cmdRun'[q], cmdMade')
      <3>1. RunOk(cmdRun'[q], cmdMade)
        BY <2>9, <2>10 DEF CmdData
      <3> QED
        BY <2>8, <3>1, RunOkKept
    <2>12. MadeOk(m, [c |-> run.out, n |-> "empty"], cmdDamaged)
      <3>1. /\ ReadOk(run.job, run.read, cmdMade) /\ run.out \in Done(m)
            /\ m.job = run.job /\ m.read = run.read
        BY <2>2, <2>4 DEF RunOk
      <3> QED
        BY <2>4, <3>1 DEF MadeOk, ReadOk
    <2>13. \A g \in DOMAIN cmdMade' : MadeOk(cmdMade'[g], cmdFiles'[g], cmdDamaged')
      BY <2>3, <2>8, <2>12 DEF CmdData
    <2>14. /\ DOMAIN cmdMade' \subseteq DOMAIN cmdFiles'
           /\ \A g \in DOMAIN cmdFiles' \ DOMAIN cmdMade' :
                cmdFiles'[g].n = "whole" /\ PlainOk(cmdFiles'[g].c)
      BY <2>8 DEF CmdData
    <2> QED
      BY <2>11, <2>13, <2>14 DEF CmdData
  <1> QED
    BY <1>3, <1>4

LEMMA WriteData ==
  ASSUME NEW p \in Proc, CmdInv, CmdData, Write(p)
  PROVE  CmdData'
  <1>1. PICK f : f = cmdRun[p].job.out
    OBVIOUS
  <1>2. /\ f \in DOMAIN cmdFiles /\ DOMAIN cmdFiles' = DOMAIN cmdFiles
        /\ \A g \in DOMAIN cmdFiles \ {f} : cmdFiles'[g] = cmdFiles[g]
        /\ cmdFiles'[f] = [c |-> cmdFiles[f].c, n |-> cmdFiles'[f].n]
        /\ \/ cmdFiles[f].n = "empty" /\ cmdFiles'[f].n = "half"
           \/ cmdFiles[f].n = "half" /\ cmdFiles'[f].n = "whole"
    BY <1>1, WriteFile
  <1>3. UNCHANGED <<cmdMade, cmdDamaged>> /\ cmdRun[p].pc = "write"
    BY DEF Write
  <1>4. f \in DOMAIN cmdMade
    BY <1>2 DEF CmdData
  <1>5. cmdFiles'[f].c = cmdFiles[f].c
    BY <1>2
  <1>6. MadeOk(cmdMade[f], cmdFiles'[f], cmdDamaged)
    <2>1. MadeOk(cmdMade[f], cmdFiles[f], cmdDamaged)
      BY <1>4 DEF CmdData
    <2>2. PICK c \in Done(cmdMade[f]) : cmdFiles[f].c = c
      BY <1>2, <2>1 DEF MadeOk
    <2>3. c \in Faces(c)
      BY DEF Faces
    <2> QED
      BY <1>2, <1>5, <2>1, <2>2, <2>3 DEF MadeOk
  <1>7. \A g \in DOMAIN cmdMade : MadeOk(cmdMade[g], cmdFiles'[g], cmdDamaged)
    BY <1>2, <1>6 DEF CmdData
  <1>8. \A q \in Proc : RunOk(cmdRun'[q], cmdMade)
    <2>1. CASE UNCHANGED cmdRun
      BY <2>1 DEF CmdData
    <2>2. CASE Exit(p, "ok")
      <3>1. PICK r : r = [cmdRun[p] EXCEPT !.pc = "idle", !.read = <<>>, !.status = "ok"]
        OBVIOUS
      <3>2. cmdRun' = [cmdRun EXCEPT ![p] = r]
        BY <2>2, <3>1 DEF Exit, Put
      <3>3. IsRun(cmdRun[p]) /\ RunOk(cmdRun[p], cmdMade)
        BY DEF CmdInv, CmdShape, CmdData, IsRun
      <3>4. r = [pc |-> "idle", job |-> cmdRun[p].job, read |-> <<>>, out |-> cmdRun[p].out,
                 status |-> "ok"]
        BY <3>1, <3>3, Updates
      <3>5. r.pc = "idle" /\ r.job = cmdRun[p].job /\ r.out = cmdRun[p].out
        BY <3>4
      <3>6. RunOk(r, cmdMade)
        BY <1>3, <3>3, <3>5 DEF RunOk
      <3>7. \A q \in Proc : cmdRun'[q] = IF q = p THEN r ELSE cmdRun[q]
        BY <3>2 DEF CmdInv, CmdShape
      <3> QED
        BY <3>6, <3>7 DEF CmdData
    <2> QED
      BY <2>1, <2>2 DEF Write
  <1>9. \A g \in DOMAIN cmdFiles \ DOMAIN cmdMade : cmdFiles'[g] = cmdFiles[g]
    BY <1>2, <1>4
  <1> QED
    BY <1>2, <1>3, <1>7, <1>8, <1>9 DEF CmdData

LEMMA DamageData ==
  ASSUME CmdInv, CmdData, Damage
  PROVE  CmdData'
  <1>1. PICK f \in DOMAIN cmdMade :
           /\ cmdFiles[f].n = "whole"
           /\ \E x \in CutOff(cmdFiles[f].c) \cup Altered(cmdFiles[f].c) :
                cmdFiles' = [cmdFiles EXCEPT ![f].c = x]
    BY DEF Damage
  <1>2. PICK x \in CutOff(cmdFiles[f].c) \cup Altered(cmdFiles[f].c) :
           cmdFiles' = [cmdFiles EXCEPT ![f].c = x]
    BY <1>1
  <1>3. ~cmdDamaged /\ cmdDamaged' = TRUE /\ UNCHANGED <<cmdRun, cmdMade>>
    BY DEF Damage
  <1>4. f \in DOMAIN cmdFiles /\ cmdFiles[f] = [c |-> cmdFiles[f].c, n |-> cmdFiles[f].n]
    BY DEF CmdData, CmdInv, CmdShape
  <1>5. cmdFiles' = [cmdFiles EXCEPT ![f] = [cmdFiles[f] EXCEPT !.c = x]]
    BY <1>2
  <1>6. [cmdFiles[f] EXCEPT !.c = x] = [c |-> x, n |-> cmdFiles[f].n]
    BY <1>4
  <1>7. /\ DOMAIN cmdFiles' = DOMAIN cmdFiles
        /\ \A g \in DOMAIN cmdFiles : g # f => cmdFiles'[g] = cmdFiles[g]
        /\ cmdFiles'[f].c = x /\ cmdFiles'[f].n = cmdFiles[f].n
    BY <1>4, <1>5, <1>6
  <1>8. ASSUME NEW g \in DOMAIN cmdMade
        PROVE  MadeOk(cmdMade[g], cmdFiles'[g], TRUE)
    <2>1. MadeOk(cmdMade[g], cmdFiles[g], cmdDamaged)
      BY DEF CmdData
    <2>2. PICK c \in Done(cmdMade[g]) : cmdFiles[g].c = c
      BY <1>3, <2>1 DEF MadeOk
    <2>3. c \in Faces(c) /\ (g = f => x \in Faces(c))
      BY <1>2, <2>2 DEF Faces
    <2>4. /\ cmdFiles'[g].n = cmdFiles[g].n
          /\ cmdFiles'[g].c = IF g = f THEN x ELSE cmdFiles[g].c
      BY <1>7 DEF CmdData
    <2> QED
      BY <1>1, <2>1, <2>2, <2>3, <2>4 DEF MadeOk
  <1>9. \A g \in DOMAIN cmdFiles \ DOMAIN cmdMade : cmdFiles'[g] = cmdFiles[g]
    BY <1>7
  <1> QED
    BY <1>3, <1>7, <1>8, <1>9 DEF CmdData

-------------------------------------------------------------------------------

LEMMA DataStart ==
  ASSUME CmdInit
  PROVE  CmdData
  <1>1. DOMAIN cmdMade = {}
    BY DEF CmdInit
  <1>2. ASSUME NEW f \in DOMAIN cmdFiles
        PROVE  cmdFiles[f].n = "whole" /\ PlainOk(cmdFiles[f].c)
    <2>1. f \in DOMAIN Inputs /\ cmdFiles[f] = [c |-> Plain(Inputs[f]), n |-> "whole"]
      BY DEF CmdInit
    <2> QED
      BY <2>1, InputsAssumption, PlainIs
  <1>3. ASSUME NEW p \in Proc
        PROVE  RunOk(cmdRun[p], cmdMade)
    <2>1. cmdRun[p] = Resting
      BY DEF CmdInit
    <2>2. Resting.pc = "idle" /\ Resting.status = "none"
      BY DEF Resting
    <2> QED
      BY <2>1, <2>2 DEF RunOk
  <1> QED
    BY <1>1, <1>2, <1>3 DEF CmdData

\* Every file is an input or what its job computed from what it read, once
\* damaged at most, and a checked result is what its input was made from.
THEOREM CmdDataInvariance == CmdSpec => []CmdData
  <1>1. CmdInit => CmdData
    BY DataStart
  <1>2. CmdInv /\ CmdData /\ [CmdNext]_cmdVars => CmdData'
    <2> SUFFICES ASSUME CmdInv, CmdData, [CmdNext]_cmdVars PROVE CmdData'
      OBVIOUS
    <2>1. CASE \E p \in Proc : Start(p) \/ ReadInput(p) \/ Compute(p) \/ Open(p)
      BY <2>1, StartData, ReadInputData, ComputeData, OpenData
    <2>2. CASE \E p \in Proc : Write(p) \/ WriteFails(p) \/ Kill(p)
      <3>1. PICK p \in Proc : Write(p) \/ WriteFails(p) \/ Kill(p)
        BY <2>2
      <3>2. CASE WriteFails(p)
        <4>1. Exit(p, "failed") /\ UNCHANGED <<cmdFiles, cmdMade, cmdDamaged>>
          BY <3>2 DEF WriteFails
        <4> QED
          BY <4>1, ExitData
      <3>3. CASE Kill(p)
        <4>1. Exit(p, "killed") /\ UNCHANGED <<cmdFiles, cmdMade, cmdDamaged>>
          BY <3>3 DEF Kill
        <4> QED
          BY <4>1, ExitData
      <3> QED
        BY <3>1, <3>2, <3>3, WriteData
    <2>3. CASE Damage
      BY <2>3, DamageData
    <2>4. CASE UNCHANGED cmdVars
      BY <2>4 DEF cmdVars, CmdData
    <2> QED
      BY <2>1, <2>2, <2>3, <2>4 DEF CmdNext
  <1> QED
    BY <1>1, <1>2, CmdInvariance, PTL DEF CmdSpec

\* A command that reports success where a checksum or a tag covers the data
\* has written what went in, though its input was seen half written or
\* damaged, and every whole undamaged file a command made can be undone with
\* a limit of just its length (compress, decompress, encrypt and decrypt).
THEOREM WhatIsMadeCanBeUndone == CmdSpec => []CmdUndone
  <1>1. CmdInv /\ CmdData => CmdUndone
    <2> SUFFICES ASSUME CmdInv, CmdData PROVE CmdUndone
      OBVIOUS
    <2>1. CmdWhole
      BY DEF CmdInv
    <2>2. ASSUME NEW p \in Proc, cmdRun[p].status = "ok", Checked(cmdRun[p].job)
          PROVE  /\ cmdRun[p].job.ins[1] \in DOMAIN cmdMade
                 /\ cmdRun[p].out = cmdMade[cmdRun[p].job.ins[1]].read[1]
      <3>1. RunOk(cmdRun[p], cmdMade)
        BY DEF CmdData
      <3> QED
        BY <2>2, <3>1 DEF RunOk
    <2>3. ASSUME NEW f \in DOMAIN cmdMade, cmdFiles[f].n = "whole", ~cmdDamaged
          PROVE  LET job == cmdMade[f].job
                     x == cmdMade[f].read[1]
                 IN CASE job.cmd = "compress" /\ Len(x.d) <= Ceiling ->
                           decompress(job.codec, cmdFiles[f].c, Len(x.d)) = x
                      [] job.cmd = "encrypt" -> decrypt(cmdFiles[f].c, job.key, Len(x.d)) = x
                      [] OTHER -> TRUE
      <3>1. PICK job, x : job = cmdMade[f].job /\ x = cmdMade[f].read[1]
        OBVIOUS
      <3>2. PICK c : c = cmdFiles[f].c
        OBVIOUS
      <3>3. /\ c \in Done(cmdMade[f])
            /\ job.cmd \in {"compress", "encrypt"} => PlainOk(x)
        BY <2>3, <3>1, <3>2 DEF CmdData, MadeOk
      <3>4. c \in Results(job, cmdMade[f].read) /\ c # Err
        BY <3>1, <3>3 DEF Done
      <3>5. ASSUME job.cmd = "compress", Len(x.d) <= Ceiling
            PROVE  decompress(job.codec, c, Len(x.d)) = x
        <4>1. c \in compress(job.codec, x.d) /\ x = Plain(x.d) /\ x.d \in Seq({0, 1})
          BY <3>1, <3>3, <3>4, <3>5 DEF Results, PlainOk
        <4>2. Len(x.d) \in Nat
          BY <4>1
        <4> QED
          BY <3>5, <4>1, <4>2, RoundTrip
      <3>6. ASSUME job.cmd = "encrypt"
            PROVE  decrypt(c, job.key, Len(x.d)) = x
        <4>1. c \in encrypt(x.d, job.key, job.codec) /\ x = Plain(x.d) /\ x.d \in Seq({0, 1})
          BY <3>1, <3>3, <3>4, <3>6 DEF Results, PlainOk
        <4>2. /\ c.t = "nrx1" /\ c.codec = job.codec /\ c.key = job.key /\ c.is = "whole"
              /\ c.sealed \in compress(job.codec, x.d) /\ job.key # NoKey
              /\ ~(Len(x.d) > DefaultLimit)
          BY <3>4, <4>1, EncryptIs
        <4>3. Len(x.d) \in Nat /\ Len(x.d) <= Ceiling /\ ~(Len(x.d) > Ceiling)
          BY <4>1, <4>2, LimitAssumption
        <4>4. decompress(c.codec, c.sealed, Len(x.d)) = Plain(x.d)
          BY <4>1, <4>2, <4>3, RoundTrip
        <4> QED
          BY <4>1, <4>2, <4>3, <4>4 DEF decrypt
      <3> QED
        BY <3>1, <3>2, <3>5, <3>6
    <2> QED
      BY <2>1, <2>2, <2>3 DEF CmdUndone
  <1> QED
    BY <1>1, CmdInvariance, CmdDataInvariance, PTL
===============================================================================
