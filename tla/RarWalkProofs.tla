----------------------------- MODULE RarWalkProofs -----------------------------
(***************************************************************************)
(* Proofs about RarWalk, for any archives and any place of the damage: the *)
(* walk finds its own members, loses none that the damage spares, and its  *)
(* end-of-archive note means that it found them all.                       *)
(***************************************************************************)
EXTENDS RarWalk, WellFoundedInduction, TLAPS

-------------------------------------------------------------------------------
(* Induction over the naturals, for a set of them.                         *)

LEMMA LeastNat ==
  ASSUME NEW T, T \subseteq Nat, T # {}
  PROVE  \E x \in T : \A y \in T : x <= y
  <1> DEFINE R == OpToRel(<, Nat)
  <1>1. IsWellFoundedOn(R, Nat)
    BY NatLessThanWellFounded
  <1>2. \A x, y \in Nat : x < y => <<x, y>> \in R
    BY DEF OpToRel
  <1> HIDE DEF R
  <1>3. PICK x \in T : \A y \in T : ~(<<y, x>> \in R)
    BY <1>1, WFMin
  <1>4. \A y \in T : ~(y < x)
    BY <1>2, <1>3
  <1> QED
    BY <1>4

LEMMA NatInduct ==
  ASSUME NEW T, 0 \in T, \A m \in Nat : m \in T => m + 1 \in T
  PROVE  Nat \subseteq T
  <1> SUFFICES ASSUME Nat \ T # {} PROVE FALSE
    OBVIOUS
  <1>1. PICK x \in Nat \ T : \A y \in Nat \ T : x <= y
    BY LeastNat
  <1>2. x # 0 /\ x - 1 \in Nat /\ x - 1 \in T
    BY <1>1
  <1> QED
    BY <1>1, <1>2

-------------------------------------------------------------------------------
(* Sequences joined one after the other.                                   *)

LEMMA SequenceIs ==
  ASSUME NEW s, IsASequence(s)
  PROVE  Len(s) \in Nat /\ DOMAIN s = 1..Len(s) /\ s \in Seq({s[j] : j \in DOMAIN s})
  BY DEF IsASequence

LEMMA WiderSeq ==
  ASSUME NEW s, IsASequence(s), NEW S, {s[j] : j \in DOMAIN s} \subseteq S
  PROVE  s \in Seq(S)
  <1>1. PICK T : T = {s[j] : j \in DOMAIN s}
    OBVIOUS
  <1>2. s \in Seq(T) /\ T \subseteq S
    BY <1>1 DEF IsASequence
  <1> QED
    BY <1>2

LEMMA Concat ==
  ASSUME NEW S, NEW s \in Seq(S), NEW t \in Seq(S)
  PROVE  /\ s \o t \in Seq(S) /\ Len(s \o t) = Len(s) + Len(t)
         /\ \A p \in 1..Len(s) : (s \o t)[p] = s[p]
         /\ \A p \in 1..Len(t) : (s \o t)[Len(s) + p] = t[p]
  OBVIOUS

\* h[k] is what the first k sequences of g make, one after the other.
Joined(h, g, N, S) == /\ h \in [0..N -> Seq(S)] /\ \A k \in 1..N : g[k] \in Seq(S)
                      /\ h[0] = <<>>
                      /\ \A k \in 1..N : h[k] = h[k - 1] \o g[k]

LEMMA JoinedExist ==
  ASSUME NEW S, NEW N \in Nat, NEW g, \A k \in 1..N : g[k] \in Seq(S)
  PROVE  \E h : Joined(h, g, N, S)
  <1> DEFINE T == {m \in Nat : m <= N => \E h : Joined(h, g, m, S)}
  <1>1. 0 \in T
    <2>1. Joined([k \in 0..0 |-> <<>>], g, 0, S)
      BY DEF Joined
    <2> QED
      BY <2>1
  <1>2. ASSUME NEW m \in Nat, m \in T PROVE m + 1 \in T
    <2> SUFFICES ASSUME m + 1 <= N PROVE \E h : Joined(h, g, m + 1, S)
      OBVIOUS
    <2>1. PICK h : Joined(h, g, m, S)
      BY <1>2
    <2>2. /\ g[m + 1] \in Seq(S) /\ h[m] \in Seq(S)
          /\ \A k \in 0..m : h[k] \in Seq(S)
      BY <2>1 DEF Joined
    <2>3. PICK last \in Seq(S) : last = h[m] \o g[m + 1]
      BY <2>2, Concat
    <2> DEFINE e == [k \in 0..(m + 1) |-> IF k = m + 1 THEN last ELSE h[k]]
    <2>4. e \in [0..(m + 1) -> Seq(S)] /\ e[0] = <<>>
      BY <2>1, <2>2 DEF Joined
    <2>5. ASSUME NEW k \in 1..(m + 1) PROVE e[k] = e[k - 1] \o g[k]
      <3>1. k - 1 \in 0..m /\ e[k - 1] = h[k - 1]
        OBVIOUS
      <3>2. CASE k = m + 1
        <4>1. e[k] = last /\ e[k - 1] = h[m]
          BY <3>1, <3>2
        <4> QED
          BY <2>3, <3>2, <4>1
      <3>3. CASE k # m + 1
        <4>1. k \in 1..m /\ e[k] = h[k]
          BY <3>3
        <4> QED
          BY <2>1, <3>1, <4>1 DEF Joined
      <3> QED
        BY <3>2, <3>3
    <2>6. \A k \in 1..(m + 1) : g[k] \in Seq(S)
      OBVIOUS
    <2> HIDE DEF e
    <2>7. Joined(e, g, m + 1, S)
      BY <2>4, <2>5, <2>6 DEF Joined
    <2> QED
      BY <2>7
  <1> HIDE DEF T
  <1>3. N \in T
    BY <1>1, <1>2, NatInduct
  <1> QED
    BY <1>3 DEF T

LEMMA JoinedOnce ==
  ASSUME NEW S, NEW N \in Nat, NEW g, NEW h, Joined(h, g, N, S), NEW k \in 0..N,
         NEW f, \A j \in 0..k : f[j] = IF j = 0 THEN <<>> ELSE f[j - 1] \o g[j]
  PROVE  f[k] = h[k]
  <1> DEFINE T == {j \in Nat : j <= k => f[j] = h[j]}
  <1>1. 0 \in T
    BY DEF Joined
  <1>2. ASSUME NEW j \in Nat, j \in T PROVE j + 1 \in T
    <2> SUFFICES ASSUME j + 1 <= k PROVE f[j + 1] = h[j + 1]
      OBVIOUS
    <2>1. j + 1 \in 0..k /\ j + 1 # 0 /\ (j + 1) - 1 = j /\ j + 1 \in 1..N
      OBVIOUS
    <2>2. f[j + 1] = f[j] \o g[j + 1]
      BY <2>1
    <2>3. h[j + 1] = h[j] \o g[j + 1]
      BY <2>1 DEF Joined
    <2>4. f[j] = h[j]
      BY <1>2, <2>1
    <2> QED
      BY <2>2, <2>3, <2>4
  <1> HIDE DEF T
  <1>3. k \in T
    <2>1. k \in Nat
      OBVIOUS
    <2> QED
      BY <1>1, <1>2, <2>1, NatInduct
  <1> QED
    BY <1>3 DEF T

LEMMA Flattened ==
  ASSUME NEW S, NEW N \in Nat, NEW g, NEW h, Joined(h, g, N, S),
         NEW k \in 0..N, NEW s \in Seq(Seq(S)), Len(s) = k, \A j \in 1..k : s[j] = g[j]
  PROVE  FlattenSeq(s) = h[k]
  <1> DEFINE Step(f_) == [j \in 1..k |-> IF j = 1 THEN s[j] ELSE f_[j - 1] \o s[j]]
             flat == CHOOSE f_ : f_ = Step(f_)
             r == [j \in 1..k |-> h[j]]
  <1>1. Len(s) = k /\ \A j \in 1..k : s[j] = g[j] /\ g[j] \in Seq(S)
    BY SMTT(30) DEF Joined
  <1>2. CASE k = 0
    <2>1. s = <<>>
      BY <1>2
    <2>2. FlattenSeq(s) = s
      BY <1>1, <1>2 DEF FlattenSeq
    <2> QED
      BY <1>2, <2>1, <2>2 DEF Joined
  <1>3. CASE k # 0
    <2>1. r = Step(r)
      <3>1. ASSUME NEW j \in 1..k PROVE r[j] = Step(r)[j]
        <4>0. j \in 1..N
          OBVIOUS
        <4>1. h[j] = h[j - 1] \o g[j]
          BY <4>0 DEF Joined
        <4>2. CASE j = 1
          <5>1. h[j - 1] = <<>>
            BY <4>2 DEF Joined
          <5>2. h[j] = g[j]
            BY <1>1, <4>1, <5>1
          <5> QED
            BY <1>1, <4>2, <5>2
        <4>3. CASE j # 1
          <5>1. j - 1 \in 1..k
            BY <4>3
          <5> QED
            BY <1>1, <4>1, <4>3, <5>1
        <4> QED
          BY <4>2, <4>3
      <3> QED
        BY <3>1
    <2>2. flat = Step(flat)
      BY <2>1
    <2>3. FlattenSeq(s) = flat[k]
      BY <1>1, <1>3 DEF FlattenSeq
    <2> HIDE DEF flat
    <2> DEFINE T == {j \in Nat : j + 1 <= k => flat[j + 1] = h[j + 1]}
    <2>4. 0 \in T
      <3>1. 1 \in 1..k /\ 1 \in 1..N
        BY <1>3
      <3>2. flat[1] = g[1]
        BY <1>1, <2>2, <3>1
      <3>3. h[1] = h[0] \o g[1] /\ h[0] = <<>>
        <4>1. 1 - 1 = 0
          OBVIOUS
        <4>2. h[1] = h[1 - 1] \o g[1] /\ h[0] = <<>>
          BY <3>1, Zenon DEF Joined
        <4> QED
          BY <4>1, <4>2
      <3>4. h[1] = g[1]
        BY <1>1, <3>1, <3>3
      <3> QED
        BY <3>2, <3>4
    <2>5. ASSUME NEW j \in Nat, j \in T PROVE j + 1 \in T
      <3> SUFFICES ASSUME j + 2 <= k PROVE flat[j + 2] = h[j + 2]
        OBVIOUS
      <3>1. /\ j + 2 \in 1..k /\ j + 2 \in 1..N /\ j + 2 # 1 /\ (j + 2) - 1 = j + 1
            /\ j + 1 <= k
        OBVIOUS
      <3>2. flat[j + 2] = flat[j + 1] \o g[j + 2]
        BY <1>1, <2>2, <3>1
      <3>3. h[j + 2] = h[j + 1] \o g[j + 2]
        BY <3>1 DEF Joined
      <3>4. flat[j + 1] = h[j + 1]
        BY <2>5, <3>1
      <3> QED
        BY <3>2, <3>3, <3>4
    <2> HIDE DEF T
    <2>6. k - 1 \in T /\ k - 1 \in Nat
      <3>1. k - 1 \in Nat
        BY <1>3
      <3> QED
        BY <2>4, <2>5, <3>1, NatInduct
    <2>7. flat[k] = h[k]
      BY <2>6 DEF T
    <2> QED
      BY <2>3, <2>7
  <1> QED
    BY <1>2, <1>3

\* u is how v begins.
Begins(u, v) == Len(u) <= Len(v) /\ \A p \in 1..Len(u) : v[p] = u[p]

LEMMA JoinedGrows ==
  ASSUME NEW S, NEW N \in Nat, NEW g, NEW h, Joined(h, g, N, S),
         NEW l \in 0..N
  PROVE  Begins(h[l], h[N])
  <1> DEFINE Kept(m) == \A k \in 0..N : k + m <= N =>
                          /\ Len(h[k]) \in Nat /\ Len(h[k]) <= Len(h[k + m])
                          /\ \A p \in 1..Len(h[k]) : h[k + m][p] = h[k][p]
             T == {m \in Nat : Kept(m)}
  <1>1. /\ \A k \in 0..N : h[k] \in Seq(S) /\ Len(h[k]) \in Nat
        /\ \A k \in 1..N : g[k] \in Seq(S)
    BY DEF Joined
  <1>2. 0 \in T
    BY <1>1
  <1>3. ASSUME NEW m \in Nat, m \in T PROVE m + 1 \in T
    <2>0. Kept(m)
      BY <1>3
    <2> SUFFICES Kept(m + 1)
      OBVIOUS
    <2> SUFFICES ASSUME NEW k \in 0..N, k + (m + 1) <= N
                 PROVE  /\ Len(h[k]) <= Len(h[k + (m + 1)])
                        /\ \A p \in 1..Len(h[k]) : h[k + (m + 1)][p] = h[k][p]
      BY <1>1
    <2>1. PICK j : j = k + m
      OBVIOUS
    <2>2. j \in 0..N /\ j + 1 \in 1..N /\ k + (m + 1) = j + 1 /\ (j + 1) - 1 = j
      BY <2>1
    <2>3. PICK x \in Seq(S), v \in Seq(S), w \in Seq(S) : x = h[k] /\ v = h[j] /\ w = g[j + 1]
      BY <1>1, <2>2
    <2>4. h[j + 1] = v \o w
      BY <2>2, <2>3 DEF Joined
    <2>5. Len(x) <= Len(v) /\ \A p \in 1..Len(x) : v[p] = x[p]
      <3>1. k + m <= N
        OBVIOUS
      <3>2. Len(h[k]) <= Len(h[k + m]) /\ \A p \in 1..Len(h[k]) : h[k + m][p] = h[k][p]
        BY <2>0, <3>1
      <3> QED
        BY <2>1, <2>3, <3>2
    <2>6. Len(x) <= Len(v \o w) /\ \A p \in 1..Len(x) : (v \o w)[p] = x[p]
      <3> HIDE DEF Kept, T
      <3>1. Len(v \o w) = Len(v) + Len(w) /\ \A p \in 1..Len(v) : (v \o w)[p] = v[p]
        BY Concat
      <3>2. Len(x) \in Nat /\ Len(v) \in Nat /\ Len(w) \in Nat
        OBVIOUS
      <3> QED
        BY <2>5, <3>1, <3>2
    <2> QED
      BY <2>2, <2>3, <2>4, <2>6
  <1> HIDE DEF T
  <1>4. N - l \in Nat /\ l + (N - l) = N
    OBVIOUS
  <1>5. N - l \in T
    BY <1>2, <1>3, <1>4, NatInduct
  <1>6. Kept(N - l)
    BY <1>5 DEF T
  <1>7. N <= N
    OBVIOUS
  <1> QED
    BY <1>4, <1>6, <1>7 DEF Begins

\* Where the parts of a joined sequence are.
PartIn(h, g, N, k) ==
  /\ Len(h[k]) = Len(h[k - 1]) + Len(g[k])
  /\ Len(h[k - 1]) \in Nat /\ Len(g[k]) \in Nat /\ Len(h[k]) <= Len(h[N])
  /\ \A p \in 1..Len(g[k]) : h[N][Len(h[k - 1]) + p] = g[k][p]

LEMMA JoinedParts ==
  ASSUME NEW S, NEW N \in Nat, NEW g, NEW h, Joined(h, g, N, S),
         NEW k \in 1..N
  PROVE  PartIn(h, g, N, k)
  <1>1. k - 1 \in 0..N /\ k \in 0..N /\ N \in 0..N /\ N - k \in Nat /\ k + (N - k) = N /\ N <= N
    OBVIOUS
  <1>2. PICK u \in Seq(S), v \in Seq(S), w \in Seq(S), all \in Seq(S) :
           u = h[k] /\ v = h[k - 1] /\ w = g[k] /\ all = h[N]
    BY <1>1 DEF Joined
  <1>3. u = v \o w
    BY <1>2 DEF Joined
  <1>4. /\ Len(u) = Len(v) + Len(w)
        /\ \A p \in 1..Len(w) : u[Len(v) + p] = w[p]
    BY <1>3, Concat
  <1>5. Len(v) \in Nat /\ Len(w) \in Nat
    OBVIOUS
  <1>6. Len(u) <= Len(all) /\ \A p \in 1..Len(u) : all[p] = u[p]
    <2>1. Begins(h[k], h[N])
      BY <1>1, JoinedGrows
    <2> QED
      BY <1>2, <2>1 DEF Begins
  <1>7. ASSUME NEW p \in 1..Len(w) PROVE all[Len(v) + p] = w[p]
    <2>1. Len(v) + p \in 1..Len(u)
      BY <1>4, <1>5
    <2> QED
      BY <1>4, <1>6, <2>1
  <1> QED
    BY <1>2, <1>4, <1>5, <1>6, <1>7 DEF PartIn

-------------------------------------------------------------------------------
(* What a file holds, and where.                                           *)

LEMMA LayoutIs ==
  ASSUME NEW S, NEW b, b.data \in Seq(S), Fixed(b) \in S, Body \in S
  PROVE  /\ Layout(b) \in Seq(S) /\ Len(b.data) \in Nat /\ Len(Layout(b)) = 2 + Len(b.data)
         /\ Layout(b)[1] = Fixed(b) /\ Layout(b)[2] = Body
         /\ \A p \in 1..Len(b.data) : Layout(b)[2 + p] = b.data[p]
  <1>1. PICK s, x, y, d : s = <<x, y>> /\ x = Fixed(b) /\ y = Body /\ d = b.data
    OBVIOUS
  <1>2. s \in Seq(S) /\ Len(s) = 2 /\ s[1] = x /\ s[2] = y /\ d \in Seq(S)
    BY <1>1
  <1>3. Layout(b) = s \o d
    BY <1>1 DEF Layout
  <1>4. /\ s \o d \in Seq(S) /\ Len(s \o d) = Len(s) + Len(d)
        /\ \A p \in 1..Len(s) : (s \o d)[p] = s[p]
        /\ \A p \in 1..Len(d) : (s \o d)[Len(s) + p] = d[p]
    <2>1. PICK u \in Seq(S), v \in Seq(S) : u = s /\ v = d
      BY <1>2
    <2>2. /\ u \o v \in Seq(S) /\ Len(u \o v) = Len(u) + Len(v)
          /\ \A p \in 1..Len(u) : (u \o v)[p] = u[p]
          /\ \A p \in 1..Len(v) : (u \o v)[Len(u) + p] = v[p]
      BY Concat
    <2> QED
      BY <2>1, <2>2
  <1>5. Len(d) \in Nat /\ 1 \in 1..2 /\ 2 \in 1..2
    BY <1>2
  <1> QED
    BY <1>1, <1>2, <1>3, <1>4, <1>5

\* The archive's blocks, one after the other behind the marker.
FileHolds(a) ==
  LET N == Len(a.blocks)
  IN  /\ N \in Nat \ {0}
      /\ Start(a, 1) = Len(a.stub) + 2 /\ Len(a.stub) \in Nat
      /\ File(a) \in Seq({File(a)[p] : p \in DOMAIN File(a)})
      /\ Len(File(a)) = Start(a, N + 1) - 1
      /\ \A k \in 1..N :
           /\ Start(a, k) \in Nat \ {0} /\ Len(a.blocks[k].data) \in Nat
           /\ Start(a, k + 1) = Start(a, k) + 2 + Len(a.blocks[k].data)
           /\ Start(a, k + 1) <= Len(File(a)) + 1
           /\ File(a)[Start(a, k)] = Fixed(a.blocks[k])
           /\ File(a)[Start(a, k) + 1] = Body
           /\ \A p \in 1..Len(a.blocks[k].data) :
                File(a)[Start(a, k) + 1 + p] = a.blocks[k].data[p]

LEMMA FileFacts ==
  ASSUME NEW a \in Archives
  PROVE  FileHolds(a)
  <1> DEFINE N == Len(a.blocks)
             marker == Marker(a.version)
             D == UNION {{a.blocks[k].data[p] : p \in DOMAIN a.blocks[k].data} : k \in 1..N}
             S == {a.stub[p] : p \in DOMAIN a.stub} \cup {marker, Body} \cup D
                    \cup {Fixed(a.blocks[k]) : k \in 1..N}
             g == [k \in 1..N |-> Layout(a.blocks[k])]
  <1>1. IsASequence(a.stub) /\ IsASequence(a.blocks) /\ a.blocks # <<>>
    BY ArchivesAssumption
  <1>2. N \in Nat \ {0} /\ DOMAIN a.blocks = 1..N
    BY <1>1, SequenceIs
  <1>3. Len(a.stub) \in Nat /\ a.stub \in Seq(S)
    <2>1. PICK st : st = a.stub
      OBVIOUS
    <2>2. {st[j] : j \in DOMAIN st} \subseteq S
      BY <2>1
    <2> HIDE DEF S
    <2>3. IsASequence(st)
      BY <1>1, <2>1
    <2>4. st \in Seq(S) /\ Len(st) \in Nat
      BY <2>2, <2>3, WiderSeq, SequenceIs
    <2> QED
      BY <2>1, <2>4
  <1>4. marker \in S /\ Body \in S
    OBVIOUS
  <1>5. ASSUME NEW k \in 1..N
        PROVE  a.blocks[k].data \in Seq(S) /\ Fixed(a.blocks[k]) \in S
    <2>1. PICK d : d = a.blocks[k].data
      OBVIOUS
    <2>2. IsASequence(d)
      BY <1>2, <2>1, ArchivesAssumption
    <2>3. {d[j] : j \in DOMAIN d} \subseteq S
      BY <2>1
    <2>4. d \in Seq(S)
      <3> HIDE DEF S
      <3> QED
        BY <2>2, <2>3, WiderSeq
    <2> QED
      BY <2>1, <2>4
  <1> HIDE DEF S, marker
  <1>6. ASSUME NEW k \in 1..N
        PROVE  LET b == a.blocks[k]
               IN  /\ g[k] \in Seq(S) /\ Len(b.data) \in Nat /\ Len(g[k]) = 2 + Len(b.data)
                   /\ g[k][1] = Fixed(b) /\ g[k][2] = Body
                   /\ \A p \in 1..Len(b.data) : g[k][2 + p] = b.data[p]
    <2>1. PICK b : b = a.blocks[k]
      OBVIOUS
    <2>2. g[k] = Layout(b)
      BY <2>1
    <2>3. b.data \in Seq(S) /\ Fixed(b) \in S
      BY <1>5, <2>1
    <2> HIDE DEF g
    <2>4. /\ g[k] \in Seq(S) /\ Len(b.data) \in Nat /\ Len(g[k]) = 2 + Len(b.data)
          /\ g[k][1] = Fixed(b) /\ g[k][2] = Body
          /\ \A p \in 1..Len(b.data) : g[k][2 + p] = b.data[p]
      BY <1>4, <2>2, <2>3, LayoutIs
    <2> QED
      BY <2>1, <2>4
  <1>7. \A k \in 1..N : g[k] \in Seq(S)
    BY <1>6
  <1>8. PICK h : Joined(h, g, N, S)
    BY <1>2, <1>7, JoinedExist
  <1>9. ASSUME NEW k \in 0..N, NEW s, s = [j \in 1..k |-> Layout(a.blocks[j])]
        PROVE  FlattenSeq(s) = h[k]
    <2>1. N \in Nat
      BY <1>2
    <2>2. \A j \in 1..k : j \in 1..N
      BY <2>1
    <2>3. ASSUME NEW j \in 1..k PROVE s[j] = g[j] /\ g[j] \in Seq(S)
      <3>1. s[j] = Layout(a.blocks[j])
        BY <1>9
      <3>2. j \in 1..N
        BY <2>2
      <3>3. g[j] = Layout(a.blocks[j])
        BY <3>2
      <3> QED
        BY <1>6, <3>1, <3>2, <3>3
    <2>5. k \in Nat /\ s = [j \in 1..k |-> s[j]]
      BY <1>9, <2>1
    <2> HIDE DEF g, N
    <2>6. Len(s) = k /\ s \in Seq(Seq(S))
      <3>1. \A j \in 1..k : s[j] \in Seq(S)
        BY <2>3
      <3> QED
        BY <2>5, <3>1
    <2> QED
      BY <1>8, <2>1, <2>3, <2>6, Flattened
  <1>10. ASSUME NEW k \in 1..(N + 1)
         PROVE  Start(a, k) = Len(a.stub) + 2 + Len(h[k - 1])
    <2>1. k - 1 \in 0..N
      BY <1>2
    <2>2. PICK s : s = [j \in 1..(k - 1) |-> Layout(a.blocks[j])]
      OBVIOUS
    <2>3. FlattenSeq(s) = h[k - 1]
      BY <1>9, <2>1, <2>2
    <2> QED
      BY <2>2, <2>3 DEF Start
  <1>11. PICK front : front = a.stub \o <<marker>>
    OBVIOUS
  <1>12. front \in Seq(S) /\ Len(front) = Len(a.stub) + 1
    <2>1. PICK x, one : x = marker /\ one = <<x>>
      OBVIOUS
    <2>2. one \in Seq(S) /\ Len(one) = 1
      BY <1>4, <2>1
    <2>3. PICK st \in Seq(S) : st = a.stub
      BY <1>3
    <2>4. front = st \o one
      BY <1>11, <2>1, <2>3
    <2>5. st \o one \in Seq(S) /\ Len(st \o one) = Len(st) + Len(one)
      BY <2>2, Concat
    <2> QED
      BY <2>2, <2>3, <2>4, <2>5
  <1>13. h[N] \in Seq(S) /\ h[0] = <<>> /\ Len(h[0]) = 0 /\ Len(h[N]) \in Nat
    <2>1. h \in [0..N -> Seq(S)] /\ h[0] = <<>> /\ N \in 0..N
      BY <1>2, <1>8 DEF Joined
    <2>2. Len(<<>>) = 0
      OBVIOUS
    <2> QED
      BY <2>1, <2>2
  <1>14. File(a) = front \o h[N]
    <2>1. PICK s : s = [j \in 1..N |-> Layout(a.blocks[j])]
      OBVIOUS
    <2>2. N \in 0..N
      BY <1>2
    <2>3. FlattenSeq(s) = h[N]
      BY <1>9, <2>1, <2>2
    <2>4. File(a) = a.stub \o <<marker>> \o FlattenSeq(s)
      BY <2>1 DEF File, marker
    <2> QED
      BY <1>11, <2>3, <2>4
  <1> HIDE DEF g
  <1>15. /\ File(a) \in Seq(S) /\ Len(File(a)) = Len(a.stub) + 1 + Len(h[N])
         /\ \A p \in 1..Len(h[N]) : File(a)[Len(a.stub) + 1 + p] = h[N][p]
    <2>1. PICK u \in Seq(S), v \in Seq(S) : u = front /\ v = h[N]
      BY <1>12, <1>13
    <2>2. /\ u \o v \in Seq(S) /\ Len(u \o v) = Len(u) + Len(v)
          /\ \A p \in 1..Len(v) : (u \o v)[Len(u) + p] = v[p]
      BY Concat
    <2>3. Len(u) = Len(a.stub) + 1
      BY <1>12, <2>1
    <2> QED
      BY <1>14, <2>1, <2>2, <2>3
  <1>16. File(a) \in Seq({File(a)[p] : p \in DOMAIN File(a)})
    <2>1. PICK s \in Seq(S) : s = File(a)
      BY <1>15
    <2>2. s \in Seq({s[p] : p \in DOMAIN s})
      OBVIOUS
    <2> QED
      BY <2>1, <2>2
  <1>17. Start(a, 1) = Len(a.stub) + 2
    <2>1. 1 \in 1..(N + 1) /\ 1 - 1 = 0
      BY <1>2
    <2>2. Start(a, 1) = Len(a.stub) + 2 + Len(h[0])
      BY <1>10, <2>1
    <2> QED
      BY <1>3, <1>13, <2>2
  <1>18. Len(File(a)) = Start(a, N + 1) - 1
    <2>1. N + 1 \in 1..(N + 1) /\ (N + 1) - 1 = N
      BY <1>2
    <2>2. Start(a, N + 1) = Len(a.stub) + 2 + Len(h[N])
      BY <1>10, <2>1
    <2>3. PICK l \in Nat, m \in Nat : l = Len(a.stub) /\ m = Len(h[N])
      BY <1>3, <1>13
    <2>4. Start(a, N + 1) = l + 2 + m /\ Len(File(a)) = l + 1 + m
      BY <1>15, <2>2, <2>3
    <2> QED
      BY <2>4
  <1>19. ASSUME NEW k \in 1..N
         PROVE  /\ Start(a, k) \in Nat \ {0} /\ Len(a.blocks[k].data) \in Nat
                /\ Start(a, k + 1) = Start(a, k) + 2 + Len(a.blocks[k].data)
                /\ Start(a, k + 1) <= Len(File(a)) + 1
                /\ File(a)[Start(a, k)] = Fixed(a.blocks[k])
                /\ File(a)[Start(a, k) + 1] = Body
                /\ \A p \in 1..Len(a.blocks[k].data) :
                     File(a)[Start(a, k) + 1 + p] = a.blocks[k].data[p]
    <2>1. PICK before, all, l, len :
             /\ before = Len(h[k - 1]) /\ all = Len(h[N]) /\ l = Len(a.stub)
             /\ len = Len(a.blocks[k].data)
      OBVIOUS
    <2>2. /\ k \in 1..(N + 1) /\ k + 1 \in 1..(N + 1) /\ (k + 1) - 1 = k
      BY <1>2
    <2>3. Start(a, k) = l + 2 + before /\ Start(a, k + 1) = l + 2 + Len(h[k])
      BY <1>10, <2>1, <2>2
    <2>4. len \in Nat /\ Len(g[k]) = 2 + len /\ g[k][1] = Fixed(a.blocks[k]) /\ g[k][2] = Body
      BY <1>6, <2>1
    <2>5. /\ Len(h[k]) = before + (2 + len) /\ before \in Nat /\ Len(h[k]) <= all
          /\ \A p \in 1..(2 + len) : h[N][before + p] = g[k][p]
      <3> HIDE DEF N
      <3>1. N \in Nat
        BY <1>2
      <3>2. PartIn(h, g, N, k)
        BY <1>8, <3>1, JoinedParts
      <3> QED
        BY <2>1, <2>4, <3>2 DEF PartIn
    <2>6. l \in Nat /\ all \in Nat
      BY <1>3, <1>13, <2>1
    <2>7. ASSUME NEW p \in 1..(2 + len)
          PROVE  File(a)[(l + 1) + (before + p)] = g[k][p]
      <3>1. before + p \in 1..all
        BY <2>4, <2>5, <2>6
      <3> QED
        BY <1>15, <2>1, <2>5, <3>1
    <2>8. /\ 1 \in 1..(2 + len) /\ 2 \in 1..(2 + len)
          /\ (l + 1) + (before + 1) = Start(a, k) /\ (l + 1) + (before + 2) = Start(a, k) + 1
      BY <2>3, <2>4, <2>5, <2>6
    <2>9. /\ File(a)[Start(a, k)] = Fixed(a.blocks[k])
          /\ File(a)[Start(a, k) + 1] = Body
      BY <2>4, <2>7, <2>8
    <2>10. ASSUME NEW p \in 1..len
           PROVE  File(a)[Start(a, k) + 1 + p] = a.blocks[k].data[p]
      <3>1. 2 + p \in 1..(2 + len) /\ (l + 1) + (before + (2 + p)) = Start(a, k) + 1 + p
        <4>1. before \in Nat /\ len \in Nat /\ Start(a, k) = l + 2 + before
          BY <2>3, <2>4, <2>5
        <4> HIDE DEF N
        <4> QED
          BY <2>6, <4>1
      <3>2. g[k][2 + p] = a.blocks[k].data[p]
        BY <1>6, <2>1
      <3> QED
        BY <2>7, <3>1, <3>2
    <2>11. /\ Start(a, k) \in Nat \ {0} /\ Start(a, k + 1) = Start(a, k) + 2 + len
           /\ Start(a, k + 1) <= Len(File(a)) + 1
      <3>1. /\ before \in Nat /\ len \in Nat /\ Len(h[k]) = before + (2 + len)
            /\ Len(h[k]) <= all
        BY <2>4, <2>5
      <3>2. Len(File(a)) = l + 1 + all
        BY <1>15, <2>1
      <3> HIDE DEF N
      <3> QED
        BY <2>3, <2>6, <3>1, <3>2
    <2> QED
      BY <2>1, <2>4, <2>9, <2>10, <2>11
  <1> QED
    BY <1>2, <1>3, <1>16, <1>17, <1>18, <1>19 DEF FileHolds

\* The blocks follow one another.
LEMMA Ascending ==
  ASSUME NEW a \in Archives, NEW j \in 1..Len(a.blocks), NEW k \in 1..(Len(a.blocks) + 1)
  PROVE  /\ Start(a, k) \in Nat /\ Start(a, j) \in Nat /\ End(a, j) \in Nat
         /\ End(a, j) + 1 = Start(a, j + 1) /\ Start(a, j) < End(a, j)
         /\ j < k => End(a, j) < Start(a, k)
  <1> DEFINE N == Len(a.blocks)
             Up(m) == \A l \in 1..(N + 1) : l + m <= N + 1 => Start(a, l) <= Start(a, l + m)
             T == {m \in Nat : Up(m)}
  <1>1. /\ N \in Nat \ {0}
        /\ \A l \in 1..N : /\ Start(a, l) \in Nat /\ Len(a.blocks[l].data) \in Nat
                           /\ Start(a, l + 1) = Start(a, l) + 2 + Len(a.blocks[l].data)
    BY FileFacts DEF FileHolds
  <1> HIDE DEF N
  <1>2. ASSUME NEW l \in 1..(N + 1) PROVE Start(a, l) \in Nat
    <2>1. CASE l \in 1..N
      BY <1>1, <2>1
    <2>2. CASE l = N + 1
      <3>1. N \in 1..N
        BY <1>1
      <3>2. PICK s, t, len : s = Start(a, N) /\ t = Start(a, N + 1) /\ len = Len(a.blocks[N].data)
        OBVIOUS
      <3>3. s \in Nat /\ len \in Nat /\ t = s + 2 + len
        BY <1>1, <3>1, <3>2
      <3>4. t \in Nat
        BY <3>3
      <3> QED
        BY <2>2, <3>2, <3>4
    <2> QED
      BY <1>1, <2>1, <2>2
  <1>3. 0 \in T
    BY <1>1, <1>2
  <1>4. ASSUME NEW m \in Nat, m \in T PROVE m + 1 \in T
    <2>0. Up(m)
      BY <1>4
    <2> SUFFICES Up(m + 1)
      OBVIOUS
    <2> SUFFICES ASSUME NEW l \in 1..(N + 1), l + (m + 1) <= N + 1
                 PROVE  Start(a, l) <= Start(a, l + (m + 1))
      OBVIOUS
    <2>1. PICK q : q = l + m
      OBVIOUS
    <2>2. q \in 1..N /\ l + (m + 1) = q + 1 /\ l + m <= N + 1
      BY <1>1, <2>1
    <2>3. Start(a, l) <= Start(a, q)
      BY <2>0, <2>1, <2>2
    <2>4. PICK r, s, t, len : /\ r = Start(a, l) /\ s = Start(a, q) /\ t = Start(a, q + 1)
                              /\ len = Len(a.blocks[q].data)
      OBVIOUS
    <2>5. r \in Nat /\ s \in Nat /\ len \in Nat /\ t = s + 2 + len /\ r <= s
      BY <1>1, <1>2, <2>2, <2>3, <2>4
    <2>6. r <= t
      BY <2>5
    <2> QED
      BY <2>2, <2>4, <2>6
  <1> HIDE DEF T
  <1>5. j \in 1..N /\ k \in 1..(N + 1)
    BY DEF N
  <1>6. j < k => Start(a, j + 1) <= Start(a, k)
    <2> SUFFICES ASSUME j < k PROVE Start(a, j + 1) <= Start(a, k)
      OBVIOUS
    <2>1. PICK m \in Nat : (j + 1) + m = k
      <3>1. k - (j + 1) \in Nat /\ (j + 1) + (k - (j + 1)) = k
        BY <1>1, <1>5
      <3> QED
        BY <3>1
    <2>2. Up(m)
      <3>1. m \in T
        BY <1>3, <1>4, NatInduct
      <3> QED
        BY <3>1 DEF T
    <2>3. j + 1 \in 1..(N + 1) /\ (j + 1) + m <= N + 1
      BY <1>1, <1>5, <2>1
    <2> QED
      BY <2>1, <2>2, <2>3
  <1>7. /\ Start(a, j) \in Nat /\ Len(a.blocks[j].data) \in Nat /\ Start(a, k) \in Nat
        /\ Start(a, j + 1) = Start(a, j) + 2 + Len(a.blocks[j].data)
    BY <1>1, <1>2, <1>5
  <1>8. End(a, j) = Start(a, j) + 1 + Len(a.blocks[j].data)
    BY DEF End
  <1>9. PICK s, t, e, len, after :
           /\ s = Start(a, j) /\ t = Start(a, k) /\ e = End(a, j)
           /\ len = Len(a.blocks[j].data) /\ after = Start(a, j + 1)
    OBVIOUS
  <1>10. /\ s \in Nat /\ t \in Nat /\ len \in Nat /\ after = s + 2 + len
         /\ e = s + 1 + len /\ (j < k => after <= t)
    BY <1>6, <1>7, <1>8, <1>9
  <1>11. /\ e \in Nat /\ e + 1 = after /\ s < e /\ (j < k => e < t)
    BY <1>10
  <1> QED
    BY <1>9, <1>10, <1>11

-------------------------------------------------------------------------------
(* The files of an archive, block by block.                                *)

\* What a block adds to the files: itself, or nothing.
FilesFact(a, k) ==
  /\ FilesUpTo(a, k - 1) \in Seq(Nat) /\ FilesUpTo(a, k) \in Seq(Nat)
  /\ Visible(a, k) => FilesUpTo(a, k) = Append(FilesUpTo(a, k - 1), k)
  /\ ~Visible(a, k) => FilesUpTo(a, k) = FilesUpTo(a, k - 1)

LEMMA FilesStep ==
  ASSUME NEW a \in Archives
  PROVE  /\ FilesUpTo(a, 0) = <<>>
         /\ \A k \in 1..Len(a.blocks) : FilesFact(a, k)
         /\ \A k \in 0..Len(a.blocks) : Begins(FilesUpTo(a, k), FilesUpTo(a, Len(a.blocks)))
  <1> DEFINE N == Len(a.blocks)
             g == [k \in 1..N |-> IF Visible(a, k) THEN <<k>> ELSE <<>>]
  <1>1. N \in Nat
    BY FileFacts DEF FileHolds
  <1>2. \A k \in 1..N : /\ g[k] \in Seq(Nat)
                        /\ Visible(a, k) => g[k] = <<k>>
                        /\ ~Visible(a, k) => g[k] = <<>>
    <2> TAKE k \in 1..N
    <2>1. k \in Nat
      BY <1>1
    <2>2. <<k>> \in Seq(Nat) /\ <<>> \in Seq(Nat)
      BY <2>1
    <2> QED
      BY <2>2
  <1> HIDE DEF N, g
  <1>3. PICK h : Joined(h, g, N, Nat)
    BY <1>1, <1>2, JoinedExist
  <1>4. ASSUME NEW k \in 1..N
        PROVE  /\ h[k - 1] \in Seq(Nat) /\ h[k] \in Seq(Nat)
               /\ Visible(a, k) => h[k] = Append(h[k - 1], k)
               /\ ~Visible(a, k) => h[k] = h[k - 1]
    <2>1. k - 1 \in 0..N /\ k \in 0..N /\ k \in Nat
      BY <1>1
    <2>2. PICK u \in Seq(Nat), v \in Seq(Nat) : u = h[k] /\ v = h[k - 1]
      BY <1>3, <2>1 DEF Joined
    <2>3. u = v \o g[k]
      BY <1>3, <2>2 DEF Joined
    <2>4. CASE Visible(a, k)
      <3>1. v \o <<k>> = Append(v, k)
        BY <2>1
      <3> QED
        BY <1>2, <2>2, <2>3, <2>4, <3>1
    <2>5. CASE ~Visible(a, k)
      <3>1. v \o <<>> = v
        OBVIOUS
      <3> QED
        BY <1>2, <2>2, <2>3, <2>5, <3>1
    <2> QED
      BY <2>2, <2>4, <2>5
  <1>5. ASSUME NEW k \in 0..N PROVE FilesUpTo(a, k) = h[k]
    <2> DEFINE Step(f_) == [j \in 0..k |-> IF j = 0 THEN <<>>
                              ELSE IF Visible(a, j) THEN Append(f_[j - 1], j) ELSE f_[j - 1]]
               files == CHOOSE f_ : f_ = Step(f_)
               r == [j \in 0..k |-> h[j]]
    <2>1. r = Step(r)
      <3>1. ASSUME NEW j \in 0..k PROVE r[j] = Step(r)[j]
        <4>1. CASE j = 0
          BY <1>3, <4>1 DEF Joined
        <4>2. CASE j # 0
          <5>1. j \in 1..N /\ j - 1 \in 0..k
            BY <1>1, <4>2
          <5>2. r[j] = h[j] /\ r[j - 1] = h[j - 1]
            BY <5>1
          <5>3. r[j] = IF Visible(a, j) THEN Append(r[j - 1], j) ELSE r[j - 1]
            <6> HIDE DEF r
            <6> QED
              BY <1>4, <5>1, <5>2
          <5> QED
            BY <4>2, <5>3
        <4> QED
          BY <4>1, <4>2
      <3> QED
        BY <3>1
    <2>2. files = Step(files)
      BY <2>1
    <2>3. FilesUpTo(a, k) = files[k]
      BY DEF FilesUpTo
    <2> HIDE DEF files, r
    <2> DEFINE T == {j \in Nat : j <= k => files[j] = h[j]}
    <2>4. 0 \in T
      <3>1. 0 \in 0..k /\ h[0] = <<>>
        BY <1>1, <1>3 DEF Joined
      <3> QED
        BY <2>2, <3>1
    <2>5. ASSUME NEW j \in Nat, j \in T PROVE j + 1 \in T
      <3> SUFFICES ASSUME j + 1 <= k PROVE files[j + 1] = h[j + 1]
        OBVIOUS
      <3>1. j + 1 \in 0..k /\ j + 1 # 0 /\ (j + 1) - 1 = j /\ j + 1 \in 1..N
        BY <1>1
      <3>2. files[j] = h[j]
        BY <2>5, <3>1
      <3>3. files[j + 1] = IF Visible(a, j + 1) THEN Append(files[j], j + 1) ELSE files[j]
        BY <2>2, <3>1
      <3>4. h[j + 1] = IF Visible(a, j + 1) THEN Append(h[j], j + 1) ELSE h[j]
        BY <1>4, <3>1
      <3> QED
        BY <3>2, <3>3, <3>4
    <2> HIDE DEF T
    <2>6. k \in T
      <3>1. k \in Nat
        BY <1>1
      <3> QED
        BY <2>4, <2>5, <3>1, NatInduct
    <2> QED
      BY <2>3, <2>6 DEF T
  <1>6. FilesUpTo(a, 0) = <<>>
    <2>1. 0 \in 0..N
      BY <1>1
    <2> QED
      BY <1>3, <1>5, <2>1 DEF Joined
  <1>7. ASSUME NEW k \in 1..N PROVE FilesFact(a, k)
    <2>1. k - 1 \in 0..N /\ k \in 0..N
      BY <1>1
    <2>2. FilesUpTo(a, k) = h[k] /\ FilesUpTo(a, k - 1) = h[k - 1]
      BY <1>5, <2>1
    <2> QED
      BY <1>4, <2>2 DEF FilesFact
  <1>8. ASSUME NEW k \in 0..N PROVE Begins(FilesUpTo(a, k), FilesUpTo(a, N))
    <2>1. N \in 0..N
      BY <1>1
    <2>2. Begins(h[k], h[N])
      BY <1>1, <1>3, JoinedGrows
    <2> QED
      BY <1>5, <2>1, <2>2
  <1> QED
    BY <1>6, <1>7, <1>8 DEF N

\* What follows the files up to block k are later blocks, and none where no
\* later block is visible.
LEMMA FilesAfter ==
  ASSUME NEW a \in Archives, NEW k \in 0..Len(a.blocks)
  PROVE  /\ \A p \in 1..Len(Written(a)) : p > Len(FilesUpTo(a, k)) => Written(a)[p] > k
         /\ (\A j \in (k + 1)..Len(a.blocks) : ~Visible(a, j)) => Written(a) = FilesUpTo(a, k)
         /\ FilesUpTo(a, k) \in Seq(Nat) /\ Written(a) \in Seq(Nat)
  <1> DEFINE N == Len(a.blocks)
             Gap == \A j \in (k + 1)..N : ~Visible(a, j)
             After(m) == k + m <= N =>
               /\ FilesUpTo(a, k + m) \in Seq(Nat)
               /\ Gap => FilesUpTo(a, k + m) = FilesUpTo(a, k)
               /\ \A p \in 1..Len(FilesUpTo(a, k + m)) :
                    p > Len(FilesUpTo(a, k)) => FilesUpTo(a, k + m)[p] > k
             T == {m \in Nat : After(m)}
  <1>1. N \in Nat \ {0}
    BY FileFacts DEF FileHolds
  <1>2. \A j \in 1..N : FilesFact(a, j)
    BY FilesStep
  <1>3. FilesUpTo(a, k) \in Seq(Nat)
    <2>1. CASE k = 0
      <3>1. 1 \in 1..N /\ 1 - 1 = 0
        BY <1>1
      <3>2. FilesFact(a, 1)
        BY <1>2, <3>1
      <3> QED
        BY <2>1, <3>1, <3>2 DEF FilesFact
    <2>2. CASE k # 0
      <3>1. k \in 1..N
        BY <1>1, <2>2
      <3> QED
        BY <1>2, <3>1 DEF FilesFact
    <2> QED
      BY <2>1, <2>2
  <1>4. 0 \in T
    <2>1. k + 0 = k
      BY <1>1
    <2>2. \A p \in 1..Len(FilesUpTo(a, k)) : ~(p > Len(FilesUpTo(a, k)))
      BY <1>3
    <2> QED
      BY <1>3, <2>1, <2>2
  <1>5. ASSUME NEW m \in Nat, m \in T PROVE m + 1 \in T
    <2>0. After(m)
      BY <1>5
    <2> SUFFICES After(m + 1)
      OBVIOUS
    <2> SUFFICES ASSUME k + (m + 1) <= N
                 PROVE  /\ FilesUpTo(a, k + (m + 1)) \in Seq(Nat)
                        /\ Gap => FilesUpTo(a, k + (m + 1)) = FilesUpTo(a, k)
                        /\ \A p \in 1..Len(FilesUpTo(a, k + (m + 1))) :
                             p > Len(FilesUpTo(a, k)) => FilesUpTo(a, k + (m + 1))[p] > k
      OBVIOUS
    <2>1. PICK q : q = k + (m + 1)
      OBVIOUS
    <2>2. q \in 1..N /\ q - 1 = k + m /\ k + m <= N /\ q > k /\ q \in Nat /\ q \in (k + 1)..N
      BY <1>1, <2>1
    <2>3. PICK u, v, w : u = FilesUpTo(a, q) /\ v = FilesUpTo(a, q - 1) /\ w = FilesUpTo(a, k)
      OBVIOUS
    <2>4. /\ v \in Seq(Nat) /\ u \in Seq(Nat)
          /\ Visible(a, q) => u = Append(v, q)
          /\ ~Visible(a, q) => u = v
      BY <1>2, <2>2, <2>3 DEF FilesFact
    <2>5. /\ Gap => v = w
          /\ \A p \in 1..Len(v) : p > Len(w) => v[p] > k
      BY <2>0, <2>2, <2>3
    <2>6. Gap => u = w
      BY <2>2, <2>4, <2>5
    <2>7. ASSUME NEW p \in 1..Len(u), p > Len(w) PROVE u[p] > k
      <3>1. CASE ~Visible(a, q)
        BY <2>4, <2>5, <2>7, <3>1
      <3>2. CASE Visible(a, q)
        <4>1. u = Append(v, q) /\ Len(u) = Len(v) + 1 /\ Len(v) \in Nat
          BY <2>2, <2>4, <3>2
        <4>2. CASE p = Len(v) + 1
          <5>1. u[p] = q
            BY <2>2, <2>4, <4>1, <4>2
          <5> QED
            BY <2>2, <5>1
        <4>3. CASE p # Len(v) + 1
          <5>1. p \in 1..Len(v)
            BY <4>1, <4>3
          <5>2. u[p] = v[p]
            BY <2>2, <2>4, <4>1, <5>1
          <5> QED
            BY <2>5, <2>7, <5>1, <5>2
        <4> QED
          BY <4>2, <4>3
      <3> QED
        BY <3>1, <3>2
    <2> QED
      BY <2>1, <2>3, <2>4, <2>6, <2>7
  <1> HIDE DEF T
  <1>6. N - k \in Nat /\ k + (N - k) = N /\ N <= N
    BY <1>1
  <1>7. N - k \in T
    BY <1>4, <1>5, <1>6, NatInduct
  <1>8. After(N - k)
    BY <1>7 DEF T
  <1>9. Written(a) = FilesUpTo(a, k + (N - k))
    BY <1>6 DEF Written
  <1> QED
    BY <1>3, <1>6, <1>8, <1>9

-------------------------------------------------------------------------------
(* What damage leaves of a file.                                           *)

BlobFacts(a, d, t) ==
  /\ t \in Seq({t[p] : p \in DOMAIN t}) /\ Len(t) \in Nat /\ Len(t) <= Len(File(a))
  /\ d[1] \in {"none", "cut", "change", "zeros"} /\ (d[1] # "none" => d[2] \in Nat \ {0})
  /\ IF d[1] = "cut" THEN Len(t) = d[2] - 1 ELSE Len(t) = Len(File(a))
  /\ \A p \in 1..Len(t) : t[p] = IF d[1] = "change" /\ p = d[2] THEN Changed(File(a)[p], d[3])
                                 ELSE IF d[1] = "zeros" /\ p >= d[2] THEN Zero ELSE File(a)[p]

LEMMA BlobIs ==
  ASSUME NEW a \in Archives, NEW d \in Damages(a)
  PROVE  BlobFacts(a, d, Damaged(File(a), d))
  <1>1. PICK f, S : f = File(a) /\ S = {f[p] : p \in DOMAIN f}
    OBVIOUS
  <1>2. f \in Seq(S) /\ Len(f) \in Nat /\ Len(a.stub) \in Nat
    BY <1>1, FileFacts DEF FileHolds
  <1>3. PICK t : t = Damaged(f, d)
    OBVIOUS
  <1>4. \/ d = <<"none", 0, TRUE>>
        \/ d \in {"cut", "change", "zeros"} \X ((Len(a.stub) + 1)..Len(f)) \X BOOLEAN
    <2>1. \/ d = <<"none", 0, TRUE>>
          \/ d \in {"cut", "change", "zeros"} \X ((Len(a.stub) + 1)..Len(f)) \X {TRUE}
          \/ d \in {"change"} \X {p \in (Len(a.stub) + 1)..Len(f) : f[p].t = "head"} \X {FALSE}
      BY <1>1 DEF Damages
    <2> QED
      BY <2>1
  <1>5. CASE d = <<"none", 0, TRUE>>
    <2>1. d[1] = "none"
      BY <1>5
    <2>2. t = f
      BY <1>3, <2>1 DEF Damaged
    <2> QED
      BY <1>1, <1>2, <1>3, <2>1, <2>2 DEF BlobFacts
  <1>6. CASE d \in {"cut", "change", "zeros"} \X ((Len(a.stub) + 1)..Len(f)) \X BOOLEAN
    <2>1. PICK c, q, w : d = <<c, q, w>> /\ c \in {"cut", "change", "zeros"}
                         /\ q \in (Len(a.stub) + 1)..Len(f)
      BY <1>6
    <2>2. d[1] = c /\ d[2] = q /\ d[3] = w /\ q \in Nat \ {0} /\ q <= Len(f)
      BY <1>2, <2>1
    <2>3. CASE c = "cut"
      <3>1. t = SubSeq(f, 1, q - 1)
        BY <1>3, <2>2, <2>3 DEF Damaged
      <3>2. q - 1 \in 0..Len(f)
        BY <1>2, <2>2
      <3>3. t \in Seq(S) /\ Len(t) = q - 1 /\ \A p \in 1..(q - 1) : t[p] = f[p]
        BY <1>2, <3>1, <3>2
      <3>4. t \in Seq({t[p] : p \in DOMAIN t})
        BY <3>3
      <3>5. q - 1 \in Nat /\ q - 1 <= Len(f)
        BY <3>2
      <3> QED
        BY <1>1, <1>3, <2>2, <2>3, <3>3, <3>4, <3>5 DEF BlobFacts
    <2>4. CASE c = "change"
      <3>1. t = [f EXCEPT ![q] = Changed(f[q], w)]
        BY <1>3, <2>2, <2>4 DEF Damaged
      <3>2. f = [p \in 1..Len(f) |-> f[p]]
        BY <1>2
      <3>3. t = [p \in 1..Len(f) |-> IF p = q THEN Changed(f[q], w) ELSE f[p]]
        BY <3>1, <3>2
      <3>4. t \in Seq({t[p] : p \in DOMAIN t}) /\ Len(t) = Len(f)
        BY <1>2, <3>3
      <3>5. \A p \in 1..Len(f) : t[p] = IF p = q THEN Changed(f[p], w) ELSE f[p]
        BY <3>3
      <3> QED
        BY <1>1, <1>2, <1>3, <2>2, <2>4, <3>4, <3>5 DEF BlobFacts
    <2>5. CASE c = "zeros"
      <3>1. t = [p \in 1..Len(f) |-> IF p < q THEN f[p] ELSE Zero]
        BY <1>3, <2>2, <2>5 DEF Damaged
      <3>4. t \in Seq({t[p] : p \in DOMAIN t}) /\ Len(t) = Len(f)
        BY <1>2, <3>1
      <3>5. \A p \in 1..Len(f) : t[p] = IF p >= q THEN Zero ELSE f[p]
        BY <1>2, <2>2, <3>1
      <3> QED
        BY <1>1, <1>2, <1>3, <2>2, <2>5, <3>4, <3>5 DEF BlobFacts
    <2> QED
      BY <2>1, <2>3, <2>4, <2>5
  <1> QED
    BY <1>4, <1>5, <1>6

\* The cell where block k starts, and the one after it.
StartCell(a, d, t, k) ==
  LET s == Start(a, k)
  IN  \/ t[s] = Fixed(a.blocks[k])
      \/ d[1] = "change" /\ d[2] = s /\ t[s] = [Fixed(a.blocks[k]) EXCEPT !.ok = FALSE, !.fits = d[3]]
      \/ d[1] = "zeros" /\ d[2] <= s /\ t[s] = Zero

NextCell(a, d, t, k) ==
  LET s == Start(a, k)
  IN  \/ t[s + 1] = Body /\ ~(d[1] = "change" /\ d[2] = s + 1) /\ ~(d[1] = "zeros" /\ d[2] <= s + 1)
      \/ d[1] = "change" /\ d[2] = s + 1 /\ t[s + 1] # Body
      \/ d[1] = "zeros" /\ d[2] <= s + 1 /\ t[s + 1] # Body

LEMMA Cells ==
  ASSUME NEW a \in Archives, NEW d, NEW t, BlobFacts(a, d, t),
         NEW k \in 1..Len(a.blocks)
  PROVE  /\ Start(a, k) <= Len(t) => StartCell(a, d, t, k)
         /\ Start(a, k) < Len(t) => NextCell(a, d, t, k)
  <1>1. PICK s, f, b, l : s = Start(a, k) /\ f = File(a) /\ b = a.blocks[k] /\ l = Len(t)
    OBVIOUS
  <1>2. s \in Nat \ {0} /\ f[s] = Fixed(b) /\ f[s + 1] = Body
    BY <1>1, FileFacts DEF FileHolds
  <1>3. \A p \in 1..l : t[p] = IF d[1] = "change" /\ p = d[2] THEN Changed(f[p], d[3])
                               ELSE IF d[1] = "zeros" /\ p >= d[2] THEN Zero ELSE f[p]
    BY <1>1 DEF BlobFacts
  <1>4. l \in Nat /\ (d[1] # "none" => d[2] \in Nat)
    BY <1>1 DEF BlobFacts
  <1>5. Changed(Fixed(b), d[3]) = [Fixed(b) EXCEPT !.ok = FALSE, !.fits = d[3]]
    BY DEF Changed, Fixed
  <1>6. Changed(Body, d[3]) # Body /\ Zero # Body
    <2>1. Changed(Body, d[3]) = [t |-> "body", ok |-> FALSE]
      BY DEF Changed, Body
    <2>2. Changed(Body, d[3]).ok = FALSE /\ Body.ok = TRUE /\ Zero.t = "zero" /\ Body.t = "body"
      BY <2>1 DEF Body, Zero
    <2> QED
      BY <2>2
  <1>7. ASSUME s <= l PROVE StartCell(a, d, t, k)
    <2>1. s \in 1..l
      BY <1>2, <1>4, <1>7
    <2>2. t[s] = IF d[1] = "change" /\ s = d[2] THEN Changed(f[s], d[3])
                 ELSE IF d[1] = "zeros" /\ s >= d[2] THEN Zero ELSE f[s]
      BY <1>3, <2>1
    <2>3. CASE d[1] = "change" /\ s = d[2]
      BY <1>1, <1>2, <1>5, <2>2, <2>3 DEF StartCell
    <2>4. CASE ~(d[1] = "change" /\ s = d[2]) /\ d[1] = "zeros" /\ s >= d[2]
      <3>1. d[2] <= s
        BY <1>2, <1>4, <2>4
      <3> QED
        BY <1>1, <2>2, <2>4, <3>1 DEF StartCell
    <2>5. CASE ~(d[1] = "change" /\ s = d[2]) /\ ~(d[1] = "zeros" /\ s >= d[2])
      BY <1>1, <1>2, <2>2, <2>5 DEF StartCell
    <2> QED
      BY <2>3, <2>4, <2>5
  <1>8. ASSUME s < l PROVE NextCell(a, d, t, k)
    <2>1. s + 1 \in 1..l
      BY <1>2, <1>4, <1>8
    <2>2. t[s + 1] = IF d[1] = "change" /\ s + 1 = d[2] THEN Changed(f[s + 1], d[3])
                     ELSE IF d[1] = "zeros" /\ s + 1 >= d[2] THEN Zero ELSE f[s + 1]
      BY <1>3, <2>1
    <2>3. CASE d[1] = "change" /\ s + 1 = d[2]
      BY <1>1, <1>2, <1>6, <2>2, <2>3 DEF NextCell
    <2>4. CASE ~(d[1] = "change" /\ s + 1 = d[2]) /\ d[1] = "zeros" /\ s + 1 >= d[2]
      <3>1. d[2] <= s + 1
        BY <1>2, <1>4, <2>4
      <3> QED
        BY <1>1, <1>6, <2>2, <2>4, <3>1 DEF NextCell
    <2>5. CASE ~(d[1] = "change" /\ s + 1 = d[2]) /\ ~(d[1] = "zeros" /\ s + 1 >= d[2])
      <3>1. d[1] = "zeros" => ~(d[2] <= s + 1)
        BY <1>2, <1>4, <2>5
      <3> QED
        BY <1>1, <1>2, <2>2, <2>5, <3>1 DEF NextCell
    <2> QED
      BY <2>3, <2>4, <2>5
  <1> QED
    BY <1>1, <1>7, <1>8

\* No whole header where block k should start: the damage costs every block
\* from there on.
LEMMA Lost ==
  ASSUME NEW a \in Archives, NEW d, NEW t, BlobFacts(a, d, t), NEW k \in 1..(Len(a.blocks) + 1),
         \/ Start(a, k) > Len(t) /\ k <= Len(a.blocks)
         \/ Start(a, k) <= Len(t) /\ (t[Start(a, k)].t = "head" => Start(a, k) = Len(t))
  PROVE  d[1] # "none" /\ \A j \in k..Len(a.blocks) : ~Sound(a, d, j)
  <1>1. PICK N, s, l, f : N = Len(a.blocks) /\ s = Start(a, k) /\ l = Len(t) /\ f = Len(File(a))
    OBVIOUS
  <1>2. N \in Nat \ {0} /\ f = Start(a, N + 1) - 1
    BY <1>1, FileFacts DEF FileHolds
  <1>3. l \in Nat /\ l <= f
    BY <1>1 DEF BlobFacts
  <1>4. s \in Nat /\ \A j \in 1..N : Start(a, j) \in Nat
    BY <1>1, <1>2, Ascending
  <1>5. k \in 1..N
    <2>1. CASE k = N + 1
      <3>1. N \in 1..N /\ N + 1 \in 1..(N + 1)
        BY <1>2
      <3>2. Start(a, N + 1) \in Nat
        BY <1>1, <3>1, Ascending
      <3>3. s = Start(a, N + 1) /\ ~(k <= N)
        BY <1>1, <1>2, <2>1
      <3>4. s > l
        BY <1>2, <1>3, <3>2, <3>3
      <3> QED
        BY <1>1, <1>3, <1>4, <3>3, <3>4
    <2> QED
      BY <1>1, <1>2, <2>1
  <1>6. s + 1 <= f
    <2>1. PICK after, e : after = Start(a, k + 1) /\ e = End(a, k)
      OBVIOUS
    <2>2. after = e + 1 /\ s < e /\ e \in Nat
      BY <1>1, <1>5, <2>1, Ascending
    <2>3. after <= f + 1
      BY <1>1, <1>5, <2>1, FileFacts DEF FileHolds
    <2> QED
      BY <1>2, <1>3, <1>4, <2>2, <2>3
  <1>7. d[1] \in {"cut", "zeros"} /\ d[2] <= s + 1 /\ d[2] \in Nat
    <2>1. ASSUME l # f PROVE d[1] = "cut" /\ l = d[2] - 1 /\ d[2] \in Nat
      BY <1>1, <2>1 DEF BlobFacts
    <2>2. CASE l < s + 1
      <3>1. l # f
        BY <1>3, <1>4, <1>6, <2>2
      <3>2. d[1] = "cut" /\ l = d[2] - 1 /\ d[2] \in Nat
        BY <2>1, <3>1
      <3>3. d[2] <= s + 1
        BY <1>3, <1>4, <2>2, <3>2
      <3> QED
        BY <3>2, <3>3
    <2>3. CASE l >= s + 1
      <3>1. s <= l /\ s # l /\ ~(s > l)
        BY <1>3, <1>4, <2>3
      <3>2. t[s].t # "head"
        BY <1>1, <3>1
      <3>3. StartCell(a, d, t, k)
        BY <1>1, <1>5, <3>1, Cells
      <3>4. Fixed(a.blocks[k]).t = "head" /\ [Fixed(a.blocks[k]) EXCEPT !.ok = FALSE, !.fits = d[3]].t = "head"
        BY DEF Fixed
      <3>5. d[1] = "zeros" /\ d[2] <= s
        BY <1>1, <3>2, <3>3, <3>4 DEF StartCell
      <3>6. d[2] \in Nat
        BY <3>5 DEF BlobFacts
      <3> QED
        BY <1>4, <3>5, <3>6
    <2> QED
      BY <1>3, <1>4, <2>2, <2>3
  <1>8. ASSUME NEW j \in k..N PROVE ~Sound(a, d, j)
    <2>1. PICK r, e : r = Start(a, j) /\ e = End(a, j)
      OBVIOUS
    <2>2. j \in 1..N /\ k \in 1..(N + 1) /\ j \in 1..(N + 1) /\ (j = k \/ k < j)
      BY <1>2, <1>5
    <2>3. e \in Nat /\ r \in Nat /\ r < e
      BY <1>1, <2>1, <2>2, Ascending
    <2>4. CASE j = k
      <3>1. r = s
        BY <1>1, <2>1, <2>4
      <3>2. ~(d[2] > e)
        BY <1>4, <1>7, <2>3, <3>1
      <3> QED
        BY <1>7, <2>1, <3>2 DEF Sound
    <2>5. CASE k < j
      <3>1. PICK u : u = End(a, k)
        OBVIOUS
      <3>2. u \in Nat /\ s < u /\ u < r
        BY <1>1, <1>5, <2>1, <2>2, <2>5, <3>1, Ascending
      <3>3. ~(d[2] > e)
        BY <1>4, <1>7, <2>3, <3>2
      <3> QED
        BY <1>7, <2>1, <3>3 DEF Sound
    <2> QED
      BY <2>2, <2>4, <2>5
  <1> QED
    BY <1>1, <1>7, <1>8

LEMMA Inside ==
  ASSUME NEW a \in Archives, NEW d, NEW t, BlobFacts(a, d, t), NEW k \in 1..(Len(a.blocks) + 1),
         Start(a, k) <= Len(t)
  PROVE  k \in 1..Len(a.blocks)
  <1>1. PICK N, s, l, f : N = Len(a.blocks) /\ s = Start(a, N + 1) /\ l = Len(t) /\ f = Len(File(a))
    OBVIOUS
  <1>2. N \in Nat \ {0} /\ f = s - 1 /\ l \in Nat /\ l <= f
    BY <1>1, FileFacts DEF FileHolds, BlobFacts
  <1>3. N \in 1..N /\ N + 1 \in 1..(N + 1)
    BY <1>2
  <1>4. s \in Nat
    BY <1>1, <1>3, Ascending
  <1>5. ~(s <= l)
    BY <1>2, <1>4
  <1>6. k # N + 1
    BY <1>1, <1>5
  <1> QED
    BY <1>1, <1>2, <1>6

\* A header whose size does not fit is the one that was damaged.
LEMMA SizeDamaged ==
  ASSUME NEW a \in Archives, NEW d, NEW t, BlobFacts(a, d, t), NEW k \in 1..(Len(a.blocks) + 1),
         Start(a, k) <= Len(t), t[Start(a, k)].t = "head", ~t[Start(a, k)].fits
  PROVE  k \in 1..Len(a.blocks) /\ SizeLost(a, d, k)
  <1>1. k \in 1..Len(a.blocks)
    BY Inside
  <1>2. StartCell(a, d, t, k)
    BY <1>1, Cells
  <1>3. /\ Fixed(a.blocks[k]).fits = TRUE /\ Zero.t = "zero"
        /\ [Fixed(a.blocks[k]) EXCEPT !.ok = FALSE, !.fits = d[3]].fits = d[3]
    BY DEF Fixed, Zero
  <1> QED
    BY <1>1, <1>2, <1>3 DEF StartCell, SizeLost

\* A header that passes its checksum is the block's own.
LEMMA HeaderRight ==
  ASSUME NEW a \in Archives, NEW d, NEW t, BlobFacts(a, d, t), NEW k \in 1..(Len(a.blocks) + 1),
         NEW s, s = Start(a, k), s < Len(t),
         t[s].t = "head", t[s].ok, t[s + 1] = Body
  PROVE  /\ k \in 1..Len(a.blocks) /\ t[s].b = a.blocks[k] /\ s \in Nat
         /\ d[1] = "change" => ~(d[2] \in {s, s + 1})
         /\ d[1] = "zeros" => ~(d[2] <= s + 1)
  <1>1. Len(t) \in Nat
    BY DEF BlobFacts
  <1>2. s \in Nat
    <2>1. Len(a.blocks) \in Nat \ {0}
      BY FileFacts DEF FileHolds
    <2>2. 1 \in 1..Len(a.blocks)
      BY <2>1
    <2> QED
      BY <2>2, Ascending
  <1>3. k \in 1..Len(a.blocks)
    BY <1>1, <1>2, Inside
  <1>4. StartCell(a, d, t, k) /\ NextCell(a, d, t, k)
    BY <1>1, <1>2, <1>3, Cells
  <1>5. /\ Fixed(a.blocks[k]).b = a.blocks[k] /\ Zero.t = "zero"
        /\ [Fixed(a.blocks[k]) EXCEPT !.ok = FALSE, !.fits = d[3]].ok = FALSE
    BY DEF Fixed, Zero
  <1>6. t[s] = Fixed(a.blocks[k])
    BY <1>4, <1>5 DEF StartCell
  <1>7. ~(d[1] = "change" /\ d[2] = s + 1) /\ ~(d[1] = "zeros" /\ d[2] <= s + 1)
    BY <1>4 DEF NextCell
  <1>8. ~(d[1] = "change" /\ d[2] = s)
    <2> SUFFICES ASSUME d[1] = "change", d[2] = s PROVE FALSE
      OBVIOUS
    <2>1. s \in 1..Len(t)
      <3>1. s # 0
        BY <1>3, FileFacts DEF FileHolds
      <3> QED
        BY <1>1, <1>2, <3>1
    <2>2. t[s] = Changed(File(a)[s], d[3])
      BY <2>1 DEF BlobFacts
    <2>3. File(a)[s] = Fixed(a.blocks[k])
      BY <1>3, FileFacts, ZenonT(30) DEF FileHolds
    <2>4. Changed(Fixed(a.blocks[k]), d[3]).ok = FALSE
      BY DEF Changed, Fixed
    <2> QED
      BY <2>2, <2>3, <2>4
  <1> QED
    BY <1>2, <1>3, <1>5, <1>6, <1>7, <1>8

\* One that does not is damaged itself, so no data is.
LEMMA HeaderWrong ==
  ASSUME NEW a \in Archives, NEW d, NEW t, BlobFacts(a, d, t), NEW k \in 1..(Len(a.blocks) + 1),
         NEW s, s = Start(a, k), s < Len(t),
         t[s].t = "head", ~(t[s].ok /\ t[s + 1] = Body)
  PROVE  GaveUp(a, d)
  <1>1. Len(t) \in Nat
    BY DEF BlobFacts
  <1>2. s \in Nat
    <2>1. Len(a.blocks) \in Nat \ {0}
      BY FileFacts DEF FileHolds
    <2>2. 1 \in 1..Len(a.blocks)
      BY <2>1
    <2> QED
      BY <2>2, Ascending
  <1>3. k \in 1..Len(a.blocks)
    BY <1>1, <1>2, Inside
  <1>4. StartCell(a, d, t, k) /\ NextCell(a, d, t, k)
    BY <1>1, <1>2, <1>3, Cells
  <1>5. Fixed(a.blocks[k]).ok = TRUE
    BY DEF Fixed
  <1>6. \/ d[1] = "zeros"
        \/ d[1] = "change" /\ d[2] \in {s, s + 1}
    BY <1>4, <1>5 DEF StartCell, NextCell
  <1>7. CASE d[1] = "zeros"
    BY <1>7 DEF GaveUp, DataChanged
  <1>8. CASE d[1] = "change" /\ d[2] \in {s, s + 1}
    <2>1. ASSUME NEW j \in 1..Len(a.blocks) PROVE ~(d[2] \in (Start(a, j) + 2)..End(a, j))
      <3>1. PICK r, e, u : r = Start(a, j) /\ e = End(a, j) /\ u = End(a, k)
        OBVIOUS
      <3>2. /\ r \in Nat /\ e \in Nat /\ r < e /\ s < u /\ u \in Nat
            /\ (j < k => e < s) /\ (k < j => u < r)
        <4>1. k \in 1..(Len(a.blocks) + 1) /\ j \in 1..(Len(a.blocks) + 1)
          BY <1>3, FileFacts DEF FileHolds
        <4> QED
          BY <1>3, <3>1, <4>1, Ascending
      <3>3. j < k \/ k < j \/ j = k
        BY <1>3, FileFacts DEF FileHolds
      <3>4. j = k => r = s
        BY <3>1
      <3>5. ~(d[2] \in (r + 2)..e)
        BY <1>2, <1>8, <3>2, <3>3, <3>4
      <3> QED
        BY <3>1, <3>5
    <2> QED
      BY <1>8, <2>1 DEF GaveUp, DataChanged
  <1> QED
    BY <1>6, <1>7, <1>8

\* A block whose data is not all there: the file is cut off.
LEMMA DataMissing ==
  ASSUME NEW a \in Archives, NEW d, NEW t, BlobFacts(a, d, t), NEW k \in 1..Len(a.blocks),
         Start(a, k) + 2 + Len(a.blocks[k].data) > Len(t) + 1
  PROVE  GaveUp(a, d)
  <1>1. PICK s, l, f, m : /\ s = Start(a, k + 1) /\ l = Len(t) /\ f = Len(File(a))
                          /\ m = Start(a, k) + 2 + Len(a.blocks[k].data)
    OBVIOUS
  <1>2. m = s /\ s <= f + 1 /\ l \in Nat /\ f = Start(a, Len(a.blocks) + 1) - 1
    BY <1>1, FileFacts DEF FileHolds, BlobFacts
  <1>3. s \in Nat
    <2>1. k + 1 \in 1..(Len(a.blocks) + 1)
      BY FileFacts DEF FileHolds
    <2> QED
      BY <1>1, <2>1, Ascending
  <1>4. l # f
    BY <1>1, <1>2, <1>3
  <1>5. d[1] = "cut"
    BY <1>1, <1>4 DEF BlobFacts
  <1> QED
    BY <1>5 DEF GaveUp, DataChanged

-------------------------------------------------------------------------------
(* What _finish makes of a member.                                         *)

\* The part of the file that a block's data is read from.
Slice(t, from, len) == SubSeq(t, from, IF from + len - 1 <= Len(t) THEN from + len - 1 ELSE Len(t))

FinishOf(b, sl) ==
  IF b.enc \/ b.split \/ (~b.dir /\ ~b.stored) THEN [payload |-> <<>>, error |-> TRUE]
  ELSE IF b.dir THEN [payload |-> <<>>, error |-> FALSE]
  ELSE IF Len(sl) # Len(b.data) \/ b.unp = "other" \/ (b.crc /\ sl # b.data)
       THEN [payload |-> <<>>, error |-> TRUE]
  ELSE [payload |-> sl, error |-> FALSE]

LEMMA SoundSlice ==
  ASSUME NEW a \in Archives, NEW d, NEW t, BlobFacts(a, d, t), NEW k \in 1..Len(a.blocks),
         d[1] = "change" => ~(d[2] \in {Start(a, k), Start(a, k) + 1}),
         Sound(a, d, k)
  PROVE  Slice(t, Start(a, k) + 2, Len(a.blocks[k].data)) = a.blocks[k].data
  <1>1. PICK s, e, l, len, f, data :
          /\ s = Start(a, k) /\ e = End(a, k) /\ l = Len(t) /\ data = a.blocks[k].data
          /\ len = Len(data) /\ f = Len(File(a))
    OBVIOUS
  <1>2. /\ s \in Nat \ {0} /\ len \in Nat /\ s + 2 + len <= f + 1 /\ e = s + 1 + len
    BY <1>1, FileFacts DEF FileHolds, End
  <1>3. l \in Nat /\ (d[1] # "none" => d[2] \in Nat)
    BY <1>1 DEF BlobFacts
  <1>4. f \in Nat
    <2>1. Len(a.blocks) \in 1..Len(a.blocks) /\ Len(a.blocks) + 1 \in 1..(Len(a.blocks) + 1)
      BY FileFacts DEF FileHolds
    <2>2. Start(a, Len(a.blocks) + 1) \in Nat /\ f = Start(a, Len(a.blocks) + 1) - 1
      BY <1>1, <2>1, Ascending, FileFacts DEF FileHolds
    <2> QED
      BY <1>2, <2>2
  <1>5. d[1] = "none" \/ d[2] > e \/ (d[1] = "change" /\ d[2] < s)
    BY <1>1 DEF Sound
  <1>6. e <= l
    <2>1. CASE d[1] = "cut"
      <3>1. l = d[2] - 1 /\ d[2] > e /\ d[2] \in Nat
        BY <1>1, <1>3, <1>5, <2>1 DEF BlobFacts
      <3> QED
        BY <1>2, <3>1
    <2>2. CASE d[1] # "cut"
      <3>1. l = f
        BY <1>1, <2>2 DEF BlobFacts
      <3> QED
        BY <1>2, <1>4, <3>1
    <2> QED
      BY <2>1, <2>2
  <1>7. ASSUME NEW p \in (s + 2)..e PROVE t[p] = File(a)[p]
    <2>1. p \in 1..l /\ p \in Nat
      BY <1>2, <1>3, <1>6
    <2>2. ~(d[1] = "change" /\ p = d[2])
      BY <1>2, <1>3, <1>5, <2>1
    <2>3. ~(d[1] = "zeros" /\ p >= d[2])
      BY <1>2, <1>3, <1>5, <2>1
    <2> QED
      BY <1>1, <2>1, <2>2, <2>3 DEF BlobFacts
  <1>8. ASSUME NEW p \in 1..len PROVE t[s + 1 + p] = data[p]
    <2>1. s + 1 + p \in (s + 2)..e
      BY <1>2
    <2>2. File(a)[s + 1 + p] = data[p]
      BY <1>1, FileFacts DEF FileHolds
    <2> QED
      BY <1>7, <2>1, <2>2
  <1>9. Slice(t, s + 2, len) = SubSeq(t, s + 2, e)
    <2>1. (s + 2) + len - 1 = e
      BY <1>2
    <2> QED
      BY <1>1, <1>6, <2>1 DEF Slice
  <1>10. PICK D : t \in Seq(D)
    BY DEF BlobFacts
  <1>11. SubSeq(t, s + 2, e) = [p \in 1..len |-> data[p]]
    <2>1. PICK m \in Nat : m = s + 2
      BY <1>2
    <2>2. PICK u : u = SubSeq(t, m, e)
      OBVIOUS
    <2>3. m \in 1..(l + 1) /\ e \in (m - 1)..l /\ e - m + 1 = len
      BY <1>2, <1>3, <1>6, <2>1
    <2>4. u = [p \in 1..len |-> t[m + p - 1]]
      <3>1. m \in Nat /\ e \in Nat /\ m - 1 <= e
        BY <1>2, <2>3
      <3>2. SubSeq(t, m, e) = [p \in 1..(1 + e - m) |-> t[p + m - 1]]
        BY <3>1
      <3>3. 1 + e - m = len /\ \A p \in 1..len : p + m - 1 = m + p - 1
        BY <1>2, <2>3
      <3> QED
        BY <2>2, <3>2, <3>3
    <2>5. ASSUME NEW p \in 1..len PROVE t[m + p - 1] = data[p]
      <3>1. m + p - 1 = s + 1 + p
        BY <1>2, <2>1
      <3> QED
        BY <1>8, <3>1
    <2> QED
      BY <2>1, <2>2, <2>4, <2>5
  <1>12. data = [p \in 1..len |-> data[p]]
    <2>1. IsASequence(data)
      <3>1. DOMAIN a.blocks = 1..Len(a.blocks)
        BY SequenceIs, ArchivesAssumption
      <3> QED
        BY <1>1, <3>1, ArchivesAssumption
    <2>2. PICK D2 : data \in Seq(D2)
      BY <2>1 DEF IsASequence
    <2> QED
      BY <1>1, <2>2
  <1> QED
    BY <1>1, <1>9, <1>11, <1>12

LEMMA FinishRight ==
  ASSUME NEW a \in Archives, NEW d, NEW t, BlobFacts(a, d, t), NEW k \in 1..Len(a.blocks),
         d[1] = "change" => ~(d[2] \in {Start(a, k), Start(a, k) + 1}),
         NEW x, x = FinishOf(a.blocks[k], Slice(t, Start(a, k) + 2, Len(a.blocks[k].data)))
  PROVE  MemberOk(a, d, [name |-> a.blocks[k].name, payload |-> x.payload, error |-> x.error], k)
  <1>1. PICK b, sl : b = a.blocks[k] /\ sl = Slice(t, Start(a, k) + 2, Len(a.blocks[k].data))
    OBVIOUS
  <1>2. PICK r : r = [name |-> b.name, payload |-> x.payload, error |-> x.error]
    OBVIOUS
  <1>3. Sound(a, d, k) => sl = b.data
    BY <1>1, SoundSlice
  <1>4. x = FinishOf(b, sl)
    BY <1>1
  <1>9. ASSUME NEW P, NEW E, x = [payload |-> P, error |-> E]
        PROVE  r = [name |-> b.name, payload |-> P, error |-> E]
    BY <1>2, <1>9
  <1>5. CASE b.enc \/ b.split \/ (~b.dir /\ ~b.stored)
    <2>1. x = [payload |-> <<>>, error |-> TRUE]
      BY <1>4, <1>5 DEF FinishOf
    <2>2. r = [name |-> b.name, payload |-> <<>>, error |-> TRUE]
      BY <1>9, <2>1
    <2>3. Outcome(b) = r
      BY <1>5, <2>2 DEF Outcome
    <2> QED
      BY <1>1, <1>2, <2>2, <2>3 DEF MemberOk
  <1>6. CASE ~(b.enc \/ b.split \/ (~b.dir /\ ~b.stored)) /\ b.dir
    <2>1. x = [payload |-> <<>>, error |-> FALSE]
      BY <1>4, <1>6 DEF FinishOf
    <2>2. r = [name |-> b.name, payload |-> <<>>, error |-> FALSE]
      BY <1>9, <2>1
    <2>3. Outcome(b) = r
      BY <1>6, <2>2 DEF Outcome
    <2> QED
      BY <1>1, <1>2, <2>2, <2>3 DEF MemberOk
  <1>7. CASE /\ ~(b.enc \/ b.split \/ (~b.dir /\ ~b.stored)) /\ ~b.dir
             /\ (Len(sl) # Len(b.data) \/ b.unp = "other" \/ (b.crc /\ sl # b.data))
    <2>1. x = [payload |-> <<>>, error |-> TRUE]
      BY <1>4, <1>7 DEF FinishOf
    <2>2. r = [name |-> b.name, payload |-> <<>>, error |-> TRUE]
      BY <1>9, <2>1
    <2>3. Sound(a, d, k) => Outcome(b) = r
      BY <1>3, <1>7, <2>2 DEF Outcome
    <2> QED
      BY <1>1, <1>2, <2>2, <2>3 DEF MemberOk
  <1>8. CASE /\ ~(b.enc \/ b.split \/ (~b.dir /\ ~b.stored)) /\ ~b.dir
             /\ ~(Len(sl) # Len(b.data) \/ b.unp = "other" \/ (b.crc /\ sl # b.data))
    <2>1. x = [payload |-> sl, error |-> FALSE]
      BY <1>4, <1>8 DEF FinishOf
    <2>2. r = [name |-> b.name, payload |-> sl, error |-> FALSE]
      BY <1>9, <2>1
    <2>3. Outcome(b) = [name |-> b.name, payload |-> b.data, error |-> FALSE]
      BY <1>8 DEF Outcome
    <2>4. /\ r.name = b.name /\ r.payload = sl /\ Outcome(b).payload = b.data
          /\ sl = b.data => r = Outcome(b)
      <3>1. ASSUME NEW E, r = [name |-> b.name, payload |-> sl, error |-> E]
            PROVE  r.name = b.name /\ r.payload = sl
        BY <3>1
      <3>2. ASSUME NEW E, Outcome(b) = [name |-> b.name, payload |-> b.data, error |-> E]
            PROVE  Outcome(b).payload = b.data
        BY <3>2
      <3> QED
        BY <2>2, <2>3, <3>1, <3>2, Zenon
    <2>5. Len(sl) = Len(b.data) /\ (b.crc => sl = b.data)
      BY <1>8
    <2> QED
      BY <1>1, <1>2, <1>3, <2>4, <2>5, Zenon DEF MemberOk
  <1> QED
    BY <1>5, <1>6, <1>7, <1>8

-------------------------------------------------------------------------------
(* From one block to the next.                                             *)

LEMMA Appended ==
  ASSUME NEW S, NEW s \in Seq(S), NEW x \in S
  PROVE  /\ Append(s, x) \in Seq(S) /\ Len(Append(s, x)) = Len(s) + 1 /\ Len(s) \in Nat
         /\ Append(s, x)[Len(s) + 1] = x
         /\ \A p \in 1..Len(s) : Append(s, x)[p] = s[p]
  OBVIOUS

LEMMA AnySequence ==
  ASSUME NEW S, NEW s \in Seq(S)
  PROVE  IsASequence(s)
  <1>1. PICK D : D = {s[j] : j \in DOMAIN s}
    OBVIOUS
  <1>2. DOMAIN s = 1..Len(s) /\ Len(s) \in Nat
    OBVIOUS
  <1>3. \A p \in 1..Len(s) : s[p] \in D
    BY <1>1, <1>2
  <1>4. s \in Seq(D)
    BY <1>2, <1>3
  <1> QED
    BY <1>1, <1>4 DEF IsASequence

LEMMA FilesWithin ==
  ASSUME NEW a \in Archives, NEW k \in 0..Len(a.blocks)
  PROVE  FilesUpTo(a, k) \in Seq(1..Len(a.blocks))
  <1> DEFINE N == Len(a.blocks)
             T == {m \in Nat : m <= N => FilesUpTo(a, m) \in Seq(1..N)}
  <1>1. N \in Nat
    BY FileFacts DEF FileHolds
  <1>2. 0 \in T
    <2>1. FilesUpTo(a, 0) = <<>>
      BY FilesStep
    <2>2. <<>> \in Seq(1..N)
      OBVIOUS
    <2> QED
      BY <2>1, <2>2
  <1>3. ASSUME NEW m \in Nat, m \in T PROVE m + 1 \in T
    <2> SUFFICES ASSUME m + 1 <= N PROVE FilesUpTo(a, m + 1) \in Seq(1..N)
      OBVIOUS
    <2>1. PICK q : q = m + 1
      OBVIOUS
    <2>2. q \in 1..N /\ q - 1 = m /\ m <= N
      BY <1>1, <2>1
    <2>3. FilesUpTo(a, m) \in Seq(1..N)
      BY <1>3, <2>2
    <2>4. FilesFact(a, q)
      BY <2>2, FilesStep
    <2>5. PICK u \in Seq(1..N) : u = FilesUpTo(a, q - 1)
      BY <2>2, <2>3
    <2>6. FilesUpTo(a, q) = Append(u, q) \/ FilesUpTo(a, q) = u
      BY <2>4, <2>5 DEF FilesFact
    <2>7. Append(u, q) \in Seq(1..N)
      BY <2>2
    <2> QED
      BY <2>1, <2>6, <2>7
  <1>4. k \in Nat /\ k <= N
    BY <1>1
  <1> HIDE DEF T
  <1>5. k \in T
    BY <1>2, <1>3, <1>4, NatInduct
  <1> QED
    BY <1>4, <1>5 DEF T

\* Past a block that is no file and hides none, nothing changes.
LEMMA PassedBy ==
  ASSUME NEW a \in Archives, NEW d, NEW ms, NEW k \in 1..Len(a.blocks),
         Reached(a, d, ms, k), ~Hides(a, k), ~Visible(a, k)
  PROVE  k + 1 \in 1..(Len(a.blocks) + 1) /\ Reached(a, d, ms, k + 1)
  <1>1. k + 1 \in 1..(Len(a.blocks) + 1) /\ (k + 1) - 1 = k /\ k \in 1..k
    BY FileFacts DEF FileHolds
  <1>2. FilesUpTo(a, k) = FilesUpTo(a, k - 1)
    BY FilesStep DEF FilesFact
  <1>3. \A j \in 1..k : ~Hides(a, j)
    <2> TAKE j \in 1..k
    <2>1. j = k \/ j \in 1..(k - 1)
      BY <1>1, FileFacts DEF FileHolds
    <2> QED
      BY <2>1 DEF Reached
  <1> QED
    BY <1>1, <1>2, <1>3 DEF Reached

\* A visible file is the next member.
LEMMA Taken ==
  ASSUME NEW a \in Archives, NEW d, NEW ms, NEW r, NEW k \in 1..Len(a.blocks),
         Reached(a, d, ms, k), Visible(a, k), MemberOk(a, d, r, k)
  PROVE  k + 1 \in 1..(Len(a.blocks) + 1) /\ Reached(a, d, Append(ms, r), k + 1)
  <1>1. k + 1 \in 1..(Len(a.blocks) + 1) /\ (k + 1) - 1 = k
    BY FileFacts DEF FileHolds
  <1>2. PICK f \in Seq(Nat) : f = FilesUpTo(a, k - 1)
    BY FilesStep DEF FilesFact
  <1>3. FilesUpTo(a, k) = Append(f, k)
    BY <1>2, FilesStep DEF FilesFact
  <1>4. \A j \in 1..k : ~Hides(a, j)
    BY DEF Visible
  <1>5. IsASequence(ms) /\ Len(ms) = Len(f) /\ \A m \in 1..Len(ms) : MemberOk(a, d, ms[m], f[m])
    BY <1>2 DEF Reached
  <1>6. PICK S : ms \in Seq(S) /\ r \in S
    <2>1. {ms[j] : j \in DOMAIN ms} \subseteq {ms[j] : j \in DOMAIN ms} \cup {r}
      OBVIOUS
    <2>2. ms \in Seq({ms[j] : j \in DOMAIN ms} \cup {r})
      BY <1>5, <2>1, WiderSeq
    <2> QED
      BY <2>2
  <1>7. PICK w \in Seq(S) : w = Append(ms, r)
    BY <1>6, Appended
  <1>8. Len(w) = Len(ms) + 1 /\ Len(ms) \in Nat /\ w[Len(ms) + 1] = r
        /\ \A m \in 1..Len(ms) : w[m] = ms[m]
    BY <1>6, <1>7, Appended
  <1>9. IsASequence(w)
    BY AnySequence
  <1>10. PICK g \in Seq(Nat) : g = Append(f, k)
    <2>1. k \in Nat
      BY FileFacts DEF FileHolds
    <2> QED
      BY <2>1, Appended
  <1>11. Len(g) = Len(f) + 1 /\ g[Len(f) + 1] = k /\ \A m \in 1..Len(f) : g[m] = f[m]
    <2>1. k \in Nat
      BY FileFacts DEF FileHolds
    <2> QED
      BY <1>10, <2>1, Appended
  <1>12. Len(w) = Len(g)
    BY <1>5, <1>8, <1>11
  <1>13. ASSUME NEW m \in 1..Len(w) PROVE MemberOk(a, d, w[m], g[m])
    <2>1. m = Len(ms) + 1 \/ m \in 1..Len(ms)
      BY <1>8
    <2> QED
      BY <1>5, <1>8, <1>11, <2>1
  <1> QED
    BY <1>1, <1>3, <1>4, <1>7, <1>9, <1>10, <1>12, <1>13 DEF Reached

\* The blocks that hide the rest leave no file after them.
LEMMA NoneAfter ==
  ASSUME NEW a \in Archives, NEW k \in 1..Len(a.blocks), Hides(a, k), ~Visible(a, k)
  PROVE  Written(a) = FilesUpTo(a, k - 1)
  <1>1. k - 1 \in 0..Len(a.blocks) /\ (k - 1) + 1 = k
    BY FileFacts DEF FileHolds
  <1>2. ASSUME NEW j \in k..Len(a.blocks) PROVE ~Visible(a, j)
    <2>1. k \in 1..j
      BY <1>1, FileFacts DEF FileHolds
    <2> QED
      BY <2>1 DEF Visible
  <1> QED
    BY <1>1, <1>2, FilesAfter

-------------------------------------------------------------------------------
(* What the position of the walk says of the members found.                *)

LEMMA FoundAreOwn ==
  ASSUME NEW a \in Archives, NEW d, NEW ms, NEW k \in 1..(Len(a.blocks) + 1), Reached(a, d, ms, k)
  PROVE  /\ Len(ms) <= Len(Written(a)) /\ Len(ms) \in Nat
         /\ Len(ms) = Len(FilesUpTo(a, k - 1))
         /\ \A m \in 1..Len(ms) : MemberOk(a, d, ms[m], Written(a)[m])
  <1>1. k - 1 \in 0..Len(a.blocks)
    BY FileFacts DEF FileHolds
  <1>2. PICK f : f = FilesUpTo(a, k - 1)
    OBVIOUS
  <1>3. Begins(f, Written(a))
    BY <1>1, <1>2, FilesStep DEF Written
  <1>4. IsASequence(ms) /\ Len(ms) = Len(f) /\ \A m \in 1..Len(ms) : MemberOk(a, d, ms[m], f[m])
    BY <1>2 DEF Reached
  <1> QED
    BY <1>2, <1>3, <1>4, SequenceIs DEF Begins

LEMMA EndedAll ==
  ASSUME NEW a \in Archives, NEW d, NEW ms, NEW why, NEW k \in 1..(Len(a.blocks) + 1),
         Reached(a, d, ms, k), Ended(a, d, why, k)
  PROVE  \/ Len(ms) = Len(Written(a))
         \/ /\ d[1] # "none" /\ why # "end-of-archive block"
            /\ \/ \A j \in k..Len(a.blocks) : ~Sound(a, d, j)
               \/ why = "bad header size" /\ k \in 1..Len(a.blocks) /\ SizeLost(a, d, k)
  <1>1. Len(ms) = Len(FilesUpTo(a, k - 1)) /\ Len(a.blocks) \in Nat
    BY FoundAreOwn, FileFacts DEF FileHolds
  <1>2. CASE why = "none" /\ k = Len(a.blocks) + 1
    <2>1. k - 1 = Len(a.blocks)
      BY <1>1, <1>2
    <2> QED
      BY <1>1, <1>2, <2>1 DEF Written
  <1>3. CASE /\ why # "end-of-archive block" /\ d[1] # "none"
             /\ \A j \in k..Len(a.blocks) : ~Sound(a, d, j)
    BY <1>3
  <1>5. CASE why = "bad header size" /\ k <= Len(a.blocks) /\ SizeLost(a, d, k)
    <2>1. k \in 1..Len(a.blocks)
      <3>1. k <= Len(a.blocks)
        BY <1>5
      <3> QED
        BY <1>1, <3>1
    <2> QED
      BY <1>5, <2>1 DEF SizeLost
  <1>4. CASE /\ k <= Len(a.blocks)
             /\ <<a.blocks[k].kind, why>> \in {<<"end", "end-of-archive block">>,
                                               <<"crypt", "encryption header">>}
    <2>1. k \in 1..Len(a.blocks)
      <3>1. k <= Len(a.blocks)
        BY <1>4
      <3> QED
        BY <1>1, <3>1
    <2>2. \/ a.blocks[k].kind = "end" /\ why = "end-of-archive block"
          \/ a.blocks[k].kind = "crypt"
      BY <1>4
    <2>3. Hides(a, k) /\ ~Visible(a, k)
      BY <2>2 DEF Hides, Visible
    <2>4. Written(a) = FilesUpTo(a, k - 1)
      BY <2>1, <2>3, NoneAfter
    <2> QED
      BY <1>1, <2>1, <2>2, <2>4
  <1> QED
    BY <1>2, <1>3, <1>4, <1>5 DEF Ended

\* Where nothing happened to the file, it is its own blocks that end the walk.
LEMMA EndedWhole ==
  ASSUME NEW a, NEW d, NEW why, NEW k \in 1..(Len(a.blocks) + 1), Ended(a, d, why, k),
         d[1] = "none"
  PROVE  \/ why = "none" /\ k = Len(a.blocks) + 1
         \/ /\ k \in 1..Len(a.blocks)
            /\ \/ a.blocks[k].kind = "end" /\ why = "end-of-archive block"
               \/ a.blocks[k].kind = "crypt"
  <1>1. \/ why = "none" /\ k = Len(a.blocks) + 1
        \/ /\ k <= Len(a.blocks)
           /\ <<a.blocks[k].kind, why>> \in {<<"end", "end-of-archive block">>,
                                             <<"crypt", "encryption header">>}
    BY DEF Ended, SizeLost
  <1>2. k <= Len(a.blocks) => k \in 1..Len(a.blocks)
    OBVIOUS
  <1> QED
    BY <1>1, <1>2

LEMMA SoundFound ==
  ASSUME NEW a \in Archives, NEW d, NEW ms, NEW why, NEW k \in 1..(Len(a.blocks) + 1),
         Reached(a, d, ms, k), Ended(a, d, why, k),
         NEW m \in 1..Len(Written(a)), Sound(a, d, Written(a)[m]),
         ~Unreached(a, d, why, Written(a)[m])
  PROVE  m <= Len(ms) /\ ms[m] = Outcome(a.blocks[Written(a)[m]])
  <1>1. Len(a.blocks) \in Nat /\ k - 1 \in 0..Len(a.blocks) /\ Len(a.blocks) \in 0..Len(a.blocks)
    BY FileFacts DEF FileHolds
  <1>2. PICK l \in Nat : l = Len(ms)
    BY FoundAreOwn
  <1>3. Len(Written(a)) \in Nat /\ Written(a)[m] \in 1..Len(a.blocks)
    <2>1. PICK w \in Seq(1..Len(a.blocks)) : w = Written(a)
      BY <1>1, FilesWithin DEF Written
    <2>2. Len(w) \in Nat /\ w[m] \in 1..Len(a.blocks)
      BY <2>1
    <2> QED
      BY <2>1, <2>2
  <1>4. m <= l
    <2> SUFFICES ASSUME ~(m <= l) PROVE FALSE
      OBVIOUS
    <2>1. m > l /\ m \in Nat
      BY <1>2, <1>3
    <2>2. Len(ms) # Len(Written(a))
      BY <1>2, <1>3, <2>1
    <2>4. Written(a)[m] > k - 1
      BY <1>1, <1>2, <2>1, FilesAfter, FoundAreOwn
    <2>5. Written(a)[m] \in k..Len(a.blocks) /\ k \in 1..Written(a)[m]
      BY <1>1, <1>3, <2>4
    <2>3. \A j \in k..Len(a.blocks) : ~Sound(a, d, j)
      <3>1. \/ \A j \in k..Len(a.blocks) : ~Sound(a, d, j)
            \/ why = "bad header size" /\ k \in 1..Len(a.blocks) /\ SizeLost(a, d, k)
        BY <2>2, EndedAll
      <3> QED
        BY <2>5, <3>1 DEF Unreached
    <2> QED
      BY <2>3, <2>5
  <1>5. m \in 1..Len(ms)
    BY <1>2, <1>3, <1>4
  <1>6. MemberOk(a, d, ms[m], Written(a)[m])
    BY <1>5, FoundAreOwn
  <1> QED
    BY <1>2, <1>4, <1>6 DEF MemberOk

-------------------------------------------------------------------------------
(* The invariant, step by step.                                            *)

\* What RarInv says of a walk that took the archive for itself.
Stands(a, d, ms, p, s, why, k) ==
  /\ Reached(a, d, ms, k)
  /\ p = "walk" => s = Start(a, k)
  /\ p = "done" => Ended(a, d, why, k)
  /\ p = "raised" => GaveUp(a, d)

\* A step that takes a walk at a block to one at a block, or to its end.
Keeps ==
  OwnMarker => \A k \in 1..(Len(archive.blocks) + 1) :
    Stands(archive, damage, members, "walk", i, note, k) =>
      \E j \in 1..(Len(archive.blocks) + 1) : Stands(archive, damage, members', pc', i', note', j)

LEMMA OwnMarkerStays ==
  ASSUME Walking
  PROVE  OwnMarker' = OwnMarker
  <1>1. version' = version /\ archive' = archive /\ blob' = blob
    BY DEF Walking
  <1>2. Places(version)' = Places(version)
    BY <1>1 DEF Places, n
  <1>3. FirstOf(Places(version))' = FirstOf(Places(version))
    BY <1>2 DEF FirstOf
  <1> QED
    BY <1>1, <1>3 DEF OwnMarker

LEMMA Facts ==
  ASSUME RarInv
  PROVE  /\ archive \in Archives /\ BlobFacts(archive, damage, blob)
         /\ OwnMarker => version \in {4, 5} /\ version = archive.version
  <1>1. archive \in Archives /\ damage \in Damages(archive) /\ blob = Damaged(File(archive), damage)
    BY DEF RarInv
  <1>2. archive.version \in {4, 5}
    BY <1>1, ArchivesAssumption
  <1> QED
    BY <1>1, <1>2, BlobIs DEF OwnMarker

LEMMA Kept ==
  ASSUME RarInv, Walking, pc = "walk", pc' # "read", Keeps
  PROVE  RarInv'
  <1>1. archive' = archive /\ damage' = damage /\ blob' = blob
    BY DEF Walking
  <1>2. /\ archive' \in Archives /\ damage' \in Damages(archive')
        /\ blob' = Damaged(File(archive'), damage')
    BY <1>1 DEF RarInv
  <1>3. ASSUME OwnMarker'
        PROVE  \E j \in 1..(Len(archive.blocks) + 1) :
                 Stands(archive, damage, members', pc', i', note', j)
    <2>1. OwnMarker
      BY <1>3, OwnMarkerStays
    <2>2. PICK k \in 1..(Len(archive.blocks) + 1) :
            Reached(archive, damage, members, k) /\ i = Start(archive, k)
      BY <2>1 DEF RarInv
    <2>3. Stands(archive, damage, members, "walk", i, note, k)
      BY <2>2 DEF Stands
    <2> QED
      BY <2>1, <2>3 DEF Keeps
  <1> QED
    BY <1>1, <1>2, <1>3 DEF RarInv, Stands

LEMMA StepRead ==
  ASSUME RarInv, NEW v \in {4, 5}, Read(v)
  PROVE  RarInv'
  <1>1. /\ archive' = archive /\ damage' = damage /\ blob' = blob /\ members' = members
        /\ version' = v /\ pc' = "walk" /\ i' = FirstOf(Places(v)) + 1 /\ pc = "read"
    BY DEF Read
  <1>2. /\ archive' \in Archives /\ damage' \in Damages(archive')
        /\ blob' = Damaged(File(archive'), damage') /\ members = <<>>
    BY <1>1 DEF RarInv
  <1>3. ASSUME OwnMarker'
        PROVE  /\ 1 \in 1..(Len(archive.blocks) + 1) /\ i' = Start(archive, 1)
               /\ Reached(archive, damage, members, 1)
    <2>1. Places(version)' = Places(v)
      BY <1>1 DEF Places, n
    <2>2. FirstOf(Places(v)) = Len(archive.stub) + 1
      BY <1>1, <1>3, <2>1 DEF OwnMarker, FirstOf
    <2>3. Start(archive, 1) = Len(archive.stub) + 2 /\ Len(archive.stub) \in Nat
          /\ Len(archive.blocks) \in Nat
      BY <1>1, <1>2, FileFacts DEF FileHolds
    <2>4. i' = Start(archive, 1)
      BY <1>1, <2>2, <2>3
    <2>5. IsASequence(members) /\ Len(members) = 0
      <3>1. <<>> \in Seq({})
        OBVIOUS
      <3> QED
        BY <1>2, <3>1, AnySequence
    <2>6. FilesUpTo(archive, 1 - 1) = <<>>
      BY <1>1, <1>2, FilesStep
    <2> QED
      BY <2>3, <2>4, <2>5, <2>6 DEF Reached
  <1> QED
    BY <1>1, <1>2, <1>3 DEF RarInv

LEMMA StepNoMarker ==
  ASSUME RarInv, NoMarker
  PROVE  RarInv'
  <1>1. /\ archive' = archive /\ damage' = damage /\ blob' = blob /\ version' = version
        /\ pc = "read" /\ pc' = "raised"
    BY DEF NoMarker
  <1>2. ~OwnMarker
    <2>1. version = 0
      BY <1>1 DEF RarInv
    <2> QED
      BY <2>1, Facts
  <1>3. ~OwnMarker'
    BY <1>1, <1>2, OwnMarkerStays DEF Walking
  <1> QED
    BY <1>1, <1>3 DEF RarInv

LEMMA StepEndOfFile ==
  ASSUME RarInv, EndOfFile
  PROVE  RarInv'
  <1>1. /\ Walking /\ pc = "walk" /\ pc' = "done" /\ note' = "none" /\ members' = members
        /\ i > Len(blob)
    BY DEF EndOfFile, Stop, Still, n
  <1>2. ASSUME OwnMarker, NEW k \in 1..(Len(archive.blocks) + 1),
               Stands(archive, damage, members, "walk", i, note, k)
        PROVE  Stands(archive, damage, members', pc', i', note', k)
    <2>1. Reached(archive, damage, members, k) /\ i = Start(archive, k)
      BY <1>2 DEF Stands
    <2>2. CASE k <= Len(archive.blocks)
      <3>1. damage[1] # "none" /\ \A j \in k..Len(archive.blocks) : ~Sound(archive, damage, j)
        BY <1>1, <2>1, <2>2, Facts, Lost
      <3>2. Ended(archive, damage, "none", k)
        BY <3>1 DEF Ended
      <3> QED
        BY <1>1, <2>1, <3>2 DEF Stands
    <2>3. CASE ~(k <= Len(archive.blocks))
      <3>1. k = Len(archive.blocks) + 1
        BY <2>3, Facts, FileFacts DEF FileHolds
      <3>2. Ended(archive, damage, "none", k)
        BY <3>1 DEF Ended
      <3> QED
        BY <1>1, <2>1, <3>2 DEF Stands
    <2> QED
      BY <2>2, <2>3
  <1> QED
    BY <1>1, <1>2, Kept DEF Keeps

LEMMA StepBadSize ==
  ASSUME RarInv, BadSize
  PROVE  RarInv'
  <1>1. /\ Walking /\ pc = "walk" /\ pc' = "done" /\ note' = "bad header size"
        /\ members' = members /\ i <= Len(blob) 
        /\ (blob[i].t = "head" => i = Len(blob) \/ ~blob[i].fits)
    BY DEF BadSize, AtHeader, cell, Stop, Still, n
  <1>2. ASSUME OwnMarker, NEW k \in 1..(Len(archive.blocks) + 1),
               Stands(archive, damage, members, "walk", i, note, k)
        PROVE  Stands(archive, damage, members', pc', i', note', k)
    <2>1. Reached(archive, damage, members, k) /\ i = Start(archive, k)
      BY <1>2 DEF Stands
    <2>2. ASSUME blob[i].t = "head" /\ ~blob[i].fits PROVE Ended(archive, damage, "bad header size", k)
      <3>1. k \in 1..Len(archive.blocks) /\ SizeLost(archive, damage, k)
        BY <1>1, <2>1, <2>2, Facts, SizeDamaged
      <3>2. k <= Len(archive.blocks)
        BY <3>1
      <3> QED
        BY <3>1, <3>2 DEF Ended
    <2>3. ASSUME ~(blob[i].t = "head" /\ ~blob[i].fits) PROVE Ended(archive, damage, "bad header size", k)
      <3>1. damage[1] # "none" /\ \A j \in k..Len(archive.blocks) : ~Sound(archive, damage, j)
        BY <1>1, <2>1, <2>3, Facts, Lost
      <3> QED
        BY <3>1 DEF Ended
    <2>4. Ended(archive, damage, "bad header size", k)
      BY <2>2, <2>3
    <2> QED
      BY <1>1, <2>1, <2>4 DEF Stands
  <1> QED
    BY <1>1, <1>2, Kept DEF Keeps

LEMMA StepBadChecksum ==
  ASSUME RarInv, BadChecksum
  PROVE  RarInv'
  <1>1. /\ Walking /\ pc = "walk" /\ pc' = "raised" /\ members' = members
        /\ i < Len(blob) /\ blob[i].t = "head" /\ ~(blob[i].ok /\ blob[i + 1] = Body)
    BY DEF BadChecksum, Whole, AtHeader, cell, Raise, Still, n
  <1>2. ASSUME OwnMarker, NEW k \in 1..(Len(archive.blocks) + 1),
               Stands(archive, damage, members, "walk", i, note, k)
        PROVE  Stands(archive, damage, members', pc', i', note', k)
    <2>1. Reached(archive, damage, members, k) /\ i = Start(archive, k)
      BY <1>2 DEF Stands
    <2>2. GaveUp(archive, damage)
      BY <1>1, <2>1, Facts, HeaderWrong
    <2> QED
      BY <1>1, <2>1, <2>2 DEF Stands
  <1> QED
    BY <1>1, <1>2, Kept DEF Keeps

\* The header that a walk of its own archive reads is that of the block.
LEMMA OwnHeader ==
  ASSUME RarInv, OwnMarker, Header, NEW k \in 1..(Len(archive.blocks) + 1), i = Start(archive, k)
  PROVE  /\ k \in 1..Len(archive.blocks) /\ block = archive.blocks[k]
         /\ data_off = Start(archive, k) + 2
         /\ damage[1] = "change" => ~(damage[2] \in {Start(archive, k), Start(archive, k) + 1})
  <1>1. i < Len(blob) /\ blob[i].t = "head" /\ blob[i].ok /\ blob[i + 1] = Body
    BY DEF Header, Whole, AtHeader, cell, n
  <1>2. /\ k \in 1..Len(archive.blocks) /\ blob[i].b = archive.blocks[k]
        /\ damage[1] = "change" => ~(damage[2] \in {i, i + 1})
    BY <1>1, Facts, HeaderRight
  <1> QED
    BY <1>2 DEF block, cell, data_off

LEMMA StepOutOfBounds ==
  ASSUME RarInv, OutOfBounds
  PROVE  RarInv'
  <1>1. /\ Walking /\ pc = "walk" /\ pc' = "raised" /\ members' = members
        /\ data_off + Len(block.data) > Len(blob) + 1 /\ Header
    BY DEF OutOfBounds, Header, Whole, AtHeader, Raise, Still, n
  <1>2. ASSUME OwnMarker, NEW k \in 1..(Len(archive.blocks) + 1),
               Stands(archive, damage, members, "walk", i, note, k)
        PROVE  Stands(archive, damage, members', pc', i', note', k)
    <2>1. Reached(archive, damage, members, k) /\ i = Start(archive, k)
      BY <1>2 DEF Stands
    <2>2. /\ k \in 1..Len(archive.blocks) /\ block = archive.blocks[k]
          /\ data_off = Start(archive, k) + 2
      BY <1>1, <1>2, <2>1, OwnHeader
    <2>3. GaveUp(archive, damage)
      BY <1>1, <2>2, Facts, DataMissing
    <2> QED
      BY <1>1, <2>1, <2>3 DEF Stands
  <1> QED
    BY <1>1, <1>2, Kept DEF Keeps

LEMMA StepEncrypted ==
  ASSUME RarInv, Encrypted
  PROVE  RarInv'
  <1>1. /\ Walking /\ pc = "walk" /\ pc' = "done" /\ note' = "encryption header"
        /\ members' = members /\ block.kind = "crypt" /\ Header
    BY DEF Encrypted, Header, Whole, AtHeader
  <1>2. ASSUME OwnMarker, NEW k \in 1..(Len(archive.blocks) + 1),
               Stands(archive, damage, members, "walk", i, note, k)
        PROVE  Stands(archive, damage, members', pc', i', note', k)
    <2>1. Reached(archive, damage, members, k) /\ i = Start(archive, k)
      BY <1>2 DEF Stands
    <2>2. k \in 1..Len(archive.blocks) /\ block = archive.blocks[k]
      BY <1>1, <1>2, <2>1, OwnHeader
    <2>3. k <= Len(archive.blocks)
      BY <2>2, Facts, FileFacts DEF FileHolds
    <2>4. Ended(archive, damage, "encryption header", k)
      BY <1>1, <2>2, <2>3 DEF Ended
    <2> QED
      BY <1>1, <2>1, <2>4 DEF Stands
  <1> QED
    BY <1>1, <1>2, Kept DEF Keeps

LEMMA StepEndBlock ==
  ASSUME RarInv, EndBlock
  PROVE  RarInv'
  <1>1. /\ Walking /\ pc = "walk" /\ pc' = "done" /\ note' = "end-of-archive block"
        /\ members' = members /\ block.kind = "end" /\ Header
    BY DEF EndBlock, Header, Whole, AtHeader, Stop, Still
  <1>2. ASSUME OwnMarker, NEW k \in 1..(Len(archive.blocks) + 1),
               Stands(archive, damage, members, "walk", i, note, k)
        PROVE  Stands(archive, damage, members', pc', i', note', k)
    <2>1. Reached(archive, damage, members, k) /\ i = Start(archive, k)
      BY <1>2 DEF Stands
    <2>2. k \in 1..Len(archive.blocks) /\ block = archive.blocks[k]
      BY <1>1, <1>2, <2>1, OwnHeader
    <2>3. k <= Len(archive.blocks)
      BY <2>2, Facts, FileFacts DEF FileHolds
    <2>4. Ended(archive, damage, "end-of-archive block", k)
      BY <1>1, <2>2, <2>3 DEF Ended
    <2> QED
      BY <1>1, <2>1, <2>4 DEF Stands
  <1> QED
    BY <1>1, <1>2, Kept DEF Keeps

\* From the end of a block's data to the next block.
LEMMA NextStart ==
  ASSUME RarInv, NEW k \in 1..Len(archive.blocks), block = archive.blocks[k],
         data_off = Start(archive, k) + 2
  PROVE  data_off + Len(block.data) = Start(archive, k + 1)
  BY Facts, FileFacts DEF FileHolds

LEMMA StepSkip ==
  ASSUME RarInv, Skip
  PROVE  RarInv'
  <1>1. /\ Walking /\ pc = "walk" /\ pc' = "walk" /\ members' = members /\ Header
        /\ i' = data_off + Len(block.data) /\ block.kind \notin {"file", "end", "crypt"}
    BY DEF Skip, InBounds, Header, Whole, AtHeader, Goto
  <1>2. ASSUME OwnMarker, NEW k \in 1..(Len(archive.blocks) + 1),
               Stands(archive, damage, members, "walk", i, note, k)
        PROVE  \E j \in 1..(Len(archive.blocks) + 1) :
                 Stands(archive, damage, members', pc', i', note', j)
    <2>1. Reached(archive, damage, members, k) /\ i = Start(archive, k)
      BY <1>2 DEF Stands
    <2>2. /\ k \in 1..Len(archive.blocks) /\ block = archive.blocks[k]
          /\ data_off = Start(archive, k) + 2
      BY <1>1, <1>2, <2>1, OwnHeader
    <2>3. ~Hides(archive, k) /\ ~Visible(archive, k)
      BY <1>1, <2>2 DEF Hides, Visible
    <2>4. k + 1 \in 1..(Len(archive.blocks) + 1) /\ Reached(archive, damage, members, k + 1)
      BY <2>1, <2>2, <2>3, Facts, PassedBy
    <2>5. i' = Start(archive, k + 1)
      BY <1>1, <2>2, NextStart
    <2> QED
      BY <1>1, <2>4, <2>5 DEF Stands
  <1> QED
    BY <1>1, <1>2, Kept DEF Keeps

LEMMA StepBadFile ==
  ASSUME RarInv, BadFile
  PROVE  RarInv'
  <1>1. /\ Walking /\ pc = "walk" /\ pc' # "read" /\ members' = members /\ Header
        /\ block.kind = "file" /\ ~block.good
        /\ version = 4 => pc' = "raised"
        /\ version # 4 => pc' = "walk" /\ i' = data_off + Len(block.data)
    BY DEF BadFile, InBounds, Header, Whole, AtHeader, Goto, Raise, Still
  <1>2. ASSUME OwnMarker, NEW k \in 1..(Len(archive.blocks) + 1),
               Stands(archive, damage, members, "walk", i, note, k)
        PROVE  \E j \in 1..(Len(archive.blocks) + 1) :
                 Stands(archive, damage, members', pc', i', note', j)
    <2>1. Reached(archive, damage, members, k) /\ i = Start(archive, k)
      BY <1>2 DEF Stands
    <2>2. /\ k \in 1..Len(archive.blocks) /\ block = archive.blocks[k]
          /\ data_off = Start(archive, k) + 2 /\ version = archive.version
      BY <1>1, <1>2, <2>1, OwnHeader, Facts
    <2>3. CASE version = 4
      <3>1. GaveUp(archive, damage)
        BY <1>1, <2>2, <2>3 DEF GaveUp
      <3>2. Stands(archive, damage, members', pc', i', note', k)
        BY <1>1, <2>1, <2>3, <3>1 DEF Stands
      <3> QED
        BY <3>2
    <2>4. CASE version # 4
      <3>1. ~Hides(archive, k) /\ ~Visible(archive, k)
        BY <1>1, <2>2, <2>4 DEF Hides, Visible
      <3>2. k + 1 \in 1..(Len(archive.blocks) + 1) /\ Reached(archive, damage, members, k + 1)
        BY <2>1, <2>2, <3>1, Facts, PassedBy
      <3>3. i' = Start(archive, k + 1)
        BY <1>1, <2>2, <2>4, NextStart
      <3>4. Stands(archive, damage, members', pc', i', note', k + 1)
        BY <1>1, <2>4, <3>2, <3>3 DEF Stands
      <3> QED
        BY <3>2, <3>4
    <2> QED
      BY <2>3, <2>4
  <1> QED
    BY <1>1, <1>2, Kept DEF Keeps

LEMMA StepFileBlock ==
  ASSUME RarInv, FileBlock
  PROVE  RarInv'
  <1>1. /\ Walking /\ pc = "walk" /\ pc' = "walk" /\ Header /\ i' = data_off + Len(block.data)
        /\ block.kind = "file" /\ block.good
        /\ members' = Append(members, [name |-> block.name, payload |-> Finished.payload,
                                       error |-> Finished.error])
    BY DEF FileBlock, InBounds, Header, Whole, AtHeader, Goto
  <1>2. ASSUME OwnMarker, NEW k \in 1..(Len(archive.blocks) + 1),
               Stands(archive, damage, members, "walk", i, note, k)
        PROVE  \E j \in 1..(Len(archive.blocks) + 1) :
                 Stands(archive, damage, members', pc', i', note', j)
    <2>1. Reached(archive, damage, members, k) /\ i = Start(archive, k)
      BY <1>2 DEF Stands
    <2>2. /\ k \in 1..Len(archive.blocks) /\ block = archive.blocks[k]
          /\ data_off = Start(archive, k) + 2 /\ version = archive.version
          /\ damage[1] = "change" => ~(damage[2] \in {Start(archive, k), Start(archive, k) + 1})
      BY <1>1, <1>2, <2>1, OwnHeader, Facts
    <2>3. PICK x : x = FinishOf(archive.blocks[k],
                                Slice(blob, Start(archive, k) + 2, Len(archive.blocks[k].data)))
      OBVIOUS
    <2>4. Finished = x
      <3>1. slice = Slice(blob, data_off, Len(block.data))
        BY DEF slice, Slice, n
      <3>2. Finished = FinishOf(block, slice)
        BY DEF Finished, FinishOf
      <3> QED
        BY <2>2, <2>3, <3>1, <3>2
    <2>5. PICK r : r = [name |-> archive.blocks[k].name, payload |-> x.payload, error |-> x.error]
      OBVIOUS
    <2>6. MemberOk(archive, damage, r, k)
      BY <2>2, <2>3, <2>5, Facts, FinishRight
    <2>7. Visible(archive, k)
      <3>1. ~Hides(archive, k)
        BY <1>1, <2>2 DEF Hides
      <3>2. \A j \in 1..k : ~Hides(archive, j)
        <4> TAKE j \in 1..k
        <4>1. j = k \/ j \in 1..(k - 1)
          BY <2>2, Facts, FileFacts DEF FileHolds
        <4> QED
          BY <2>1, <3>1, <4>1 DEF Reached
      <3> QED
        BY <1>1, <2>2, <3>2 DEF Visible
    <2>8. members' = Append(members, r)
      BY <1>1, <2>2, <2>4, <2>5
    <2>9. k + 1 \in 1..(Len(archive.blocks) + 1) /\ Reached(archive, damage, members', k + 1)
      BY <2>1, <2>2, <2>6, <2>7, <2>8, Facts, Taken
    <2>10. i' = Start(archive, k + 1)
      BY <1>1, <2>2, NextStart
    <2> QED
      BY <1>1, <2>9, <2>10 DEF Stands
  <1> QED
    BY <1>1, <1>2, Kept DEF Keeps

\* The inductive invariant, for every archive and every damage: the walk stands
\* at the start of a block, and its members are the files of those before.
THEOREM RarInvariance == Spec => []RarInv
  <1>1. Init => RarInv
    <2> SUFFICES ASSUME Init PROVE RarInv
      OBVIOUS
    <2>1. /\ archive \in Archives /\ damage \in Damages(archive)
          /\ blob = Damaged(File(archive), damage) /\ version = 0 /\ members = <<>>
      BY DEF Init
    <2>2. archive.version # 0
      BY <2>1, ArchivesAssumption
    <2> QED
      BY <2>1, <2>2 DEF RarInv, OwnMarker
  <1>2. RarInv /\ [Next]_vars => RarInv'
    <2> SUFFICES ASSUME RarInv, [Next]_vars PROVE RarInv'
      OBVIOUS
    <2>1. CASE UNCHANGED vars
      <3>1. /\ archive' = archive /\ damage' = damage /\ blob' = blob /\ members' = members
            /\ version' = version /\ pc' = pc /\ i' = i /\ note' = note
        BY <2>1 DEF vars
      <3>2. OwnMarker' = OwnMarker
        BY <3>1, OwnMarkerStays DEF Walking
      <3> QED
        BY <3>1, <3>2 DEF RarInv
    <2>2. CASE Next
      BY <2>2, StepRead, StepNoMarker, StepEndOfFile, StepBadSize, StepBadChecksum,
         StepOutOfBounds, StepEncrypted, StepEndBlock, StepSkip, StepBadFile, StepFileBlock
         DEF Next
    <2> QED
      BY <2>1, <2>2
  <1> QED
    BY <1>1, <1>2, PTL DEF Spec

-------------------------------------------------------------------------------
(* What follows from it.                                                   *)

\* Whatever damage a file takes, the members found are the archive's own, in
\* its order, and no payload that has a checksum differs from what was written
\* (read_rar4, read_rar5 and _finish).
THEOREM OwnMembersOnly == Spec => []OwnData
  <1>1. RarInv => OwnData
    <2> SUFFICES ASSUME RarInv, OwnMarker
                 PROVE  /\ Len(members) <= Len(Written(archive))
                        /\ \A m \in 1..Len(members) :
                             LET c == archive.blocks[Written(archive)[m]]
                             IN  /\ members[m].name = c.name
                                 /\ ~members[m].error =>
                                      /\ Len(members[m].payload) = Len(Outcome(c).payload)
                                      /\ c.crc => members[m] = Outcome(c)
      BY DEF OwnData
    <2>1. PICK k \in 1..(Len(archive.blocks) + 1) : Reached(archive, damage, members, k)
      BY DEF RarInv
    <2>2. /\ Len(members) <= Len(Written(archive))
          /\ \A m \in 1..Len(members) : MemberOk(archive, damage, members[m], Written(archive)[m])
      BY <2>1, Facts, FoundAreOwn
    <2> QED
      BY <2>2 DEF MemberOk
  <1> QED
    BY <1>1, RarInvariance, PTL

\* A walk that returns has read every member that the damage did not reach,
\* except those behind a header whose size was damaged, where it stops with a
\* note; one that raises an error has met a damaged header, a missing end or a
\* RAR4 file header that does not hold together (read_rar4, read_rar5).
THEOREM SoundMembersFound == Spec => []SoundMembersRead
  <1>1. RarInv => SoundMembersRead
    <2> SUFFICES ASSUME RarInv, OwnMarker
                 PROVE  /\ pc = "done" => \A m \in 1..Len(Written(archive)) :
                             Sound(archive, damage, Written(archive)[m]) =>
                               \/ /\ m <= Len(members)
                                  /\ members[m] = Outcome(archive.blocks[Written(archive)[m]])
                               \/ Unreached(archive, damage, note, Written(archive)[m])
                        /\ pc = "raised" =>
                             \/ damage[1] # "none" /\ ~DataChanged(archive, damage)
                             \/ version = 4 /\ \E k \in Blocks :
                                  archive.blocks[k].kind = "file" /\ ~archive.blocks[k].good
      BY DEF SoundMembersRead
    <2>1. PICK k \in 1..(Len(archive.blocks) + 1) :
            /\ Reached(archive, damage, members, k)
            /\ pc = "done" => Ended(archive, damage, note, k)
            /\ pc = "raised" => GaveUp(archive, damage)
      BY DEF RarInv
    <2>2. ASSUME pc = "done", NEW m \in 1..Len(Written(archive)),
                 Sound(archive, damage, Written(archive)[m])
          PROVE  \/ m <= Len(members) /\ members[m] = Outcome(archive.blocks[Written(archive)[m]])
                 \/ Unreached(archive, damage, note, Written(archive)[m])
      BY <2>1, <2>2, Facts, SoundFound
    <2>3. pc = "raised" =>
            \/ damage[1] # "none" /\ ~DataChanged(archive, damage)
            \/ version = 4 /\ \E j \in Blocks :
                 archive.blocks[j].kind = "file" /\ ~archive.blocks[j].good
      BY <2>1, Facts DEF GaveUp, Blocks
    <2> QED
      BY <2>2, <2>3
  <1> QED
    BY <1>1, RarInvariance, PTL

\* A walk that notes the end-of-archive block has found every member, and the
\* walk over a whole archive that ends in one notes it.
THEOREM EndNoteTrue == Spec => []EndNoteMeansAll
  <1>1. RarInv => EndNoteMeansAll
    <2> SUFFICES ASSUME RarInv, OwnMarker, pc = "done"
                 PROVE  /\ note = "end-of-archive block" => Len(members) = Len(Written(archive))
                        /\ damage[1] = "none" /\ archive.blocks[Len(archive.blocks)].kind = "end"
                             /\ (\A j \in 1..Len(archive.blocks) - 1 : ~Hides(archive, j))
                             => note = "end-of-archive block"
      BY DEF EndNoteMeansAll
    <2>1. PICK k \in 1..(Len(archive.blocks) + 1) :
            Reached(archive, damage, members, k) /\ Ended(archive, damage, note, k)
      BY DEF RarInv
    <2>2. note = "end-of-archive block" => Len(members) = Len(Written(archive))
      BY <2>1, Facts, EndedAll
    <2>3. ASSUME damage[1] = "none", archive.blocks[Len(archive.blocks)].kind = "end",
                 \A j \in 1..Len(archive.blocks) - 1 : ~Hides(archive, j)
          PROVE  note = "end-of-archive block"
      <3>1. PICK N \in Nat \ {0} : N = Len(archive.blocks)
        BY Facts, FileFacts DEF FileHolds
      <3>2. k # N + 1
        <4> SUFFICES ASSUME k = N + 1 PROVE FALSE
          OBVIOUS
        <4>1. ~Hides(archive, N)
          BY <2>1, <3>1 DEF Reached
        <4> QED
          BY <2>3, <3>1, <4>1 DEF Hides
      <3>3. /\ k \in 1..N
            /\ \/ archive.blocks[k].kind = "end" /\ note = "end-of-archive block"
               \/ archive.blocks[k].kind = "crypt"
        <4>1. PICK why : why = note
          OBVIOUS
        <4>2. Ended(archive, damage, why, k)
          BY <2>1, <4>1
        <4>3. \/ why = "none" /\ k = Len(archive.blocks) + 1
              \/ /\ k \in 1..Len(archive.blocks)
                 /\ \/ archive.blocks[k].kind = "end" /\ why = "end-of-archive block"
                    \/ archive.blocks[k].kind = "crypt"
          BY <2>3, <4>2, EndedWhole
        <4> QED
          BY <3>1, <3>2, <4>1, <4>3
      <3>4. archive.blocks[k].kind # "crypt"
        <4> SUFFICES ASSUME archive.blocks[k].kind = "crypt" PROVE FALSE
          OBVIOUS
        <4>1. Hides(archive, k)
          BY DEF Hides
        <4>2. k # N
          BY <2>3, <3>1
        <4>3. k \in 1..N - 1
          BY <3>1, <3>3, <4>2
        <4> QED
          BY <2>3, <3>1, <4>1, <4>3
      <3> QED
        BY <3>3, <3>4
    <2> QED
      BY <2>2, <2>3
  <1> QED
    BY <1>1, RarInvariance, PTL

===============================================================================
