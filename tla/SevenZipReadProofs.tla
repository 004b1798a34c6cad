-------------------------- MODULE SevenZipReadProofs --------------------------
(***************************************************************************)
(* The 7z reader, proved for every list of headers: decode_folder for      *)
(* every graph of coders, also those that feed each other, and every depth *)
(* limit; and the files, for every table of folders and streams.           *)
(***************************************************************************)
EXTENDS SevenZipRead, WellFoundedInduction, FiniteSetTheorems, SequenceTheorems, TLAPS

-------------------------------------------------------------------------------
(* Induction over the naturals, for a set of them.                         *)

LEMMA LeastNat ==
  ASSUME NEW T, T \subseteq Nat, T # {}
  PROVE  \E x \in T : \A y \in T : x <= y
  <1> DEFINE R == OpToRel(<, Nat)
  <1>1. IsWellFoundedOn(R, Nat)
    BY NatLessThanWellFounded
  <1>2. \A x, y \in Nat : x < y => <<x, y>> \in R
    BY DEF OpToRel
  <1> HIDE DEF R
  <1>3. PICK x \in T : \A y \in T : ~(<<y, x>> \in R)
    BY <1>1, WFMin
  <1>4. \A y \in T : ~(y < x)
    BY <1>2, <1>3
  <1> QED
    BY <1>4

LEMMA NatInduct ==
  ASSUME NEW T, 0 \in T, \A n \in Nat : n \in T => n + 1 \in T
  PROVE  Nat \subseteq T
  <1> SUFFICES ASSUME Nat \ T # {} PROVE FALSE
    OBVIOUS
  <1>1. PICK x \in Nat \ T : \A y \in Nat \ T : x <= y
    BY LeastNat
  <1>2. x # 0 /\ x - 1 \in Nat /\ x - 1 \in T
    BY <1>1
  <1> QED
    BY <1>1, <1>2

-------------------------------------------------------------------------------
(* Running totals.                                                         *)

\* g[n] is the sum of the first n members of s.
Totals(g, s, N) == /\ g \in [0..N -> Nat]
                   /\ g[0] = 0
                   /\ \A w \in 1..N : g[w] = g[w - 1] + s[w]

LEMMA TotalsExist ==
  ASSUME NEW N \in Nat, NEW s \in [1..N -> Nat]
  PROVE  \E g : Totals(g, s, N)
  <1> DEFINE T == {n \in Nat : n <= N => \E g : Totals(g, s, n)}
  <1>1. 0 \in T
    <2>1. Totals([w \in 0..0 |-> 0], s, 0)
      BY DEF Totals
    <2> QED
      BY <2>1
  <1>2. ASSUME NEW n \in Nat, n \in T PROVE n + 1 \in T
    <2> SUFFICES ASSUME n + 1 <= N PROVE \E g : Totals(g, s, n + 1)
      OBVIOUS
    <2>1. PICK g : Totals(g, s, n)
      BY <1>2
    <2> DEFINE e == [w \in 0..(n + 1) |-> IF w = n + 1 THEN g[n] + s[n + 1] ELSE g[w]]
    <2>2. s[n + 1] \in Nat /\ \A w \in 0..n : g[w] \in Nat
      BY <2>1 DEF Totals
    <2>3. e \in [0..(n + 1) -> Nat] /\ e[0] = 0
      BY <2>1, <2>2 DEF Totals
    <2>4. \A w \in 1..(n + 1) : e[w] = e[w - 1] + s[w]
      <3> TAKE w \in 1..(n + 1)
      <3>1. w - 1 \in 0..n /\ e[w - 1] = g[w - 1]
        OBVIOUS
      <3>2. CASE w = n + 1
        BY <3>1, <3>2
      <3>3. CASE w # n + 1
        <4>1. w \in 1..n /\ e[w] = g[w]
          BY <3>3
        <4> QED
          BY <2>1, <3>1, <4>1 DEF Totals
      <3> QED
        BY <3>2, <3>3
    <2>5. Totals(e, s, n + 1)
      BY <2>3, <2>4 DEF Totals
    <2> QED
      BY <2>5
  <1> HIDE DEF T
  <1>3. N \in T
    BY <1>1, <1>2, NatInduct
  <1> QED
    BY <1>3 DEF T

\* What a sum computed by recursion over its last n members is.
LEMMA SumIsTotal ==
  ASSUME NEW N \in Nat, NEW s, NEW g, Totals(g, s, N), NEW n \in 0..N,
         NEW sum, \A w \in 0..n : sum[w] = IF w = 0 THEN 0 ELSE sum[w - 1] + s[w]
  PROVE  sum[n] = g[n]
  <1> DEFINE T == {w \in Nat : w <= n => sum[w] = g[w]}
  <1>2. 0 \in T
    BY DEF Totals
  <1>3. ASSUME NEW w \in Nat, w \in T PROVE w + 1 \in T
    <2> SUFFICES ASSUME w + 1 <= n PROVE sum[w + 1] = g[w + 1]
      OBVIOUS
    <2>1. w + 1 \in 0..n /\ w + 1 # 0 /\ (w + 1) - 1 = w /\ w + 1 \in 1..N
      OBVIOUS
    <2>2. sum[w + 1] = sum[w] + s[w + 1]
      BY <2>1
    <2>3. g[w + 1] = g[w] + s[w + 1]
      BY <2>1 DEF Totals
    <2> QED
      BY <1>3, <2>2, <2>3
  <1> HIDE DEF T
  <1>4. n \in T
    BY <1>2, <1>3, NatInduct
  <1> QED
    BY <1>4 DEF T

LEMMA FieldNat ==
  ASSUME NEW c \in G!Coder, NEW field \in {"n_in", "n_out"}
  PROVE  c[field] \in Nat
  <1>1. CASE field = "n_in"
    BY <1>1 DEF G!Coder
  <1>2. CASE field = "n_out"
    BY <1>2 DEF G!Coder
  <1> QED
    BY <1>1, <1>2

LEMMA CoderNat ==
  ASSUME NEW f, f.coders \in Seq(G!Coder), NEW n \in 1..Len(f.coders)
  PROVE  f.coders[n].n_in \in Nat /\ f.coders[n].n_out \in Nat
  <1>1. f.coders[n] \in G!Coder
    OBVIOUS
  <1> QED
    BY <1>1 DEF G!Coder

\* The streams of a folder's first n coders, counted.
LEMMA UptoTotals ==
  ASSUME NEW f, f.coders \in Seq(G!Coder), NEW field \in {"n_in", "n_out"}
  PROVE  \E g : /\ Totals(g, [w \in 1..Len(f.coders) |-> f.coders[w][field]], Len(f.coders))
                /\ \A n \in 0..Len(f.coders) : G!upto(f, n, field) = g[n]
  <1> DEFINE N == Len(f.coders)
             s == [w \in 1..N |-> f.coders[w][field]]
  <1>1. N \in Nat /\ s \in [1..N -> Nat]
    <2>1. \A w \in 1..N : f.coders[w] \in G!Coder
      OBVIOUS
    <2> QED
      BY <2>1, FieldNat
  <1>2. PICK g : Totals(g, s, N)
    BY <1>1, TotalsExist
  <1>3. ASSUME NEW n \in 0..N PROVE G!upto(f, n, field) = g[n]
    <2> DEFINE Step(h_) == [w \in 0..n |-> IF w = 0 THEN 0 ELSE h_[w - 1] + f.coders[w][field]]
               sum == CHOOSE h_ : h_ = Step(h_)
               r == [w \in 0..n |-> g[w]]
    <2>1. r = Step(r)
      <3>1. \A w \in 0..n : r[w] = Step(r)[w]
        <4> TAKE w \in 0..n
        <4>1. CASE w = 0
          BY <1>2, <4>1 DEF Totals
        <4>2. CASE w # 0
          <5>1. w \in 1..N /\ w - 1 \in 0..n
            BY <1>1, <4>2
          <5> QED
            BY <1>2, <4>2, <5>1 DEF Totals
        <4> QED
          BY <4>1, <4>2
      <3> QED
        BY <3>1
    <2>2. sum = Step(sum)
      BY <2>1
    <2>3. G!upto(f, n, field) = sum[n]
      BY DEF G!upto
    <2> HIDE DEF sum
    <2>4. ASSUME NEW w \in 0..n
          PROVE  sum[w] = IF w = 0 THEN 0 ELSE sum[w - 1] + s[w]
      <3>1. sum[w] = Step(sum)[w]
        BY <2>2
      <3> QED
        BY <1>1, <3>1
    <2> HIDE DEF s, Step, N
    <2>5. sum[n] = g[n]
      BY <1>1, <1>2, <2>4, SumIsTotal, SMTT(30)
    <2> QED
      BY <2>3, <2>5
  <1> QED
    BY <1>2, <1>3

LEMMA UptoFacts ==
  ASSUME NEW f, f.coders \in Seq(G!Coder), NEW field \in {"n_in", "n_out"}
  PROVE  /\ G!upto(f, 0, field) = 0
         /\ \A n \in 0..Len(f.coders) : G!upto(f, n, field) \in Nat
         /\ \A n \in 1..Len(f.coders) :
              G!upto(f, n, field) = G!upto(f, n - 1, field) + f.coders[n][field]
  <1> DEFINE N == Len(f.coders)
             s == [w \in 1..N |-> f.coders[w][field]]
  <1>1. N \in Nat /\ \A w \in 1..N : s[w] = f.coders[w][field]
    OBVIOUS
  <1>2. PICK g : Totals(g, s, N) /\ \A n \in 0..N : G!upto(f, n, field) = g[n]
    BY UptoTotals
  <1> HIDE DEF s, N
  <1>3. G!upto(f, 0, field) = 0 /\ \A n \in 0..N : G!upto(f, n, field) \in Nat
    BY <1>1, <1>2 DEF Totals
  <1>4. ASSUME NEW n \in 1..N
        PROVE  G!upto(f, n, field) = G!upto(f, n - 1, field) + f.coders[n][field]
    <2>1. n \in 0..N /\ n - 1 \in 0..N
      BY <1>1
    <2> QED
      BY <1>1, <1>2, <2>1 DEF Totals
  <1> QED
    BY <1>3, <1>4 DEF N

LEMMA UptoMonotone ==
  ASSUME NEW f, f.coders \in Seq(G!Coder), NEW field \in {"n_in", "n_out"},
         NEW m \in 0..Len(f.coders), NEW n \in 0..Len(f.coders), m <= n
  PROVE  G!upto(f, m, field) <= G!upto(f, n, field)
  <1> DEFINE N == Len(f.coders)
             up(w) == G!upto(f, w, field)
             T == {w \in Nat : m + w <= N => up(m) <= up(m + w)}
  <1>1. N \in Nat /\ \A w \in 1..N : f.coders[w][field] \in Nat
    BY FieldNat
  <1>2. 0 \in T
    BY UptoFacts
  <1>3. ASSUME NEW w \in Nat, w \in T PROVE w + 1 \in T
    <2> SUFFICES ASSUME m + (w + 1) <= N PROVE up(m) <= up(m + (w + 1))
      OBVIOUS
    <2> DEFINE j == m + (w + 1)
    <2>1. j \in 1..N /\ j - 1 = m + w /\ m + w \in 0..N
      BY <1>1
    <2>2. up(j) = up(m + w) + f.coders[j][field]
      BY <2>1, UptoFacts
    <2>3. up(m) \in Nat /\ up(m + w) \in Nat /\ f.coders[j][field] \in Nat
      BY <1>1, <2>1, UptoFacts
    <2>4. up(m) <= up(m + w)
      BY <1>3, <2>1
    <2> QED
      BY <2>2, <2>3, <2>4
  <1> HIDE DEF T
  <1>4. n - m \in T /\ m + (n - m) = n
    BY <1>2, <1>3, NatInduct
  <1> QED
    BY <1>4 DEF T

\* Every output stream belongs to a coder, and that coder's inputs are among
\* the folder's.
LEMMA OutOf ==
  ASSUME NEW f, f.coders \in Seq(G!Coder), NEW o \in 0..G!total_out(f) - 1
  PROVE  /\ G!out_of(f, o) \in DOMAIN f.coders
         /\ G!first(f, G!out_of(f, o), "n_in") \in Nat
         /\ f.coders[G!out_of(f, o)].n_in \in Nat
         /\ G!first(f, G!out_of(f, o), "n_in") + f.coders[G!out_of(f, o)].n_in <= G!total_in(f)
  <1> DEFINE N == Len(f.coders)
             up(w) == G!upto(f, w, "n_out")
             T == {w \in Nat : w \in 0..N /\ o < up(w)}
  <1>1. N \in Nat
    OBVIOUS
  <1>2. o \in Nat /\ N \in T
    <2>1. up(N) \in Nat
      BY <1>1, UptoFacts
    <2> QED
      BY <1>1, <2>1 DEF G!total_out
  <1>3. PICK n \in T : \A w \in T : n <= w
    BY <1>2, LeastNat
  <1>4. n # 0
    BY <1>2, <1>3, UptoFacts
  <1>5. n \in 1..N /\ n - 1 \in 0..N /\ n - 1 \notin T
    BY <1>1, <1>3, <1>4
  <1>6. up(n - 1) <= o /\ o <= up(n - 1) + f.coders[n].n_out - 1
    <2>1. up(n - 1) \in Nat /\ up(n) = up(n - 1) + f.coders[n].n_out /\ up(n) \in Nat
      BY <1>3, <1>5, UptoFacts
    <2>2. f.coders[n].n_out \in Nat
      BY <1>5, CoderNat
    <2> QED
      BY <1>2, <1>3, <1>5, <2>1, <2>2
  <1>7. o \in G!first(f, n, "n_out")..(G!first(f, n, "n_out") + f.coders[n].n_out - 1)
    <2>1. up(n - 1) \in Nat /\ f.coders[n].n_out \in Nat
      BY <1>5, UptoFacts, CoderNat
    <2> QED
      BY <1>2, <1>6, <2>1 DEF G!first
  <1> DEFINE ci == G!out_of(f, o)
  <1>8. ci \in 1..N
    BY <1>5, <1>7 DEF G!out_of
  <1> HIDE DEF ci
  <1>9. ci - 1 \in 0..N /\ ci \in 0..N /\ N \in 0..N
    BY <1>1, <1>8
  <1>10. /\ G!first(f, ci, "n_in") \in Nat /\ f.coders[ci].n_in \in Nat
         /\ G!first(f, ci, "n_in") + f.coders[ci].n_in = G!upto(f, ci, "n_in")
    <2>1. f.coders[ci].n_in \in Nat
      BY <1>8, CoderNat
    <2> QED
      BY <1>8, <1>9, <2>1, UptoFacts DEF G!first
  <1>11. G!upto(f, ci, "n_in") <= G!total_in(f)
    BY <1>1, <1>8, <1>9, UptoMonotone DEF G!total_in
  <1> QED
    BY <1>8, <1>10, <1>11 DEF ci

-------------------------------------------------------------------------------
(* What the bindings say as long as the folder is the same.                *)

LEMMA SameGraph ==
  ASSUME graph' = graph
  PROVE  /\ \A i : G!bind(i)' = G!bind(i) /\ G!packed_for(i)' = G!packed_for(i)
         /\ G!Unbound' = G!Unbound /\ G!main_out' = G!main_out
         /\ \A o : G!Feeds(o)' = G!Feeds(o)
         /\ G!encrypted' = G!encrypted
  <1>1. \A i : G!bind(i)' = G!bind(i) /\ G!packed_for(i)' = G!packed_for(i)
    BY DEF G!bind, G!packed_for
  <1>2. G!Unbound' = G!Unbound /\ G!main_out' = G!main_out
    BY DEF G!Unbound, G!main_out
  <1>3. \A o : G!Feeds(o)' = G!Feeds(o)
    BY <1>1 DEF G!Feeds
  <1>4. G!encrypted' = G!encrypted
    BY DEF G!encrypted
  <1> QED
    BY <1>1, <1>2, <1>3, <1>4

\* An input is bound to one output at most.
LEMMA BindOne ==
  ASSUME NEW i, NEW o \in G!bind(i), NEW p \in G!bind(i)
  PROVE  o = p
  BY DEF G!bind

\* More data is there, and what was there is the same.
Grows == /\ DOMAIN produced \subseteq DOMAIN produced'
         /\ \A o \in DOMAIN produced : produced'[o] = produced[o]

LEMMA SourceGrows ==
  ASSUME graph' = graph, Grows
  PROVE  /\ \A i : \A x \in G!Source(i) : x \in G!Source(i)'
         /\ G!Given \subseteq G!Given'
  <1>1. \A i : \A x \in G!Source(i) : x \in G!Source(i)'
    <2> TAKE i
    <2> TAKE x \in G!Source(i)
    <2>1. CASE G!packed_for(i) # {}
      BY <2>1, SameGraph DEF G!Source
    <2>2. CASE G!packed_for(i) = {}
      <3>1. PICK o \in G!bind(i) \cap DOMAIN produced : x = produced[o]
        BY <2>2 DEF G!Source
      <3>2. o \in G!bind(i)' \cap DOMAIN produced' /\ x = produced'[o]
        BY <3>1, SameGraph DEF Grows
      <3> QED
        BY <2>2, <3>2, SameGraph DEF G!Source
    <2> QED
      BY <2>1, <2>2
  <1>2. \A o \in DOMAIN produced : o \in DOMAIN produced' /\ produced[o] = produced'[o]
    BY DEF Grows
  <1>3. G!Given \subseteq G!Given'
    <2>1. \A i : G!packed_for(i)' = G!packed_for(i)
      BY SameGraph
    <2>2. G!Packed' = G!Packed
      BY <2>1 DEF G!Packed
    <2>3. G!Produced \subseteq G!Produced'
      BY <1>2 DEF G!Produced
    <2> QED
      BY <2>2, <2>3 DEF G!Given
  <1> QED
    BY <1>1, <1>3

\* The calls there are now were there before, for the same streams.
Lower == \A j \in 1..Len(stack') : j \in 1..Len(stack) /\ stack'[j].out = stack[j].out

\* A call that is not on top is as it was.
LEMMA CallKept ==
  ASSUME NEW j, G!CallOk(j), graph' = graph, Grows, stack'[j] = stack[j],
         stack[j].out \notin DOMAIN produced',
         j < Len(stack') => j < Len(stack) /\ stack'[j + 1].out = stack[j + 1].out
  PROVE  G!CallOk(j)'
  <1> DEFINE ci == G!out_of(graph, stack[j].out)
             in == G!first(graph, ci, "n_in")
             n  == Len(stack[j].args)
  <1>1. /\ n <= graph.coders[ci].n_in
        /\ \A k_ \in 1..n : stack[j].args[k_] \in G!Source(in + (k_ - 1))
        /\ j < Len(stack) => /\ n < graph.coders[ci].n_in
                             /\ G!packed_for(in + n) = {}
                             /\ stack[j + 1].out \in G!bind(in + n)
    BY DEF G!CallOk
  <1>2. \A k_ \in 1..n : stack[j].args[k_] \in G!Source(in + (k_ - 1))'
    BY <1>1, SourceGrows
  <1>3. j < Len(stack') => /\ n < graph.coders[ci].n_in
                           /\ G!packed_for(in + n)' = {}
                           /\ stack'[j + 1].out \in G!bind(in + n)'
    BY <1>1, SameGraph
  <1> QED
    BY <1>1, <1>2, <1>3 DEF G!CallOk

\* The call on top, and the coder it is for.
LEMMA Top ==
  ASSUME G!FolderInv, gpc = "run"
  PROVE  LET n == Len(stack) IN
         /\ n \in Nat \ {0} /\ depth = n /\ G!Frame = stack[n]
         /\ stack[n].out \in DOMAIN runs /\ stack[n].args \in Seq(G!Given)
         /\ stack[n] = [out |-> stack[n].out, args |-> stack[n].args]
         /\ stack[n].out \notin DOMAIN produced
         /\ G!Ci = G!out_of(graph, stack[n].out) /\ G!coder = graph.coders[G!Ci]
         /\ G!gi = G!first(graph, G!Ci, "n_in") + Len(stack[n].args)
         /\ G!coder.n_in \in Nat /\ G!first(graph, G!Ci, "n_in") \in Nat
         /\ G!first(graph, G!Ci, "n_in") + G!coder.n_in <= G!total_in(graph)
         /\ G!total_in(graph) \in Nat
         /\ \A k_ \in 1..Len(stack[n].args) :
              stack[n].args[k_] \in G!Source(G!first(graph, G!Ci, "n_in") + (k_ - 1))
  <1> DEFINE n == Len(stack)
             Call == [out : DOMAIN runs, args : Seq(G!Given)]
  <1>1. stack \in Seq(Call) /\ stack # <<>> /\ depth = n
    BY DEF G!FolderInv, G!Types
  <1>2. n \in Nat \ {0} /\ stack[n] \in Call
    <2> HIDE DEF Call
    <2>1. n \in Nat \ {0}
      BY <1>1
    <2>2. n \in 1..n
      BY <2>1
    <2> QED
      BY <1>1, <2>1, <2>2
  <1>3. G!Frame = stack[n]
    BY DEF G!Frame, G!Last
  <1>4. graph.coders \in Seq(G!Coder) /\ DOMAIN runs = 0..G!total_out(graph) - 1
    BY DEF G!FolderInv, G!Types
  <1>5. G!CallOk(n)
    BY <1>2 DEF G!FolderInv
  <1>6. G!total_in(graph) \in Nat
    BY <1>4, UptoFacts DEF G!total_in
  <1>7. /\ G!Ci = G!out_of(graph, stack[n].out) /\ G!coder = graph.coders[G!Ci]
        /\ G!gi = G!first(graph, G!Ci, "n_in") + Len(stack[n].args)
    BY <1>3 DEF G!Ci, G!coder, G!gi
  <1>8. /\ G!coder.n_in \in Nat /\ G!first(graph, G!Ci, "n_in") \in Nat
        /\ G!first(graph, G!Ci, "n_in") + G!coder.n_in <= G!total_in(graph)
    BY <1>2, <1>4, <1>7, OutOf
  <1> QED
    BY <1>1, <1>2, <1>3, <1>5, <1>6, <1>7, <1>8 DEF G!CallOk

-------------------------------------------------------------------------------
(* The steps of decode_folder keep the invariant.                          *)

LEMMA CodingInit == G!Init => G!FolderInv
  <1> SUFFICES ASSUME G!Init PROVE G!FolderInv
    OBVIOUS
  <1>1. graph.coders = <<>> /\ G!total_out(graph) = 0
    <2>1. graph.coders = <<>> /\ graph.coders \in Seq(G!Coder) /\ Len(graph.coders) = 0
      BY DEF G!Init, G!NoFolder
    <2> QED
      BY <2>1, UptoFacts DEF G!total_out
  <1>2. DOMAIN runs = {} /\ DOMAIN produced = {} /\ stack = <<>> /\ Len(stack) = 0
    BY DEF G!Init
  <1>3. G!Types
    BY <1>1, <1>2 DEF G!Init, G!Types, G!Ends
  <1> QED
    BY <1>2, <1>3 DEF G!Init, G!FolderInv, G!RunsOk, G!Solved

LEMMA LeaveStep == G!Leave => G!FolderInv'
  <1> SUFFICES ASSUME G!Leave PROVE G!FolderInv'
    OBVIOUS
  <1>1. graph'.coders = <<>> /\ G!total_out(graph') = 0
    <2>1. graph'.coders = <<>> /\ graph'.coders \in Seq(G!Coder) /\ Len(graph'.coders) = 0
      BY DEF G!Leave, G!NoFolder
    <2> QED
      BY <2>1, UptoFacts DEF G!total_out
  <1>2. DOMAIN runs' = {} /\ DOMAIN produced' = {} /\ stack' = <<>> /\ Len(stack') = 0
    BY DEF G!Leave
  <1>3. G!Types'
    BY <1>1, <1>2 DEF G!Leave, G!Types, G!Ends
  <1> QED
    BY <1>2, <1>3 DEF G!Leave, G!FolderInv, G!RunsOk, G!Solved

LEMMA LoadStep ==
  ASSUME G!FolderInv, NEW cs \in Seq(G!Coder), G!Load(cs)
  PROVE  G!FolderInv'
  <1>1. /\ stack' = <<>> /\ Len(stack') = 0 /\ produced' = <<>> /\ DOMAIN produced' = {}
        /\ gpc' = "start" /\ depth' = 0
    BY DEF G!FolderInv, G!Types, G!Load
  <1>2. graph'.coders = cs /\ runs' = [o \in 0..G!total_out(graph') - 1 |-> 0]
    BY DEF G!Load
  <1>3. G!Types'
    BY <1>1, <1>2 DEF G!Types
  <1>4. G!RunsOk' /\ G!Solved'
    BY <1>1, <1>2 DEF G!RunsOk, G!Solved, G!Ends
  <1> QED
    BY <1>1, <1>3, <1>4 DEF G!FolderInv

LEMMA CallsWiden ==
  ASSUME NEW D, NEW S, NEW T, S \subseteq T, NEW s \in Seq([out : D, args : Seq(S)])
  PROVE  s \in Seq([out : D, args : Seq(T)])
  <1>1. ASSUME NEW a \in Seq(S) PROVE a \in Seq(T)
    BY <1>1
  <1>2. [out : D, args : Seq(S)] \subseteq [out : D, args : Seq(T)]
    BY <1>1
  <1>3. \A X, Y : X \subseteq Y => Seq(X) \subseteq Seq(Y)
    OBVIOUS
  <1> QED
    BY <1>2, <1>3

LEMMA CallRecord ==
  ASSUME NEW D, NEW S, NEW c \in [out : D, args : S]
  PROVE  c = [out |-> c.out, args |-> c.args] /\ c.out \in D /\ c.args \in S
  OBVIOUS

\* The call ends, or goes on, or nothing at all happens.
LEMMA GoesOn ==
  ASSUME G!FolderInv, UNCHANGED <<graph, stack, depth, produced, runs>>,
         \/ gpc # "idle" /\ gpc' \in G!Ends \ {"done"}
         \/ gpc = "check" /\ gpc' = "done"
         \/ gpc' = gpc
  PROVE  G!FolderInv'
  <1>1. Grows
    BY DEF Grows
  <1>2. G!Types'
    <2>1. G!Given \subseteq G!Given'
      BY <1>1, SourceGrows
    <2>2. stack \in Seq([out : DOMAIN runs, args : Seq(G!Given')])
      BY <2>1, CallsWiden DEF G!FolderInv, G!Types
    <2> QED
      BY <2>2 DEF G!FolderInv, G!Types, G!Ends
  <1>3. \A j \in 1..Len(stack) : G!CallOk(j)'
    BY <1>1, CallKept DEF G!FolderInv, G!CallOk
  <1>4. G!main_out' = G!main_out
    BY SameGraph
  <1>5. G!RunsOk'
    BY DEF G!FolderInv, G!RunsOk, G!Ends
  <1>6. G!Solved'
    <2>1. \A i : \A x \in G!Source(i) : x \in G!Source(i)'
      BY <1>1, SourceGrows
    <2> QED
      BY <1>4, <2>1 DEF G!FolderInv, G!Solved, G!Ends
  <1> QED
    BY <1>2, <1>3, <1>4, <1>5, <1>6 DEF G!FolderInv, G!Ends

LEMMA PushStep ==
  ASSUME G!FolderInv, NEW o \in DOMAIN runs, o \notin DOMAIN produced,
         stack' = Append(stack, [out |-> o, args |-> <<>>]), depth' = depth + 1,
         gpc' = "run", UNCHANGED <<graph, produced, runs>>,
         \/ gpc = "start" /\ o = G!main_out
         \/ /\ gpc = "run" /\ Len(G!Frame.args) < G!coder.n_in
            /\ G!packed_for(G!gi) = {} /\ o \in G!bind(G!gi)
  PROVE  G!FolderInv'
  <1> DEFINE new == [out |-> o, args |-> <<>>]
  <1> PICK n : n = Len(stack)
    OBVIOUS
  <1>1. /\ n \in Nat /\ depth = n /\ graph.coders \in Seq(G!Coder)
        /\ stack \in Seq([out : DOMAIN runs, args : Seq(G!Given)])
        /\ DOMAIN runs = 0..G!total_out(graph) - 1
    BY DEF G!FolderInv, G!Types
  <1>2. Grows /\ G!Given \subseteq G!Given'
    <2>1. Grows
      BY DEF Grows
    <2> QED
      BY <2>1, SourceGrows
  <1>3. /\ Len(stack') = n + 1 /\ stack'[n + 1] = new /\ \A j \in 1..n : stack'[j] = stack[j]
        /\ stack' # <<>>
    BY <1>1
  <1>4. G!Types'
    <2>1. new \in [out : DOMAIN runs, args : Seq(G!Given')]
      OBVIOUS
    <2>2. stack \in Seq([out : DOMAIN runs, args : Seq(G!Given')])
      BY <1>1, <1>2, CallsWiden
    <2>3. stack' \in Seq([out : DOMAIN runs, args : Seq(G!Given')])
      BY <2>1, <2>2
    <2> QED
      BY <1>1, <1>3, <2>3 DEF G!FolderInv, G!Types
  <1>5. G!CallOk(n + 1)'
    <2>1. graph.coders[G!out_of(graph, o)].n_in \in Nat
      BY <1>1, OutOf
    <2>2. stack'[n + 1].out = o /\ Len(stack'[n + 1].args) = 0 /\ ~(n + 1 < Len(stack'))
      BY <1>1, <1>3
    <2>3. \A k_ \in 1..Len(stack'[n + 1].args) : FALSE
      BY <2>2
    <2> QED
      BY <2>1, <2>2, <2>3 DEF G!CallOk
  <1>6. ASSUME NEW j \in 1..n PROVE G!CallOk(j)'
    <2>1. G!CallOk(j)
      BY DEF G!FolderInv
    <2>2. CASE j < n
      <3>1. j + 1 \in 1..n /\ j < Len(stack)
        BY <1>1, <2>2
      <3>2. stack'[j] = stack[j] /\ stack'[j + 1].out = stack[j + 1].out
        BY <1>3, <3>1
      <3>3. stack[j].out \notin DOMAIN produced'
        BY <2>1 DEF G!CallOk
      <3> QED
        BY <1>2, <2>1, <3>1, <3>2, <3>3, CallKept
    <2>3. CASE j = n
      <3>1. gpc = "run"
        BY <1>1, <2>3 DEF G!FolderInv
      <3> PICK ci : ci = G!out_of(graph, stack[n].out)
        OBVIOUS
      <3> PICK in : in = G!first(graph, ci, "n_in")
        OBVIOUS
      <3> PICK m : m = Len(stack[n].args)
        OBVIOUS
      <3>2. /\ stack[n].out \notin DOMAIN produced /\ m \in Nat
            /\ \A k_ \in 1..m : stack[n].args[k_] \in G!Source(in + (k_ - 1))
            /\ m < graph.coders[ci].n_in /\ graph.coders[ci].n_in \in Nat
            /\ G!packed_for(in + m) = {} /\ o \in G!bind(in + m)
        <4>1. /\ G!Ci = ci /\ G!coder = graph.coders[ci] /\ G!gi = in + m
              /\ G!Frame = stack[n] /\ stack[n].out \notin DOMAIN produced
              /\ G!coder.n_in \in Nat /\ stack[n].args \in Seq(G!Given)
          BY <3>1, Top
        <4>2. \A k_ \in 1..m : stack[n].args[k_] \in G!Source(in + (k_ - 1))
          <5>1. /\ n = Len(stack) /\ m = Len(stack[n].args) /\ in = G!first(graph, G!Ci, "n_in")
            BY <4>1
          <5> QED
            BY <3>1, <5>1, Top
        <4>3. m \in Nat
          BY <4>1, LenProperties
        <4>4. m < graph.coders[ci].n_in /\ G!packed_for(in + m) = {} /\ o \in G!bind(in + m)
          BY <3>1, <4>1
        <4> QED
          BY <4>1, <4>2, <4>3, <4>4
      <3>3. \A k_ \in 1..m : stack[n].args[k_] \in G!Source(in + (k_ - 1))'
        BY <1>2, <3>2, SourceGrows
      <3>4. G!packed_for(in + m)' = {} /\ o \in G!bind(in + m)'
        BY <3>2, SameGraph
      <3>5. stack'[n] = stack[n] /\ stack'[n + 1].out = o
        BY <1>3, <2>3
      <3> QED
        BY <1>3, <2>3, <3>2, <3>3, <3>4, <3>5 DEF G!CallOk
    <2> QED
      BY <1>1, <2>2, <2>3
  <1>7. \A j \in 1..Len(stack') : G!CallOk(j)'
    <2>1. \A j \in 1..Len(stack') : j \in 1..n \/ j = n + 1
      BY <1>1, <1>3
    <2> QED
      BY <1>5, <1>6, <2>1
  <1>8. stack'[1].out = G!main_out'
    <2>1. G!main_out' = G!main_out
      BY SameGraph
    <2>2. CASE gpc = "start"
      <3>1. n = 0
        BY <2>2 DEF G!FolderInv
      <3> QED
        BY <1>3, <2>1, <2>2, <3>1
    <2>3. CASE gpc = "run"
      <3>1. n # 0 /\ stack[1].out = G!main_out
        BY <1>1, <2>3 DEF G!FolderInv
      <3>2. stack'[1] = stack[1]
        BY <1>1, <1>3, <3>1
      <3> QED
        BY <2>1, <3>1, <3>2
    <2> QED
      BY <2>2, <2>3
  <1>9. G!RunsOk'
    BY DEF G!FolderInv, G!RunsOk, G!Ends
  <1>10. G!Solved'
    <2>1. \A i : \A x \in G!Source(i) : x \in G!Source(i)'
      BY <1>2, SourceGrows
    <2> QED
      BY <2>1 DEF G!FolderInv, G!Solved
  <1> QED
    BY <1>3, <1>4, <1>7, <1>8, <1>9, <1>10 DEF G!FolderInv

LEMMA GiveStep ==
  ASSUME G!FolderInv, gpc = "run", Len(G!Frame.args) < G!coder.n_in,
         NEW x \in G!Source(G!gi), x \in G!Given, G!Give(x),
         UNCHANGED <<graph, gpc, depth, produced, runs>>
  PROVE  G!FolderInv'
  <1> PICK n : n = Len(stack)
    OBVIOUS
  <1> DEFINE got == Append(stack[n].args, x)
  <1> PICK ci : ci = G!out_of(graph, stack[n].out)
    OBVIOUS
  <1> PICK in : in = G!first(graph, ci, "n_in")
    OBVIOUS
  <1> PICK m : m = Len(stack[n].args)
    OBVIOUS
  <1>1. /\ n \in Nat \ {0} /\ depth = n /\ stack[n].out \notin DOMAIN produced /\ m \in Nat
        /\ stack[n].args \in Seq(G!Given)
        /\ \A k_ \in 1..m : stack[n].args[k_] \in G!Source(in + (k_ - 1))
        /\ m < graph.coders[ci].n_in /\ graph.coders[ci].n_in \in Nat
        /\ x \in G!Source(in + m)
    BY Top
  <1>2. stack \in Seq([out : DOMAIN runs, args : Seq(G!Given)])
    BY DEF G!FolderInv, G!Types
  <1>3. Grows /\ G!Given \subseteq G!Given'
    <2>1. Grows
      BY DEF Grows
    <2> QED
      BY <2>1, SourceGrows
  <1>4. stack' = [stack EXCEPT ![n] = [out |-> stack[n].out, args |-> got]]
    <2>1. PICK o, a : stack[n] = [out |-> o, args |-> a]
      BY Top
    <2>2. [[out |-> o, args |-> a] EXCEPT !.args = Append(a, x)] = [out |-> o, args |-> Append(a, x)]
      BY SMTT(30)
    <2>3. stack[n].out = o /\ stack[n].args = a
      BY <2>1
    <2> QED
      BY <2>1, <2>2, <2>3 DEF G!Give
  <1>5. /\ stack' \in Seq([out : DOMAIN runs, args : Seq(G!Given)])
        /\ Len(stack') = n /\ stack' # <<>>
        /\ stack'[n] = [out |-> stack[n].out, args |-> got]
        /\ \A j \in 1..n : stack'[j].out = stack[j].out
        /\ \A j \in 1..(n - 1) : stack'[j] = stack[j]
    <2> DEFINE new == [out |-> stack[n].out, args |-> got]
               Call == [out : DOMAIN runs, args : Seq(G!Given)]
    <2>1. new \in Call /\ new.out = stack[n].out
      BY <1>1, Top
    <2> HIDE DEF new, Call
    <2>2. stack \in Seq(Call) /\ n = Len(stack) /\ n \in 1..n /\ stack' = [stack EXCEPT ![n] = new]
      BY <1>1, <1>2, <1>4 DEF new, Call
    <2>3. stack' \in Seq(Call) /\ Len(stack') = n
      BY <2>1, <2>2
    <2>4. /\ stack' # <<>> /\ stack'[n] = new
          /\ \A j \in 1..(n - 1) : stack'[j] = stack[j]
          /\ \A j \in 1..n : stack'[j].out = stack[j].out
      BY <1>1, <2>1, <2>2, <2>3
    <2> QED
      BY <2>3, <2>4 DEF new, Call
  <1>6. /\ got \in Seq(G!Given) /\ Len(got) = m + 1 /\ got[m + 1] = x
        /\ \A k_ \in 1..m : got[k_] = stack[n].args[k_]
    BY <1>1
  <1>7. G!Types'
    <2>1. stack' \in Seq([out : DOMAIN runs, args : Seq(G!Given')])
      BY <1>3, <1>5, CallsWiden
    <2> QED
      BY <1>5, <2>1 DEF G!FolderInv, G!Types
  <1>8. G!CallOk(n)'
    <2>1. ASSUME NEW k_ \in 1..(m + 1) PROVE got[k_] \in G!Source(in + (k_ - 1))'
      <3>1. got[k_] \in G!Source(in + (k_ - 1))
        <4>1. CASE k_ = m + 1
          BY <1>1, <1>6, <4>1
        <4>2. CASE k_ # m + 1
          <5>1. k_ \in 1..m
            BY <1>1, <4>2
          <5> QED
            BY <1>1, <1>6, <5>1
        <4> QED
          BY <4>1, <4>2
      <3> QED
        BY <1>3, <3>1, SourceGrows
    <2>2. m + 1 <= graph.coders[ci].n_in
      BY <1>1
    <2> HIDE DEF got
    <2> QED
      BY <1>1, <1>5, <1>6, <2>1, <2>2 DEF G!CallOk
  <1>9. ASSUME NEW j \in 1..(n - 1) PROVE G!CallOk(j)'
    <2>1. j \in 1..n /\ j + 1 \in 1..n /\ j < n
      BY <1>1
    <2>2. G!CallOk(j)
      BY <2>1 DEF G!FolderInv
    <2>3. stack'[j] = stack[j] /\ stack'[j + 1].out = stack[j + 1].out
      BY <1>5, <2>1
    <2>4. stack[j].out \notin DOMAIN produced'
      BY <2>2 DEF G!CallOk
    <2> QED
      BY <1>3, <2>1, <2>2, <2>3, <2>4, CallKept
  <1>10. \A j \in 1..Len(stack') : G!CallOk(j)'
    <2>1. \A j \in 1..n : j \in 1..(n - 1) \/ j = n
      BY <1>1
    <2> QED
      BY <1>5, <1>8, <1>9, <2>1
  <1>11. stack'[1].out = G!main_out'
    <2>1. stack[1].out = G!main_out /\ 1 \in 1..n
      BY <1>1 DEF G!FolderInv
    <2>2. stack'[1].out = stack[1].out
      BY <1>5, <2>1
    <2> QED
      BY <2>1, <2>2, SameGraph
  <1>12. G!RunsOk'
    BY DEF G!FolderInv, G!RunsOk, G!Ends
  <1>13. G!Solved'
    <2>1. \A i : \A y \in G!Source(i) : y \in G!Source(i)'
      BY <1>3, SourceGrows
    <2> QED
      BY <2>1 DEF G!FolderInv, G!Solved
  <1> QED
    BY <1>5, <1>7, <1>10, <1>11, <1>12, <1>13 DEF G!FolderInv

\* A call whose coder has its inputs is for a stream that no call below it is
\* for: that one would still wait for an input that this one has been given.
LEMMA NotBelow ==
  ASSUME G!FolderInv, gpc = "run", Len(G!Frame.args) = G!coder.n_in,
         NEW j \in 1..Len(stack), j < Len(stack)
  PROVE  stack[j].out # stack[Len(stack)].out
  <1> PICK n : n = Len(stack)
    OBVIOUS
  <1> PICK m : m = Len(stack[j].args)
    OBVIOUS
  <1> SUFFICES ASSUME stack[j].out = stack[n].out PROVE FALSE
    OBVIOUS
  <1> PICK ci : ci = G!out_of(graph, stack[n].out)
    OBVIOUS
  <1> PICK in : in = G!first(graph, ci, "n_in")
    OBVIOUS
  <1>1. /\ n \in Nat \ {0} /\ Len(stack[n].args) = graph.coders[ci].n_in
        /\ \A k_ \in 1..Len(stack[n].args) : stack[n].args[k_] \in G!Source(in + (k_ - 1))
    BY Top
  <1>2. /\ m < graph.coders[ci].n_in /\ G!packed_for(in + m) = {}
        /\ stack[j + 1].out \in G!bind(in + m)
    BY DEF G!FolderInv, G!CallOk
  <1>3. m \in Nat
    BY Top, SMTT(30) DEF G!FolderInv, G!Types
  <1>4. m + 1 \in 1..Len(stack[n].args) /\ (m + 1) - 1 = m
    <2>1. graph.coders[ci].n_in \in Nat
      BY Top
    <2> QED
      BY <1>1, <1>2, <1>3, <2>1
  <1>5. stack[n].args[m + 1] \in G!Source(in + m)
    BY <1>1, <1>4
  <1>6. PICK o \in G!bind(in + m) \cap DOMAIN produced : TRUE
    BY <1>2, <1>5 DEF G!Source
  <1>7. o = stack[j + 1].out
    BY <1>2, <1>6, BindOne
  <1>8. j + 1 \in 1..n
    BY <1>1
  <1>9. stack[j + 1].out \notin DOMAIN produced
    BY <1>8 DEF G!FolderInv, G!CallOk
  <1> QED
    BY <1>6, <1>7, <1>9

LEMMA FailStep ==
  ASSUME G!FolderInv, G!CoderFails
  PROVE  G!FolderInv'
  <1>1. /\ gpc = "run" /\ gpc' \in G!Ends \ {"done"}
        /\ UNCHANGED <<graph, stack, depth, produced>>
        /\ runs' = [runs EXCEPT ![G!Frame.out] = @ + 1]
    BY DEF G!CoderFails, G!Coding, G!Ends
  <1>2. DOMAIN runs' = DOMAIN runs
    BY <1>1
  <1>3. Grows
    BY <1>1 DEF Grows
  <1>4. G!Types'
    <2>1. G!Given \subseteq G!Given'
      BY <1>1, <1>3, SourceGrows
    <2>2. stack \in Seq([out : DOMAIN runs, args : Seq(G!Given')])
      BY <2>1, CallsWiden DEF G!FolderInv, G!Types
    <2> QED
      BY <1>1, <1>2, <2>2 DEF G!FolderInv, G!Types, G!Ends
  <1>5. \A j \in 1..Len(stack) : G!CallOk(j)'
    BY <1>1, <1>3, CallKept DEF G!FolderInv, G!CallOk
  <1>6. G!main_out' = G!main_out
    BY <1>1, SameGraph
  <1>7. \A o \in DOMAIN runs : runs'[o] \in {0, 1}
    <2>1. G!Frame.out \in DOMAIN runs \ DOMAIN produced
      BY <1>1, Top
    <2>2. runs[G!Frame.out] = 0
      BY <1>1, <2>1 DEF G!FolderInv, G!RunsOk, G!Ends
    <2> QED
      BY <1>1, <2>1, <2>2 DEF G!FolderInv, G!RunsOk
  <1>8. G!RunsOk'
    BY <1>1, <1>2, <1>7 DEF G!RunsOk
  <1>9. G!Solved'
    <2>1. \A i : \A x \in G!Source(i) : x \in G!Source(i)'
      BY <1>1, <1>3, SourceGrows
    <2>2. \A o \in DOMAIN runs' : runs'[o] <= 1
      BY <1>2, <1>7
    <2> QED
      BY <1>1, <2>1, <2>2 DEF G!FolderInv, G!Solved, G!Ends
  <1> QED
    BY <1>1, <1>4, <1>5, <1>6, <1>8, <1>9 DEF G!FolderInv, G!Ends

LEMMA ReturnStep ==
  ASSUME G!FolderInv, G!Return
  PROVE  G!FolderInv' /\ Lower
  <1> PICK n : n = Len(stack)
    OBVIOUS
  <1> PICK out : out = stack[n].out
    OBVIOUS
  <1> PICK ci : ci = G!out_of(graph, out)
    OBVIOUS
  <1> PICK in : in = G!first(graph, ci, "n_in")
    OBVIOUS
  <1> PICK args : args = stack[n].args
    OBVIOUS
  <1> PICK data : data = <<ci, out, args>>
    OBVIOUS
  <1> DEFINE Call == [out : DOMAIN runs, args : Seq(G!Given)]
             CallNext == [out : DOMAIN runs, args : Seq(G!Given')]
  <1>1. /\ gpc = "run" /\ graph' = graph /\ depth' = depth - 1
        /\ produced' = [o \in DOMAIN produced \cup {out} |-> IF o = out THEN data ELSE produced[o]]
        /\ runs' = [runs EXCEPT ![out] = @ + 1]
        /\ gpc' = IF n = 1 THEN "check" ELSE "run"
    BY Top DEF G!Return, G!Data
  <1>2. /\ n \in Nat \ {0} /\ depth = n /\ out \in DOMAIN runs /\ out \notin DOMAIN produced
        /\ args \in Seq(G!Given) /\ Len(args) = graph.coders[ci].n_in
        /\ \A k_ \in 1..Len(args) : args[k_] \in G!Source(in + (k_ - 1))
    BY <1>1, Top DEF G!Return
  <1>3. /\ Grows /\ DOMAIN produced' = DOMAIN produced \cup {out}
        /\ produced'[out] = data /\ \A o \in DOMAIN produced : produced'[o] = produced[o]
    BY <1>1, <1>2 DEF Grows
  <1>4. /\ \A i : \A x \in G!Source(i) : x \in G!Source(i)'
        /\ G!Given \subseteq G!Given'
    BY <1>1, <1>3, SourceGrows
  <1>5. data \in G!Given'
    <2>1. data \in G!Produced'
      BY <1>3 DEF G!Produced
    <2> QED
      BY <2>1 DEF G!Given
  <1>6. stack \in Seq(Call) /\ stack \in Seq(CallNext)
    BY <1>4, CallsWiden DEF G!FolderInv, G!Types
  <1>7. DOMAIN runs' = DOMAIN runs /\ DOMAIN produced' \subseteq DOMAIN runs
    BY <1>1, <1>2, <1>3 DEF G!FolderInv, G!Types
  <1>8. G!main_out' = G!main_out
    BY <1>1, SameGraph
  <1>9. G!RunsOk' /\ \A o \in DOMAIN runs' : runs'[o] <= 1
    <2>1. \A o \in DOMAIN runs : runs[o] = IF o \in DOMAIN produced THEN 1 ELSE 0
      BY <1>1 DEF G!FolderInv, G!RunsOk, G!Ends
    <2>2. \A o \in DOMAIN runs : runs'[o] = IF o \in DOMAIN produced' THEN 1 ELSE 0
      BY <1>1, <1>2, <1>3, <2>1
    <2> QED
      BY <1>7, <2>2 DEF G!RunsOk
  <1>10. ASSUME NEW o \in DOMAIN produced'
         PROVE  LET c == G!out_of(graph, o) IN
                /\ produced'[o][1] = c /\ produced'[o][2] = o
                /\ Len(produced'[o][3]) = graph.coders[c].n_in
                /\ \A k_ \in 1..graph.coders[c].n_in :
                     produced'[o][3][k_] \in G!Source(G!first(graph, c, "n_in") + (k_ - 1))
    <2>1. CASE o = out
      BY <1>2, <1>3, <2>1, SMTT(30)
    <2>2. CASE o # out
      <3>1. o \in DOMAIN produced /\ produced'[o] = produced[o]
        BY <1>3, <2>2
      <3> QED
        BY <3>1 DEF G!FolderInv, G!Solved
    <2> QED
      BY <2>1, <2>2
  <1>11. n = 1 => out = G!main_out
    BY <1>2 DEF G!FolderInv
  <1>12. G!Solved'
    <2>1. gpc' \in {"check", "done"} => G!main_out' \in DOMAIN produced'
      BY <1>1, <1>3, <1>8, <1>11
    <2> QED
      BY <1>1, <1>4, <1>9, <1>10, <2>1 DEF G!Solved
  <1>13. CASE n = 1
    <2>1. stack' = <<>>
      <3>1. Len(SubSeq(stack, 1, 0)) = 0 /\ SubSeq(stack, 1, 0) = <<>>
        BY <1>6
      <3> QED
        BY <1>13, <3>1 DEF G!Return, G!Front
    <2>2. G!Types'
      BY <1>1, <1>2, <1>7, <1>13, <2>1 DEF G!FolderInv, G!Types
    <2> QED
      BY <1>1, <1>9, <1>12, <1>13, <2>1, <2>2 DEF G!FolderInv, Lower
  <1>14. CASE n # 1
    <2> PICK b : b = n - 1
      OBVIOUS
    <2>1. b \in 1..n /\ b \in Nat \ {0} /\ b < n /\ b + 1 = n
      BY <1>2, <1>14
    <2>0. PICK o, a : stack[b] = [out |-> o, args |-> a]
      <3> HIDE DEF Call
      <3>1. stack[b] \in Call
        BY <1>6, <2>1
      <3> QED
        BY <3>1, CallRecord DEF Call
    <2> DEFINE got == Append(a, data)
               new == [out |-> o, args |-> got]
               below == SubSeq(stack, 1, b)
    <2>2. stack[b].out = o /\ stack[b].args = a
      BY <2>0
    <2>3. a \in Seq(G!Given) /\ a \in Seq(G!Given') /\ o \in DOMAIN runs
      <3> HIDE DEF Call, CallNext
      <3>1. stack[b] \in Call /\ stack[b] \in CallNext
        BY <1>6, <2>1
      <3> QED
        BY <2>2, <3>1, CallRecord DEF Call, CallNext
    <2>4. new \in CallNext /\ new.out = o
      BY <1>5, <2>3
    <2>5. /\ below \in Seq(CallNext) /\ Len(below) = b /\ below # <<>>
          /\ \A j \in 1..b : below[j] = stack[j]
      <3> HIDE DEF CallNext, Call
      <3>1. below \in Seq(CallNext) /\ Len(below) = b
        BY <1>6, <2>1
      <3>2. \A j \in 1..b : below[j] = stack[j]
        BY <1>6, <2>1
      <3> QED
        BY <2>1, <3>1, <3>2
    <2>6. stack' = [below EXCEPT ![b] = new]
      <3>1. G!Front(stack) = below
        BY <1>2, <2>1 DEF G!Front
      <3>2. stack' = [below EXCEPT ![Len(below)].args = Append(@, data)]
        BY <1>1, <2>5, <3>1, Top DEF G!Return, G!Data
      <3>3. below[b] = [out |-> o, args |-> a] /\ below[b].args = a
        BY <2>0, <2>1, <2>2, <2>5
      <3>4. [[out |-> o, args |-> a] EXCEPT !.args = got] = new
        <4> HIDE DEF got
        <4> QED
          OBVIOUS
      <3> HIDE DEF below, new
      <3> QED
        BY <2>5, <3>2, <3>3, <3>4
    <2>7. /\ stack' \in Seq(CallNext) /\ Len(stack') = b /\ stack' # <<>> /\ stack'[b] = new
          /\ \A j \in 1..b : stack'[j].out = stack[j].out
          /\ \A j \in 1..(b - 1) : stack'[j] = stack[j]
      <3> HIDE DEF below, new, CallNext
      <3>1. stack' \in Seq(CallNext) /\ Len(stack') = b
        BY <2>1, <2>4, <2>5, <2>6
      <3>2. stack'[b] = new /\ \A j \in 1..(b - 1) : stack'[j] = stack[j]
        BY <2>1, <2>5, <2>6
      <3> QED
        BY <2>1, <2>2, <2>4, <3>1, <3>2
    <2>8. G!Types'
      BY <1>1, <1>2, <1>7, <2>1, <2>7 DEF G!FolderInv, G!Types
    <2>9. ASSUME NEW j \in 1..b PROVE stack[j].out \notin DOMAIN produced'
      <3>1. stack[j].out # out
        BY <1>1, <2>1, NotBelow DEF G!Return
      <3>2. stack[j].out \notin DOMAIN produced
        BY <2>1 DEF G!FolderInv, G!CallOk
      <3> QED
        BY <1>3, <3>1, <3>2
    <2>10. ASSUME NEW j \in 1..(b - 1) PROVE G!CallOk(j)'
      <3>1. j \in 1..b /\ j + 1 \in 1..b /\ j < n /\ j < b
        BY <2>1
      <3>2. G!CallOk(j)
        BY <2>1, <3>1 DEF G!FolderInv
      <3>3. stack'[j] = stack[j] /\ stack'[j + 1].out = stack[j + 1].out
        BY <2>7, <3>1
      <3> QED
        BY <1>1, <1>3, <2>9, <3>1, <3>2, <3>3, CallKept
    <2>11. G!CallOk(b)'
      <3> PICK c : c = G!out_of(graph, o)
        OBVIOUS
      <3> PICK at : at = G!first(graph, c, "n_in")
        OBVIOUS
      <3> PICK m : m = Len(a)
        OBVIOUS
      <3>1. G!CallOk(b)
        BY <2>1 DEF G!FolderInv
      <3>2. /\ \A k_ \in 1..m : a[k_] \in G!Source(at + (k_ - 1))
            /\ m < graph.coders[c].n_in /\ G!packed_for(at + m) = {} /\ out \in G!bind(at + m)
        BY <2>1, <2>2, <3>1 DEF G!CallOk
      <3>3. m \in Nat /\ graph.coders[c].n_in \in Nat
        BY <2>3, OutOf DEF G!FolderInv, G!Types
      <3>4. data \in G!Source(at + m)'
        <4>1. G!packed_for(at + m)' = {} /\ out \in G!bind(at + m)'
          BY <1>1, <3>2, SameGraph
        <4> QED
          BY <1>3, <4>1 DEF G!Source
      <3>5. ASSUME NEW k_ \in 1..(m + 1) PROVE got[k_] \in G!Source(at + (k_ - 1))'
        <4>1. CASE k_ = m + 1
          <5>1. got[k_] = data /\ k_ - 1 = m
            BY <2>3, <3>3, <4>1
          <5> QED
            BY <3>4, <5>1
        <4>2. CASE k_ # m + 1
          <5>1. k_ \in 1..m /\ got[k_] = a[k_]
            BY <2>3, <3>3, <4>2
          <5> QED
            BY <1>4, <3>2, <5>1
        <4> QED
          BY <4>1, <4>2
      <3>6. Len(got) = m + 1 /\ m + 1 <= graph.coders[c].n_in
        BY <2>3, <3>2, <3>3
      <3>7. stack'[b].out = o /\ stack'[b].args = got
        BY <2>7
      <3>8. o \notin DOMAIN produced'
        BY <2>1, <2>2, <2>9
      <3> HIDE DEF got
      <3> QED
        BY <1>1, <2>7, <3>5, <3>6, <3>7, <3>8 DEF G!CallOk
    <2>12. \A j \in 1..Len(stack') : G!CallOk(j)'
      <3>1. \A j \in 1..b : j \in 1..(b - 1) \/ j = b
        BY <2>1
      <3> QED
        BY <2>7, <2>10, <2>11, <3>1
    <2>13. stack'[1].out = G!main_out'
      <3>1. stack[1].out = G!main_out /\ 1 \in 1..b
        BY <1>2, <2>1 DEF G!FolderInv
      <3> QED
        BY <1>8, <2>7, <3>1
    <2>14. Lower
      <3>1. \A j \in 1..b : j \in 1..n
        BY <2>1
      <3> QED
        BY <2>7, <3>1 DEF Lower
    <2> QED
      BY <1>1, <1>9, <1>12, <1>14, <2>7, <2>8, <2>12, <2>13, <2>14 DEF G!FolderInv
  <1> QED
    BY <1>13, <1>14

LEMMA BeginStep ==
  ASSUME G!FolderInv, NEW enough, G!Begin(enough)
  PROVE  G!FolderInv'
  <1>1. gpc = "start" /\ stack = <<>> /\ produced = <<>>
    BY DEF G!Begin, G!FolderInv
  <1>2. ASSUME NEW e \in {"SevenZRefused", "crashed", "SevenZError"}, G!Raise(e)
        PROVE  G!FolderInv'
    BY <1>1, <1>2, GoesOn DEF G!Raise, G!Ends
  <1>3. CASE G!Call(G!main_out, <<>>) /\ G!main_out \in 0..G!total_out(graph) - 1
             /\ ~(depth + 1 > MaxDepth)
    <2> PICK o : o = G!main_out
      OBVIOUS
    <2>1. /\ stack' = Append(stack, [out |-> o, args |-> <<>>])
          /\ depth' = depth + 1 /\ gpc' = "run" /\ UNCHANGED <<graph, produced, runs>>
      BY <1>1, <1>3 DEF G!Call
    <2>2. o \in DOMAIN runs /\ o \notin DOMAIN produced
      BY <1>1, <1>3 DEF G!FolderInv, G!Types
    <2> QED
      BY <1>1, <2>1, <2>2, PushStep
  <1> QED
    BY <1>2, <1>3 DEF G!Begin, G!Call

LEMMA InputStep ==
  ASSUME G!FolderInv, G!Input
  PROVE  G!FolderInv'
  <1>1. gpc = "run" /\ Len(G!Frame.args) < G!coder.n_in
    BY DEF G!Input
  <1>2. ASSUME NEW e \in {"crashed", "SevenZError"}, G!Raise(e)
        PROVE  G!FolderInv'
    BY <1>1, <1>2, GoesOn DEF G!Raise, G!Ends
  <1>3. ASSUME NEW x \in G!packed_for(G!gi), G!Give(x),
               UNCHANGED <<graph, gpc, depth, produced, runs>>
        PROVE  G!FolderInv'
    <2>1. x \in G!Source(G!gi)
      BY <1>3 DEF G!Source
    <2>2. G!gi \in 0..G!total_in(graph) - 1
      <3>1. Len(G!Frame.args) \in Nat
        BY <1>1, Top
      <3> QED
        BY <1>1, <3>1, Top
    <2>3. x \in G!Packed
      BY <1>3, <2>2 DEF G!Packed
    <2>4. x \in G!Given
      BY <2>3 DEF G!Given
    <2> QED
      BY <1>1, <1>3, <2>1, <2>4, GiveStep
  <1>4. ASSUME G!packed_for(G!gi) = {}, NEW o \in G!bind(G!gi), o \in DOMAIN produced,
               G!Give(produced[o]), UNCHANGED <<graph, gpc, depth, produced, runs>>
        PROVE  G!FolderInv'
    <2>1. produced[o] \in G!Source(G!gi)
      BY <1>4 DEF G!Source
    <2>2. produced[o] \in G!Produced
      BY <1>4 DEF G!Produced
    <2>3. produced[o] \in G!Given
      BY <2>2 DEF G!Given
    <2> QED
      BY <1>1, <1>4, <2>1, <2>3, GiveStep
  <1>5. ASSUME G!packed_for(G!gi) = {}, NEW o \in G!bind(G!gi), o \notin DOMAIN produced,
               G!Call(o, stack)
        PROVE  G!FolderInv'
    <2>1. CASE G!Raise("SevenZError") \/ G!Raise("crashed")
      BY <1>2, <2>1
    <2>2. CASE /\ o \in 0..G!total_out(graph) - 1
               /\ stack' = Append(stack, [out |-> o, args |-> <<>>])
               /\ depth' = depth + 1 /\ gpc' = "run" /\ UNCHANGED <<graph, produced, runs>>
      <3>1. o \in DOMAIN runs
        BY <2>2 DEF G!FolderInv, G!Types
      <3> QED
        BY <1>1, <1>5, <2>2, <3>1, PushStep
    <2> QED
      BY <1>5, <2>1, <2>2 DEF G!Call
  <1>6. \/ \E x \in G!packed_for(G!gi) :
             G!Give(x) /\ UNCHANGED <<graph, gpc, depth, produced, runs>>
        \/ G!Raise("SevenZError")
        \/ /\ G!packed_for(G!gi) = {}
           /\ \E o \in G!bind(G!gi) :
                IF o \in DOMAIN produced
                THEN G!Give(produced[o]) /\ UNCHANGED <<graph, gpc, depth, produced, runs>>
                ELSE G!Call(o, stack)
    BY DEF G!Input
  <1> QED
    BY <1>2, <1>3, <1>4, <1>5, <1>6

LEMMA CheckStep ==
  ASSUME G!FolderInv, NEW good, G!Check(good)
  PROVE  G!FolderInv'
  BY GoesOn DEF G!Check, G!Ends

-------------------------------------------------------------------------------
(* The reader.                                                             *)

ReadInv == h \in Headers /\ G!FolderInv

LEMMA OpenedInv == Opened => ReadInv
  BY CodingInit DEF Opened, Init, ReadInv

\* What a step of the reader is for decode_folder.
LEMMA ReadIsCoding ==
  ASSUME ReadInv, [ReadNext]_all
  PROVE  /\ h' = h
         /\ \/ UNCHANGED coding
            \/ \E cs \in Seq(G!Coder) : G!Load(cs)
            \/ \E b \in BOOLEAN : G!Begin(b) \/ G!Check(b)
            \/ G!Input \/ G!CoderFails \/ G!Return \/ G!Leave
  <1> DEFINE Steps == \/ UNCHANGED coding
                      \/ \E cs \in Seq(G!Coder) : G!Load(cs)
                      \/ \E b \in BOOLEAN : G!Begin(b) \/ G!Check(b)
                      \/ G!Input \/ G!CoderFails \/ G!Return \/ G!Leave
  <1>1. CASE UNCHANGED all
    BY <1>1 DEF all, vars
  <1>2. CASE Malformed \/ EmptyArchive \/ Plain \/ Withheld
    BY <1>2 DEF Malformed, EmptyArchive, Plain, Withheld, Opening, vars
  <1>3. CASE Encoded
    BY <1>3, CodersAssumption DEF Encoded, ReadInv, vars
  <1>4. CASE HeaderDecoded
    BY <1>4 DEF HeaderDecoded, Opening, vars
  <1>5. CASE Decode
    BY <1>5, CodersAssumption DEF Decode, Decoding, ReadInv, vars
  <1>6. CASE Coding
    BY <1>6 DEF Coding, Begin, Input, CoderFails, Return, Check, Decoding, vars
  <1>7. CASE Decoded \/ Failed \/ Crashed
    BY <1>7 DEF Decoded, Failed, Crashed, FolderDecoded, FolderFails, UncaughtError, Attaching
  <1>8. CASE ReadHeader
    BY <1>8 DEF ReadHeader, ReadSizes, ReadDigests, NoDigests, MissingPack, Attach, EndFolder,
                NoFolders, Reading, Attaching
  <1> QED
    BY <1>1, <1>2, <1>3, <1>4, <1>5, <1>6, <1>7, <1>8 DEF ReadNext

LEMMA ReadNextInv == ReadInv /\ [ReadNext]_all => ReadInv'
  <1> SUFFICES ASSUME ReadInv, [ReadNext]_all PROVE ReadInv'
    OBVIOUS
  <1>1. h' \in Headers /\ G!FolderInv
    BY ReadIsCoding DEF ReadInv
  <1>2. CASE UNCHANGED coding
    <2>1. G!FolderInv'
      BY <1>1, <1>2, GoesOn DEF coding
    <2> QED
      BY <1>1, <2>1 DEF ReadInv
  <1>3. CASE \E cs \in Seq(G!Coder) : G!Load(cs)
    BY <1>1, <1>3, LoadStep DEF ReadInv
  <1>4. CASE \E b \in BOOLEAN : G!Begin(b) \/ G!Check(b)
    BY <1>1, <1>4, BeginStep, CheckStep DEF ReadInv
  <1>5. CASE G!Input \/ G!CoderFails
    BY <1>1, <1>5, InputStep, FailStep DEF ReadInv
  <1>6. CASE G!Return \/ G!Leave
    BY <1>1, <1>6, ReturnStep, LeaveStep DEF ReadInv
  <1> QED
    BY <1>2, <1>3, <1>4, <1>5, <1>6, ReadIsCoding

(* decode_folder gives every coder its own inputs, in their order, and runs  *)
(* no coder twice for a stream, in every folder of every archive: also where *)
(* a stream is used several times, and where the coders feed each other and  *)
(* the recursion ends only at its limit.                                     *)
THEOREM FoldersSolved == ReadSpec => []Solved
  <1>1. ReadInv => Solved
    BY DEF ReadInv, Solved, G!FolderInv
  <1> QED
    BY <1>1, OpenedInv, ReadNextInv, PTL DEF ReadSpec

-------------------------------------------------------------------------------
(* Folders whose bindings go down are never turned down.                   *)

LEMMA SameOrder ==
  ASSUME graph' = graph, DOMAIN runs' = DOMAIN runs
  PROVE  G!WellFormed' => G!WellFormed
  <1>1. \A i : G!bind(i)' = G!bind(i) /\ G!packed_for(i)' = G!packed_for(i)
    BY SameGraph
  <1>2. G!Unbound' = G!Unbound /\ \A o : G!Feeds(o)' = G!Feeds(o)
    BY SameGraph
  <1> QED
    BY <1>1, <1>2 DEF G!WellFormed

LEMMA DescendKept ==
  ASSUME G!Descending, graph' = graph, DOMAIN runs' = DOMAIN runs, Lower
  PROVE  G!Descending'
  <1>1. \A o : G!Feeds(o)' = G!Feeds(o)
    BY SameGraph
  <1> SUFFICES ASSUME NEW rank \in [DOMAIN runs -> 1..MaxDepth],
                      \A o \in DOMAIN runs : \A p \in G!Feeds(o) \cap DOMAIN runs : rank[p] < rank[o],
                      NEW j \in 1..Len(stack')
               PROVE  rank[stack'[j].out] + j <= MaxDepth + 1
    BY <1>1 DEF G!Descending
  <1> QED
    BY DEF G!Descending, Lower

\* What the call on top asks for is what its stream is made from.
LEMMA Feeding ==
  ASSUME G!FolderInv, gpc = "run", Len(G!Frame.args) < G!coder.n_in,
         G!packed_for(G!gi) = {}, NEW o \in G!bind(G!gi)
  PROVE  o \in G!Feeds(stack[Len(stack)].out)
  <1> PICK top : top = stack[Len(stack)].out
    OBVIOUS
  <1> PICK ci : ci = G!out_of(graph, top)
    OBVIOUS
  <1> PICK in : in = G!first(graph, ci, "n_in")
    OBVIOUS
  <1> PICK m : m = Len(stack[Len(stack)].args)
    OBVIOUS
  <1> PICK size : size = graph.coders[ci].n_in
    OBVIOUS
  <1>1. in \in Nat /\ size \in Nat /\ m \in Nat /\ m < size /\ G!gi = in + m
    BY Top
  <1>2. in + m \in in..(in + size - 1)
    BY <1>1, SMTT(30)
  <1>3. o \in (IF G!packed_for(in + m) # {} THEN {} ELSE G!bind(in + m))
    BY <1>1
  <1> QED
    BY <1>2, <1>3 DEF G!Feeds

LEMMA PushDescends ==
  ASSUME G!FolderInv, G!Descending, NEW o \in DOMAIN runs,
         stack' = Append(stack, [out |-> o, args |-> <<>>]),
         UNCHANGED <<graph, runs>>,
         stack = <<>> \/ o \in G!Feeds(stack[Len(stack)].out)
  PROVE  G!Descending'
  <1> PICK n : n = Len(stack)
    OBVIOUS
  <1>1. n \in Nat /\ stack \in Seq([out : DOMAIN runs, args : Seq(G!Given)])
    BY DEF G!FolderInv, G!Types
  <1>2. /\ Len(stack') = n + 1 /\ stack'[n + 1].out = o
        /\ \A j \in 1..n : stack'[j] = stack[j]
    BY <1>1
  <1>3. \A p : G!Feeds(p)' = G!Feeds(p)
    BY SameGraph
  <1> SUFFICES ASSUME NEW rank \in [DOMAIN runs -> 1..MaxDepth],
                      \A q \in DOMAIN runs : \A p \in G!Feeds(q) \cap DOMAIN runs : rank[p] < rank[q],
                      NEW j \in 1..(n + 1)
               PROVE  rank[stack'[j].out] + j <= MaxDepth + 1
    BY <1>2, <1>3 DEF G!Descending
  <1>4. \A i \in 1..n : rank[stack[i].out] + i <= MaxDepth + 1
    BY DEF G!Descending
  <1>5. MaxDepth \in Nat /\ rank[o] \in 1..MaxDepth
    BY DepthAssumption
  <1>6. CASE j = n + 1 /\ stack = <<>>
    <2>1. n = 0
      BY <1>6
    <2> QED
      BY <1>2, <1>5, <1>6, <2>1
  <1>7. CASE j = n + 1 /\ stack # <<>>
    <2>1. n \in 1..n
      BY <1>1, <1>7
    <2> PICK top : top = stack[n].out
      OBVIOUS
    <2>2. top \in DOMAIN runs
      <3> DEFINE Call == [out : DOMAIN runs, args : Seq(G!Given)]
      <3>0. stack \in Seq(Call)
        BY <1>1
      <3> HIDE DEF Call
      <3>1. stack[n] \in Call
        BY <2>1, <3>0
      <3> QED
        BY <3>1, CallRecord DEF Call
    <2>3. rank[o] < rank[top] /\ rank[top] \in 1..MaxDepth
      BY <1>7, <2>2
    <2>4. rank[top] + n <= MaxDepth + 1
      BY <1>4, <2>1
    <2> QED
      BY <1>1, <1>2, <1>5, <1>7, <2>3, <2>4
  <1>8. CASE j # n + 1
    <2>1. j \in 1..n
      BY <1>1, <1>8
    <2> QED
      BY <1>2, <1>4, <2>1
  <1> QED
    BY <1>6, <1>7, <1>8

\* Nothing goes wrong with the next input of a sound folder.
LEMMA SoundInput ==
  ASSUME G!FolderInv, G!Descending, G!WellFormed, gpc = "run",
         Len(G!Frame.args) < G!coder.n_in
  PROVE  /\ G!packed_for(G!gi) = {} => G!bind(G!gi) # {}
         /\ \A o \in G!bind(G!gi) : G!packed_for(G!gi) = {} =>
              o \in DOMAIN runs /\ depth + 1 <= MaxDepth
  <1> PICK n : n = Len(stack)
    OBVIOUS
  <1>1. G!gi \in 0..G!total_in(graph) - 1
    <2>1. Len(G!Frame.args) \in Nat
      BY Top
    <2> QED
      BY <2>1, Top
  <1>2. G!packed_for(G!gi) = {} => G!bind(G!gi) # {} /\ G!bind(G!gi) \subseteq DOMAIN runs
    BY <1>1 DEF G!WellFormed
  <1>3. ASSUME NEW o \in G!bind(G!gi), G!packed_for(G!gi) = {}
        PROVE  o \in DOMAIN runs /\ depth + 1 <= MaxDepth
    <2> PICK rank \in [DOMAIN runs -> 1..MaxDepth] :
          \A q \in DOMAIN runs : \A p \in G!Feeds(q) : rank[p] < rank[q]
      BY DEF G!WellFormed
    <2> PICK top : top = stack[n].out
      OBVIOUS
    <2>1. n \in Nat \ {0} /\ depth = n /\ top \in DOMAIN runs
      BY Top
    <2>2. o \in DOMAIN runs /\ o \in G!Feeds(top)
      BY <1>2, <1>3, Feeding
    <2>3. rank[o] < rank[top] /\ rank[o] \in 1..MaxDepth /\ rank[top] \in 1..MaxDepth
      BY <2>1, <2>2
    <2>4. rank[top] + n <= MaxDepth + 1
      <3>1. n \in 1..Len(stack)
        BY <2>1
      <3> QED
        BY <3>1 DEF G!Descending
    <2> QED
      BY <2>1, <2>2, <2>3, <2>4, DepthAssumption
  <1> QED
    BY <1>2, <1>3

\* A call that is given an input is for the same stream as before.
LEMMA GivenBelow ==
  ASSUME G!FolderInv, gpc = "run", NEW x, G!Give(x)
  PROVE  Lower
  <1> PICK n : n = Len(stack)
    OBVIOUS
  <1> DEFINE Call == [out : DOMAIN runs, args : Seq(G!Given)]
  <1>1. n \in Nat \ {0} /\ stack \in Seq(Call)
    BY Top DEF G!FolderInv, G!Types
  <1>2. PICK o, a : stack[n] = [out |-> o, args |-> a]
    BY Top
  <1> DEFINE new == [out |-> o, args |-> Append(a, x)]
  <1>3. [[out |-> o, args |-> a] EXCEPT !.args = Append(a, x)] = new
    <2> DEFINE b == Append(a, x)
    <2>1. [[out |-> o, args |-> a] EXCEPT !.args = b] = [out |-> o, args |-> b]
      <3> HIDE DEF b
      <3> QED
        OBVIOUS
    <2> QED
      BY <2>1
  <1>4. stack[n].out = o /\ stack[n].args = a
    BY <1>2
  <1>5. new.out = o
    OBVIOUS
  <1>6. stack' = [stack EXCEPT ![n] = new]
    <2> HIDE DEF new
    <2> QED
      BY <1>2, <1>3, <1>4 DEF G!Give
  <1> HIDE DEF new, Call
  <1>7. DOMAIN stack' = 1..n /\ DOMAIN stack = 1..n
    BY <1>1, <1>6
  <1>8. \A j \in 1..n : stack'[j].out = stack[j].out
    BY <1>1, <1>4, <1>5, <1>6, <1>7
  <1>9. Len(stack') = n
    BY <1>1, <1>7
  <1> QED
    BY <1>8, <1>9 DEF Lower

LEMMA SoundLeave == G!Leave => G!Descending' /\ G!SoundFoldersDecode'
  <1> SUFFICES ASSUME G!Leave PROVE G!Descending' /\ G!SoundFoldersDecode'
    OBVIOUS
  <1>1. stack' = <<>> /\ Len(stack') = 0 /\ graph'.coders = <<>>
    BY DEF G!Leave, G!NoFolder
  <1> QED
    BY <1>1 DEF G!Descending, G!SoundFoldersDecode, G!WellFormed

LEMMA SoundLoad ==
  ASSUME G!FolderInv, NEW cs, G!Load(cs)
  PROVE  G!Descending' /\ G!SoundFoldersDecode'
  <1>1. stack' = <<>> /\ Len(stack') = 0 /\ gpc' = "start"
    BY DEF G!FolderInv, G!Load
  <1> QED
    BY <1>1 DEF G!Descending, G!SoundFoldersDecode

LEMMA SoundSame ==
  ASSUME G!SoundInv, UNCHANGED <<graph, gpc, stack, produced, runs>>
  PROVE  G!Descending' /\ G!SoundFoldersDecode'
  <1>1. G!main_out' = G!main_out /\ (G!WellFormed' => G!WellFormed)
    BY SameGraph, SameOrder
  <1>2. Lower
    BY DEF Lower
  <1> QED
    BY <1>1, <1>2, DescendKept DEF G!SoundInv, G!SoundFoldersDecode

LEMMA SoundBegin ==
  ASSUME G!SoundInv, NEW enough \in BOOLEAN, G!Begin(enough)
  PROVE  G!Descending' /\ G!SoundFoldersDecode'
  <1>1. /\ gpc = "start" /\ stack = <<>> /\ produced = <<>> /\ depth = 0 /\ G!FolderInv
        /\ graph' = graph /\ runs' = runs
    BY DEF G!Begin, G!SoundInv, G!FolderInv, G!Types, G!Raise, G!Call
  <1>2. ASSUME NEW e, G!Raise(e) PROVE G!Descending'
    <2>1. Lower
      BY <1>2 DEF Lower, G!Raise
    <2> QED
      BY <1>1, <2>1, DescendKept DEF G!SoundInv
  <1>3. ASSUME G!WellFormed'
        PROVE  ~G!encrypted /\ G!Unbound # {} /\ ~(depth + 1 > MaxDepth)
    <2>1. G!WellFormed
      BY <1>1, <1>3, SameOrder
    <2>2. ~G!encrypted
      BY <2>1 DEF G!WellFormed, G!encrypted
    <2> QED
      BY <1>1, <2>1, <2>2, DepthAssumption DEF G!WellFormed
  <1>4. CASE G!Call(G!main_out, <<>>) /\ gpc' = "run"
    <2> PICK o : o = G!main_out
      OBVIOUS
    <2>1. stack' = Append(stack, [out |-> o, args |-> <<>>]) /\ o \in 0..G!total_out(graph) - 1
      BY <1>1, <1>4 DEF G!Call, G!Raise
    <2>2. o \in DOMAIN runs
      BY <1>1, <2>1 DEF G!FolderInv, G!Types
    <2> QED
      BY <1>1, <1>4, <2>1, <2>2, PushDescends DEF G!SoundFoldersDecode, G!SoundInv
  <1>5. \/ \E e : G!Raise(e)
        \/ G!Call(G!main_out, <<>>) /\ gpc' = "run"
    BY DEF G!Begin, G!Call
  <1>6. G!WellFormed' => \/ gpc' = "run"
                         \/ gpc' = "crashed" /\ stack' = <<>>
    <2> SUFFICES ASSUME G!WellFormed' PROVE gpc' = "run" \/ (gpc' = "crashed" /\ stack' = <<>>)
      OBVIOUS
    <2>1. G!Raise("crashed") \/ G!Call(G!main_out, <<>>)
      BY <1>3 DEF G!Begin
    <2>2. G!Call(G!main_out, <<>>) => G!Raise("crashed") \/ gpc' = "run"
      BY <1>3 DEF G!Call
    <2> QED
      BY <1>1, <2>1, <2>2 DEF G!Raise
  <1> QED
    BY <1>2, <1>4, <1>5, <1>6 DEF G!SoundFoldersDecode

LEMMA SoundInputStep ==
  ASSUME G!SoundInv, G!Input
  PROVE  G!Descending' /\ G!SoundFoldersDecode'
  <1>1. /\ gpc = "run" /\ Len(G!Frame.args) < G!coder.n_in
        /\ G!FolderInv /\ G!Descending /\ graph' = graph /\ runs' = runs
    BY DEF G!Input, G!SoundInv, G!Raise, G!Call
  <1>2. ASSUME NEW e, G!Raise(e) PROVE G!Descending'
    <2>1. Lower
      BY <1>2 DEF Lower, G!Raise
    <2> QED
      BY <1>1, <2>1, DescendKept
  <1>3. ASSUME NEW x, G!Give(x) PROVE G!Descending'
    <2>1. Lower
      BY <1>1, <1>3, GivenBelow
    <2> QED
      BY <1>1, <2>1, DescendKept
  <1>4. ASSUME NEW o \in G!bind(G!gi), G!packed_for(G!gi) = {}, G!Call(o, stack), gpc' = "run"
        PROVE  G!Descending'
    <2>1. stack' = Append(stack, [out |-> o, args |-> <<>>]) /\ o \in 0..G!total_out(graph) - 1
      BY <1>4 DEF G!Call, G!Raise
    <2>2. o \in DOMAIN runs
      BY <1>1, <2>1 DEF G!FolderInv, G!Types
    <2>3. o \in G!Feeds(stack[Len(stack)].out)
      BY <1>1, <1>4, Feeding
    <2> QED
      BY <1>1, <2>1, <2>2, <2>3, PushDescends
  <1>5. \/ \E e : G!Raise(e)
        \/ \E x : G!Give(x)
        \/ \E o \in G!bind(G!gi) : G!packed_for(G!gi) = {} /\ G!Call(o, stack) /\ gpc' = "run"
    BY DEF G!Input, G!Call
  <1>6. G!WellFormed' => gpc' = "run"
    <2> SUFFICES ASSUME G!WellFormed' PROVE gpc' = "run"
      OBVIOUS
    <2>1. G!WellFormed
      BY <1>1, SameOrder
    <2>2. /\ G!packed_for(G!gi) = {} => G!bind(G!gi) # {}
          /\ \A o \in G!bind(G!gi) : G!packed_for(G!gi) = {} =>
               o \in DOMAIN runs /\ depth + 1 <= MaxDepth
      BY <1>1, <2>1, SoundInput
    <2>3. DOMAIN runs = 0..G!total_out(graph) - 1 /\ depth \in Nat
      BY <1>1 DEF G!FolderInv, G!Types
    <2>4. ~(G!packed_for(G!gi) = {} /\ G!bind(G!gi) = {})
      BY <2>2
    <2>5. ASSUME G!packed_for(G!gi) = {}, NEW o \in G!bind(G!gi), G!Call(o, stack)
          PROVE  gpc' = "run"
      BY <2>2, <2>3, <2>5, DepthAssumption DEF G!Call
    <2> QED
      BY <1>1, <2>4, <2>5 DEF G!Input
  <1> QED
    BY <1>2, <1>3, <1>4, <1>5, <1>6 DEF G!SoundFoldersDecode

LEMMA SoundFail ==
  ASSUME G!SoundInv, G!CoderFails
  PROVE  G!Descending' /\ G!SoundFoldersDecode'
  <1>1. /\ gpc = "run" /\ G!FolderInv /\ G!Descending /\ UNCHANGED <<graph, stack, produced>>
        /\ runs' = [runs EXCEPT ![G!Frame.out] = @ + 1] /\ G!Coding # "decoded"
    BY DEF G!CoderFails, G!SoundInv
  <1>2. Lower /\ DOMAIN runs' = DOMAIN runs
    BY <1>1 DEF Lower
  <1>3. ~G!WellFormed'
    <2> SUFFICES ASSUME G!WellFormed PROVE FALSE
      BY <1>1, <1>2, SameOrder
    <2>1. G!Ci \in DOMAIN graph.coders /\ G!coder = graph.coders[G!Ci] /\ G!coder.n_in \in Nat
      BY <1>1, Top, OutOf DEF G!FolderInv, G!Types
    <2>2. G!coder.does = "decodes" /\ G!coder.n_in > 0
      BY <2>1 DEF G!WellFormed, G!Range
    <2> QED
      BY <1>1, <2>1, <2>2 DEF G!Coding
  <1> QED
    BY <1>1, <1>2, <1>3, DescendKept DEF G!SoundFoldersDecode

LEMMA SoundReturn ==
  ASSUME G!SoundInv, G!Return
  PROVE  G!Descending' /\ G!SoundFoldersDecode'
  <1>1. /\ G!FolderInv /\ G!Descending /\ graph' = graph
        /\ runs' = [runs EXCEPT ![G!Frame.out] = @ + 1] /\ gpc' \in {"check", "run"}
    BY DEF G!Return, G!SoundInv
  <1>2. DOMAIN runs' = DOMAIN runs
    BY <1>1
  <1> QED
    BY <1>1, <1>2, ReturnStep, DescendKept DEF G!SoundFoldersDecode

LEMMA SoundCheck ==
  ASSUME G!SoundInv, NEW good, G!Check(good)
  PROVE  G!Descending' /\ G!SoundFoldersDecode'
  <1>1. /\ gpc = "check" /\ UNCHANGED <<graph, stack, produced, runs>>
        /\ G!FolderInv /\ G!Descending
    BY DEF G!Check, G!SoundInv
  <1>2. G!main_out \in DOMAIN produced /\ G!main_out' = G!main_out
    BY <1>1, SameGraph DEF G!FolderInv, G!Solved
  <1>3. Lower
    BY <1>1 DEF Lower
  <1> QED
    BY <1>1, <1>2, <1>3, DescendKept DEF G!SoundFoldersDecode

SoundReadInv == h \in Headers /\ G!SoundInv

LEMMA SoundNext == SoundReadInv /\ [ReadNext]_all => SoundReadInv'
  <1> SUFFICES ASSUME SoundReadInv, [ReadNext]_all PROVE SoundReadInv'
    OBVIOUS
  <1>1. ReadInv /\ G!SoundInv
    BY DEF SoundReadInv, ReadInv, G!SoundInv
  <1>2. ReadInv'
    BY <1>1, ReadNextInv
  <1>3. G!Descending' /\ G!SoundFoldersDecode'
    <2>1. CASE UNCHANGED coding
      BY <1>1, <2>1, SoundSame DEF coding
    <2>2. CASE \E cs \in Seq(G!Coder) : G!Load(cs)
      BY <1>1, <2>2, SoundLoad DEF ReadInv
    <2>3. CASE \E b \in BOOLEAN : G!Begin(b) \/ G!Check(b)
      BY <1>1, <2>3, SoundBegin, SoundCheck
    <2>4. CASE G!Input \/ G!CoderFails \/ G!Return \/ G!Leave
      BY <1>1, <2>4, SoundInputStep, SoundFail, SoundReturn, SoundLeave
    <2> QED
      BY <1>1, <2>1, <2>2, <2>3, <2>4, ReadIsCoding
  <1> QED
    BY <1>2, <1>3 DEF SoundReadInv, ReadInv, G!SoundInv

LEMMA OpenedSound == Opened => SoundReadInv
  <1> SUFFICES ASSUME Opened PROVE SoundReadInv
    OBVIOUS
  <1>1. ReadInv
    BY OpenedInv
  <1>2. stack = <<>> /\ Len(stack) = 0 /\ graph.coders = <<>>
    BY DEF Opened, G!Init, G!NoFolder
  <1>3. G!Descending /\ G!SoundFoldersDecode
    BY <1>2 DEF G!Descending, G!SoundFoldersDecode, G!WellFormed
  <1> QED
    BY <1>1, <1>3 DEF SoundReadInv, ReadInv, G!SoundInv

(* No folder a packer writes is turned down before its checksum: where the   *)
(* bindings go down in at most MaxDepth levels, neither the depth limit nor  *)
(* a missing stream is ever met, whatever the graph.                         *)
THEOREM SoundFoldersPass == ReadSpec => []SoundFoldersDecode
  <1>1. SoundReadInv => SoundFoldersDecode
    BY DEF SoundReadInv, SoundFoldersDecode, G!SoundInv
  <1> QED
    BY <1>1, OpenedSound, SoundNext, PTL DEF ReadSpec

-------------------------------------------------------------------------------
(* The sums of SevenZip, and the places they number.                       *)

LEMMA TotalIs ==
  ASSUME NEW N \in Nat, NEW s, \A w \in 1..N : s[w] \in Nat
  PROVE  /\ Total(s, 0) = 0
         /\ \A m \in 0..N : Total(s, m) \in Nat
         /\ \A m \in 1..N : Total(s, m) = Total(s, m - 1) + s[m]
  <1> DEFINE t == [w \in 1..N |-> s[w]]
  <1>1. t \in [1..N -> Nat]
    OBVIOUS
  <1>2. PICK g : Totals(g, t, N)
    BY <1>1, TotalsExist
  <1>3. ASSUME NEW m \in 0..N PROVE Total(s, m) = g[m]
    <2> DEFINE Step(h_) == [w \in 0..m |-> IF w = 0 THEN 0 ELSE h_[w - 1] + s[w]]
               sum == CHOOSE h_ : h_ = Step(h_)
               r == [w \in 0..m |-> g[w]]
    <2>1. r = Step(r)
      <3>1. \A w \in 0..m : r[w] = Step(r)[w]
        <4> TAKE w \in 0..m
        <4>1. CASE w = 0
          BY <1>2, <4>1 DEF Totals
        <4>2. CASE w # 0
          <5>1. w \in 1..N /\ w - 1 \in 0..m
            BY <4>2
          <5> QED
            BY <1>2, <4>2, <5>1 DEF Totals
        <4> QED
          BY <4>1, <4>2
      <3> QED
        BY <3>1
    <2>2. sum = Step(sum)
      BY <2>1
    <2>3. Total(s, m) = sum[m]
      BY DEF Total
    <2> HIDE DEF sum
    <2>4. ASSUME NEW w \in 0..m
          PROVE  sum[w] = IF w = 0 THEN 0 ELSE sum[w - 1] + t[w]
      <3>1. sum[w] = Step(sum)[w]
        BY <2>2
      <3> QED
        BY <3>1
    <2> HIDE DEF t, Step
    <2>5. sum[m] = g[m]
      BY <1>2, <2>4, SumIsTotal
    <2> QED
      BY <2>3, <2>5
  <1>4. Total(s, 0) = 0 /\ \A m \in 0..N : Total(s, m) \in Nat
    BY <1>2, <1>3 DEF Totals
  <1>5. ASSUME NEW m \in 1..N PROVE Total(s, m) = Total(s, m - 1) + s[m]
    <2>1. m \in 0..N /\ m - 1 \in 0..N
      OBVIOUS
    <2> QED
      BY <1>2, <1>3, <2>1 DEF Totals
  <1> QED
    BY <1>4, <1>5

LEMMA TotalGrows ==
  ASSUME NEW N \in Nat, NEW s, \A w \in 1..N : s[w] \in Nat, NEW m \in 0..N, NEW p \in m..N
  PROVE  Total(s, m) <= Total(s, p)
  <1> DEFINE T == {w \in Nat : m + w <= N => Total(s, m) <= Total(s, m + w)}
  <1>1. 0 \in T
    BY TotalIs
  <1>2. ASSUME NEW w \in Nat, w \in T PROVE w + 1 \in T
    <2> SUFFICES ASSUME m + (w + 1) <= N PROVE Total(s, m) <= Total(s, m + (w + 1))
      OBVIOUS
    <2>1. PICK j : j = m + (w + 1)
      OBVIOUS
    <2>2. j \in 1..N /\ j - 1 = m + w /\ m + w \in 0..N
      BY <2>1
    <2>3. Total(s, j) = Total(s, m + w) + s[j] /\ s[j] \in Nat
      BY <2>2, TotalIs
    <2>4. Total(s, m) <= Total(s, m + w)
      BY <1>2, <2>2
    <2>5. Total(s, m) \in Nat /\ Total(s, m + w) \in Nat
      BY <2>2, TotalIs
    <2> QED
      BY <2>1, <2>3, <2>4, <2>5
  <1>3. p - m \in Nat /\ m + (p - m) = p
    OBVIOUS
  <1> HIDE DEF T
  <1>4. p - m \in T
    BY <1>1, <1>2, <1>3, NatInduct
  <1> QED
    BY <1>3, <1>4 DEF T

LEMMA SameTotal ==
  ASSUME NEW N \in Nat, NEW s, NEW t, \A w \in 1..N : s[w] \in Nat /\ t[w] = s[w]
  PROVE  Total(t, N) = Total(s, N)
  <1> DEFINE T == {m \in Nat : m <= N => Total(t, m) = Total(s, m)}
  <1>1. \A w \in 1..N : t[w] \in Nat
    OBVIOUS
  <1>2. Total(t, 0) = 0 /\ Total(s, 0) = 0
    BY <1>1, TotalIs
  <1>3. ASSUME NEW m \in Nat, m \in T PROVE m + 1 \in T
    <2> SUFFICES ASSUME m + 1 <= N PROVE Total(t, m + 1) = Total(s, m + 1)
      OBVIOUS
    <2>1. PICK j : j = m + 1
      OBVIOUS
    <2>2. j \in 1..N /\ j - 1 = m
      BY <2>1
    <2>3. Total(t, j) = Total(t, m) + t[j]
      BY <1>1, <2>2, TotalIs
    <2>4. Total(s, j) = Total(s, m) + s[j]
      BY <2>2, TotalIs
    <2> QED
      BY <1>3, <2>1, <2>2, <2>3, <2>4
  <1>4. 0 \in T
    BY <1>2
  <1> HIDE DEF T
  <1>5. N \in T
    BY <1>3, <1>4, NatInduct
  <1> QED
    BY <1>5 DEF T

\* Each number is the place of one only.
LEMMA PlaceIs ==
  ASSUME NEW c, NEW N \in Nat, N = Len(c), \A w \in 1..N : c[w] \in Nat,
         NEW f \in 1..N, NEW j \in 1..c[f],
         NEW m, m = Total(c, f - 1) + j
  PROVE  Place(c, m) = <<f, j>> /\ m \in Nat \ {0}
  <1> DEFINE Is(s) == s[2] <= c[s[1]] /\ Total(c, s[1] - 1) + s[2] = m
  <1>0. \A w \in 0..N : Total(c, w) \in Nat
    BY TotalIs
  <1>1. f - 1 \in 0..N /\ c[f] \in Nat /\ Total(c, f - 1) \in Nat
    BY <1>0
  <1>2. m \in Nat \ {0} /\ j \in 1..m
    BY <1>1
  <1>3. <<f, j>> \in (1..N) \X (1..m) /\ Is(<<f, j>>)
    BY <1>1, <1>2
  <1>4. ASSUME NEW g \in 1..N, NEW i \in 1..m, i <= c[g], Total(c, g - 1) + i = m
        PROVE  g = f /\ i = j
    <2>1. /\ g - 1 \in 0..N /\ g \in 0..N /\ f \in 0..N /\ c[g] \in Nat
          /\ Total(c, g - 1) \in Nat /\ Total(c, g) \in Nat /\ Total(c, f) \in Nat
          /\ Total(c, g) = Total(c, g - 1) + c[g] /\ Total(c, f) = Total(c, f - 1) + c[f]
      <3>1. \A w \in 1..N : Total(c, w) = Total(c, w - 1) + c[w]
        BY TotalIs
      <3> QED
        BY <1>0, <3>1
    <2>a. PICK a \in Nat, b \in Nat, cg \in Nat, cf \in Nat :
            /\ a = Total(c, g - 1) /\ b = Total(c, f - 1) /\ cg = c[g] /\ cf = c[f]
      BY <1>1, <2>1
    <2>b. a + i = b + j /\ i <= cg /\ j \in 1..cf /\ i \in 1..m /\ m \in Nat
      BY <1>2, <1>4, <2>a
    <2>c. Total(c, g) = a + cg /\ Total(c, f) = b + cf
      BY <2>1, <2>a
    <2>2. ~(g < f)
      <3> SUFFICES ASSUME g < f PROVE FALSE
        OBVIOUS
      <3>1. f - 1 \in g..N
        OBVIOUS
      <3>2. Total(c, g) <= Total(c, f - 1)
        BY <2>1, <3>1, TotalGrows
      <3>3. a + cg <= b
        BY <2>a, <2>c, <3>2
      <3> QED
        BY <2>b, <3>3
    <2>3. ~(f < g)
      <3> SUFFICES ASSUME f < g PROVE FALSE
        OBVIOUS
      <3>1. g - 1 \in f..N
        OBVIOUS
      <3>2. Total(c, f) <= Total(c, g - 1)
        BY <2>1, <3>1, TotalGrows
      <3>3. b + cf <= a
        BY <2>a, <2>c, <3>2
      <3> QED
        BY <2>b, <3>3
    <2>4. g = f
      BY <2>2, <2>3
    <2> QED
      BY <1>1, <1>4, <2>4
  <1>5. \A s \in (1..N) \X (1..m) : Is(s) => s = <<f, j>>
    BY <1>4
  <1>6. Place(c, m) = CHOOSE s \in (1..N) \X (1..m) : Is(s)
    BY DEF Place
  <1> HIDE DEF Is
  <1> QED
    BY <1>2, <1>3, <1>5, <1>6

-------------------------------------------------------------------------------
(* The header.                                                             *)

FolderFacts(x) ==
  /\ x.size \in Nat /\ x.packs \in Nat /\ x.count \in Nat /\ x.crc \in BOOLEAN
  /\ x.listed \in Seq(Nat) /\ Len(x.listed) \in Nat
  /\ \A w \in 1..Len(x.listed) : x.listed[w] \in Nat
  /\ x.count > 0 => Len(x.listed) = x.count - 1

CountFacts(c) == Len(c) = Len(h.folders) /\ \A f \in 1..Len(h.folders) : c[f] \in Nat

LEMMA HeaderFacts ==
  ASSUME h \in Headers
  PROVE  /\ Len(h.folders) \in Nat /\ \A f \in 1..Len(h.folders) : FolderFacts(h.folders[f])
         /\ streamed \in Nat /\ h.packed \in Nat
         /\ h.folders = <<>> <=> Len(h.folders) = 0
         /\ CountFacts(Counts) /\ CountFacts(Packs) /\ CountFacts(Unlisted)
  <1>1. /\ h.folders \in Seq(Folder) /\ h.empty \in Seq(BOOLEAN) /\ h.packed \in Nat
        /\ \A f \in 1..Len(h.folders) :
             h.folders[f].count > 0 => Len(h.folders[f].listed) = h.folders[f].count - 1
    BY HeaderAssumption DEF Header
  <1>2. ASSUME NEW f \in 1..Len(h.folders) PROVE FolderFacts(h.folders[f])
    <2>1. PICK x : x = h.folders[f]
      OBVIOUS
    <2>2. x \in Folder
      BY <1>1, <2>1
    <2>3. /\ x.size \in Nat /\ x.packs \in Nat /\ x.count \in Nat /\ x.crc \in BOOLEAN
          /\ x.listed \in Seq(Nat)
      BY <2>2 DEF Folder
    <2>4. Len(x.listed) \in Nat /\ \A w \in 1..Len(x.listed) : x.listed[w] \in Nat
      BY <2>3
    <2> QED
      BY <1>1, <2>1, <2>3, <2>4 DEF FolderFacts
  <1>3. streamed \in Nat
    <2>1. IsFiniteSet(DOMAIN h.empty)
      <3>1. DOMAIN h.empty = 1..Len(h.empty) /\ Len(h.empty) \in Nat
        BY <1>1
      <3> QED
        BY <3>1, FS_Interval
    <2>2. {e \in DOMAIN h.empty : ~h.empty[e]} \subseteq DOMAIN h.empty
      OBVIOUS
    <2>3. IsFiniteSet({e \in DOMAIN h.empty : ~h.empty[e]})
      BY <2>1, <2>2, FS_Subset
    <2> QED
      BY <2>3, FS_CardinalityType DEF streamed
  <1>4. Len(h.folders) \in Nat /\ (h.folders = <<>> <=> Len(h.folders) = 0)
    BY <1>1
  <1>5. CountFacts(Counts) /\ CountFacts(Packs) /\ CountFacts(Unlisted)
    <2>1. Len(Counts) = Len(h.folders) /\ Len(Packs) = Len(h.folders) /\ Len(Unlisted) = Len(h.folders)
      BY <1>4 DEF Counts, Packs, Unlisted
    <2>2. ASSUME NEW f \in 1..Len(h.folders)
          PROVE  Counts[f] \in Nat /\ Packs[f] \in Nat /\ Unlisted[f] \in Nat
      BY <1>2 DEF Counts, Packs, Unlisted, FolderFacts
    <2> QED
      BY <2>1, <2>2 DEF CountFacts
  <1> QED
    BY <1>1, <1>2, <1>3, <1>4, <1>5

\* The sizes of a folder's streams, as the reader has them: none but the last is
\* negative, and where the header is consistent they are right.
SizesFact(u, f) ==
  /\ u \in Seq(Int) /\ Len(u) \in Nat
  /\ \A j \in 1..Len(u) : u[j] \in Int /\ (j < Len(u) => u[j] \in Nat)
  /\ Consistent => Len(u) = h.folders[f].count /\ \A j \in 1..Len(u) : u[j] = Size(f, j)

LEMMA SomeSizes ==
  ASSUME NEW u, u \in Seq(Int)
  PROVE  Len(u) \in Nat /\ \A j \in 1..Len(u) : u[j] \in Int
  OBVIOUS

LEMMA ToldFacts ==
  ASSUME h \in Headers, NEW f \in 1..Len(h.folders)
  PROVE  SizesFact(Told(f), f) /\ Len(Told(f)) = h.folders[f].count
  <1>1. PICK x : x = h.folders[f]
    OBVIOUS
  <1>2. FolderFacts(x)
    BY <1>1, HeaderFacts
  <1>3. PICK c \in Nat : c = x.count
    BY <1>2 DEF FolderFacts
  <1>4. CASE c = 0
    <2>1. Told(f) = <<>>
      BY <1>1, <1>3, <1>4 DEF Told
    <2> QED
      BY <1>1, <1>3, <1>4, <2>1 DEF SizesFact
  <1>5. CASE c > 0
    <2>1. PICK l \in Seq(Nat) : l = x.listed /\ Len(l) = c - 1
      BY <1>2, <1>3, <1>5 DEF FolderFacts
    <2>2. PICK got : got = [j \in 1..(c - 1) |-> IF h.sizes THEN l[j] ELSE 0]
      OBVIOUS
    <2>3. \A j \in 1..(c - 1) : l[j] \in Nat
      BY <2>1
    <2>4. /\ got \in Seq(Nat) /\ Len(got) = c - 1
          /\ \A j \in 1..(c - 1) : got[j] \in Nat /\ (h.sizes => got[j] = l[j])
      BY <1>3, <1>5, <2>2, <2>3, SMTT(30)
    <2>5. PICK t \in Nat : t = Sum(got)
      <3>1. c - 1 \in Nat /\ c - 1 \in 0..(c - 1)
        BY <1>3, <1>5
      <3>2. Total(got, c - 1) \in Nat
        BY <2>4, <3>1, TotalIs
      <3> QED
        BY <2>4, <3>2 DEF Sum
    <2>6. PICK z \in Int : z = x.size - t
      BY <1>2, <2>5 DEF FolderFacts
    <2>7. PICK u : u = Append(got, z)
      OBVIOUS
    <2>8. Told(f) = u
      <3>1. got = [j \in 1..Len(h.folders[f].listed) |->
                     IF h.sizes THEN h.folders[f].listed[j] ELSE 0]
        BY <1>1, <2>1, <2>2
      <3>2. Append(got, h.folders[f].size - Sum(got)) = u /\ h.folders[f].count # 0
        BY <1>1, <1>3, <1>5, <2>5, <2>6, <2>7
      <3> HIDE DEF Sum
      <3> QED
        BY <3>1, <3>2 DEF Told
    <2>9. got \in Seq(Int)
      BY <2>4
    <2>10. /\ u \in Seq(Int) /\ Len(u) = c /\ u[c] = z
           /\ \A j \in 1..(c - 1) : u[j] = got[j]
      BY <1>3, <2>4, <2>6, <2>7, <2>9
    <2>11. ASSUME NEW j \in 1..c PROVE u[j] \in Int /\ (j < c => u[j] \in Nat)
      <3>1. j = c \/ j \in 1..(c - 1)
        BY <1>3
      <3>2. j \in 1..(c - 1) => u[j] \in Nat
        BY <2>4, <2>10
      <3> QED
        BY <1>3, <2>6, <2>10, <3>1, <3>2
    <2>12. ASSUME Consistent, NEW j \in 1..c PROVE u[j] = Size(f, j)
      <3>1. c > 1 => h.sizes
        BY <1>1, <1>3, <2>12 DEF Consistent
      <3>2. CASE j = c
        <4>1. c - 1 \in Nat /\ \A w \in 1..(c - 1) : l[w] \in Nat /\ got[w] = l[w]
          <5>1. c - 1 \in Nat
            BY <1>3, <1>5
          <5>2. ASSUME NEW w \in 1..(c - 1) PROVE l[w] \in Nat /\ got[w] = l[w]
            <6>1. c > 1
              BY <1>3
            <6> QED
              BY <2>3, <2>4, <3>1, <6>1
          <5> QED
            BY <5>1, <5>2
        <4>2. Total(got, c - 1) = Total(l, c - 1)
          BY <4>1, SameTotal
        <4>3. t = Total(l, c - 1)
          BY <2>4, <2>5, <4>2 DEF Sum
        <4>4. Size(f, j) = x.size - Total(l, c - 1)
          <5>1. ~(j < c)
            BY <1>3, <3>2
          <5> QED
            BY <1>1, <1>3, <2>1, <3>2, <5>1 DEF Size, Start
        <4> QED
          BY <2>6, <2>10, <3>2, <4>3, <4>4
      <3>3. CASE j # c
        <4>1. j < c /\ j \in 1..(c - 1) /\ c > 1
          BY <1>3, <3>3
        <4>2. u[j] = l[j]
          BY <2>4, <2>10, <3>1, <4>1
        <4>3. Size(f, j) = l[j]
          BY <1>1, <1>3, <2>1, <4>1 DEF Size
        <4> QED
          BY <4>2, <4>3
      <3> QED
        BY <3>2, <3>3
    <2> QED
      BY <1>1, <1>3, <2>8, <2>10, <2>11, <2>12 DEF SizesFact
  <1> QED
    BY <1>3, <1>4, <1>5

LEMMA StartFacts ==
  ASSUME h \in Headers, NEW f \in 1..Len(h.folders)
  PROVE  /\ h.folders[f].count \in Nat /\ h.folders[f].size \in Nat
         /\ Start(f, 1) = 0
         /\ \A j \in 1..h.folders[f].count : Start(f, j) \in Nat
         /\ \A j \in 1..h.folders[f].count :
              j < h.folders[f].count => Start(f, j + 1) = Start(f, j) + Size(f, j)
  <1>1. PICK x : x = h.folders[f]
    OBVIOUS
  <1>2. FolderFacts(x)
    BY <1>1, HeaderFacts
  <1>0. PICK l : l = x.listed
    OBVIOUS
  <1>3. PICK c \in Nat, N \in Nat : c = x.count /\ N = Len(l) /\ l = x.listed
    BY <1>0, <1>2 DEF FolderFacts
  <1>4. (\A w \in 1..N : l[w] \in Nat) /\ (c > 0 => N = c - 1)
    BY <1>2, <1>3 DEF FolderFacts
  <1>5. Start(f, 1) = 0
    <2>1. Total(l, 0) = 0
      BY <1>4, TotalIs
    <2>2. 1 - 1 = 0
      OBVIOUS
    <2> QED
      BY <1>1, <1>3, <2>1, <2>2 DEF Start
  <1>6. ASSUME NEW j \in 1..c PROVE Start(f, j) \in Nat
    <2>1. j - 1 \in 0..N
      BY <1>3, <1>4
    <2>2. \A m \in 0..N : Total(l, m) \in Nat
      BY <1>4, TotalIs
    <2> QED
      BY <1>1, <1>3, <2>1, <2>2 DEF Start
  <1>7. ASSUME NEW j \in 1..c, j < c PROVE Start(f, j + 1) = Start(f, j) + Size(f, j)
    <2>1. j \in 1..N /\ (j + 1) - 1 = j
      BY <1>3, <1>4, <1>7
    <2>2. \A m \in 1..N : Total(l, m) = Total(l, m - 1) + l[m]
      BY <1>4, TotalIs
    <2>3. Size(f, j) = l[j]
      BY <1>1, <1>3, <1>7 DEF Size
    <2> QED
      BY <1>1, <1>3, <2>1, <2>2, <2>3 DEF Start
  <1>8. x.size \in Nat
    BY <1>2 DEF FolderFacts
  <1> QED
    BY <1>1, <1>3, <1>5, <1>6, <1>7, <1>8

LEMMA SzsFacts ==
  ASSUME h \in Headers, TablesInv, pc \notin {"sizes", "digests"}, fi \in 1..Len(h.folders)
  PROVE  SizesFact(Szs, fi)
  <1>1. PICK N \in Nat : N = Len(h.folders)
    BY HeaderFacts
  <1>2. sizes = [f \in 1..SizesRead |-> Told(f)]
    BY DEF TablesInv
  <1>3. CASE h.substreams
    <2>1. SizesRead = N
      BY <1>1, <1>3 DEF SizesRead
    <2>2. sizes[fi] = Told(fi)
      BY <1>1, <1>2, <2>1
    <2>3. sizes # <<>>
      <3>1. DOMAIN sizes = 1..N /\ 1 \in 1..N
        BY <1>1, <1>2, <2>1
      <3>2. DOMAIN <<>> = {}
        OBVIOUS
      <3> QED
        BY <3>1, <3>2
    <2> QED
      BY <2>2, <2>3, ToldFacts DEF Szs
  <1>4. CASE ~h.substreams
    <2>1. SizesRead = 0
      BY <1>4 DEF SizesRead
    <2>2. sizes = <<>>
      BY <1>2, <2>1
    <2>3. PICK z \in Nat : z = folder.size
      BY StartFacts DEF folder
    <2>4. Szs = <<z>>
      BY <2>2, <2>3 DEF Szs
    <2>5. PICK u : u = <<z>>
      OBVIOUS
    <2>6. u \in Seq(Int) /\ Len(u) = 1 /\ u[1] = z
      BY <2>5
    <2>7. ASSUME Consistent PROVE h.folders[fi].count = 1 /\ Size(fi, 1) = z
      <3>1. h.folders[fi].count = 1
        BY <1>4, <2>7 DEF Consistent
      <3>2. Size(fi, 1) = folder.size - 0
        BY <3>1, StartFacts DEF Size, folder
      <3> QED
        BY <2>3, <3>1, <3>2
    <2>8. \A j \in 1..Len(u) : j = 1
      BY <2>6
    <2>9. SizesFact(u, fi)
      BY <2>6, <2>7, <2>8 DEF SizesFact
    <2> QED
      BY <2>4, <2>5, <2>9
  <1> QED
    BY <1>3, <1>4

\* Whether there is a digest of stream s that the reader has taken notice of.
Noticed(s) == \/ crcs # <<>> /\ crcs[s[1]][s[2]] # <<>>
              \/ crcs = <<>> /\ h.folders[s[1]].crc

LEMMA WantsFacts ==
  ASSUME h \in Headers, TablesInv, pc \notin {"sizes", "digests"}, fi \in 1..Len(h.folders),
         Consistent
  PROVE  /\ Len(Wants) = folder.count
         /\ \A j \in 1..folder.count : /\ Wants[j] \in {<<>>, <<fi, j>>}
                                       /\ Wants[j] # <<>> <=> Noticed(<<fi, j>>)
  <1>1. PICK N \in Nat : N = Len(h.folders)
    BY HeaderFacts
  <1>2. Len(crcs) = DigestsRead /\ crcs \in Seq(Seq({<<>>} \cup (Nat \X Nat)))
    BY DEF TablesInv
  <1>3. CASE h.substreams
    <2>1. Len(crcs) = N /\ fi \in 1..Len(crcs)
      BY <1>1, <1>2, <1>3 DEF DigestsRead
    <2>2. crcs # <<>>
      BY <1>1, <2>1
    <2>3. Wants = crcs[fi]
      BY <2>2 DEF Wants
    <2>4. /\ Len(crcs[fi]) = h.folders[fi].count
          /\ \A j \in 1..Len(crcs[fi]) : crcs[fi][j] \in {<<>>, <<fi, j>>}
      BY <2>1 DEF TablesInv
    <2>5. \A j \in 1..folder.count : Wants[j] # <<>> <=> Noticed(<<fi, j>>)
      <3> TAKE j \in 1..folder.count
      <3>1. <<fi, j>>[1] = fi /\ <<fi, j>>[2] = j
        OBVIOUS
      <3> QED
        BY <2>2, <2>3, <3>1 DEF Noticed
    <2> QED
      BY <2>3, <2>4, <2>5 DEF folder
  <1>4. CASE ~h.substreams
    <2>1. crcs = <<>>
      <3>1. Len(crcs) = 0
        BY <1>2, <1>4 DEF DigestsRead
      <3> QED
        BY <1>2, <3>1
    <2>2. Wants = <<IF folder.crc THEN <<fi, 1>> ELSE <<>>>>
      BY <2>1 DEF Wants
    <2>3. folder.count = 1
      BY <1>4 DEF Consistent, folder
    <2>4. Len(Wants) = 1 /\ Wants[1] = IF folder.crc THEN <<fi, 1>> ELSE <<>>
      BY <2>2
    <2>5. Noticed(<<fi, 1>>) <=> folder.crc
      <3>1. <<fi, 1>>[1] = fi
        OBVIOUS
      <3> QED
        BY <2>1, <3>1 DEF Noticed, folder
    <2>6. Wants[1] \in {<<>>, <<fi, 1>>} /\ (Wants[1] # <<>> <=> Noticed(<<fi, 1>>))
      <3>1. <<fi, 1>> # <<>>
        OBVIOUS
      <3> QED
        BY <2>4, <2>5, <3>1
    <2>7. \A j \in 1..1 : j = 1
      OBVIOUS
    <2> QED
      BY <2>3, <2>4, <2>6, <2>7
  <1> QED
    BY <1>3, <1>4

\* p are the bytes from lo to hi of folder f, of which the packer made q.
CutIs(f, lo, hi, d, p, q) ==
  /\ p \in Piece /\ p # None
  /\ p.of = 0 \/ (p.of = f /\ p.lo = lo /\ p.hi <= hi)
  /\ [p EXCEPT !.damaged = FALSE] = q
  /\ ~d \/ q = Empty => p = q
  /\ d /\ q # Empty => p # q

LEMMA CutFacts ==
  ASSUME h \in Headers, NEW f \in 1..Len(h.folders), NEW lo \in Nat, NEW hi \in Int,
         NEW d \in BOOLEAN
  PROVE  CutIs(f, lo, hi, d, Cut(f, lo, hi, d), Cut(f, lo, hi, FALSE))
  <1>1. PICK z \in Nat : z = h.folders[f].size
    BY HeaderFacts DEF FolderFacts
  <1>2. PICK top \in Int : top = Min2(hi, z) /\ top <= hi
    BY DEF Min2
  <1>3. f \in Nat \ {0}
    BY HeaderFacts
  <1>4. CASE lo >= top
    <2>1. Cut(f, lo, hi, d) = Empty /\ Cut(f, lo, hi, FALSE) = Empty
      BY <1>1, <1>2, <1>4 DEF Cut
    <2>2. Empty \in Piece /\ Empty.of = 0
      BY DEF Empty, Piece
    <2>4. [Empty EXCEPT !.damaged = FALSE] = Empty
      <3>1. PICK no : no = FALSE
        OBVIOUS
      <3>2. Empty = [of |-> 0, lo |-> 0, hi |-> 0, damaged |-> no]
        BY <3>1, Zenon DEF Empty
      <3>3. [Empty EXCEPT !.damaged = no] = Empty
        BY <3>2
      <3> QED
        BY <3>1, <3>3, Zenon
    <2>3. Empty # None
      <3>1. Empty.damaged = FALSE /\ None.damaged = TRUE
        BY DEF Empty, None
      <3> QED
        BY <3>1
    <2> QED
      BY <2>1, <2>2, <2>3, <2>4 DEF CutIs
  <1>5. CASE ~(lo >= top)
    <2>1. PICK p, q : /\ p = [of |-> f, lo |-> lo, hi |-> top, damaged |-> d]
                      /\ q = [of |-> f, lo |-> lo, hi |-> top, damaged |-> FALSE]
      OBVIOUS
    <2>2. Cut(f, lo, hi, d) = p /\ Cut(f, lo, hi, FALSE) = q
      BY <1>1, <1>2, <1>5, <2>1 DEF Cut
    <2>3. top \in Nat
      BY <1>5
    <2>4. p \in Piece
      BY <1>3, <2>1, <2>3 DEF Piece
    <2>5. p.of = f /\ p.lo = lo /\ p.hi = top /\ q.of = f
      <3>1. ASSUME NEW b PROVE LET r == [of |-> f, lo |-> lo, hi |-> top, damaged |-> b]
                               IN  r.of = f /\ r.lo = lo /\ r.hi = top
        OBVIOUS
      <3> QED
        BY <2>1, <3>1, Zenon
    <2>6. [p EXCEPT !.damaged = FALSE] = q
      <3>1. PICK no : no = FALSE
        OBVIOUS
      <3>2. q = [of |-> f, lo |-> lo, hi |-> top, damaged |-> no]
        BY <2>1, <3>1, Zenon
      <3>3. PICK b : p = [of |-> f, lo |-> lo, hi |-> top, damaged |-> b]
        BY <2>1, Zenon
      <3>4. [p EXCEPT !.damaged = no] = q
        BY <3>2, <3>3
      <3> QED
        BY <3>1, <3>4, Zenon
    <2>7. p # None /\ q # Empty
      <3>1. None.of = 0 /\ Empty.of = 0
        BY DEF None, Empty
      <3> QED
        BY <1>3, <2>5, <3>1
    <2>8. ~d => p = q
      BY <2>1
    <2>9. d => p # q
      <3>1. p.damaged = d /\ q.damaged = FALSE
        BY <2>1
      <3> QED
        BY <3>1
    <2> QED
      BY <1>2, <2>2, <2>4, <2>5, <2>6, <2>7, <2>8, <2>9 DEF CutIs
  <1> QED
    BY <1>4, <1>5

-------------------------------------------------------------------------------
(* What a step leaves as it is.                                            *)

LEMMA SameHeader ==
  ASSUME h' = h
  PROVE  /\ Counts' = Counts /\ Packs' = Packs /\ Unlisted' = Unlisted /\ streamed' = streamed
         /\ Consistent' = Consistent
         /\ \A f : Told(f)' = Told(f)
         /\ \A f, j : Start(f, j)' = Start(f, j) /\ Size(f, j)' = Size(f, j)
         /\ \A e : Stream(e)' = Stream(e)
         /\ \A s : Meant(s)' = Meant(s)
  <1>1. Counts' = Counts /\ Packs' = Packs /\ streamed' = streamed
    BY DEF Counts, Packs, streamed
  <1>2. Unlisted' = Unlisted
    BY DEF Unlisted, Known
  <1>3. Consistent' = Consistent
    BY <1>1 DEF Consistent
  <1>4. \A f : Told(f)' = Told(f)
    BY DEF Told
  <1>5. \A f, j : Start(f, j)' = Start(f, j) /\ Size(f, j)' = Size(f, j)
    BY DEF Start, Size
  <1>6. \A e : Stream(e)' = Stream(e)
    BY <1>1 DEF Stream
  <1>7. \A s : Meant(s)' = Meant(s)
    BY <1>5 DEF Meant, Cut
  <1> QED
    BY <1>1, <1>2, <1>3, <1>4, <1>5, <1>6, <1>7

\* The folders that were fed stay so.
FedGrows == Len(fed) <= Len(fed') /\ \A f \in 1..Len(fed) : fed'[f] = fed[f]

LEMMA SettledStays ==
  ASSUME h' = h, crcs' = crcs, FedGrows, Len(fed) \in Nat, Len(fed') \in Nat,
         NEW e, Settled(e), payload'[e] = payload[e], error'[e] = error[e]
  PROVE  Settled(e)'
  <1>1. PICK s : s = Stream(e)
    OBVIOUS
  <1>2. Stream(e)' = s /\ Meant(s)' = Meant(s)
    BY <1>1, SameHeader
  <1>3. s \in (1..Len(fed)) \X Nat /\ s \in (1..Len(fed')) \X Nat
    BY <1>1 DEF Settled, FedGrows
  <1>4. s[1] \in 1..Len(fed)
    BY <1>3
  <1>5. fed'[s[1]] = fed[s[1]]
    BY <1>4 DEF FedGrows
  <1>6. Checked(e)' = Checked(e)
    BY <1>1, <1>2 DEF Checked
  <1>7. Fails(e)' = Fails(e)
    BY <1>1, <1>2, <1>5, <1>6 DEF Fails
  <1>8. None' = None
    BY DEF None
  <1> QED
    BY <1>1, <1>2, <1>3, <1>7, <1>8 DEF Settled

LEMMA TablesKept ==
  ASSUME FilesInv, h' = h, sizes' = sizes, crcs' = crcs,
         pc \notin {"sizes", "digests"}, pc' \in {"folder", "attach", "done", "crashed"},
         fi' \in 1..Len(h.folders) \/ (fi' = 1 /\ h.folders = <<>> /\ pc' # "attach")
  PROVE  TablesInv'
  <1>1. SizesRead' = SizesRead /\ DigestsRead' = DigestsRead
    BY DEF SizesRead, DigestsRead
  <1>2. \A f : Told(f)' = Told(f)
    BY SameHeader
  <1>3. /\ sizes = [f \in 1..SizesRead |-> Told(f)]
        /\ crcs \in Seq(Seq({<<>>} \cup (Nat \X Nat))) /\ Len(crcs) = DigestsRead
        /\ \A f \in 1..Len(crcs) : Len(crcs[f]) = h.folders[f].count /\
             \A j \in 1..Len(crcs[f]) : crcs[f][j] \in {<<>>, <<f, j>>}
    BY DEF FilesInv, TablesInv
  <1>4. sizes' = [f \in 1..SizesRead' |-> Told(f)']
    BY <1>1, <1>2, <1>3
  <1> QED
    BY <1>1, <1>3, <1>4 DEF TablesInv

\* While the tables are read nothing else changes.
LEMMA ReadingKept ==
  ASSUME FilesInv, Reading, pc \in {"sizes", "digests"}, pc' \in {"sizes", "digests", "folder"},
         pc' = "folder" => fi' = 1
  PROVE  h' \in Headers /\ FedInv' /\ PiecesInv' /\ SettledInv'
  <1>1. /\ h' = h /\ ei' = ei /\ pi' = pi /\ fed' = fed /\ payload' = payload /\ error' = error
        /\ damaged' = damaged
    BY DEF Reading
  <1>2. Len(fed) = 0 /\ FoldersFed' = 0
    BY DEF FilesInv, FedInv, FoldersFed
  <1>3. FedInv'
    BY <1>1, <1>2, SameHeader DEF FilesInv, FedInv
  <1>4. PiecesInv'
    <2>1. streamed' = streamed
      BY <1>1, SameHeader
    <2> QED
      BY <1>1, <2>1 DEF FilesInv, PiecesInv, None
  <1>5. SettledInv'
    <2> SUFFICES ASSUME Consistent' PROVE SettledInv'
      BY DEF SettledInv
    <2>1. Consistent /\ Counts' = Counts
      BY <1>1, SameHeader
    <2>2. ei = Total(Counts, Len(fed)) /\ Total(Counts, 0) = 0
      <3>1. Total(Counts, 0) = 0
        BY HeaderFacts, TotalIs DEF FilesInv, CountFacts
      <3> QED
        BY <2>1, <3>1 DEF FilesInv, SettledInv
    <2>3. ei' = Total(Counts, Len(fed))' /\ \A e \in 1..ei' : FALSE
      BY <1>1, <1>2, <2>1, <2>2
    <2> QED
      BY <2>3 DEF SettledInv
  <1> QED
    BY <1>1, <1>3, <1>4, <1>5 DEF FilesInv

-------------------------------------------------------------------------------
(* Reading the tables.                                                     *)

LEMMA SizesStep ==
  ASSUME FilesInv, ReadSizes
  PROVE  FilesInv'
  <1>1. PICK N \in Nat : N = Len(h.folders) /\ (h.folders = <<>> <=> N = 0)
    BY HeaderFacts DEF FilesInv
  <1>2. /\ h' = h /\ it' = it /\ crcs' = crcs /\ pc = "sizes" /\ h.substreams /\ it = 0
        /\ sizes = [f \in 1..SizesRead |-> Told(f)]
        /\ crcs \in Seq(Seq({<<>>} \cup (Nat \X Nat))) /\ Len(crcs) = 0
        /\ fi \in 1..N \/ (fi = 1 /\ N = 0)
    BY <1>1 DEF FilesInv, TablesInv, ReadSizes, Reading, DigestsRead
  <1>3. SizesRead = fi - 1
    BY <1>2 DEF SizesRead
  <1>4. /\ \A f : Told(f)' = Told(f)
        /\ Unlisted' = Unlisted /\ Total(Unlisted, 0) = 0
    BY <1>1, <1>2, HeaderFacts, SameHeader, TotalIs DEF FilesInv, CountFacts
  <1>5. /\ pc' \in {"sizes", "digests"} /\ (pc' = "digests" => fi' = 1)
        /\ fi' \in 1..N \/ (fi' = 1 /\ N = 0)
    BY <1>1, <1>2 DEF ReadSizes, NextFolder
  <1>6. sizes' = [f \in 1..SizesRead' |-> Told(f)]
    <2>1. CASE fi <= N
      <3>1. fi \in 1..N /\ fi - 1 \in Nat
        BY <1>2, <2>1
      <3>2. SizesRead' = fi
        <4>1. SizesRead' = IF pc' = "sizes" THEN fi' - 1 ELSE N
          BY <1>1, <1>2 DEF SizesRead
        <4>2. IF fi < N THEN fi' = fi + 1 /\ pc' = pc ELSE fi' = 1 /\ pc' = "digests"
          BY <1>1, <1>2, <2>1 DEF ReadSizes, NextFolder
        <4> QED
          BY <1>2, <3>1, <4>1, <4>2
      <3>3. \A f \in 1..fi : Told(f) \in Seq(Int)
        <4>1. \A f \in 1..fi : f \in 1..Len(h.folders)
          BY <1>1, <3>1
        <4> QED
          BY <4>1, ToldFacts DEF FilesInv, SizesFact
      <3>4. sizes' = Append(sizes, Told(fi))
        <4>1. sizes' = Append(sizes, Told(fi)) \/ fi > Len(h.folders)
          BY Zenon DEF ReadSizes
        <4> QED
          BY <1>1, <3>1, <4>1
      <3>5. PICK S : S = Seq(Int)
        OBVIOUS
      <3>6. \A f \in 1..fi : Told(f) \in S
        BY <3>3, <3>5
      <3> HIDE DEF Told
      <3>7. sizes \in Seq(S) /\ Len(sizes) = fi - 1 /\ \A f \in 1..(fi - 1) : sizes[f] = Told(f)
        BY <1>2, <1>3, <3>1, <3>6
      <3>8. PICK v \in S : v = Told(fi)
        BY <3>1, <3>6
      <3>9. PICK u \in Seq(S) : u = Append(sizes, v)
        BY <3>7, <3>8, AppendProperties
      <3>10. Len(u) = fi /\ u[fi] = v /\ \A f \in 1..(fi - 1) : u[f] = sizes[f]
        <4>1. /\ Len(u) = Len(sizes) + 1 /\ u[Len(sizes) + 1] = v
              /\ \A f \in 1..Len(sizes) : u[f] = sizes[f]
          BY <3>7, <3>8, <3>9, AppendProperties
        <4> QED
          BY <3>1, <3>7, <4>1
      <3>11. \A f \in 1..fi : u[f] = Told(f)
        <4> TAKE f \in 1..fi
        <4>1. f = fi \/ f \in 1..(fi - 1)
          BY <3>1
        <4> QED
          BY <3>7, <3>8, <3>10, <4>1
      <3>12. u = [f \in 1..fi |-> Told(f)]
        <4>1. u = [f \in 1..Len(u) |-> u[f]]
          BY <3>9, LenProperties
        <4> QED
          BY <3>10, <3>11, <4>1
      <3> QED
        BY <3>2, <3>4, <3>8, <3>9, <3>12
    <2>2. CASE ~(fi <= N)
      <3>1. N = 0 /\ fi = 1 /\ pc' = "digests" /\ sizes' = sizes
        BY <1>1, <1>2, <2>2 DEF ReadSizes
      <3>2. SizesRead' = 0
        BY <1>1, <1>2, <3>1 DEF SizesRead
      <3>3. SizesRead = 0
        BY <1>3, <3>1
      <3> QED
        BY <1>2, <3>1, <3>2, <3>3
    <2> QED
      BY <2>1, <2>2
  <1>7. DigestsRead' = 0
    BY <1>2, <1>5 DEF DigestsRead
  <1>8. TablesInv'
    <2>1. sizes' = [f \in 1..SizesRead' |-> Told(f)']
      BY <1>4, <1>6
    <2>2. pc' = "digests" => it' = Total(Unlisted, fi - 1)'
      BY <1>2, <1>4, <1>5
    <2>3. \A f \in 1..Len(crcs') : FALSE
      BY <1>2
    <2> QED
      BY <1>1, <1>2, <1>5, <1>7, <2>1, <2>2, <2>3 DEF TablesInv
  <1>9. h' \in Headers /\ FedInv' /\ PiecesInv' /\ SettledInv'
    BY <1>2, <1>5, ReadingKept DEF ReadSizes
  <1> QED
    BY <1>8, <1>9 DEF FilesInv

\* A row of substream_crcs.
Row(t, f) ==
  /\ t \in Seq({<<>>} \cup (Nat \X Nat)) /\ Len(t) = h.folders[f].count
  /\ \A j \in 1..Len(t) : t[j] \in {<<>>, <<f, j>>}

LEMMA RowIs ==
  ASSUME h \in Headers, NEW f \in 1..Len(h.folders), NEW c, c = h.folders[f].count,
         NEW t, t = [j \in 1..c |-> t[j]], \A j \in 1..c : t[j] \in {<<>>, <<f, j>>}
  PROVE  Row(t, f)
  <1>1. c \in Nat /\ f \in Nat
    BY HeaderFacts, StartFacts
  <1>2. PICK S : S = {<<>>} \cup (Nat \X Nat)
    OBVIOUS
  <1>3. \A j \in 1..c : t[j] \in S
    <2> TAKE j \in 1..c
    <2>1. <<f, j>> \in Nat \X Nat
      BY <1>1
    <2> QED
      BY <1>2, <2>1
  <1>4. t \in Seq(S) /\ Len(t) = c
    <2>1. t \in [1..c -> S]
      <3>1. \A q : q = [j \in 1..c |-> q[j]] /\ (\A j \in 1..c : q[j] \in S) => q \in [1..c -> S]
        OBVIOUS
      <3> QED
        BY <1>3, <3>1
    <2>2. t \in Seq(S)
      BY <1>1, <2>1, SeqDef
    <2> QED
      BY <1>1, <2>1, <2>2, LenProperties
  <1> QED
    BY <1>2, <1>4 DEF Row

LEMMA DigestsStep ==
  ASSUME FilesInv, ReadDigests
  PROVE  FilesInv'
  <1>1. PICK N \in Nat : N = Len(h.folders) /\ (h.folders = <<>> <=> N = 0)
    BY HeaderFacts DEF FilesInv
  <1>2. /\ h' = h /\ sizes' = sizes /\ pc = "digests" /\ h.substreams
        /\ fi \in 1..N /\ fi \in 1..Len(h.folders) /\ it = Total(Unlisted, fi - 1)
        /\ sizes = [f \in 1..SizesRead |-> Told(f)]
        /\ crcs \in Seq(Seq({<<>>} \cup (Nat \X Nat))) /\ Len(crcs) = fi - 1
        /\ \A f \in 1..Len(crcs) : Row(crcs[f], f)
    <2>1. h' = h /\ sizes' = sizes /\ pc = "digests" /\ h.substreams /\ fi \in 1..N
      BY <1>1 DEF FilesInv, TablesInv, ReadDigests, Reading
    <2>2. /\ it = Total(Unlisted, fi - 1) /\ sizes = [f \in 1..SizesRead |-> Told(f)]
          /\ crcs \in Seq(Seq({<<>>} \cup (Nat \X Nat))) /\ Len(crcs) = fi - 1
      BY <2>1 DEF FilesInv, TablesInv, DigestsRead
    <2>3. \A f \in 1..Len(crcs) : crcs[f] \in Seq({<<>>} \cup (Nat \X Nat))
      BY <2>2
    <2>4. \A f \in 1..Len(crcs) : Row(crcs[f], f)
      BY <2>3 DEF FilesInv, TablesInv, Row
    <2> QED
      BY <1>1, <2>1, <2>2, <2>4
  <1>3. PICK c \in Nat : c = h.folders[fi].count
    BY <1>2, StartFacts DEF FilesInv
  <1>4. IF fi < N THEN fi' = fi + 1 /\ pc' = pc ELSE fi' = 1 /\ pc' = "folder"
    BY <1>1 DEF ReadDigests, NextFolder
  <1>5. SizesRead' = SizesRead
    BY <1>2, <1>4 DEF SizesRead
  <1>6. DigestsRead' = fi
    <2>1. DigestsRead' = IF pc' = "digests" THEN fi' - 1 ELSE N
      BY <1>1, <1>2, <1>4 DEF DigestsRead
    <2> QED
      BY <1>2, <1>4, <2>1
  <1>7. /\ Total(Unlisted, fi - 1) \in Nat
        /\ Total(Unlisted, fi) = Total(Unlisted, fi - 1) + Unlisted[fi]
    <2>1. \A w \in 1..N : Unlisted[w] \in Nat
      BY <1>1, HeaderFacts DEF FilesInv, CountFacts
    <2>2. \A m \in 0..N : Total(Unlisted, m) \in Nat
      BY <2>1, TotalIs
    <2>3. \A m \in 1..N : Total(Unlisted, m) = Total(Unlisted, m - 1) + Unlisted[m]
      BY <2>1, TotalIs
    <2>4. fi - 1 \in 0..N
      BY <1>2
    <2> QED
      BY <1>2, <2>2, <2>3, <2>4
  <1>8. \E t : crcs' = Append(crcs, t) /\ Row(t, fi) /\ it' = Total(Unlisted, fi)
    <2>1. CASE Known(fi)
      <3>1. c = 1 /\ Unlisted[fi] = 0
        BY <1>2, <1>3, <2>1 DEF Known, Unlisted
      <3>2. PICK t : t = <<<<fi, 1>>>>
        OBVIOUS
      <3>3. t = [j \in 1..1 |-> t[j]] /\ t[1] = <<fi, 1>>
        BY <3>2
      <3>4. \A j \in 1..1 : j = 1
        OBVIOUS
      <3>5. Row(t, fi)
        BY <1>2, <1>3, <3>1, <3>3, <3>4, RowIs, ZenonT(30) DEF FilesInv
      <3>6. crcs' = Append(crcs, t) /\ it' = it
        BY <2>1, <3>2 DEF ReadDigests
      <3> QED
        BY <1>2, <1>7, <3>1, <3>5, <3>6
    <2>2. CASE ~Known(fi)
      <3>1. Unlisted[fi] = c
        BY <1>2, <1>3, <2>2 DEF Unlisted
      <3>2. PICK defined \in SUBSET (1..c) :
              crcs' = Append(crcs, [j \in 1..c |-> IF j \in defined THEN Unknown(it + j) ELSE <<>>])
        BY <1>3, <2>2 DEF ReadDigests, folder
      <3>3. it' = it + c
        BY <1>3, <2>2 DEF ReadDigests, folder
      <3>4. PICK t : t = [j \in 1..c |-> IF j \in defined THEN Unknown(it + j) ELSE <<>>]
        OBVIOUS
      <3>5. \A j \in 1..c : Unknown(it + j) = <<fi, j>>
        <4> TAKE j \in 1..c
        <4>1. N = Len(Unlisted) /\ \A w \in 1..N : Unlisted[w] \in Nat
          BY <1>1, HeaderFacts DEF FilesInv, CountFacts
        <4>2. PICK m : m = Total(Unlisted, fi - 1) + j
          OBVIOUS
        <4>3. j \in 1..Unlisted[fi]
          BY <3>1
        <4>4. Place(Unlisted, m) = <<fi, j>>
          <5>1. PICK q : q = Unlisted
            OBVIOUS
          <5>2. N = Len(q) /\ (\A w \in 1..N : q[w] \in Nat) /\ j \in 1..q[fi]
            BY <4>1, <4>3, <5>1
          <5>3. m = Total(q, fi - 1) + j
            BY <4>2, <5>1
          <5>4. PICK f \in 1..N : f = fi
            BY <1>2
          <5>5. j \in 1..q[f] /\ m = Total(q, f - 1) + j
            BY <5>2, <5>3, <5>4
          <5>6. Place(q, m) = <<f, j>>
            BY <5>2, <5>5, PlaceIs
          <5> QED
            BY <5>1, <5>4, <5>6
        <4> QED
          BY <1>2, <4>2, <4>4 DEF Unknown
      <3>6. \A j \in 1..c : t[j] \in {<<>>, <<fi, j>>}
        BY <3>4, <3>5
      <3>7. t = [j \in 1..c |-> t[j]]
        BY <3>4
      <3>8. Row(t, fi)
        BY <1>2, <1>3, <3>6, <3>7, RowIs DEF FilesInv
      <3>9. it' = Total(Unlisted, fi)
        BY <1>2, <1>7, <3>1, <3>3
      <3> QED
        BY <3>2, <3>4, <3>8, <3>9
    <2> QED
      BY <2>1, <2>2
  <1>9. PICK t : crcs' = Append(crcs, t) /\ Row(t, fi) /\ it' = Total(Unlisted, fi)
    BY <1>8
  <1>10. PICK S : S = Seq({<<>>} \cup (Nat \X Nat))
    OBVIOUS
  <1>11. crcs \in Seq(S) /\ t \in S
    BY <1>2, <1>9, <1>10 DEF Row
  <1>12. PICK u \in Seq(S) : u = Append(crcs, t)
    BY <1>11, AppendProperties
  <1>13. Len(u) = fi /\ u[fi] = t /\ \A f \in 1..(fi - 1) : u[f] = crcs[f]
    <2>1. /\ Len(u) = Len(crcs) + 1 /\ u[Len(crcs) + 1] = t
          /\ \A f \in 1..Len(crcs) : u[f] = crcs[f]
      BY <1>11, <1>12, AppendProperties
    <2> QED
      BY <1>2, <2>1
  <1>14. \A f \in 1..fi : Row(u[f], f)
    <2> TAKE f \in 1..fi
    <2>1. f = fi \/ f \in 1..(fi - 1)
      BY <1>2
    <2> QED
      BY <1>2, <1>9, <1>13, <2>1
  <1>15. TablesInv'
    <2>1. sizes' = [f \in 1..SizesRead' |-> Told(f)']
      <3>1. \A f : Told(f)' = Told(f)
        BY <1>2, SameHeader
      <3> QED
        BY <1>2, <1>5, <3>1
    <2>2. /\ crcs' \in Seq(Seq({<<>>} \cup (Nat \X Nat))) /\ Len(crcs') = DigestsRead'
          /\ \A f \in 1..Len(crcs') : Len(crcs'[f]) = h'.folders[f].count /\
               \A j \in 1..Len(crcs'[f]) : crcs'[f][j] \in {<<>>, <<f, j>>}
      <3>1. crcs' \in Seq(Seq({<<>>} \cup (Nat \X Nat))) /\ Len(crcs') = DigestsRead'
        BY <1>6, <1>9, <1>10, <1>12, <1>13
      <3>2. \A f \in 1..fi : Row(crcs'[f], f)
        BY <1>9, <1>12, <1>14
      <3> QED
        BY <1>2, <1>6, <3>1, <3>2 DEF Row
    <2>3. /\ pc' \in {"digests", "folder"}
          /\ fi' \in 1..Len(h'.folders)
      BY <1>1, <1>2, <1>4
    <2>4. pc' = "digests" => it' = Total(Unlisted, fi - 1)'
      <3>1. Unlisted' = Unlisted
        BY <1>2, SameHeader
      <3>2. pc' = "digests" => fi' = fi + 1
        BY <1>2, <1>4
      <3>3. pc' = "digests" => fi' - 1 = fi
        BY <1>2, <3>2
      <3> QED
        BY <1>9, <3>1, <3>3
    <2> QED
      BY <1>2, <2>1, <2>2, <2>3, <2>4 DEF TablesInv
  <1>16. h' \in Headers /\ FedInv' /\ PiecesInv' /\ SettledInv'
    BY <1>2, <1>4, ReadingKept DEF ReadDigests
  <1> QED
    BY <1>15, <1>16 DEF FilesInv

LEMMA NoDigestsStep ==
  ASSUME FilesInv, NoDigests
  PROVE  FilesInv'
  <1>1. PICK N \in Nat : N = Len(h.folders) /\ (h.folders = <<>> <=> N = 0)
    BY HeaderFacts DEF FilesInv
  <1>2. /\ h' = h /\ sizes' = sizes /\ pc = "digests" /\ pc' = "folder" /\ fi' = 1
        /\ h.substreams /\ sizes = [f \in 1..SizesRead |-> Told(f)]
        /\ crcs' = [f \in 1..N |-> [j \in 1..h.folders[f].count |-> <<>>]]
    BY <1>1 DEF FilesInv, TablesInv, NoDigests, Reading
  <1>3. SizesRead' = SizesRead /\ DigestsRead' = N
    BY <1>1, <1>2 DEF SizesRead, DigestsRead
  <1>4. \A f \in 1..N : Row(crcs'[f], f)
    <2> TAKE f \in 1..N
    <2>1. PICK t : t = [j \in 1..h.folders[f].count |-> <<>>]
      OBVIOUS
    <2>2. PICK c : c = h.folders[f].count
      OBVIOUS
    <2>3. t = [j \in 1..c |-> t[j]] /\ \A j \in 1..c : t[j] \in {<<>>, <<f, j>>}
      BY <2>1, <2>2
    <2>4. Row(t, f)
      BY <1>1, <2>2, <2>3, RowIs DEF FilesInv
    <2> QED
      BY <1>2, <2>1, <2>4
  <1>5. PICK S : S = Seq({<<>>} \cup (Nat \X Nat))
    OBVIOUS
  <1>6. \A f \in 1..N : crcs'[f] \in S
    BY <1>4, <1>5 DEF Row
  <1>7. PICK u : u = crcs'
    OBVIOUS
  <1>8. u = [f \in 1..N |-> u[f]] /\ \A f \in 1..N : u[f] \in S
    BY <1>2, <1>6, <1>7
  <1>9. u \in Seq(S) /\ Len(u) = N
    BY <1>8
  <1>10. TablesInv'
    <2>1. sizes' = [f \in 1..SizesRead' |-> Told(f)']
      <3>1. \A f : Told(f)' = Told(f)
        BY <1>2, SameHeader
      <3> QED
        BY <1>2, <1>3, <3>1
    <2>2. /\ crcs' \in Seq(Seq({<<>>} \cup (Nat \X Nat))) /\ Len(crcs') = DigestsRead'
          /\ \A f \in 1..Len(crcs') : Len(crcs'[f]) = h'.folders[f].count /\
               \A j \in 1..Len(crcs'[f]) : crcs'[f][j] \in {<<>>, <<f, j>>}
      BY <1>2, <1>3, <1>4, <1>5, <1>7, <1>9 DEF Row
    <2>3. fi' \in 1..Len(h'.folders) \/ (fi' = 1 /\ h'.folders = <<>> /\ pc' # "attach")
      BY <1>1, <1>2
    <2> QED
      BY <1>2, <2>1, <2>2, <2>3 DEF TablesInv
  <1>11. h' \in Headers /\ FedInv' /\ PiecesInv' /\ SettledInv'
    BY <1>2, ReadingKept DEF NoDigests
  <1> QED
    BY <1>10, <1>11 DEF FilesInv

-------------------------------------------------------------------------------
(* Folder by folder.                                                       *)

\* The files of folder f are those after the files of the ones before it.
LEMMA FolderPlaces ==
  ASSUME h \in Headers, NEW f \in 1..Len(h.folders)
  PROVE  /\ Total(Counts, f - 1) \in Nat
         /\ Total(Counts, f) = Total(Counts, f - 1) + h.folders[f].count
         /\ Consistent => Total(Counts, f) <= streamed
         /\ \A j \in 1..h.folders[f].count : Stream(Total(Counts, f - 1) + j) = <<f, j>>
  <1>1. PICK N \in Nat : N = Len(h.folders) /\ f \in 1..N
    BY HeaderFacts
  <1>2. PICK c : c = Counts
    OBVIOUS
  <1>3. N = Len(c) /\ \A w \in 1..N : c[w] \in Nat
    BY <1>1, <1>2, HeaderFacts DEF CountFacts
  <1>4. c[f] = h.folders[f].count
    BY <1>2 DEF Counts
  <1>5. \A m \in 0..N : Total(c, m) \in Nat
    BY <1>3, TotalIs
  <1>6. \A m \in 1..N : Total(c, m) = Total(c, m - 1) + c[m]
    BY <1>3, TotalIs
  <1>7. Consistent => Total(c, f) <= streamed
    <2> SUFFICES ASSUME Consistent PROVE Total(c, f) <= streamed
      OBVIOUS
    <2>1. Total(c, N) = streamed
      BY <1>2, <1>3 DEF Consistent, Sum
    <2>2. f \in 0..N /\ N \in f..N
      BY <1>1
    <2> QED
      BY <1>3, <2>1, <2>2, TotalGrows
  <1>8. ASSUME NEW j \in 1..c[f] PROVE Stream(Total(c, f - 1) + j) = <<f, j>>
    <2>1. PICK m : m = Total(c, f - 1) + j
      OBVIOUS
    <2>2. Place(c, m) = <<f, j>>
      BY <1>1, <1>3, <2>1, PlaceIs
    <2> QED
      BY <1>2, <2>1, <2>2 DEF Stream
  <1>9. f - 1 \in 0..N
    BY <1>1
  <1> QED
    BY <1>1, <1>2, <1>4, <1>5, <1>6, <1>7, <1>8, <1>9

LEMMA FedNow ==
  ASSUME FilesInv
  PROVE  /\ Len(fed) \in Nat /\ Len(fed) = FoldersFed
         /\ \A f \in 1..Len(fed) : fed[f].from = 1 + Total(Packs, f - 1)
  BY DEF FilesInv, FedInv

LEMMA AtFolderFacts ==
  ASSUME FilesInv, AtFolder
  PROVE  /\ fi \in 1..Len(h.folders) /\ Len(h.folders) \in Nat
         /\ pc = "folder" /\ Len(fed) = fi - 1
  <1>1. pc = "folder" /\ fi <= Len(h.folders)
    BY DEF AtFolder
  <1>2. Len(h.folders) \in Nat /\ (h.folders = <<>> <=> Len(h.folders) = 0)
    BY HeaderFacts DEF FilesInv
  <1>3. fi \in 1..Len(h.folders)
    BY <1>1, <1>2 DEF FilesInv, TablesInv
  <1>4. FoldersFed = fi - 1
    BY <1>1 DEF FoldersFed
  <1> QED
    BY <1>1, <1>2, <1>3, <1>4, FedNow

LEMMA FedMore ==
  ASSUME FilesInv, AtFolder, NEW o \in {"fails", "good", "damaged"}, Fed(o), h' = h,
         FoldersFed' = fi
  PROVE  /\ FedInv' /\ FedGrows /\ Len(fed') = fi /\ fed'[fi].outcome = o
  <1>1. PICK S : S = [from : Nat, outcome : {"fails", "good", "damaged"}]
    OBVIOUS
  <1>2. fed \in Seq(S)
    BY <1>1 DEF FilesInv, FedInv
  <1>3. fi \in 1..Len(h.folders) /\ Len(h.folders) \in Nat /\ Len(fed) = fi - 1 /\ pc = "folder"
    BY AtFolderFacts
  <1>4. PICK N \in Nat : N = Len(h.folders) /\ fi \in 1..N
    BY <1>3
  <1>5. \A w \in 1..N : Packs[w] \in Nat
    BY <1>4, HeaderFacts DEF FilesInv, CountFacts
  <1>6. \A m \in 0..N : Total(Packs, m) \in Nat
    BY <1>5, TotalIs
  <1>7. \A m \in 1..N : Total(Packs, m) = Total(Packs, m - 1) + Packs[m]
    BY <1>5, TotalIs
  <1>8. fi - 1 \in 0..N
    BY <1>4
  <1>9. Packs[fi] = folder.packs
    BY <1>3 DEF Packs, folder
  <1>10. pi = Total(Packs, fi - 1) /\ pi \in Nat
    <2>1. pi = Total(Packs, Len(fed))
      BY <1>3 DEF FilesInv, FedInv
    <2> QED
      BY <1>3, <1>6, <1>8, <2>1
  <1>11. pi' = Total(Packs, fi)
    BY <1>4, <1>7, <1>9, <1>10 DEF Fed
  <1>12. PICK x : x = [from |-> pi + 1, outcome |-> o]
    OBVIOUS
  <1>13. x \in S /\ x.from = pi + 1 /\ x.outcome = o
    BY <1>1, <1>10, <1>12
  <1>14. fed' = Append(fed, x)
    BY <1>12 DEF Fed
  <1>15. PICK u \in Seq(S) : u = Append(fed, x)
    BY <1>2, <1>13, AppendProperties
  <1>16. /\ Len(u) = Len(fed) + 1 /\ u[Len(fed) + 1] = x
         /\ \A f \in 1..Len(fed) : u[f] = fed[f]
    BY <1>2, <1>13, <1>15, AppendProperties
  <1>17. Len(u) = fi /\ u[fi] = x /\ \A f \in 1..(fi - 1) : u[f] = fed[f]
    BY <1>3, <1>4, <1>16
  <1>18. \A f \in 1..fi : u[f].from = 1 + Total(Packs, f - 1)
    <2> TAKE f \in 1..fi
    <2>1. f = fi \/ f \in 1..(fi - 1)
      BY <1>4
    <2>2. CASE f = fi
      BY <1>10, <1>13, <1>17, <2>2
    <2>3. CASE f \in 1..(fi - 1)
      <3>1. f \in 1..Len(fed)
        BY <1>3, <2>3
      <3> QED
        BY <1>17, <2>3, <3>1, FedNow
    <2> QED
      BY <2>1, <2>2, <2>3
  <1>19. FedGrows
    BY <1>3, <1>4, <1>14, <1>15, <1>17 DEF FedGrows
  <1>20. Packs' = Packs
    BY SameHeader
  <1>21. FedInv'
    BY <1>1, <1>11, <1>14, <1>15, <1>17, <1>18, <1>20 DEF FedInv
  <1> QED
    BY <1>13, <1>14, <1>15, <1>17, <1>19, <1>21

\* A step that ends the reading leaves the files as they are.
LEMMA CrashedStep ==
  ASSUME FilesInv, MissingPack \/ UncaughtError
  PROVE  FilesInv'
  <1>1. AtFolder /\ h' = h /\ fi' = fi /\ ei' = ei /\ fed' = fed /\ payload' = payload
    BY DEF MissingPack, UncaughtError, Attaching
  <1>2. error' = error /\ sizes' = sizes /\ crcs' = crcs /\ damaged' = damaged /\ pc' = "crashed"
    BY DEF MissingPack, UncaughtError, Attaching
  <1>3. fi \in 1..Len(h.folders) /\ pc = "folder" /\ Len(fed) = fi - 1
    BY <1>1, AtFolderFacts
  <1>4. TablesInv'
    BY <1>1, <1>2, <1>3, TablesKept
  <1>5. FoldersFed' = Len(fed)
    BY <1>1, <1>2, <1>3 DEF FoldersFed
  <1>6. FedInv'
    <2>1. Packs' = Packs
      BY <1>1, SameHeader
    <2> QED
      BY <1>1, <1>2, <1>5, <2>1 DEF FilesInv, FedInv
  <1>7. PiecesInv'
    <2>1. streamed' = streamed
      BY <1>1, SameHeader
    <2> QED
      BY <1>1, <1>2, <2>1 DEF FilesInv, PiecesInv, None
  <1>8. SettledInv'
    <2> SUFFICES ASSUME Consistent' PROVE SettledInv'
      BY DEF SettledInv
    <2>1. Consistent
      BY <1>1, SameHeader
    <2>2. \A e \in 1..ei : Settled(e)
      BY <2>1 DEF FilesInv, SettledInv
    <2>3. FedGrows /\ Len(fed) \in Nat /\ Len(fed') \in Nat
      BY <1>1, FedNow DEF FedGrows
    <2>4. \A e \in 1..ei' : Settled(e)'
      BY <1>1, <1>2, <2>2, <2>3, SettledStays
    <2> QED
      BY <1>2, <2>4 DEF SettledInv
  <1> QED
    BY <1>1, <1>4, <1>6, <1>7, <1>8 DEF FilesInv

LEMMA FolderFailsStep ==
  ASSUME FilesInv, FolderFails
  PROVE  FilesInv'
  <1>1. /\ AtFolder /\ Fed("fails") /\ NextFolder("done")
        /\ h' = h /\ payload' = payload /\ damaged' = damaged /\ sizes' = sizes /\ crcs' = crcs
        /\ ei' = Min2(ei + Len(Szs), streamed)
        /\ error' = [e \in DOMAIN error |-> error[e] \/ e \in (ei + 1)..(ei + Len(Szs))]
    BY DEF FolderFails, Attaching
  <1>2. PICK N \in Nat : N = Len(h.folders) /\ fi \in 1..N /\ fi \in 1..Len(h.folders)
    BY <1>1, AtFolderFacts
  <1>3. pc = "folder" /\ Len(fed) = fi - 1 /\ h \in Headers /\ TablesInv /\ PiecesInv
    BY <1>1, AtFolderFacts DEF FilesInv
  <1>4. \/ fi' = fi + 1 /\ pc' = "folder" /\ fi < N
        \/ fi' = 1 /\ pc' = "done" /\ fi = N
    BY <1>1, <1>2, <1>3 DEF NextFolder
  <1>5. FoldersFed' = fi
    BY <1>1, <1>2, <1>4 DEF FoldersFed
  <1>6. FedInv' /\ FedGrows /\ Len(fed') = fi /\ fed'[fi].outcome = "fails"
    BY <1>1, <1>5, FedMore
  <1>7. TablesInv'
    <2>1. pc' \in {"folder", "done"} /\ fi' \in 1..Len(h.folders)
      BY <1>2, <1>4
    <2> QED
      BY <1>1, <1>3, <2>1, TablesKept
  <1>8. PICK n \in Nat : n = Len(Szs)
    BY <1>2, <1>3, SzsFacts DEF SizesFact
  <1>9. streamed \in Nat /\ streamed' = streamed /\ ei \in 0..streamed
    BY <1>1, <1>3, HeaderFacts, SameHeader DEF PiecesInv
  <1>10. /\ ei' \in ei..streamed /\ ei' <= ei + n
         /\ ei' = ei + n \/ ei' = streamed
         /\ ei + n <= streamed => ei' = ei + n
    BY <1>1, <1>8, <1>9 DEF Min2
  <1>11. /\ error \in [1..streamed -> BOOLEAN]
         /\ \A e \in (ei + 1)..streamed : payload[e] = None /\ ~error[e]
    BY <1>3 DEF PiecesInv
  <1>12. /\ error' \in [1..streamed -> BOOLEAN]
         /\ \A e \in 1..streamed : error'[e] = (error[e] \/ e \in (ei + 1)..(ei + n))
    <2>1. error' = [e \in 1..streamed |-> error[e] \/ e \in (ei + 1)..(ei + n)]
      BY <1>1, <1>8, <1>11
    <2> QED
      BY <2>1
  <1>13. None' = None
    BY DEF None
  <1>14. PiecesInv'
    <2>1. \A e \in (ei' + 1)..streamed : payload'[e] = None /\ ~error'[e]
      <3> TAKE e \in (ei' + 1)..streamed
      <3>0. PICK m \in Int : m = ei'
        BY <1>9, <1>10
      <3>1. e \in (ei + 1)..streamed /\ e \in 1..streamed /\ ~(e \in (ei + 1)..(ei + n))
        <4>1. m \in ei..streamed /\ (m = ei + n \/ m = streamed) /\ e \in (m + 1)..streamed
          BY <1>10, <3>0
        <4>2. PICK a \in Nat, b \in Nat : a = ei /\ b = streamed
          BY <1>9
        <4>3. a <= m /\ (m = a + n \/ m = b) /\ e \in (m + 1)..b
          BY <4>1, <4>2
        <4>4. e \in (a + 1)..b /\ e \in 1..b /\ ~(e \in (a + 1)..(a + n))
          BY <4>3
        <4> QED
          BY <4>2, <4>4
      <3>2. payload'[e] = None /\ ~error[e]
        BY <1>1, <1>11, <3>1
      <3> QED
        BY <1>12, <3>1, <3>2
    <2>2. \A e \in 1..streamed : payload'[e].of <= Len(fed')
      <3>1. \A e \in 1..streamed : payload[e] \in Piece /\ payload[e].of <= Len(fed)
        BY <1>3 DEF PiecesInv
      <3>2. \A e \in 1..streamed : payload[e].of \in Nat
        BY <3>1 DEF Piece
      <3> QED
        BY <1>1, <1>2, <1>3, <1>6, <3>1, <3>2
    <2>3. ei' \in 0..streamed
      BY <1>9, <1>10
    <2>4. pc' # "attach"
      BY <1>4
    <2> QED
      BY <1>1, <1>3, <1>9, <1>12, <1>13, <2>1, <2>2, <2>3, <2>4 DEF PiecesInv
  <1>15. SettledInv'
    <2> SUFFICES ASSUME Consistent' PROVE SettledInv'
      BY DEF SettledInv
    <2>1. Consistent /\ Counts' = Counts
      BY <1>1, SameHeader
    <2>2. ei = Total(Counts, fi - 1) /\ \A e \in 1..ei : Settled(e)
      BY <1>3, <2>1 DEF FilesInv, SettledInv
    <2>3. n = h.folders[fi].count
      BY <1>2, <1>3, <1>8, <2>1, SzsFacts DEF SizesFact
    <2>4. Total(Counts, fi) = ei + n /\ ei' = ei + n
      <3>1. Total(Counts, fi) = ei + n /\ Total(Counts, fi) <= streamed
        BY <1>2, <1>3, <2>1, <2>2, <2>3, FolderPlaces
      <3> QED
        BY <1>10, <3>1
    <2>5. Len(fed) \in Nat /\ Len(fed') \in Nat
      BY <1>2, <1>3, <1>6
    <2>6. \A e \in 1..ei : Settled(e)'
      <3> TAKE e \in 1..ei
      <3>1. e \in 1..streamed /\ ~(e \in (ei + 1)..(ei + n))
        BY <1>8, <1>9
      <3>2. error'[e] = error[e]
        BY <1>11, <1>12, <3>1
      <3> QED
        BY <1>1, <1>6, <2>2, <2>5, <3>2, SettledStays
    <2>7. \A e \in (ei + 1)..(ei + n) : Settled(e)'
      <3> TAKE e \in (ei + 1)..(ei + n)
      <3>1. PICK j \in 1..n : e = ei + j
        <4>1. e - ei \in 1..n /\ e = ei + (e - ei)
          BY <1>8, <1>9
        <4> QED
          BY <4>1
      <3>2. Stream(e) = <<fi, j>>
        BY <1>2, <1>3, <2>2, <2>3, <3>1, FolderPlaces
      <3>3. Stream(e)' = <<fi, j>>
        BY <1>1, <3>2, SameHeader
      <3>4. <<fi, j>>[1] = fi /\ <<fi, j>> \in (1..fi) \X Nat
        BY <1>2, <3>1
      <3>5. Fails(e)'
        BY <1>6, <3>3, <3>4 DEF Fails
      <3>6. e \in (ei + 1)..streamed /\ e \in 1..streamed
        BY <1>9, <1>10, <2>4
      <3>7. error'[e] /\ payload'[e] = None
        BY <1>1, <1>11, <1>12, <3>6
      <3> QED
        <4>1. Stream(e)' \in ((1..Len(fed)) \X Nat)'
          BY <1>6, <3>3, <3>4
        <4>2. (error[e] = Fails(e))'
          <5>1. error'[e] \in BOOLEAN
            BY <1>12, <3>6
          <5>2. Fails(e)' \in BOOLEAN
            BY DEF Fails
          <5> QED
            BY <3>5, <3>7, <5>1, <5>2
        <4>3. ((payload[e] = None) = Fails(e))'
          <5>2. Fails(e)' \in BOOLEAN
            BY DEF Fails
          <5> QED
            BY <1>13, <3>5, <3>7, <5>2
        <4> QED
          BY <1>13, <3>7, <4>1, <4>2, <4>3 DEF Settled
    <2>8. \A e \in 1..ei' : Settled(e)'
      <3> TAKE e \in 1..ei'
      <3>1. e \in 1..ei \/ e \in (ei + 1)..(ei + n)
        BY <1>8, <1>9, <2>4
      <3> QED
        BY <2>6, <2>7, <3>1
    <2>9. ei' = Total(Counts, Len(fed))'
      BY <1>6, <2>1, <2>4
    <2> QED
      BY <1>4, <2>8, <2>9 DEF SettledInv
  <1> QED
    BY <1>1, <1>3, <1>6, <1>7, <1>14, <1>15 DEF FilesInv

LEMMA FolderDecodedStep ==
  ASSUME FilesInv, NEW d \in BOOLEAN, FolderDecoded(d)
  PROVE  FilesInv'
  <1>1. /\ AtFolder /\ h' = h /\ fi' = fi /\ ei' = ei /\ payload' = payload /\ error' = error
        /\ sizes' = sizes /\ crcs' = crcs /\ damaged' = d /\ off' = 0 /\ k' = 1 /\ pc' = "attach"
    BY DEF FolderDecoded, Attaching
  <1>2. PICK o : o = IF d THEN "damaged" ELSE "good"
    OBVIOUS
  <1>3. Fed(o) /\ o \in {"fails", "good", "damaged"}
    BY <1>2 DEF FolderDecoded
  <1>4. /\ fi \in 1..Len(h.folders) /\ Len(h.folders) \in Nat
        /\ pc = "folder" /\ Len(fed) = fi - 1 /\ h \in Headers /\ PiecesInv
    BY <1>1, AtFolderFacts DEF FilesInv
  <1>5. FoldersFed' = fi
    BY <1>1 DEF FoldersFed
  <1>6. FedInv' /\ FedGrows /\ Len(fed') = fi /\ fed'[fi].outcome = o
    BY <1>1, <1>3, <1>5, FedMore
  <1>7. TablesInv'
    BY <1>1, <1>4, TablesKept
  <1>8. PiecesInv'
    <2>1. streamed' = streamed /\ None' = None
      BY <1>1, SameHeader DEF None
    <2>2. \A e \in 1..streamed : payload[e] \in Piece /\ payload[e].of <= fi - 1
      BY <1>4 DEF PiecesInv
    <2>3. \A e \in 1..streamed : payload[e].of \in Nat
      BY <2>2 DEF Piece
    <2>4. \A e \in 1..streamed : payload[e].of <= fi /\ payload[e].of # fi
      BY <1>4, <2>2, <2>3
    <2>5. /\ \A e \in 1..streamed' : payload'[e].of <= Len(fed')
          /\ \A e \in 1..streamed' : payload'[e].of = fi' => payload'[e].hi <= off'
      BY <1>1, <1>6, <2>1, <2>4
    <2>6. k' \in Nat \ {0} /\ off' \in Nat
      BY <1>1
    <2> QED
      BY <1>1, <1>4, <2>1, <2>5, <2>6 DEF PiecesInv
  <1>9. SettledInv'
    <2> SUFFICES ASSUME Consistent' PROVE SettledInv'
      BY DEF SettledInv
    <2>1. Consistent /\ Counts' = Counts /\ \A f, j : Start(f, j)' = Start(f, j)
      BY <1>1, SameHeader
    <2>2. ei = Total(Counts, fi - 1) /\ \A e \in 1..ei : Settled(e)
      BY <1>4, <2>1 DEF FilesInv, SettledInv
    <2>3. Len(fed) \in Nat /\ Len(fed') \in Nat
      BY <1>4, <1>6
    <2>4. \A e \in 1..ei' : Settled(e)'
      BY <1>1, <1>6, <2>2, <2>3, SettledStays
    <2>5. folder' = h.folders[fi] /\ h.folders[fi].count \in Nat /\ Start(fi, 1) = 0
      BY <1>1, <1>4, StartFacts DEF folder
    <2>6. k' \in 1..(folder'.count + 1)
      BY <1>1, <2>5
    <2>7. ei \in Nat
      BY <1>4, <2>2, FolderPlaces
    <2>8. ei' = Total(Counts', fi' - 1) + k' - 1
      BY <1>1, <2>1, <2>2, <2>7
    <2>9. off' = Start(fi, k)'
      BY <1>1, <2>5 DEF Start
    <2>10. fed'[fi'].outcome = IF damaged' THEN "damaged" ELSE "good"
      BY <1>1, <1>2, <1>6
    <2> QED
      BY <1>1, <2>4, <2>6, <2>8, <2>9, <2>10 DEF SettledInv
  <1> QED
    BY <1>1, <1>4, <1>6, <1>7, <1>8, <1>9 DEF FilesInv

LEMMA EndFolderStep ==
  ASSUME FilesInv, EndFolder
  PROVE  FilesInv'
  <1>1. /\ pc = "attach" /\ (k > Len(Szs) \/ ei >= streamed)
        /\ h' = h /\ ei' = ei /\ pi' = pi /\ fed' = fed /\ payload' = payload /\ error' = error
        /\ sizes' = sizes /\ crcs' = crcs /\ damaged' = damaged
    BY DEF EndFolder, Attaching
  <1>2. PICK N \in Nat : /\ N = Len(h.folders) /\ fi \in 1..N /\ fi \in 1..Len(h.folders)
                         /\ h \in Headers /\ TablesInv /\ PiecesInv /\ FedInv
    BY <1>1, HeaderFacts DEF FilesInv, TablesInv
  <1>3. \/ fi' = fi + 1 /\ pc' = "folder" /\ fi < N
        \/ fi' = 1 /\ pc' = "done" /\ fi = N
    BY <1>2 DEF EndFolder
  <1>4. FoldersFed' = fi /\ Len(fed) = fi
    <2>1. FoldersFed = fi
      BY <1>1 DEF FoldersFed
    <2> QED
      BY <1>1, <1>2, <1>3, <2>1, FedNow DEF FoldersFed
  <1>5. FedInv'
    <2>1. Packs' = Packs
      BY <1>1, SameHeader
    <2>2. pi = Total(Packs, Len(fed))
      BY <1>1, <1>2 DEF FedInv
    <2> QED
      BY <1>1, <1>2, <1>4, <2>1, <2>2 DEF FedInv
  <1>6. TablesInv'
    <2>1. pc' \in {"folder", "done"} /\ fi' \in 1..Len(h.folders)
      BY <1>2, <1>3
    <2> QED
      BY <1>1, <2>1, TablesKept
  <1>7. PiecesInv'
    <2>1. streamed' = streamed /\ None' = None
      BY <1>1, SameHeader DEF None
    <2>2. pc' # "attach"
      BY <1>3
    <2> QED
      BY <1>1, <1>2, <2>1, <2>2 DEF PiecesInv
  <1>8. SettledInv'
    <2> SUFFICES ASSUME Consistent' PROVE SettledInv'
      BY DEF SettledInv
    <2>1. Consistent /\ Counts' = Counts
      BY <1>1, SameHeader
    <2>2. PICK c \in Nat : c = h.folders[fi].count
      BY <1>2, StartFacts
    <2>3. /\ k \in 1..(c + 1) /\ ei = Total(Counts, fi - 1) + k - 1
          /\ \A e \in 1..ei : Settled(e)
      BY <1>1, <2>1, <2>2 DEF FilesInv, SettledInv, folder
    <2>4. PICK t \in Nat : t = Total(Counts, fi - 1)
      BY <1>2, FolderPlaces
    <2>5. Total(Counts, fi) = t + c /\ t + c <= streamed
      BY <1>2, <2>1, <2>2, <2>4, FolderPlaces
    <2>6. Len(Szs) = c
      BY <1>1, <1>2, <2>1, <2>2, SzsFacts DEF SizesFact
    <2>7. streamed \in Nat
      BY <1>2, HeaderFacts
    <2>8. ei = t + c
      BY <1>1, <2>3, <2>4, <2>5, <2>6, <2>7
    <2>9. ei' = Total(Counts, Len(fed))'
      BY <1>1, <1>4, <2>1, <2>5, <2>8
    <2>10. FedGrows /\ Len(fed) \in Nat /\ Len(fed') \in Nat
      BY <1>1, FedNow DEF FedGrows
    <2>11. \A e \in 1..ei' : Settled(e)'
      BY <1>1, <2>3, <2>10, SettledStays
    <2> QED
      BY <1>3, <2>9, <2>11 DEF SettledInv
  <1> QED
    BY <1>1, <1>2, <1>5, <1>6, <1>7, <1>8 DEF FilesInv

LEMMA NoFoldersStep ==
  ASSUME FilesInv, NoFolders
  PROVE  FilesInv'
  <1>1. /\ pc = "folder" /\ h.folders = <<>> /\ pc' = "done" /\ fi' = fi
        /\ h' = h /\ ei' = ei /\ pi' = pi /\ fed' = fed /\ payload' = payload /\ error' = error
        /\ sizes' = sizes /\ crcs' = crcs /\ damaged' = damaged
    BY DEF NoFolders, Attaching
  <1>2. fi = 1 /\ Len(h.folders) = 0 /\ h \in Headers /\ FedInv /\ PiecesInv
    BY <1>1, HeaderFacts DEF FilesInv, TablesInv
  <1>3. FoldersFed' = 0 /\ Len(fed) = 0
    <2>1. FoldersFed = 0
      BY <1>1, <1>2 DEF FoldersFed
    <2> QED
      BY <1>1, <1>2, <2>1, FedNow DEF FoldersFed
  <1>4. FedInv'
    <2>1. Packs' = Packs
      BY <1>1, SameHeader
    <2>2. pi = Total(Packs, Len(fed))
      BY <1>1, <1>2 DEF FedInv
    <2> QED
      BY <1>1, <1>2, <1>3, <2>1, <2>2 DEF FedInv
  <1>5. TablesInv'
    BY <1>1, <1>2, TablesKept
  <1>6. PiecesInv'
    <2>1. streamed' = streamed /\ None' = None
      BY <1>1, SameHeader DEF None
    <2> QED
      BY <1>1, <1>2, <2>1 DEF PiecesInv
  <1>7. SettledInv'
    <2> SUFFICES ASSUME Consistent' PROVE SettledInv'
      BY DEF SettledInv
    <2>1. Consistent /\ Counts' = Counts
      BY <1>1, SameHeader
    <2>2. ei = Total(Counts, Len(fed)) /\ \A e \in 1..ei : Settled(e)
      BY <1>1, <2>1 DEF FilesInv, SettledInv
    <2>3. FedGrows /\ Len(fed) \in Nat /\ Len(fed') \in Nat
      BY <1>1, FedNow DEF FedGrows
    <2>4. \A e \in 1..ei' : Settled(e)'
      BY <1>1, <2>2, <2>3, SettledStays
    <2> QED
      BY <1>1, <2>1, <2>2, <2>4 DEF SettledInv
  <1> QED
    BY <1>1, <1>2, <1>4, <1>5, <1>6, <1>7 DEF FilesInv

LEMMA NoneIs == None \in Piece /\ None.of = 0
  BY DEF None, Piece

LEMMA AttachStep ==
  ASSUME FilesInv, Attach
  PROVE  FilesInv'
  <1>1. /\ pc = "attach" /\ k <= Len(Szs) /\ ei < streamed
        /\ h' = h /\ fi' = fi /\ pc' = pc /\ pi' = pi /\ fed' = fed /\ damaged' = damaged
        /\ sizes' = sizes /\ crcs' = crcs
        /\ off' = off + Szs[k] /\ ei' = ei + 1 /\ k' = k + 1
    BY DEF Attach, Attaching
  <1>a. PICK bytes : bytes = Cut(fi, off, off + Szs[k], damaged)
    OBVIOUS
  <1>b. PICK want : want = IF k <= Len(Wants) THEN Wants[k] ELSE <<>>
    OBVIOUS
  <1>c. PICK good : good = Matches(bytes, want)
    OBVIOUS
  <1>2. /\ payload' = [payload EXCEPT ![ei + 1] = IF good THEN bytes ELSE None]
        /\ error' = [error EXCEPT ![ei + 1] = ~good]
    BY <1>a, <1>b, <1>c, Zenon DEF Attach
  <1>3. good \in BOOLEAN
    BY <1>c DEF Matches
  <1>4. PICK p : p = IF good THEN bytes ELSE None
    OBVIOUS
  <1>5. PICK N \in Nat : /\ N = Len(h.folders) /\ fi \in 1..N /\ fi \in 1..Len(h.folders)
                         /\ h \in Headers /\ TablesInv /\ PiecesInv /\ FedInv
    BY <1>1, HeaderFacts DEF FilesInv, TablesInv
  <1>6. SizesFact(Szs, fi)
    BY <1>1, <1>5, SzsFacts
  <1>7. PICK n \in Nat : n = Len(Szs)
    BY <1>6 DEF SizesFact
  <1>8. k \in 1..n /\ off \in Nat
    BY <1>1, <1>5, <1>7 DEF PiecesInv
  <1>9. PICK z \in Int : z = Szs[k] /\ (k < n => z \in Nat)
    BY <1>6, <1>7, <1>8 DEF SizesFact
  <1>10. /\ streamed \in Nat /\ streamed' = streamed /\ ei + 1 \in 1..streamed /\ ei \in Nat
    BY <1>1, <1>5, HeaderFacts, SameHeader DEF PiecesInv
  <1>11. damaged \in BOOLEAN
    BY <1>5 DEF PiecesInv
  <1>d. PICK hi \in Int : hi = off + z
    BY <1>8
  <1>e. PICK whole : whole = Cut(fi, off, hi, FALSE)
    OBVIOUS
  <1>12. CutIs(fi, off, hi, damaged, bytes, whole)
    <2>1. bytes = Cut(fi, off, hi, damaged)
      BY <1>a, <1>d, <1>9
    <2>2. CutIs(fi, off, hi, damaged, Cut(fi, off, hi, damaged), Cut(fi, off, hi, FALSE))
      BY <1>5, <1>8, <1>11, <1>d, CutFacts, Zenon
    <2> QED
      BY <1>e, <2>1, <2>2
  <1>13. /\ p \in Piece
         /\ p.of = 0 \/ (p.of = fi /\ p.lo = off /\ p.hi <= off + z)
    <2>1. CASE good
      BY <1>4, <1>12, <1>d, <2>1 DEF CutIs
    <2>2. CASE ~good
      <3>1. p = None
        BY <1>4, <2>2
      <3> QED
        BY <3>1, NoneIs
    <2> QED
      BY <2>1, <2>2
  <1>14. /\ payload' \in [1..streamed -> Piece] /\ payload'[ei + 1] = p
         /\ \A e \in 1..streamed : e # ei + 1 => payload'[e] = payload[e]
    <2>1. payload \in [1..streamed -> Piece] /\ payload' = [payload EXCEPT ![ei + 1] = p]
      BY <1>2, <1>4, <1>5 DEF PiecesInv
    <2> QED
      BY <1>10, <1>13, <2>1
  <1>15. /\ error' \in [1..streamed -> BOOLEAN] /\ error'[ei + 1] = ~good
         /\ \A e \in 1..streamed : e # ei + 1 => error'[e] = error[e]
    <2>1. error \in [1..streamed -> BOOLEAN]
      BY <1>5 DEF PiecesInv
    <2>2. PICK b \in BOOLEAN : b = ~good
      BY <1>3
    <2>3. error' = [error EXCEPT ![ei + 1] = b]
      BY <1>2, <2>2
    <2> QED
      BY <1>10, <2>1, <2>2, <2>3
  <1>16. FoldersFed' = FoldersFed /\ Len(fed) = fi /\ FoldersFed = fi
    <2>1. FoldersFed' = fi /\ FoldersFed = fi
      BY <1>1 DEF FoldersFed
    <2> QED
      BY <2>1, FedNow
  <1>17. FedInv'
    <2>1. Packs' = Packs
      BY <1>1, SameHeader
    <2> QED
      BY <1>1, <1>5, <1>16, <2>1 DEF FedInv
  <1>18. TablesInv'
    BY <1>1, <1>5, TablesKept
  <1>19. PiecesInv'
    <2>1. \A e \in 1..streamed : /\ payload[e] \in Piece /\ payload[e].of <= fi
                                 /\ payload[e].of = fi => payload[e].hi <= off
      BY <1>1, <1>5, <1>16 DEF PiecesInv
    <2>2. \A e \in 1..streamed : payload[e].of \in Nat /\ payload[e].hi \in Nat /\ payload[e].lo \in Nat
      BY <2>1 DEF Piece
    <2>3. p.of \in Nat /\ p.hi \in Nat /\ p.lo \in Nat /\ p.of <= fi
      <3>1. p.of \in Nat /\ p.hi \in Nat /\ p.lo \in Nat
        BY <1>13 DEF Piece
      <3> QED
        BY <1>5, <1>13, <3>1
    <2>4. \A e \in 1..streamed : payload'[e].of <= Len(fed')
      BY <1>1, <1>14, <1>16, <2>1, <2>3
    <2>5. \A e \in (ei' + 1)..streamed : payload'[e] = None /\ ~error'[e]
      <3> TAKE e \in (ei' + 1)..streamed
      <3>1. e \in (ei + 1)..streamed /\ e \in 1..streamed /\ e # ei + 1
        BY <1>1, <1>10
      <3>2. payload[e] = None /\ ~error[e]
        BY <1>5, <3>1 DEF PiecesInv
      <3> QED
        BY <1>14, <1>15, <3>1, <3>2
    <2>6. \A e \in 1..streamed : e # ei + 1 => Apart(p, payload[e]) /\ Apart(payload[e], p)
      <3> TAKE e \in 1..streamed
      <3>1. p.of = payload[e].of /\ p.of # 0 => payload[e].hi <= p.lo
        BY <1>13, <2>1
      <3> QED
        BY <3>1 DEF Apart
    <2>7. \A d, e \in 1..streamed : d # e => Apart(payload'[d], payload'[e])
      <3> TAKE d, e \in 1..streamed
      <3>1. d # e => Apart(payload[d], payload[e])
        BY <1>5 DEF PiecesInv
      <3>2. CASE d = ei + 1 /\ e # d
        BY <1>14, <2>6, <3>2
      <3>3. CASE e = ei + 1 /\ e # d
        BY <1>14, <2>6, <3>3
      <3>4. CASE d # ei + 1 /\ e # ei + 1
        BY <1>14, <3>1, <3>4
      <3> QED
        BY <3>2, <3>3, <3>4
    <2>8. Szs' = Szs
      BY <1>1 DEF Szs, folder
    <2>9. k' \in Nat \ {0} /\ (k' <= n => off' \in Nat /\ off <= off' /\ off + z <= off')
      BY <1>1, <1>8, <1>9
    <2>10. ASSUME k' <= n, NEW e \in 1..streamed, payload'[e].of = fi
           PROVE  payload'[e].hi <= off'
      <3>1. CASE e = ei + 1
        <4>1. p.of = fi /\ payload'[e] = p
          BY <1>14, <2>10, <3>1
        <4>2. p.hi <= off + z
          BY <1>5, <1>13, <4>1
        <4> QED
          BY <1>8, <2>3, <2>9, <2>10, <4>1, <4>2
      <3>2. CASE e # ei + 1
        <4>1. payload'[e] = payload[e]
          BY <1>14, <3>2
        <4>2. payload[e].hi <= off
          BY <2>1, <2>10, <4>1
        <4> QED
          BY <1>8, <2>2, <2>9, <2>10, <4>1, <4>2
      <3> QED
        BY <3>1, <3>2
    <2>11. ei' \in 0..streamed /\ None' = None
      BY <1>1, <1>10 DEF None
    <2>12. pc' = "attach" =>
             /\ k' \in Nat \ {0}
             /\ k' <= Len(Szs') =>
                  off' \in Nat /\ \A e \in 1..streamed : payload'[e].of = fi => payload'[e].hi <= off'
      BY <1>7, <2>8, <2>9, <2>10
    <2> QED
      BY <1>1, <1>10, <1>11, <1>14, <1>15, <2>4, <2>5, <2>7, <2>11, <2>12 DEF PiecesInv
  <1>20. SettledInv'
    <2> SUFFICES ASSUME Consistent' PROVE SettledInv'
      BY DEF SettledInv
    <2>1. Consistent /\ Counts' = Counts
      BY <1>1, SameHeader
    <2>2. PICK c \in Nat : c = h.folders[fi].count
      BY <1>5, StartFacts
    <2>3. /\ ei = Total(Counts, fi - 1) + k - 1
          /\ k <= c => off = Start(fi, k)
          /\ fed[fi].outcome = IF damaged THEN "damaged" ELSE "good"
          /\ \A e \in 1..ei : Settled(e)
      BY <1>1, <2>1, <2>2 DEF FilesInv, SettledInv, folder
    <2>4. PICK t \in Nat : t = Total(Counts, fi - 1)
      BY <1>5, FolderPlaces
    <2>5. n = c /\ z = Size(fi, k) /\ k \in 1..c
      BY <1>6, <1>7, <1>8, <1>9, <2>1, <2>2 DEF SizesFact
    <2>6. FedGrows /\ Len(fed) \in Nat /\ Len(fed') \in Nat
      BY <1>1, FedNow DEF FedGrows
    <2>7. \A e \in 1..ei : Settled(e)'
      <3> TAKE e \in 1..ei
      <3>1. e \in 1..streamed /\ e # ei + 1
        BY <1>10
      <3> QED
        BY <1>1, <1>14, <1>15, <2>3, <2>6, <3>1, SettledStays
    <2>8. ASSUME NEW m, m = ei + 1 PROVE Settled(m)'
      <3>1. m = ei + 1
        BY <2>8
      <3>2. m = t + k
        BY <1>8, <1>10, <2>3, <2>4, <3>1
      <3>3. PICK s : s = <<fi, k>>
        OBVIOUS
      <3>4. s[1] = fi /\ s[2] = k /\ s \in (1..fi) \X Nat
        BY <1>5, <1>8, <3>3
      <3>5. Stream(m) = s
        BY <1>5, <2>2, <2>4, <2>5, <3>2, <3>3, FolderPlaces
      <3>6. Stream(m)' = s /\ Meant(s)' = Meant(s)
        BY <1>1, <3>5, SameHeader
      <3>7. Checked(m)' = Noticed(s)
        BY <1>1, <3>6 DEF Checked, Noticed
      <3>8. /\ want \in {<<>>, s} /\ (want # <<>> <=> Noticed(s))
        <4>1. Len(Wants) = c
          BY <1>1, <1>5, <2>1, <2>2, WantsFacts DEF folder
        <4>2. want = Wants[k]
          BY <1>b, <2>5, <4>1
        <4> QED
          BY <1>1, <1>5, <2>1, <2>2, <2>5, <3>3, <4>2, WantsFacts DEF folder
      <3>9. /\ bytes # None
            /\ [bytes EXCEPT !.damaged = FALSE] = Meant(s)
            /\ bytes = Meant(s) <=> ~(damaged /\ Meant(s) # Empty)
        <4>1. Meant(s) = whole
          BY <1>d, <1>e, <2>3, <2>5, <3>4 DEF Meant
        <4> QED
          BY <1>11, <1>12, <4>1 DEF CutIs
      <3>10. good <=> ~(Noticed(s) /\ damaged /\ Meant(s) # Empty)
        <4>1. good <=> (want = <<>> \/ bytes = Meant(want))
          BY <1>c DEF Matches
        <4>2. want # <<>> => want = s
          BY <3>8
        <4> QED
          BY <3>8, <3>9, <4>1, <4>2
      <3>11. Fails(m)' <=> (damaged /\ Noticed(s) /\ Meant(s) # Empty)
        <4>1. fed'[fi].outcome = IF damaged THEN "damaged" ELSE "good"
          BY <1>1, <2>3
        <4>2. Empty' = Empty
          BY DEF Empty
        <4> QED
          BY <1>11, <3>4, <3>6, <3>7, <4>1, <4>2 DEF Fails
      <3>12. payload'[m] = (IF good THEN bytes ELSE None) /\ error'[m] = ~good
        BY <1>4, <1>14, <1>15, <3>1
      <3>13. Fails(m)' \in BOOLEAN
        BY DEF Fails
      <3>14. (error[m] = Fails(m))' /\ ((payload[m] = None) = Fails(m))'
        <4>1. None' = None
          BY DEF None
        <4>2. error'[m] <=> Fails(m)'
          BY <3>10, <3>11, <3>12
        <4>3. (payload'[m] = None) <=> Fails(m)'
          BY <3>9, <3>10, <3>11, <3>12
        <4> QED
          BY <1>3, <3>12, <3>13, <4>1, <4>2, <4>3
      <3>15. (payload[m] # None => [payload[m] EXCEPT !.damaged = FALSE] = Meant(Stream(m)))'
        <4>1. None' = None
          BY DEF None
        <4>2. payload'[m] # None => payload'[m] = bytes
          BY <3>12
        <4> QED
          BY <3>6, <3>9, <4>1, <4>2
      <3>16. (Stream(m) \in (1..Len(fed)) \X Nat)'
        BY <1>1, <1>16, <3>4, <3>6
      <3> QED
        BY <3>14, <3>15, <3>16 DEF Settled
    <2>9. \A e \in 1..ei' : Settled(e)'
      <3> TAKE e \in 1..ei'
      <3>1. e \in 1..ei \/ e = ei + 1
        BY <1>1, <1>10
      <3> QED
        BY <2>7, <2>8, <3>1
    <2>10. k' \in 1..(c + 1) /\ ei' = Total(Counts, fi - 1) + k' - 1
      BY <1>1, <1>8, <1>10, <2>3, <2>4, <2>5
    <2>11. k' <= c => off' = Start(fi, k)'
      <3> SUFFICES ASSUME k' <= c PROVE off' = Start(fi, k)'
        OBVIOUS
      <3>1. k < c
        BY <1>1, <2>5
      <3>2. Start(fi, k + 1) = Start(fi, k) + Size(fi, k)
        BY <1>5, <2>2, <2>5, <3>1, StartFacts
      <3>3. off' = Start(fi, k + 1)
        BY <1>1, <1>9, <2>3, <2>5, <3>2
      <3> QED
        BY <1>1, <3>3 DEF Start
    <2>12. folder'.count = c
      BY <1>1, <2>2 DEF folder
    <2> QED
      BY <1>1, <2>1, <2>3, <2>9, <2>10, <2>11, <2>12 DEF SettledInv
  <1> QED
    BY <1>1, <1>5, <1>17, <1>18, <1>19, <1>20 DEF FilesInv

LEMMA FilesStart ==
  ASSUME Init
  PROVE  FilesInv
  <1>1. /\ h \in Headers /\ fi = 1 /\ sizes = <<>> /\ crcs = <<>> /\ it = 0 /\ ei = 0 /\ pi = 0
        /\ k = 1 /\ damaged = FALSE /\ fed = <<>>
        /\ payload = [e \in 1..streamed |-> None] /\ error = [e \in 1..streamed |-> FALSE]
        /\ \/ pc = "sizes" /\ h.substreams
           \/ pc = "folder" /\ ~h.substreams
    BY DEF Init
  <1>2. PICK N \in Nat : N = Len(h.folders) /\ (h.folders = <<>> <=> N = 0)
    BY <1>1, HeaderFacts
  <1>3. SizesRead = 0 /\ DigestsRead = 0 /\ FoldersFed = 0
    BY <1>1 DEF SizesRead, DigestsRead, FoldersFed
  <1>4. TablesInv
    <2>1. sizes = [f \in 1..SizesRead |-> Told(f)]
      BY <1>1, <1>3
    <2>2. fi \in 1..N \/ (fi = 1 /\ h.folders = <<>> /\ pc # "attach")
      BY <1>1, <1>2
    <2>3. crcs \in Seq(Seq({<<>>} \cup (Nat \X Nat))) /\ Len(crcs) = 0
      BY <1>1
    <2>4. \A f \in 1..Len(crcs) : FALSE
      BY <2>3
    <2> QED
      BY <1>1, <1>2, <1>3, <2>1, <2>2, <2>3, <2>4 DEF TablesInv
  <1>5. Len(fed) = 0 /\ fed \in Seq([from : Nat, outcome : {"fails", "good", "damaged"}])
    BY <1>1
  <1>6. Total(Packs, 0) = 0 /\ Total(Counts, 0) = 0
    BY <1>1, HeaderFacts, TotalIs DEF CountFacts
  <1>7. FedInv
    <2>1. \A f \in 1..Len(fed) : FALSE
      BY <1>5
    <2> QED
      BY <1>1, <1>3, <1>5, <1>6, <2>1 DEF FedInv
  <1>8. PiecesInv
    <2>1. streamed \in Nat /\ None \in Piece /\ None.of = 0
      BY <1>1, HeaderFacts, NoneIs
    <2>2. \A e \in 1..streamed : payload[e] = None /\ ~error[e]
      BY <1>1
    <2>3. \A d, e \in 1..streamed : Apart(payload[d], payload[e])
      BY <2>1, <2>2 DEF Apart
    <2>4. \A e \in 1..streamed : payload[e].of <= Len(fed)
      BY <1>5, <2>1, <2>2
    <2>5. payload \in [1..streamed -> Piece] /\ error \in [1..streamed -> BOOLEAN]
      BY <1>1, <2>1
    <2>6. ei \in 0..streamed /\ pc # "attach"
      BY <1>1, <2>1
    <2>8. damaged \in BOOLEAN
      BY <1>1, Zenon
    <2>7. \A e \in (ei + 1)..streamed : e \in 1..streamed
      BY <1>1, <2>1
    <2> QED
      BY <2>2, <2>3, <2>4, <2>5, <2>6, <2>7, <2>8 DEF PiecesInv
  <1>9. SettledInv
    <2>1. \A e \in 1..ei : FALSE
      BY <1>1
    <2> QED
      BY <1>1, <1>5, <1>6, <2>1 DEF SettledInv
  <1> QED
    BY <1>1, <1>4, <1>7, <1>8, <1>9 DEF FilesInv

LEMMA FilesStutter ==
  ASSUME FilesInv, UNCHANGED vars
  PROVE  FilesInv'
  <1>1. /\ h' = h /\ pc' = pc /\ fi' = fi /\ sizes' = sizes /\ crcs' = crcs /\ it' = it
        /\ ei' = ei /\ pi' = pi /\ off' = off /\ k' = k /\ damaged' = damaged /\ fed' = fed
        /\ payload' = payload /\ error' = error
    BY DEF vars
  <1>2. TablesInv'
    <2>1. SizesRead' = SizesRead /\ DigestsRead' = DigestsRead
      BY <1>1 DEF SizesRead, DigestsRead
    <2>2. (\A f : Told(f)' = Told(f)) /\ Unlisted' = Unlisted
      BY <1>1, SameHeader
    <2>3. sizes' = [f \in 1..SizesRead' |-> Told(f)']
      BY <1>1, <2>1, <2>2 DEF FilesInv, TablesInv
    <2> QED
      BY <1>1, <2>1, <2>2, <2>3 DEF FilesInv, TablesInv
  <1>3. FedInv'
    <2>1. FoldersFed' = FoldersFed /\ Packs' = Packs
      BY <1>1, SameHeader DEF FoldersFed
    <2> QED
      BY <1>1, <2>1 DEF FilesInv, FedInv
  <1>4. PiecesInv'
    <2>1. streamed' = streamed /\ Szs' = Szs /\ None' = None
      BY <1>1, SameHeader DEF Szs, folder, None
    <2> QED
      BY <1>1, <2>1 DEF FilesInv, PiecesInv
  <1>5. SettledInv'
    <2> SUFFICES ASSUME Consistent' PROVE SettledInv'
      BY DEF SettledInv
    <2>1. Consistent /\ Counts' = Counts /\ folder' = folder /\ Start(fi, k)' = Start(fi, k)
      BY <1>1, SameHeader DEF folder, Start
    <2>2. FedGrows /\ Len(fed) \in Nat /\ Len(fed') \in Nat
      BY <1>1, FedNow DEF FedGrows
    <2>3. \A e \in 1..ei : Settled(e)
      BY <2>1 DEF FilesInv, SettledInv
    <2>4. \A e \in 1..ei' : Settled(e)'
      BY <1>1, <2>2, <2>3, SettledStays
    <2> QED
      BY <1>1, <2>1, <2>4 DEF FilesInv, SettledInv
  <1> QED
    BY <1>1, <1>2, <1>3, <1>4, <1>5 DEF FilesInv

LEMMA FilesStep == FilesInv /\ [Next]_vars => FilesInv'
  <1> SUFFICES ASSUME FilesInv, [Next]_vars PROVE FilesInv'
    OBVIOUS
  <1>1. CASE ReadSizes
    BY <1>1, SizesStep
  <1>2. CASE ReadDigests
    BY <1>2, DigestsStep
  <1>3. CASE NoDigests
    BY <1>3, NoDigestsStep
  <1>4. CASE MissingPack \/ UncaughtError
    BY <1>4, CrashedStep
  <1>5. CASE FolderFails
    BY <1>5, FolderFailsStep
  <1>6. ASSUME NEW d \in BOOLEAN, FolderDecoded(d) PROVE FilesInv'
    BY <1>6, FolderDecodedStep
  <1>7. CASE Attach
    BY <1>7, AttachStep
  <1>8. CASE EndFolder
    BY <1>8, EndFolderStep
  <1>9. CASE NoFolders
    BY <1>9, NoFoldersStep
  <1>10. CASE UNCHANGED vars
    BY <1>10, FilesStutter
  <1> QED
    BY <1>1, <1>2, <1>3, <1>4, <1>5, <1>6, <1>7, <1>8, <1>9, <1>10 DEF Next

LEMMA ReadIsNext ==
  ASSUME [ReadNext]_all
  PROVE  [Next]_vars
  <1>1. CASE UNCHANGED all
    BY <1>1 DEF all
  <1>2. CASE Malformed \/ EmptyArchive \/ Plain \/ Withheld \/ Encoded \/ HeaderDecoded
    BY <1>2 DEF Malformed, EmptyArchive, Plain, Withheld, Encoded, HeaderDecoded, Opening
  <1>3. CASE Decode
    BY <1>3 DEF Decode, Decoding
  <1>4. CASE Coding
    BY <1>4 DEF Coding, Begin, Input, CoderFails, Return, Check, Decoding
  <1>5. CASE Decoded \/ Failed \/ Crashed
    BY <1>5 DEF Decoded, Failed, Crashed, Next
  <1>6. CASE ReadHeader
    BY <1>6 DEF ReadHeader, Next
  <1> QED
    BY <1>1, <1>2, <1>3, <1>4, <1>5, <1>6 DEF ReadNext

(* The reader goes through the archive folder by folder: what it knows of    *)
(* the tables, the packed streams and the files goes together, whatever the  *)
(* header says and whichever folder cannot be decoded.                       *)
THEOREM FilesInvariance == ReadSpec => []FilesInv
  <1>1. Opened => FilesInv
    BY FilesStart DEF Opened
  <1>2. FilesInv /\ [ReadNext]_all => FilesInv'
    BY FilesStep, ReadIsNext
  <1> QED
    BY <1>1, <1>2, PTL DEF ReadSpec

LEMMA OwnBytesHold == FilesInv => OwnBytes
  <1> SUFFICES ASSUME FilesInv PROVE OwnBytes
    OBVIOUS
  <1>1. /\ payload \in [1..streamed -> Piece] /\ streamed \in Nat /\ ei \in 0..streamed
        /\ \A e \in (ei + 1)..streamed : payload[e] = None
        /\ \A d, e \in 1..streamed : d # e => Apart(payload[d], payload[e])
    BY HeaderFacts DEF FilesInv, PiecesInv
  <1>2. DOMAIN payload = 1..streamed
    BY <1>1
  <1>3. ASSUME Consistent, NEW e \in 1..streamed, payload[e] # None
        PROVE  [payload[e] EXCEPT !.damaged = FALSE] = Meant(Stream(e))
    <2>1. e \in 1..ei
      BY <1>1, <1>3
    <2>2. Settled(e)
      BY <1>3, <2>1 DEF FilesInv, SettledInv
    <2> QED
      BY <1>3, <2>2 DEF Settled
  <1> QED
    BY <1>1, <1>2, <1>3, FedNow DEF OwnBytes

LEMMA OnlyOwnFailureHolds == FilesInv => OnlyOwnFailure
  <1> SUFFICES ASSUME FilesInv, Consistent, pc = "done", NEW e \in DOMAIN payload
               PROVE  error[e] = Fails(e) /\ (payload[e] = None) = Fails(e)
    BY DEF OnlyOwnFailure
  <1>1. payload \in [1..streamed -> Piece] /\ streamed \in Nat
    BY HeaderFacts DEF FilesInv, PiecesInv
  <1>2. ei = Total(Counts, Len(h.folders))
    <2>1. Len(fed) = Len(h.folders)
      BY FedNow DEF FoldersFed
    <2> QED
      BY <2>1 DEF FilesInv, SettledInv
  <1>3. Total(Counts, Len(h.folders)) = streamed
    <2>1. Len(Counts) = Len(h.folders)
      BY HeaderFacts DEF FilesInv, CountFacts
    <2> QED
      BY <2>1 DEF Consistent, Sum
  <1>4. e \in 1..ei
    BY <1>1, <1>2, <1>3
  <1>5. Settled(e)
    BY <1>4 DEF FilesInv, SettledInv
  <1> QED
    BY <1>5 DEF Settled

(* No failing folder, no missing digest and no empty folder shifts what the  *)
(* files get: for every archive a packer writes, each file has the bytes of  *)
(* its own stream or none; and for every archive at all, each folder reads   *)
(* its own packed streams, and no byte goes to two files.                    *)
THEOREM BytesAreOwn == ReadSpec => []OwnBytes
  BY FilesInvariance, OwnBytesHold, PTL

(* When the reader of a packer's archive is done, a file is without bytes,   *)
(* and reported, exactly if its own folder failed or its own digest, where   *)
(* the reader took notice of one, does not match.                            *)
THEOREM FailuresAreOwn == ReadSpec => []OnlyOwnFailure
  BY FilesInvariance, OnlyOwnFailureHolds, PTL

===============================================================================
