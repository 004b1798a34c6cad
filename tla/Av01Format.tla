------------------------------ MODULE Av01Format ------------------------------
(***************************************************************************)
(* The AV01 bitstream of avccnmp_codec.py: the encoder, and what encoder   *)
(* and decoder share.  A block is padded to a cube, each voxel is          *)
(* predicted from three maps of modes, the residual is read along a curve  *)
(* and phrase-coded.  A byte is a member of 0..Byte-1 with Byte a power of *)
(* two of at least 32 (256 in the code, so that four flags leave unknown   *)
(* ones): its upper half marks phrases, its last value a run and the one   *)
(* before an escape, and a variable-length integer is in base High.        *)
(* RECURSIVE operators: this module is for TLC only.                       *)
(***************************************************************************)
EXTENDS Integers, Sequences, FiniteSets, Bitwise

CONSTANTS Byte,        \* number of byte values (256)
          PhraseCap    \* phrases kept per block (48)

High == Byte \div 2
Rle == Byte - 1
Esc == Byte - 2
RunCap == Byte + 2     \* the length byte of a run holds its length less 3

RECURSIVE uvarint(_)
uvarint(n) == IF n < High THEN <<n>> ELSE <<(n % High) + High>> \o uvarint(n \div High)

(***************************************************************************)
(* Cubes.  A volume of side s is the sequence of its cells, x fastest.     *)
(***************************************************************************)
Cell(x, y, z, s) == 1 + x + s * y + s * s * z

cube_side_for(n) == CHOOSE s \in 1..(n + 1) : s^3 >= n /\ \A r \in 1..(s - 1) : r^3 < n

anvoxelize(block, s) == block \o [i \in 1..(s^3 - Len(block)) |-> 0]

linearize(vol, nbytes) == SubSeq(vol, 1, nbytes)

\* The most common value, the one met first among equals.
mode(vals) ==
  LET Count(v) == Cardinality({i \in DOMAIN vals : vals[i] = v})
      first == CHOOSE i \in DOMAIN vals : \A j \in DOMAIN vals :
                 \/ Count(vals[i]) > Count(vals[j])
                 \/ Count(vals[i]) = Count(vals[j]) /\ i <= j
  IN vals[first]

\* The maps of modes along x, y and z, each in the order it is packed:
\* [y][z], [x][z] and [x][y].
projection_modes(vol, s) ==
  LET Map(At(_, _, _)) == [k \in 1..(s * s) |->
          mode([t \in 1..s |-> vol[At((k - 1) \div s, (k - 1) % s, t - 1)]])]
  IN << Map(LAMBDA y, z, x : Cell(x, y, z, s)),
        Map(LAMBDA x, z, y : Cell(x, y, z, s)),
        Map(LAMBDA x, y, z : Cell(x, y, z, s)) >>

\* Two maps that agree win over the third, else the first one does.
predict_vol(maps, s) == [i \in 1..s^3 |->
  LET x == (i - 1) % s
      y == ((i - 1) \div s) % s
      z == (i - 1) \div (s * s)
      b == maps[2][1 + x * s + z]
      c == maps[3][1 + x * s + y]
  IN IF b = c THEN b ELSE maps[1][1 + y * s + z]]

xor_vol(v, w) == [i \in DOMAIN v |-> v[i] ^^ w[i]]

(***************************************************************************)
(* Orders in which the cells of a cube are read.                           *)
(***************************************************************************)
RECURSIVE PowerOfTwo(_, _)
PowerOfTwo(s, p) == IF p >= s THEN p ELSE PowerOfTwo(s, 2 * p)

RECURSIVE compact1by2(_)
compact1by2(m) == IF m = 0 THEN 0 ELSE (m % 2) + 2 * compact1by2(m \div 8)

cubic_twist(t, mod, a, b) == (t^3 + a * t + b) % mod

\* The cells the twisted walk comes by, 0 where it is outside the cube.
twisted_walk(s, a, b) ==
  LET mod == PowerOfTwo(s, 2)^3
  IN [t \in 1..mod |->
        LET m == cubic_twist(t - 1, mod, a, b)
            x == compact1by2(m)
            y == compact1by2(m \div 2)
            z == compact1by2(m \div 4)
        IN IF x < s /\ y < s /\ z < s THEN Cell(x, y, z, s) ELSE 0] \o <<>>

\* Faulty variant: the twist is taken for a permutation.
curve_order_trusting(s, a, b) == SelectSeq(twisted_walk(s, a, b), LAMBDA c : c # 0)

\* The cells met by the twisted walk at their first visit, then the missed
\* ones: the twist need not be a permutation.
build_curve_order(s, a, b) ==
  LET walk == twisted_walk(s, a, b)
      times == SelectSeq([t \in DOMAIN walk |-> t],
                 LAMBDA t : walk[t] # 0 /\ \A r \in 1..(t - 1) : walk[r] # walk[t])
      missed == SelectSeq([c \in 1..s^3 |-> c],
                 LAMBDA c : \A t \in DOMAIN walk : walk[t] # c)
  IN [k \in DOMAIN times |-> walk[times[k]]] \o missed

\* One step of the loop of hilbert_xy: the quadrant of scale r is entered.
RECURSIVE hilbert_xy(_, _, _, _, _)
hilbert_xy(p2, r, t, x, y) ==
  IF r >= p2 THEN <<x, y>>
  ELSE LET rx == (t \div 2) % 2
           ry == (t + rx) % 2
           u == IF ry = 0 /\ rx = 1 THEN r - 1 - x ELSE x
           v == IF ry = 0 /\ rx = 1 THEN r - 1 - y ELSE y
           turned == IF ry = 0 THEN <<v, u>> ELSE <<u, v>>
       IN hilbert_xy(p2, 2 * r, t \div 4, turned[1] + r * rx, turned[2] + r * ry)

\* The same plane walk in every layer.
build_hilbert_2d_order(s) ==
  LET p2 == PowerOfTwo(s, 1)
      plane == SelectSeq([d \in 1..(p2 * p2) |-> hilbert_xy(p2, 1, d - 1, 0, 0)],
                         LAMBDA xy : xy[1] < s /\ xy[2] < s)
      n == Len(plane)
  IN [k \in 1..(s * n) |->
        LET xy == plane[1 + ((k - 1) % n)] IN Cell(xy[1], xy[2], (k - 1) \div n, s)]

\* What a block's flags choose.
Order(curve, hilbert, s, a, b) ==
  IF ~curve THEN [k \in 1..s^3 |-> k]
  ELSE IF hilbert THEN build_hilbert_2d_order(s) ELSE build_curve_order(s, a, b)

(***************************************************************************)
(* Phrases.                                                                *)
(***************************************************************************)
StartsAt(seq, i, g) == i + Len(g) - 1 <= Len(seq) /\ SubSeq(seq, i, i + Len(g) - 1) = g

\* The order of Python's bytes.
Above(g, h) ==
  \/ Len(h) < Len(g) /\ StartsAt(g, 1, h)
  \/ \E k \in 1..Len(g) : k <= Len(h) /\ g[k] > h[k] /\ \A j \in 1..(k - 1) : g[j] = h[j]

\* N-grams that save bytes, the best first.
discover_phrases(seq, opt) ==
  LET Count(g) == Cardinality({i \in 1..Len(seq) : StartsAt(seq, i, g)})
      Save(g) == Count(g) * (Len(g) - 1) - (Len(g) + 1)
      grams == UNION {{SubSeq(seq, i, i + n - 1) : i \in 1..(Len(seq) - n + 1)} :
                      n \in opt.min_n..opt.max_n}
      paying == {g \in grams : Count(g) >= opt.min_count /\ Save(g) > 0}
      RECURSIVE Best(_, _)
      Best(S, k) ==
        IF S = {} \/ k = 0 THEN <<>>
        ELSE LET g == CHOOSE g \in S : \A h \in S \ {g} :
                        Save(g) > Save(h) \/ (Save(g) = Save(h) /\ Above(g, h))
             IN <<g>> \o Best(S \ {g}, k - 1)
  IN Best(paying, PhraseCap)

\* From position i on: a run of three or more, else the longest phrase, else
\* a literal, escaped in the upper half.
RECURSIVE phrase_encode(_, _, _)
phrase_encode(seq, i, phrases) ==
  IF i > Len(seq) THEN <<>>
  ELSE LET same == {r \in 1..RunCap : i + r - 1 <= Len(seq)
                                      /\ \A j \in i..(i + r - 1) : seq[j] = seq[i]}
           run == CHOOSE r \in same : \A q \in same : q <= r
           hits == {p \in DOMAIN phrases : StartsAt(seq, i, phrases[p])}
           best == CHOOSE p \in hits : \A q \in hits :
                     \/ Len(phrases[p]) > Len(phrases[q])
                     \/ Len(phrases[p]) = Len(phrases[q]) /\ p <= q
       IN IF run >= 3
            THEN <<Rle, run - 3, seq[i]>> \o phrase_encode(seq, i + run, phrases)
          ELSE IF hits # {}
            THEN <<High + best - 1>> \o phrase_encode(seq, i + Len(phrases[best]), phrases)
          ELSE (IF seq[i] < High THEN <<seq[i]>> ELSE <<Esc, seq[i]>>)
               \o phrase_encode(seq, i + 1, phrases)

RECURSIVE pack_phrases(_)
pack_phrases(phrases) ==
  IF phrases = <<>> THEN <<>>
  ELSE uvarint(Len(Head(phrases))) \o Head(phrases) \o pack_phrases(Tail(phrases))

(***************************************************************************)
(* Blocks and the container.                                               *)
(***************************************************************************)
encode_block(block, opt) ==
  LET s == cube_side_for(Len(block))
      vol == anvoxelize(block, s)
      maps == projection_modes(vol, s)
      resid == IF opt.use_proj THEN xor_vol(vol, predict_vol(maps, s)) ELSE vol
      order == Order(opt.use_curve, opt.hilbert2d, s, opt.curve_a, opt.curve_b)
      seq == [k \in DOMAIN order |-> resid[order[k]]] \o <<>>
      phrases == discover_phrases(seq, opt)
      coded == phrase_encode(seq, 1, phrases)
      Flag(on, bit) == IF on THEN bit ELSE 0
      flags == Flag(opt.use_proj, 1) + Flag(opt.use_curve, 2) + Flag(opt.use_ngram, 4)
               + Flag(opt.use_curve /\ opt.hilbert2d, 8)
  IN <<flags>> \o uvarint(Len(block)) \o uvarint(s)
     \o <<opt.curve_a % Byte, opt.curve_b % Byte>>
     \o (IF opt.use_proj THEN maps[1] \o maps[2] \o maps[3] ELSE <<>>)
     \o (IF opt.use_ngram
           THEN uvarint(Len(phrases)) \o pack_phrases(phrases) \o uvarint(Len(coded)) \o coded
           ELSE uvarint(Len(seq)) \o seq)

AvMagic == 7           \* the four magic bytes as one
AvVersion == 1

\* opts[k] are the options of block k: compress gives all blocks the same ones,
\* compress_gated chooses them block by block.
compress_av01(data, block_size, opts) ==
  LET nblocks == (Len(data) + block_size - 1) \div block_size
      RECURSIVE Blocks(_)
      Blocks(k) ==
        IF k > nblocks THEN <<>>
        ELSE LET end == IF k = nblocks THEN Len(data) ELSE k * block_size
                 blob == encode_block(SubSeq(data, (k - 1) * block_size + 1, end), opts[k])
             IN uvarint(Len(blob)) \o blob \o Blocks(k + 1)
  IN <<AvMagic, AvVersion>> \o uvarint(Len(data)) \o uvarint(block_size)
     \o uvarint(nblocks) \o Blocks(1)
===============================================================================
