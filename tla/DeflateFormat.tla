---------------------------- MODULE DeflateFormat ----------------------------
(***************************************************************************)
(* The DEFLATE format (RFC 1951) as the decoders of this repository know   *)
(* it, with its sizes as parameters: bits, canonical Huffman codes, the    *)
(* run lengths of a dynamic block's header, and matches.                   *)
(***************************************************************************)
EXTENDS Integers, Sequences, FiniteSets, SequencesExt, FiniteSetsExt

CONSTANTS
  ByteBits,             \* bits of a byte: 8
  MaxCode,              \* bits of the longest code: 15
  Literals,             \* literal symbols 0..Literals-1: 256; then end of block
  LenBase, LenExtra,    \* of the length symbols, which follow
  DistBase, DistExtra,  \* of the distance symbols
  FixedLit, FixedDist,  \* code lengths of a fixed block
  MaxOutput             \* max_output, capacity

EndOfBlock == Literals

\* 2^n, by the recursion that its laws are proved from.
Pow2[n \in Nat] == IF n = 0 THEN 1 ELSE 2 * Pow2[n - 1]

\* Bits are packed starting with the least significant one.
Num(bs) ==
  LET v[k \in 0..Len(bs)] == IF k = 0 THEN 0 ELSE v[k - 1] + bs[k] * Pow2[k - 1]
  IN  v[Len(bs)]

Whole(data) == Len(data) \div ByteBits

-----------------------------------------------------------------------------
(* Huffman codes.  lens gives every symbol the length of its code.         *)

IsLengths(lens) ==
  /\ DOMAIN lens \subseteq Nat /\ IsFiniteSet(DOMAIN lens)
  /\ \A s \in DOMAIN lens : lens[s] \in 0..MaxCode

Coded(lens) == {s \in DOMAIN lens : lens[s] > 0}

\* What a code takes of the codes there are.
Share(lens, S) == MapThenSumSet(LAMBDA s : Pow2[MaxCode - lens[s]], S)

Oversubscribed(lens) == Share(lens, Coded(lens)) > Pow2[MaxCode]

\* Codes are handed out in the order of their lengths, then of their symbols.
Before(lens, s) ==
  {t \in Coded(lens) : lens[t] < lens[s] \/ (lens[t] = lens[s] /\ t < s)}

\* A code's bits, the most significant first.
Code(lens, s) ==
  LET v == Share(lens, Before(lens, s)) \div Pow2[MaxCode - lens[s]]
  IN  [k \in 1..lens[s] |-> (v \div Pow2[lens[s] - k]) % 2]

Codes(lens) == [s \in Coded(lens) |-> Code(lens, s)]

FixedCodes == <<Codes(FixedLit), Codes(FixedDist)>>

\* The symbols whose code starts at bit p: one, or none.
SymbolsAt(data, p, codes) ==
  {s \in DOMAIN codes : /\ p + Len(codes[s]) <= Len(data)
                        /\ \A k \in DOMAIN codes[s] : data[p + k] = codes[s][k]}

-----------------------------------------------------------------------------
(* A dynamic block's header: how many literal and distance lengths follow, *)
(* and the runs that give them.                                            *)

Headers == [lit : Nat, dist : Nat, runs : Seq({"len", "copy", "zero"} \X Nat)]

\* What a run adds to the lengths got so far.
Run(got, c) ==
  IF c[1] = "len" THEN <<c[2]>>
  ELSE [k \in 1..c[2] |-> IF c[1] = "copy" THEN Last(got) ELSE 0]

Expand(runs) ==
  LET all[k \in 0..Len(runs)] ==
        IF k = 0 THEN <<>> ELSE LET got == all[k - 1] IN got \o Run(got, runs[k])
  IN  all[Len(runs)]

\* The literal lengths come first; runs may cross into the distance lengths.
Split(all, h) == << [s \in 0..h.lit - 1 |-> all[s + 1]],
                    [s \in 0..h.dist - 1 |-> all[h.lit + s + 1]] >>

\* A match repeats what is distance back, itself included.
Repeat(out, distance, length) ==
  out \o [k \in 1..length |-> out[Len(out) - distance + 1 + ((k - 1) % distance)]]
=============================================================================
