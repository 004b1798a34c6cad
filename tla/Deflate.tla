------------------------------- MODULE Deflate -------------------------------
(***************************************************************************)
(* The repository's three DEFLATE decoders:                                *)
(*   native  deflate.c: a word of bits at a time, look-up tables;          *)
(*   ir      deflate_ir.py: a plan of copies, then nr_execute carries it   *)
(*           out in C;                                                     *)
(*   trace   geex_unpack.py: bytes and code bits one at a time.            *)
(* The bits of a dynamic block's header are not in the stream: the header  *)
(* is read whole, with its block's first three bits.                       *)
(***************************************************************************)
EXTENDS DeflateFormat

CONSTANTS
  Word,            \* bits of the native reader's buffer: 64
  Chunk,           \* bytes of an SSE2 register: 16
  NativeLiterals,  \* literal lengths the native decoder takes: 286
  AllLiterals,     \* literal lengths five bits can announce: 288
  Inputs           \* streams, with the header of their dynamic blocks

ASSUME SizesAssumption ==
  /\ {ByteBits, MaxCode, Word, Chunk} \subseteq Nat \ {0}
  /\ Word >= MaxCode + ByteBits - 1 /\ Word >= ByteBits + 2
  /\ MaxOutput \in Nat /\ NativeLiterals \in Nat /\ AllLiterals \in Nat
  /\ Literals \in 0..Pow2[ByteBits]

\* One refill brings the extra bits of a length or a distance.
ASSUME MatchAssumption ==
  /\ {LenBase, DistBase} \subseteq Seq(Nat \ {0})
  /\ {LenExtra, DistExtra} \subseteq Seq(0..Word - ByteBits + 1)
  /\ Len(LenExtra) = Len(LenBase) /\ Len(DistExtra) = Len(DistBase)

ASSUME FixedAssumption ==
  \A lens \in {FixedLit, FixedDist} : IsLengths(lens) /\ ~Oversubscribed(lens)

\* Streams of whole bytes; lengths below 16, counts from 3 on.
ASSUME InputsAssumption ==
  \A in \in Inputs :
    /\ in[1] \in Seq({0, 1}) /\ Len(in[1]) % ByteBits = 0
    /\ in[2] \in Headers
    /\ in[2].lit \in EndOfBlock + 1..AllLiterals /\ in[2].dist > 0
    /\ \A k \in DOMAIN in[2].runs : LET c == in[2].runs[k]
         IN  IF c[1] = "len" THEN c[2] <= MaxCode ELSE c[2] > 0

VARIABLES
  impl, mode,   \* the decoder, and its way of copying matches
  data, header, \* the stream, and the header its dynamic blocks have
  r,            \* the reader: bytes taken, and bits taken but not yet used
  last, trees,  \* last block seen; the block's codes, as they lie in the stream
  plan,         \* ir: literals, commands, size, anchor
  out,          \* bytes of the output buffer
  ran,          \* ir: commands carried out
  state         \* "block", "symbols", "planned", "done", "rejected", "failed"

vars == <<impl, mode, data, header, r, last, trees, plan, out, ran, state>>
call == <<impl, mode, data, header>>

Empty == [i |-> 0, buf |-> <<>>]
NoPlan == [literals |-> <<>>, commands |-> <<>>, size |-> 0, anchor |-> 0]

-----------------------------------------------------------------------------
(* Bit readers.                                                            *)

Bytes(i, k) == SubSeq(data, i * ByteBits + 1, (i + k) * ByteBits)

\* Bytes taken to have k bits: up to a full word, or no more than it needs.
Taken(x, k) ==
  IF Len(x.buf) >= k THEN 0
  ELSE Min({Whole(data) - x.i,
            IF impl = "native" THEN (Word - Len(x.buf)) \div ByteBits
            ELSE (k - Len(x.buf) + ByteBits - 1) \div ByteBits})

refill(x, k) == [i |-> x.i + Taken(x, k), buf |-> x.buf \o Bytes(x.i, Taken(x, k))]

\* Fault: bits looked at stay in the buffer.
DropNothing(x, k) == x

Drop(x, k) == [x EXCEPT !.buf = SubSeq(@, k + 1, Len(@))]

\* The value of the next k bits with the reader after them; nothing at the end.
bits(x, k) ==
  LET y == refill(x, k)
  IN  IF Len(y.buf) < k THEN {} ELSE {<<Num(SubSeq(y.buf, 1, k)), Drop(y, k)>>}

\* Fault: bytes taken ahead of the boundary are lost.
alignForgets(x) == [i |-> x.i, buf |-> <<>>]

\* Fault: bytes are given back and stay in the buffer.
alignKeeps(x) ==
  [x EXCEPT !.i = @ - (IF impl = "native" THEN Len(x.buf) \div ByteBits ELSE 0)]

\* Native: whole bytes still unused are given back.  Python: all bits are dropped.
align(x) ==
  [i   |-> x.i - (IF impl = "native" THEN Len(x.buf) \div ByteBits ELSE 0),
   buf |-> <<>>]

-----------------------------------------------------------------------------
(* Huffman tables.                                                         *)

bl(lens, L) == Cardinality({s \in DOMAIN lens : L > 0 /\ lens[s] = L})

next_code(lens) ==
  LET f[L \in 0..MaxCode] == IF L = 0 THEN 0 ELSE (f[L - 1] + bl(lens, L - 1)) * 2
  IN  f

\* The symbols' codes as they lie in the stream, highest bit first.
Wires(lens) ==
  LET first   == next_code(lens)
      code(s) == first[lens[s]] + Cardinality({t \in DOMAIN lens : t < s /\ lens[t] = lens[s]})
  IN  [s \in Coded(lens) |-> [k \in 1..lens[s] |-> (code(s) \div Pow2[lens[s] - k]) % 2]]

FixedTables == <<Wires(FixedLit), Wires(FixedDist)>>

\* Native: room in the table, and no entry with codes of two lengths.
Clash(lens) ==
  LET w == Wires(lens)
  IN  \E s, t \in Coded(lens) : lens[s] < lens[t] /\ IsPrefix(w[s], w[t])

huff_build(lens) ==
  /\ MapThenSumSet(LAMBDA L : bl(lens, L) * Pow2[MaxCode - L], 1..MaxCode) <= Pow2[MaxCode]
  /\ ~Clash(lens)

\* Python: at no length more codes than there are.
codes_lsb(lens) == \A L \in 1..MaxCode : next_code(lens)[L] + bl(lens, L) <= Pow2[L]

\* The table entry for a full set of bits, zeros past the end of the stream.
huff_sym(x, tree) ==
  LET y     == refill(x, MaxCode)
      peek  == [k \in 1..MaxCode |-> IF k <= Len(y.buf) THEN y.buf[k] ELSE 0]
      entry == {s \in DOMAIN tree : IsPrefix(tree[s], peek)}
  IN  IF entry = {} \/ Len(tree[Max(entry)]) > Len(y.buf) THEN {}
      ELSE {<<Max(entry), Drop(y, Len(tree[Max(entry)]))>>}

\* Bit by bit until the bits so far are a code.
read_sym(x, tree) ==
  LET hits == {s \in DOMAIN tree : IsPrefix(tree[s], refill(x, Len(tree[s])).buf)}
      s == CHOOSE s \in hits : \A t \in hits : \/ Len(tree[s]) < Len(tree[t])
                                               \/ Len(tree[s]) = Len(tree[t]) /\ s >= t
  IN  IF hits = {} THEN {}
      ELSE {<<s, Drop(refill(x, Len(tree[s])), Len(tree[s]))>>}

Symbol(x, tree) == IF impl = "native" THEN huff_sym(x, tree) ELSE read_sym(x, tree)

-----------------------------------------------------------------------------
(* Dynamic headers.  The runs stop where enough lengths have been read; a  *)
(* header with too few is a stream that ends there.                        *)

Started(h) == h.runs # <<>> /\ h.runs[1][1] # "copy"

\* A run past the last length is refused as it is met.
read_dyn_lengths(h) ==
  /\ h.lit <= NativeLiterals
  /\ Started(h)
  /\ \A k \in 1..Len(h.runs) : Len(Expand(SubSeq(h.runs, 1, k))) <= h.lit + h.dist
  /\ Len(Expand(h.runs)) >= h.lit + h.dist

\* The lengths are counted, and the end of block looked for, when all are read.
inflate_dynamic(h) ==
  /\ Started(h)
  /\ Len(Expand(h.runs)) = h.lit + h.dist
  /\ Expand(h.runs)[EndOfBlock + 1] > 0

DynamicTrees ==
  IF ~(IF impl = "native" THEN read_dyn_lengths(header) ELSE inflate_dynamic(header)) THEN {}
  ELSE LET lens == Split(Expand(header.runs), header)
       IN  IF \A k \in 1..2 : IF impl = "native" THEN huff_build(lens[k]) ELSE codes_lsb(lens[k])
           THEN {<<Wires(lens[1]), Wires(lens[2])>>} ELSE {}

-----------------------------------------------------------------------------
(* Copying a match.                                                        *)

\* Copies of what is distance back, doubling what is there each time.
Grow(o, from, end) ==
  LET acc[k \in 0..(end - Len(o))] ==
        IF k = 0 THEN o
        ELSE LET a == acc[k - 1]
             IN  a \o SubSeq(a, from, Min({Len(a), from + end - Len(a) - 1}))
  IN  acc[end - Len(o)]

\* Copies n registers, each of what is distance back.
Wide(o, dist, n) ==
  LET acc[k \in 0..n] ==
        IF k = 0 THEN o
        ELSE LET a == acc[k - 1] IN a \o SubSeq(a, Len(a) - dist + 1, Len(a) - dist + Chunk)
  IN  acc[n]

\* Copies n bytes, each of what is distance back.
Bytewise(o, dist, n) ==
  LET acc[k \in 0..n] ==
        IF k = 0 THEN o ELSE LET a == acc[k - 1] IN Append(a, a[Len(a) - dist + 1])
  IN  acc[n]

\* Scalar is mode 0, and mode 3, whose rep movsb also goes byte by byte.
nr_expand(o, dist, len) ==
  LET end    == Len(o) + len
      chunks == IF mode = "sse2" /\ dist >= Chunk THEN len \div Chunk ELSE 0
      wide   == Wide(o, dist, chunks)
  IN  IF mode = "scalar" THEN Bytewise(o, dist, len) ELSE Grow(wide, Len(wide) - dist + 1, end)

\* The last distance bytes, as often as they fit, and their beginning.
periodic(o, dist, len) ==
  LET seed == SubSeq(o, Len(o) - dist + 1, Len(o))
      acc[k \in 0..(len \div dist)] == IF k = 0 THEN o ELSE acc[k - 1] \o seed
  IN  acc[len \div dist] \o SubSeq(seed, 1, len % dist)

Copy(o, dist, len) == IF mode = "periodic" THEN periodic(o, dist, len) ELSE nr_expand(o, dist, len)

-----------------------------------------------------------------------------
(* Decoding: a block header or a symbol at a time.                         *)

Made    == IF impl = "ir" THEN plan.size ELSE Len(out)

Room(k) == k <= MaxOutput - Made

\* Bytes that are copied from the stream: to the output, or to the plan.
Emit(bytes) ==
  IF impl = "ir"
  THEN /\ plan' = [plan EXCEPT !.literals = @ \o bytes, !.size = @ + Len(bytes)]
       /\ UNCHANGED out
  ELSE out' = out \o bytes /\ UNCHANGED plan

Init ==
  /\ impl \in {"native", "ir", "trace"}
  /\ mode \in IF impl = "trace" THEN {"scalar", "periodic"} ELSE {"scalar", "grow", "sse2"}
  /\ \E in \in Inputs : data = in[1] /\ header = in[2]
  /\ r = Empty /\ last = FALSE
  /\ trees = FixedTables
  /\ plan = NoPlan /\ out = <<>> /\ ran = 0
  /\ state = "block"

\* The two fields a block starts with: <<last, kind, reader>>.
BlockHeads ==
  IF state # "block" \/ last THEN {}
  ELSE UNION {{<<l[1] = 1, k[1], k[2]>> : k \in bits(l[2], 2)} : l \in bits(r, 1)}

\* Length and complement, one byte each here, and the bytes.
StoredBlocks ==
  {b \in {<<h[1], align(h[3])>> : h \in {h \in BlockHeads : h[2] = 0}} :
     LET i == b[2].i
     IN  /\ i + 2 <= Whole(data)
         /\ Num(Bytes(i, 1)) + Num(Bytes(i + 1, 1)) = Pow2[ByteBits] - 1
         /\ i + 2 + Num(Bytes(i, 1)) <= Whole(data)
         /\ Room(Num(Bytes(i, 1)))}

Stored ==
  /\ \E b \in StoredBlocks :
       LET i == b[2].i
           n == Num(Bytes(i, 1))
       IN  /\ last' = b[1]
           /\ Emit([k \in 1..n |-> Num(Bytes(i + 1 + k, 1))])
           /\ r' = [b[2] EXCEPT !.i = i + 2 + n]
  /\ UNCHANGED <<call, trees, ran, state>>

\* Blocks with trees: <<last, reader, trees>>.
CompressedBlocks ==
  UNION {{<<h[1], h[3], t>> : t \in CASE h[2] = 1 -> {FixedTables}
                                      [] h[2] = 2 -> DynamicTrees
                                      [] OTHER    -> {}} : h \in BlockHeads}

Compressed ==
  /\ \E b \in CompressedBlocks : last' = b[1] /\ r' = b[2] /\ trees' = b[3]
  /\ state' = "symbols"
  /\ UNCHANGED <<call, plan, out, ran>>

Symbols == IF state = "symbols" THEN Symbol(r, trees[1]) ELSE {}

LiteralBytes == {s \in Symbols : s[1] < Literals /\ Room(1)}

Literal ==
  /\ \E s \in LiteralBytes : Emit(<<s[1]>>) /\ r' = s[2]
  /\ UNCHANGED <<call, last, trees, ran, state>>

\* Length and its extra bits, distance and its extra bits: <<length, distance, reader>>.
Matches ==
  LET lengths == UNION {{<<LenBase[s[1] - EndOfBlock] + e[1], e[2]>> :
                          e \in bits(s[2], LenExtra[s[1] - EndOfBlock])} :
                            s \in {s \in Symbols : s[1] - EndOfBlock \in 1..Len(LenBase)}}
      starts  == UNION {{<<l[1], d[1], d[2]>> :
                          d \in {d \in Symbol(l[2], trees[2]) : d[1] < Len(DistBase)}} : l \in lengths}
      all     == UNION {{<<m[1], DistBase[m[2] + 1] + e[1], e[2]>> :
                          e \in bits(m[3], DistExtra[m[2] + 1])} : m \in starts}
  IN  {m \in all : m[2] <= Made /\ Room(m[1])}

\* Fault: the command starts at the first literal again.
PlannedFromStart(dist, len) ==
  [offset |-> 0, literals |-> Len(plan.literals), distance |-> dist, length |-> len]

\* A command: the literals since the last one, then a match.
Planned(dist, len) ==
  [offset   |-> plan.anchor, literals |-> Len(plan.literals) - plan.anchor,
   distance |-> dist, length |-> len]

Match ==
  /\ \E m \in Matches :
       /\ r' = m[3]
       /\ IF impl = "ir"
          THEN /\ plan' = [plan EXCEPT
                    !.commands = Append(@, Planned(m[2], m[1])),
                    !.anchor = Len(plan.literals), !.size = @ + m[1]]
               /\ UNCHANGED out
          ELSE out' = Copy(out, m[2], m[1]) /\ UNCHANGED plan
  /\ UNCHANGED <<call, last, trees, ran, state>>

End ==
  /\ \E s \in Symbols : s[1] = EndOfBlock /\ r' = s[2]
  /\ state' = "block"
  /\ UNCHANGED <<call, last, trees, plan, out, ran>>

\* After the last block only tokenize looks whether the stream goes on.
Ends == state = "block" /\ last /\ (impl = "ir" => r.i = Whole(data))

Return ==
  /\ Ends
  /\ IF impl = "ir"
     THEN /\ plan' = [plan EXCEPT !.commands = Append(@, Planned(0, 0))]
          /\ state' = "planned"
     ELSE state' = "done" /\ UNCHANGED plan
  /\ UNCHANGED <<call, r, last, trees, out, ran>>

\* Anything else is an error.
Reject ==
  /\ state \in {"block", "symbols"}
  /\ StoredBlocks = {} /\ CompressedBlocks = {} /\ ~Ends
  /\ LiteralBytes = {} /\ Matches = {} /\ \A s \in Symbols : s[1] # EndOfBlock
  /\ state' = "rejected"
  /\ UNCHANGED <<call, r, last, trees, plan, out, ran>>

-----------------------------------------------------------------------------
(* nr_execute: one command at a time into a buffer of the announced size.  *)

Command == plan.commands[ran + 1]

Sound(c) ==
  /\ c.offset <= Len(plan.literals) /\ c.literals <= Len(plan.literals) - c.offset
  /\ c.literals <= plan.size - Len(out)
  /\ c.length > 0 =>
       /\ c.distance > 0 /\ c.distance <= Len(out) + c.literals
       /\ c.length <= plan.size - (Len(out) + c.literals)

Execute ==
  /\ state = "planned" /\ ran < Len(plan.commands) /\ Sound(Command)
  /\ LET o == out \o SubSeq(plan.literals, Command.offset + 1, Command.offset + Command.literals)
     IN  out' = IF Command.length > 0 THEN nr_expand(o, Command.distance, Command.length) ELSE o
  /\ ran' = ran + 1
  /\ UNCHANGED <<call, r, last, trees, plan, state>>

Executed ==
  /\ state = "planned"
  /\ ran < Len(plan.commands) => ~Sound(Command)
  /\ state' = IF ran = Len(plan.commands) /\ Len(out) = plan.size THEN "done" ELSE "failed"
  /\ UNCHANGED <<call, r, last, trees, plan, out, ran>>

-----------------------------------------------------------------------------

\* A call that has returned.
Returned == state \in {"done", "rejected", "failed"} /\ UNCHANGED vars

Next == \/ Stored \/ Compressed \/ Literal \/ Match \/ End \/ Return \/ Reject
        \/ Execute \/ Executed \/ Returned

Spec == Init /\ [][Next]_vars

-----------------------------------------------------------------------------
(* Properties.                                                             *)

\* The place in the stream, in bits.
Place == ByteBits * r.i - Len(r.buf)

\* Every variable has its type, no decoder's output passes its limit, and no
\* reader passes the end of the stream.  Bits it has taken but not used are
\* the ones just before its place, whatever was refilled, looked ahead at,
\* dropped and given back on the way (br.buf and br.bits against br.i).
TypeOK ==
  /\ impl \in {"native", "ir", "trace"} /\ mode \in {"scalar", "grow", "sse2", "periodic"}
  /\ r.i \in 0..Whole(data) /\ Len(r.buf) <= Word
  /\ r.buf = SubSeq(data, Place + 1, ByteBits * r.i)
  /\ last \in BOOLEAN
  /\ plan.anchor \in 0..Len(plan.literals) /\ plan.size \in 0..MaxOutput
  /\ Len(out) \in 0..MaxOutput /\ \A k \in DOMAIN out : out[k] \in 0..Pow2[ByteBits] - 1
  /\ ran \in 0..Len(plan.commands)
  /\ state \in {"block", "symbols", "planned", "done", "rejected", "failed"}

\* What the first n commands come to.
Played(n) ==
  LET o[k \in 0..n] ==
        IF k = 0 THEN <<>>
        ELSE LET c == plan.commands[k]
                 q == o[k - 1] \o SubSeq(plan.literals, c.offset + 1, c.offset + c.literals)
             IN  IF c.length = 0 THEN q ELSE Repeat(q, c.distance, c.length)
  IN  o[n]

\* What a plan comes to: its commands, then literals not yet in a command.
Outcome ==
  Played(Len(plan.commands)) \o
    IF state \in {"block", "symbols", "rejected"}
    THEN SubSeq(plan.literals, plan.anchor + 1, Len(plan.literals)) ELSE <<>>

\* nr_execute never refuses a plan tokenize returned, fills exactly the buffer
\* execute gave it, and leaves there what the plan stands for.
PlanCarriedOut ==
  /\ state # "failed"
  /\ (impl = "ir" /\ state = "done") => out = Outcome /\ Len(out) = plan.size

\* Each decoder, with its own reader, tables and way of copying, implements
\* the same bit-by-bit decoder: it takes the same symbols from the same bits,
\* has the same output and refuses the same streams.
Abstract == INSTANCE Inflate WITH
  rules <- [trailing |-> impl # "ir",
            literals |-> IF impl = "native" THEN NativeLiterals ELSE AllLiterals,
            end      |-> impl # "native"],
  pos   <- Place,
  out   <- IF impl = "ir" THEN Outcome ELSE out,
  state <- IF state \in {"planned", "failed"} THEN "done" ELSE state

ImplementsInflate == Abstract!Spec

\* Every call returns: a step of decoding takes bits the stream has not given
\* before, or is the last one; carrying out a plan takes a command a step.
\* (Tables whose codes have no bits, or bytes given back twice, would loop.)
Further ==
  [][\/ state \in {"block", "symbols"} /\ state' \in {"block", "symbols"} /\ Place' > Place
     \/ state \in {"block", "symbols"} /\ state' \in {"planned", "done", "rejected"}
     \/ state = "planned" /\ (ran' = ran + 1 \/ state' \in {"done", "failed"})]_vars

-----------------------------------------------------------------------------
(* The inductive invariant of DeflateProofs.                               *)

CallOk ==
  /\ impl \in {"native", "ir", "trace"}
  /\ mode \in IF impl = "trace" THEN {"scalar", "periodic"} ELSE {"scalar", "grow", "sse2"}
  /\ \E in \in Inputs : data = in[1] /\ header = in[2]

\* Bits in the buffer are those of the stream before the next byte.
ReaderOk(x) ==
  /\ x = [i |-> x.i, buf |-> x.buf]
  /\ x.i \in 0..Whole(data) /\ x.buf \in Seq({0, 1})
  /\ Len(x.buf) <= Word /\ Len(x.buf) <= ByteBits * x.i
  /\ x.buf = SubSeq(data, ByteBits * x.i - Len(x.buf) + 1, ByteBits * x.i)
  /\ impl # "native" => Len(x.buf) < ByteBits

\* No code is the beginning of another, nor empty.
TreeOk(tree) ==
  /\ DOMAIN tree \subseteq Nat
  /\ \A s \in DOMAIN tree : tree[s] \in Seq({0, 1}) /\ Len(tree[s]) \in 1..MaxCode
  /\ \A s, t \in DOMAIN tree : IsPrefix(tree[s], tree[t]) => s = t

\* Each command can be carried out after those before it.
CommandOk(k) ==
  LET c == plan.commands[k]
  IN  /\ c.offset + c.literals <= Len(plan.literals)
      /\ c.length > 0 => c.distance \in 1..(Len(Played(k - 1)) + c.literals)

Cmd     == [offset : Nat, literals : Nat, distance : Nat, length : Nat]
ByteVal == 0..Pow2[ByteBits] - 1
Parsing == state \in {"block", "symbols", "rejected"}

PlanOk ==
  /\ plan = [literals |-> plan.literals, commands |-> plan.commands, size |-> plan.size,
             anchor |-> plan.anchor]
  /\ plan.literals \in Seq(ByteVal) /\ plan.anchor \in 0..Len(plan.literals)
  /\ plan.commands \in Seq(Cmd)
  /\ \A k \in 1..Len(plan.commands) : CommandOk(k)
  /\ plan.size = Len(Outcome)

\* What is in the buffer is what the commands carried out come to.
OutOk ==
  /\ out \in Seq(ByteVal) /\ ran \in 0..Len(plan.commands)
  /\ IF impl = "ir"
     THEN out = Played(ran) /\ (Parsing => ran = 0) /\ (state = "done" => ran = Len(plan.commands))
     ELSE plan = NoPlan /\ state # "planned"
  /\ Made <= MaxOutput

DeflateInv ==
  /\ CallOk /\ ReaderOk(r) /\ PlanOk /\ OutOk
  /\ last \in BOOLEAN /\ state \in {"block", "symbols", "planned", "done", "rejected"}
  /\ trees = <<trees[1], trees[2]>> /\ TreeOk(trees[1]) /\ TreeOk(trees[2])
=============================================================================
