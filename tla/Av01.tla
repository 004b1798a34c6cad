--------------------------------- MODULE Av01 ---------------------------------
(***************************************************************************)
(* An AV01 stream from the encoder to the decoder.  A stream is written by *)
(* the encoder of Av01Format, may then be damaged once (one byte changed,  *)
(* the end cut off, a byte added), and is decoded by decompress, one       *)
(* action for each part of the stream and for each turn of phrase_decode.  *)
(* Nothing in the stream checks the bytes themselves, so a changed byte    *)
(* may decode to other data; what the decoder promises is stated below.    *)
(* Positions count from 1.                                                 *)
(***************************************************************************)
EXTENDS Av01Format

CONSTANTS AvCases,     \* the inputs: records [data, block_size, opts, harm]
          AvNoise,     \* byte values a damage may put in
          MaxSide,     \* largest cube side a header may name (128)
          MaxTotal,    \* largest declared output (64 MiB)
          VarintBytes  \* bytes of the longest variable-length integer (10)

VARIABLES avCase,      \* the input
          avBlob,      \* the stream
          avFate,      \* "whole", "changed", "cut" or "grown"
          avPc,        \* what decompress does next; "accepted" or "refused" at the end
          avAt,        \* next position in the stream
          avTotal,     \* declared length
          avLeft,      \* blocks still to read
          avBlock,     \* the block at hand
          avOut        \* bytes of the blocks decoded so far

avInput == <<avCase, avBlob, avFate>>
avVars == <<avCase, avBlob, avFate, avPc, avAt, avTotal, avLeft, avBlock, avOut>>

BadVarint == [ok |-> FALSE, n |-> 0, at |-> 0]

RECURSIVE VarintFrom(_, _, _, _)
VarintFrom(buf, i, n, k) ==
  IF i > Len(buf) \/ k = VarintBytes THEN BadVarint
  ELSE LET m == n + (buf[i] % High) * High^k
       IN IF buf[i] < High THEN [ok |-> TRUE, n |-> m, at |-> i + 1]
          ELSE VarintFrom(buf, i + 1, m, k + 1)

read_uvarint(buf, i) == VarintFrom(buf, i, 0, 0)

\* The integer after one just read; an error stays one.
Next1(buf, r) == IF r.ok THEN read_uvarint(buf, r.at) ELSE BadVarint

\* A slice of Python's: it stops at the end of the buffer.
Slice(buf, i, n) == SubSeq(buf, i, IF i + n - 1 <= Len(buf) THEN i + n - 1 ELSE Len(buf))

Bit(flags, k) == (flags \div 2^k) % 2 = 1

NoBlock == [buf |-> <<>>, at |-> 1, flags |-> 0, nbytes |-> 0, side |-> 1, a |-> 0, b |-> 0,
            pred |-> <<>>, phrases |-> <<>>, coded |-> <<>>, seq |-> <<>>]

\* unpack_phrases: [ok, at, list].
RECURSIVE Phrases(_, _, _, _)
Phrases(buf, i, n, list) ==
  IF n = 0 THEN [ok |-> TRUE, at |-> i, list |-> list]
  ELSE LET ln == read_uvarint(buf, i)
       IN IF ~ln.ok THEN [ok |-> FALSE, at |-> i, list |-> list]
          ELSE Phrases(buf, ln.at + ln.n, n - 1, Append(list, Slice(buf, ln.at, ln.n)))

AvInit ==
  /\ \E c \in AvCases :
       avCase = c /\ avBlob = compress_av01(c.data, c.block_size, c.opts)
  /\ avFate = "whole" /\ avPc = "stored"
  /\ avAt = 1 /\ avTotal = 0 /\ avLeft = 0 /\ avBlock = NoBlock /\ avOut = <<>>

\* The stream is damaged before it is read.
AvDamage ==
  /\ avPc = "stored" /\ avFate = "whole" /\ avCase.harm
  /\ \/ \E i \in DOMAIN avBlob, v \in AvNoise :
          /\ v # avBlob[i]
          /\ avBlob' = [avBlob EXCEPT ![i] = v] /\ avFate' = "changed"
     \/ \E n \in 0..(Len(avBlob) - 1) : avBlob' = SubSeq(avBlob, 1, n) /\ avFate' = "cut"
     \/ \E v \in AvNoise : avBlob' = Append(avBlob, v) /\ avFate' = "grown"
  /\ UNCHANGED <<avCase, avPc, avAt, avTotal, avLeft, avBlock, avOut>>

AvRefuse ==
  /\ avPc' = "refused"
  /\ UNCHANGED <<avInput, avAt, avTotal, avLeft, avBlock, avOut>>

AvOpen ==
  /\ avPc = "stored"
  /\ LET total == read_uvarint(avBlob, 3)
         size == Next1(avBlob, total)
         nblocks == Next1(avBlob, size)
         sound == /\ Len(avBlob) >= 2 /\ avBlob[1] = AvMagic /\ avBlob[2] = AvVersion
                  /\ nblocks.ok
                  /\ total.n <= MaxTotal /\ nblocks.n <= total.n
     IN \/ ~sound /\ AvRefuse
        \/ /\ sound
           /\ avPc' = "block" /\ avAt' = nblocks.at
           /\ avTotal' = total.n /\ avLeft' = nblocks.n
           /\ UNCHANGED <<avInput, avBlock, avOut>>

AvBlockBody ==
  /\ avPc = "block" /\ avLeft > 0
  /\ LET ln == read_uvarint(avBlob, avAt)
         sound == ln.ok /\ ln.n <= Len(avBlob) - (ln.at - 1)
     IN \/ ~sound /\ AvRefuse
        \/ /\ sound
           /\ avBlock' = [NoBlock EXCEPT !.buf = SubSeq(avBlob, ln.at, ln.at + ln.n - 1)]
           /\ avAt' = ln.at + ln.n /\ avLeft' = avLeft - 1 /\ avPc' = "head"
           /\ UNCHANGED <<avInput, avTotal, avOut>>

\* Flags, sizes, curve and maps of modes of a block.
AvBlockHead ==
  /\ avPc = "head"
  /\ LET buf == avBlock.buf
         flags == IF buf = <<>> THEN 16 ELSE buf[1]
         nbytes == read_uvarint(buf, 2)
         side == Next1(buf, nbytes)
         s == side.n
         maps == side.at + 2
         need == IF Bit(flags, 0) THEN s * s ELSE 0
         sound == /\ flags < 16 /\ side.ok
                  /\ s \in 1..MaxSide /\ nbytes.n <= s^3 /\ side.at + 1 <= Len(buf)
                  /\ maps + 3 * need - 1 <= Len(buf)
     IN \/ ~sound /\ AvRefuse
        \/ /\ sound
           /\ avBlock' = [avBlock EXCEPT !.flags = flags, !.nbytes = nbytes.n, !.side = s,
                            !.a = buf[side.at], !.b = buf[side.at + 1],
                            !.at = maps + 3 * need,
                            !.pred = IF need = 0 THEN [i \in 1..s^3 |-> 0]
                                     ELSE predict_vol([k \in 1..3 |->
                                            Slice(buf, maps + (k - 1) * need, need)], s)]
           /\ avPc' = "payload"
           /\ UNCHANGED <<avInput, avAt, avTotal, avLeft, avOut>>

\* The phrases and the coded residual, or the residual as it is.
AvPayload ==
  /\ avPc = "payload"
  /\ LET buf == avBlock.buf
         n == read_uvarint(buf, avBlock.at)
         dict == IF n.ok THEN Phrases(buf, n.at, n.n, <<>>) ELSE [ok |-> FALSE, at |-> 0]
         clen == IF dict.ok THEN read_uvarint(buf, dict.at) ELSE BadVarint
     IN \/ /\ IF Bit(avBlock.flags, 2) THEN ~clen.ok ELSE ~n.ok
           /\ AvRefuse
        \/ /\ Bit(avBlock.flags, 2) /\ clen.ok
           /\ avBlock' = [avBlock EXCEPT !.phrases = dict.list, !.at = clen.at + clen.n,
                                         !.coded = Slice(buf, clen.at, clen.n)]
           /\ avPc' = "phrase"
           /\ UNCHANGED <<avInput, avAt, avTotal, avLeft, avOut>>
        \/ /\ ~Bit(avBlock.flags, 2) /\ n.ok
           /\ avBlock' = [avBlock EXCEPT !.at = n.at + n.n, !.seq = Slice(buf, n.at, n.n)]
           /\ avPc' = "end"
           /\ UNCHANGED <<avInput, avAt, avTotal, avLeft, avOut>>

\* What the operation at the head of the coded bytes adds, and its length.
Expand(coded, phrases) ==
  LET op == coded[1] IN
  IF op = Rle THEN <<[t \in 1..(coded[2] + 3) |-> coded[3]], 3>>
  ELSE IF op = Esc THEN <<<<coded[2]>>, 2>>
  ELSE IF op >= High THEN <<phrases[op - High + 1], 1>>
  ELSE <<<<op>>, 1>>

\* The operation is cut off, or names no phrase.
Malformed(coded, phrases) ==
  LET op == coded[1] IN
  \/ op = Rle /\ Len(coded) < 3
  \/ op = Esc /\ Len(coded) < 2
  \/ op \in High..(Esc - 1) /\ op - High >= Len(phrases)

\* One turn of the loop of phrase_decode, or its end.
AvPhrase ==
  /\ avPc = "phrase"
  /\ LET coded == avBlock.coded
         over == Len(avBlock.seq) > avBlock.side^3
     IN \/ /\ over \/ (coded # <<>> /\ Malformed(coded, avBlock.phrases))
           /\ AvRefuse
        \/ /\ ~over /\ coded # <<>> /\ ~Malformed(coded, avBlock.phrases)
           /\ LET e == Expand(coded, avBlock.phrases) IN
              avBlock' = [avBlock EXCEPT !.seq = @ \o e[1],
                                         !.coded = SubSeq(coded, e[2] + 1, Len(coded))]
           /\ UNCHANGED <<avInput, avPc, avAt, avTotal, avLeft, avOut>>
        \/ /\ ~over /\ coded = <<>>
           /\ avPc' = "end"
           /\ UNCHANGED <<avInput, avAt, avTotal, avLeft, avBlock, avOut>>

\* The residual goes back to its cells, and the block to the output.
AvBlockEnd ==
  /\ avPc = "end"
  /\ LET b == avBlock
         cells == b.side^3
         sound == /\ Len(b.seq) = cells
                  /\ b.at - 1 = Len(b.buf)
                  /\ Len(avOut) + b.nbytes <= avTotal
     IN \/ ~sound /\ AvRefuse
        \/ /\ sound
           /\ LET order == Order(Bit(b.flags, 1), Bit(b.flags, 3), b.side, b.a, b.b)
                  place == [k \in 1..cells |-> IF \E j \in DOMAIN order : order[j] = k
                              THEN b.seq[CHOOSE j \in DOMAIN order : order[j] = k] ELSE 0]
              IN avOut' = avOut \o linearize(xor_vol(place, b.pred), b.nbytes)
           /\ avPc' = "block" /\ avBlock' = NoBlock
           /\ UNCHANGED <<avInput, avAt, avTotal, avLeft>>

\* Faulty variant: bytes after the last block are not looked for.
AvFinishEarly ==
  /\ avPc = "block" /\ avLeft = 0
  /\ \/ Len(avOut) # avTotal /\ AvRefuse
     \/ /\ Len(avOut) = avTotal /\ avPc' = "accepted"
        /\ UNCHANGED <<avInput, avAt, avTotal, avLeft, avBlock, avOut>>

AvFinish ==
  /\ avPc = "block" /\ avLeft = 0
  /\ LET sound == Len(avOut) = avTotal /\ avAt - 1 = Len(avBlob)
     IN \/ ~sound /\ AvRefuse
        \/ /\ sound /\ avPc' = "accepted"
           /\ UNCHANGED <<avInput, avAt, avTotal, avLeft, avBlock, avOut>>

AvNext ==
  \/ AvDamage \/ AvOpen \/ AvBlockBody \/ AvBlockHead \/ AvPayload
  \/ AvPhrase \/ AvBlockEnd \/ AvFinish

-------------------------------------------------------------------------------
(***************************************************************************)
(* Properties.                                                             *)
(***************************************************************************)

\* An undamaged stream of no more than MaxTotal bytes is not refused (the
\* encoder, which has no such limit, makes longer ones, too), and one that is
\* accepted decodes to its input, whatever the options of each block:
\* prediction, either curve (the cells its twisted walk misses included),
\* padding of the cube, phrases, escapes and runs.
AvRoundTrip ==
  avFate = "whole" =>
    /\ avPc = "refused" => Len(avCase.data) > MaxTotal
    /\ avPc = "accepted" => avOut = avCase.data

\* A stream that lost its end or gained a byte is refused, and an accepted
\* stream, damaged or not, gives as many bytes as it declares, never more on
\* the way, nor more than the limit; and phrase_decode, whatever the header and
\* the phrases say, never holds more than the cube and one operation over it.
AvHeaderKept ==
  LET longest == {RunCap} \cup {Len(avBlock.phrases[p]) : p \in DOMAIN avBlock.phrases}
  IN /\ avPc = "accepted" => avFate \in {"whole", "changed"} /\ Len(avOut) = avTotal
     /\ Len(avOut) <= avTotal /\ avTotal <= MaxTotal
     /\ avPc = "phrase" => \E m \in longest : Len(avBlock.seq) <= avBlock.side^3 + m
===============================================================================
