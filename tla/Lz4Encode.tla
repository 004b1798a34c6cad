------------------------------ MODULE Lz4Encode ------------------------------
(***************************************************************************)
(* The greedy LZ4 encoder: src/src/lz4_encode.py, compress_block, and the  *)
(* choice compress makes between its result and the raw block.             *)
(*                                                                         *)
(* A decoder of the block format runs along: it takes each sequence as     *)
(* soon as it is appended to the output, its match one byte at a time,     *)
(* which is what the periodic expansion of lz4_frame.decompress_block      *)
(* yields (Lz4Frame), and never influences the encoder.                    *)
(* Positions count from 0, as in the code; in the code MinMatch = 4,       *)
(* LastMatch = 12, LastLiterals = 5, MaxOffset = 65535, Nibble = 15 and    *)
(* Continue = 255.                                                         *)
(***************************************************************************)
EXTENDS Integers, Sequences

CONSTANTS
  Byte,          \* byte values
  Inputs,        \* blocks to compress
  MinMatch,      \* bytes of a table key, shortest match
  LastMatch,     \* no match starts in that many last bytes
  LastLiterals,  \* that many last bytes are literals
  MaxOffset,     \* largest offset of a match
  Nibble,        \* largest length in a token
  Continue       \* value of a length byte that is followed by another

ASSUME InputAssumption == Inputs \subseteq Seq(Byte)

ASSUME FormatAssumption ==
  /\ MinMatch \in Nat \ {0} /\ LastLiterals \in Nat
  /\ LastMatch \in Nat /\ LastMatch >= MinMatch + LastLiterals
  /\ MaxOffset \in Nat \ {0}
  /\ Nibble \in Nat /\ Continue \in Nat \ {0}

VARIABLES
  data,      \* the block
  pc,        \* "scan", "extend", "decode" or "done"
  i, anchor, \* as in compress_block
  table,     \* key -> where it was last seen
  previous, length,
  size,      \* len(out)
  decoded,   \* the decoder's output
  offset,    \* of the match the decoder is at
  left       \* bytes of it still to be copied

encoder == <<data, i, anchor, table, previous, length, size>>
decoder == <<decoded, offset, left>>
vars    == <<pc, encoder, decoder>>

n == Len(data)

\* data[p:q]
Slice(p, q) == SubSeq(data, p + 1, q)

Key(p) == Slice(p, p + MinMatch)

Init ==
  /\ data \in Inputs
  /\ pc = "scan"
  /\ i = 0 /\ anchor = 0
  /\ table = [k \in {} |-> 0]
  /\ previous = 0 /\ length = 0
  /\ size = 0
  /\ decoded = <<>> /\ offset = 0 /\ left = 0

-----------------------------------------------------------------------------
(* How a length is written: what fits into the token, and _extra.          *)

LengthCode(m) ==
  IF m < Nibble THEN [token |-> m, full |-> 0, rest |-> 0]
  ELSE [token |-> Nibble, full |-> (m - Nibble) \div Continue,
        rest |-> (m - Nibble) % Continue]

\* _extra(m) read back without the byte that ends it being below 255.
LengthBytes(m) == IF m < Nibble THEN 0 ELSE (m - Nibble) \div Continue + 1

\* The decoder adds up bytes until one is not 255.
LengthOf(code) ==
  IF code.token < Nibble THEN code.token
  ELSE Nibble + Continue * code.full + code.rest

-----------------------------------------------------------------------------

\* The key at i, and where the table has it.
Seen == Key(i) \in DOMAIN table
Near == i - table[Key(i)] <= MaxOffset

Record == table' = [k \in DOMAIN table \cup {Key(i)} |->
                      IF k = Key(i) THEN i ELSE table[k]]

\* Faulty variant: a position that is too far away is looked at again.
ProbeStays ==
  /\ pc = "scan" /\ i <= n - LastMatch
  /\ IF Seen /\ Near
     THEN /\ previous' = table[Key(i)] /\ length' = MinMatch
          /\ pc' = "extend" /\ Record /\ UNCHANGED i
     ELSE /\ UNCHANGED <<pc, previous, length>>
          /\ IF Seen THEN UNCHANGED <<i, table>> ELSE Record /\ i' = i + 1
  /\ UNCHANGED <<data, anchor, size, decoder>>

Probe ==
  /\ pc = "scan" /\ i <= n - LastMatch
  /\ Record
  /\ IF Seen /\ Near
     THEN /\ previous' = table[Key(i)] /\ length' = MinMatch
          /\ pc' = "extend" /\ UNCHANGED i
     ELSE i' = i + 1 /\ UNCHANGED <<pc, previous, length>>
  /\ UNCHANGED <<data, anchor, size, decoder>>

\* Faulty variant: the last literals are matched as well.
LongerToTheEnd ==
  i + length < n /\ data[previous + length + 1] = data[i + length + 1]

\* Faulty variant: the byte after the one that is taken is compared.
LongerShifted ==
  i + length < n - LastLiterals /\ data[previous + length + 2] = data[i + length + 2]

Longer ==
  /\ i + length < n - LastLiterals
  /\ data[previous + length + 1] = data[i + length + 1]

Extend ==
  /\ pc = "extend" /\ Longer
  /\ length' = length + 1
  /\ UNCHANGED <<pc, data, i, anchor, table, previous, size, decoder>>

\* The decoder appends the literals of a sequence.
TakeLiterals(code) ==
  decoded' = decoded \o Slice(anchor, anchor + LengthOf(code))

\* A sequence: token, literals, offset, match length.
Emit ==
  /\ pc = "extend" /\ ~Longer
  /\ size' = size + 1 + LengthBytes(i - anchor) + (i - anchor)
                  + 2 + LengthBytes(length - MinMatch)
  /\ TakeLiterals(LengthCode(i - anchor))
  /\ offset' = i - previous
  /\ left' = MinMatch + LengthOf(LengthCode(length - MinMatch))
  /\ i' = i + length /\ anchor' = i + length
  /\ pc' = "decode"
  /\ UNCHANGED <<data, table, previous, length>>

\* The decoder copies one byte of the match.
CopyByte ==
  /\ pc = "decode" /\ left > 0
  /\ decoded' = Append(decoded, decoded[Len(decoded) - offset + 1])
  /\ left' = left - 1
  /\ UNCHANGED <<pc, encoder, offset>>

GoOn ==
  /\ pc = "decode" /\ left = 0
  /\ pc' = "scan"
  /\ UNCHANGED <<encoder, decoder>>

\* What follows the last match: literals only.
Last ==
  /\ pc = "scan" /\ i > n - LastMatch
  /\ size' = size + 1 + LengthBytes(n - anchor) + (n - anchor)
  /\ TakeLiterals(LengthCode(n - anchor))
  /\ pc' = "done"
  /\ UNCHANGED <<data, i, anchor, table, previous, length, offset, left>>

Next == Probe \/ Extend \/ Emit \/ CopyByte \/ GoOn \/ Last

Spec == Init /\ [][Next]_vars

\* One thread runs to its end.
FairSpec == Spec /\ WF_vars(Next)

\* compress stores a block that would not shrink.
Stored == size >= n
Block  == IF Stored THEN data ELSE decoded

-----------------------------------------------------------------------------
(* Correctness.                                                            *)

(* Types of compress_block's local variables, all inside the input.        *)
TypeOK ==
  /\ data \in Inputs
  /\ pc \in {"scan", "extend", "decode", "done"}
  /\ i \in 0..n /\ anchor \in 0..n
  /\ previous \in Nat /\ length \in Nat
  /\ size \in Nat
  /\ decoded \in Seq(Byte)
  /\ offset \in Nat /\ left \in Nat

(* Whatever the input, decoding what was written so far yields a prefix of *)
(* it, and the finished block yields all of it.                            *)
RoundTrip ==
  /\ pc = "scan" => decoded = Slice(0, anchor)
  /\ pc = "done" => Block = data

(* Every match can be written and read: its offset fits its two bytes and  *)
(* reaches no further back than what is decoded by then.                   *)
Decodable ==
  pc = "decode" => offset \in 1..MaxOffset /\ offset <= Len(decoded)

(* The format's end rules: a match starts LastMatch bytes or more before   *)
(* the end of the block and leaves its last bytes to literals.             *)
EndRules ==
  pc = "decode" => /\ anchor - length <= n - LastMatch
                   /\ anchor <= n - LastLiterals

(* The encoder ends on every input, also where a key is found too far      *)
(* away and where it would match itself.                                   *)
EncoderEnds == <>(pc = "done")

-----------------------------------------------------------------------------
(* The inductive invariant.                                                *)

\* Every entry of the table is a position behind i that holds its key.
TableInv ==
  \A k \in DOMAIN table :
    /\ table[k] \in 0..(IF pc = "extend" THEN i ELSE i - 1)
    /\ table[k] + MinMatch <= n
    /\ k = Key(table[k])

\* What lies behind the match being extended equals what lies at i.
MatchInv ==
  pc = "extend" =>
    /\ previous < i /\ i - previous <= MaxOffset
    /\ length >= MinMatch /\ i <= n - LastMatch
    /\ i + length <= n - LastLiterals
    /\ \A k \in 1..length : data[previous + k] = data[i + k]

\* The decoder is where the encoder is, but for the bytes left to copy, and
\* each of those is the byte offset positions before it.
DecoderInv ==
  /\ pc \in {"scan", "extend"} => decoded = Slice(0, anchor) /\ left = 0
  /\ pc = "decode" =>
       /\ anchor = i /\ left <= length /\ length <= anchor
       /\ decoded = Slice(0, anchor - left)
       /\ offset \in 1..MaxOffset /\ offset <= anchor - length
       /\ \A k \in (anchor - left + 1)..anchor : data[k] = data[k - offset]
  /\ pc = "done" => decoded = data
  /\ anchor <= i

IInv == TypeOK /\ TableInv /\ MatchInv /\ DecoderInv /\ EndRules
=============================================================================
