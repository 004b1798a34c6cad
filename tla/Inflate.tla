------------------------------- MODULE Inflate -------------------------------
(***************************************************************************)
(* What every decoder of a DEFLATE stream promises: the place in the       *)
(* stream, counted in bits, and the output so far, block by block and      *)
(* symbol by symbol.  No buffers, tables or intermediate programs.  A      *)
(* stream is rejected where it cannot be read on, and only there.          *)
(***************************************************************************)
EXTENDS DeflateFormat

VARIABLES
  data,      \* the stream, as bits
  header,    \* of its dynamic blocks
  rules,     \* where decoders differ: [trailing, literals, end]
  pos,       \* bits taken
  last,      \* in the last block
  trees,     \* codes of the block, <<literals, distances>>
  out,       \* output
  state      \* "block", "symbols", "done" or "rejected"

vars == <<data, header, rules, pos, last, trees, out, state>>
input == <<data, header, rules>>

Rules == [trailing : BOOLEAN,   \* bytes after the last block are let be
          literals : Nat,       \* the most literal lengths a header may give
          end      : BOOLEAN]   \* a header must give the end of block a code

Init ==
  /\ data \in Seq({0, 1}) /\ header \in Headers /\ rules \in Rules
  /\ pos = 0 /\ last = FALSE
  /\ trees = FixedCodes
  /\ out = <<>>
  /\ state = "block"

Has(p, k)   == p + k <= Len(data)
Field(p, k) == IF Has(p, k) THEN Num(SubSeq(data, p + 1, p + k)) ELSE 0
Room(k)     == Len(out) + k <= MaxOutput

-----------------------------------------------------------------------------
(* What can come next.                                                     *)

AtBlock(kind) == state = "block" /\ ~last /\ Has(pos, 3) /\ Field(pos + 1, 2) = kind

\* Length and its complement, then the bytes, from the next byte boundary on.
Boundary  == ((pos + 3 + ByteBits - 1) \div ByteBits) * ByteBits
StoredLen == Field(Boundary, ByteBits)

CanStore ==
  /\ AtBlock(0)
  /\ Has(Boundary, 2 * ByteBits)
  /\ StoredLen + Field(Boundary + ByteBits, ByteBits) = Pow2[ByteBits] - 1
  /\ Has(Boundary, (2 + StoredLen) * ByteBits)
  /\ Room(StoredLen)

ValidHeader ==
  /\ header.lit <= rules.literals
  /\ header.runs # <<>> /\ header.runs[1][1] # "copy"
  /\ Len(Expand(header.runs)) = header.lit + header.dist
  /\ rules.end => Expand(header.runs)[EndOfBlock + 1] > 0
  /\ \A k \in 1..2 : ~Oversubscribed(Split(Expand(header.runs), header)[k])

CanStart == AtBlock(1) \/ (AtBlock(2) /\ ValidHeader)

Symbols == IF state = "symbols" THEN SymbolsAt(data, pos, trees[1]) ELSE {}

\* The match that starts with length symbol s: set of records, one or none.
Matches(s) ==
  LET l  == s - EndOfBlock
      p1 == pos + Len(trees[1][s])
      p2 == p1 + LenExtra[l]
  IN  IF ~(l \in 1..Len(LenBase) /\ Has(p1, LenExtra[l])) THEN {}
      ELSE {m \in {[length   |-> LenBase[l] + Field(p1, LenExtra[l]),
                    distance |-> DistBase[d + 1] + Field(p2 + Len(trees[2][d]), DistExtra[d + 1]),
                    end      |-> p2 + Len(trees[2][d]) + DistExtra[d + 1]] :
                     d \in {d \in SymbolsAt(data, p2, trees[2]) : d < Len(DistBase)}} :
              m.end <= Len(data) /\ m.distance <= Len(out) /\ Room(m.length)}

Trailing == (pos + ByteBits - 1) \div ByteBits < Whole(data)
CanEnd   == state = "block" /\ last /\ (rules.trailing \/ ~Trailing)

Readable(s) == \/ s < Literals /\ Room(1)
               \/ s = EndOfBlock
               \/ s > EndOfBlock /\ Matches(s) # {}

-----------------------------------------------------------------------------

Stored ==
  /\ CanStore
  /\ last' = (Field(pos, 1) = 1)
  /\ pos' = Boundary + (2 + StoredLen) * ByteBits
  /\ out' = out \o [k \in 1..StoredLen |-> Field(Boundary + (1 + k) * ByteBits, ByteBits)]
  /\ UNCHANGED <<input, trees, state>>

Compressed ==
  /\ CanStart
  /\ last' = (Field(pos, 1) = 1)
  /\ trees' = IF AtBlock(1) THEN FixedCodes
              ELSE [k \in 1..2 |-> Codes(Split(Expand(header.runs), header)[k])]
  /\ pos' = pos + 3
  /\ state' = "symbols"
  /\ UNCHANGED <<input, out>>

Literal(s) ==
  /\ s \in Symbols /\ s < Literals /\ Room(1)
  /\ out' = Append(out, s)
  /\ pos' = pos + Len(trees[1][s])
  /\ UNCHANGED <<input, last, trees, state>>

Match(s) ==
  /\ s \in Symbols /\ s > EndOfBlock
  /\ \E m \in Matches(s) : out' = Repeat(out, m.distance, m.length) /\ pos' = m.end
  /\ UNCHANGED <<input, last, trees, state>>

End ==
  /\ EndOfBlock \in Symbols
  /\ pos' = pos + Len(trees[1][EndOfBlock])
  /\ state' = "block"
  /\ UNCHANGED <<input, last, trees, out>>

Done ==
  /\ CanEnd
  /\ state' = "done"
  /\ UNCHANGED <<input, pos, last, trees, out>>

Reject ==
  /\ state \in {"block", "symbols"}
  /\ ~CanStore /\ ~CanStart /\ ~CanEnd
  /\ \A s \in Symbols : ~Readable(s)
  /\ state' = "rejected"
  /\ UNCHANGED <<input, pos, last, trees, out>>

Next == \/ Stored \/ Compressed \/ End \/ Done \/ Reject
        \/ \E s \in Symbols : Literal(s) \/ Match(s)

Spec == Init /\ [][Next]_vars
=============================================================================
